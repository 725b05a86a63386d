----------------------------- MODULE SchemaHost -----------------------------
(* The records of the platform, of the software stack, of the execution     *)
(* context, and of sensors and hardware health: members, writers and        *)
(* readers, as in the other schemas.                                        *)
EXTENDS Codec

Host ==
  Each({"hostname", "machine_id", "product_name", "vendor", "serial", "product_family", "product_version",
        "product_sku", "product_uuid"}, Text)

host_to_json ==
  Each({"hostname", "machine_id", "product_name", "vendor", "serial"}, Always)
  @@ Each({"product_family", "product_version", "product_sku", "product_uuid"}, Filled)

host_from_json ==
  Each({"hostname", "machine_id", "product_name", "vendor", "serial"}, At(String))
  @@ Each({"product_family", "product_version", "product_sku", "product_uuid"}, Value(String, Blank))

Os == Each({"name", "version", "distribution", "distribution_version", "codename"}, Text)
os_to_json == Each({"name", "version", "distribution", "distribution_version", "codename"}, Always)
os_from_json == Each({"name", "version", "distribution", "distribution_version", "codename"}, At(String))

Kernel == Each({"release", "version", "compiled_at", "architecture"}, Text)
kernel_to_json == Each({"release", "version", "compiled_at", "architecture"}, Always)
kernel_from_json == Each({"release", "version", "compiled_at", "architecture"}, At(String))

Architecture == Each({"name", "byte_order"}, Text) @@ Each({"bits"}, Number(U32))
arch_to_json == Each({"name", "bits", "byte_order"}, Always)
arch_from_json == Each({"name", "byte_order"}, At(String)) @@ Each({"bits"}, At(UpTo(U32)))

Firmware ==
  Each({"bios_vendor", "bios_version", "bios_date", "bios_release", "ec_firmware_release"}, Text) @@ Each({"uefi"}, Flag)

firmware_to_json ==
  Each({"bios_vendor", "bios_version", "bios_date", "uefi"}, Always)
  @@ Each({"bios_release", "ec_firmware_release"}, Filled)

firmware_from_json ==
  Each({"bios_vendor", "bios_version", "bios_date"}, At(String)) @@ Each({"uefi"}, At(Boolean))
  @@ Each({"bios_release", "ec_firmware_release"}, Value(String, Blank))

Virtualization == Each({"kind"}, Enum(8)) @@ Each({"hypervisor"}, Text)
virt_to_json == Each({"kind", "hypervisor"}, Always)
virt_from_json == Each({"kind"}, At(UpTo(8))) @@ Each({"hypervisor"}, At(String))

Baseboard == Each({"vendor", "name", "version", "serial", "asset_tag"}, Text)
baseboard_to_json == Each({"vendor", "name", "version", "serial", "asset_tag"}, Always)
baseboard_from_json == Each({"vendor", "name", "version", "serial", "asset_tag"}, Value(String, Blank))

Chassis == Each({"vendor", "version", "serial", "asset_tag"}, Text) @@ Each({"type"}, Opt(Number(U32)))
chassis_to_json == Each({"vendor", "version", "serial", "asset_tag"}, Always) @@ Each({"type"}, IfSet)
chassis_from_json ==
  Each({"vendor", "version", "serial", "asset_tag"}, Value(String, Blank)) @@ Each({"type"}, Contains(UpTo(U32)))

Platform ==
  Each({"host", "os", "kernel", "architecture"}, Record)
  @@ Each({"firmware", "virtualization", "baseboard", "chassis"}, Opt(Record))

platform_to_json ==
  Each({"host", "os", "kernel", "architecture"}, Always)
  @@ Each({"firmware", "virtualization", "baseboard", "chassis"}, IfSet)

platform_from_json ==
  Each({"host", "os", "kernel", "architecture"}, At(Object))
  @@ Each({"firmware", "virtualization", "baseboard", "chassis"}, Contains(Object))

----------------------------------------------------------------------------
Driver == Each({"id"}, Number(U32)) @@ Each({"name", "version", "path"}, Text) @@ Each({"loaded"}, Flag)
driver_to_json == Each({"id", "name", "version", "loaded", "path"}, Always)
driver_from_json ==
  Each({"id"}, At(UpTo(U32))) @@ Each({"name", "version", "path"}, At(String)) @@ Each({"loaded"}, At(Boolean))

Runtime == Each({"name", "version", "path", "env_var"}, Text)
runtime_to_json == Each({"name", "version", "path", "env_var"}, Always)
runtime_from_json == Each({"name", "version", "path", "env_var"}, At(String))

Compiler == Each({"name", "version", "path", "target"}, Text)
compiler_to_json == Each({"name", "version", "path", "target"}, Always)
compiler_from_json == Each({"name", "version", "path", "target"}, At(String))

Library == Each({"name", "version", "path", "kind"}, Text)
library_to_json == Each({"name", "version", "path", "kind"}, Always)
library_from_json == Each({"name", "version", "path", "kind"}, At(String))

Cuda == Each({"version", "driver_version", "nvcc_path", "home"}, Text)
cuda_to_json == Each({"version", "driver_version", "nvcc_path", "home"}, Always)
cuda_from_json == Each({"version", "driver_version", "nvcc_path", "home"}, At(String))

Rocm == Each({"version", "hip_path", "rocm_path"}, Text)
rocm_to_json == Each({"version", "hip_path", "rocm_path"}, Always)
rocm_from_json == Each({"version", "hip_path", "rocm_path"}, At(String))

LevelZero == Each({"version", "loader_path"}, Text)
level_zero_to_json == Each({"version", "loader_path"}, Always)
level_zero_from_json == Each({"version", "loader_path"}, At(String))

Mpi == Each({"implementation", "version", "path"}, Text)
mpi_to_json == Each({"implementation", "version", "path"}, Always)
mpi_from_json == Each({"implementation", "version", "path"}, At(String))

RdmaStack == Each({"rdma_core_version", "ibverbs_path", "ucx_version"}, Text)
rdma_to_json == Each({"rdma_core_version", "ibverbs_path", "ucx_version"}, Always)
rdma_from_json == Each({"rdma_core_version", "ibverbs_path", "ucx_version"}, At(String))

SoftwareStack ==
  Each({"drivers", "runtimes", "compilers", "libraries"}, List(Record))
  @@ Each({"cuda", "rocm", "level_zero", "mpi", "rdma"}, Opt(Record))

software_to_json ==
  Each({"drivers", "runtimes", "compilers", "libraries"}, Always)
  @@ Each({"cuda", "rocm", "level_zero", "mpi", "rdma"}, IfSet)

software_from_json ==
  Each({"drivers", "runtimes", "compilers", "libraries"}, At(Array(Object)))
  @@ Each({"cuda", "rocm", "level_zero", "mpi", "rdma"}, Contains(Object))

----------------------------------------------------------------------------
\* Paths and the environment are bytes that no one promises to be UTF-8.
Process ==
  Each({"pid", "ppid"}, Signed(U32)) @@ Each({"uid", "gid"}, Number(U32)) @@ Each({"comm", "exe", "cwd"}, Foreign)

process_to_json == Each({"pid", "ppid", "uid", "gid", "comm", "exe", "cwd"}, Always)

process_from_json ==
  Each({"pid", "ppid"}, At(Integer(U64))) @@ Each({"uid", "gid"}, At(UpTo(U32)))
  @@ Each({"comm", "exe", "cwd"}, At(String))

\* An element is a pair of two texts; "entries" stands for either of them.
Environment == Each({"entries"}, List(Foreign))
environment_to_json == Each({"entries"}, Always)
environment_from_json == Each({"entries"}, At(Array(String)))

Cgroup ==
  Each({"version"}, Enum(1)) @@ Each({"path"}, Text) @@ Each({"controllers"}, List(Text))
  @@ Each({"cpu_quota_us", "cpu_period_us", "memory_limit", "memory_current"}, Opt(Number(U64)))
  @@ Each({"cpu_limit_known", "memory_limit_known"}, Flag)

cgroup_to_json ==
  Each({"version", "path", "controllers", "cpu_limit_known", "memory_limit_known"}, Always)
  @@ Each({"cpu_quota_us", "cpu_period_us", "memory_limit", "memory_current"}, IfSet)

cgroup_from_json ==
  Each({"version"}, At(UpTo(1))) @@ Each({"path"}, At(String)) @@ Each({"controllers"}, Contains(Array(String)))
  @@ Each({"cpu_limit_known", "memory_limit_known"}, Value(Boolean, 0))
  @@ Each({"cpu_quota_us", "cpu_period_us", "memory_limit", "memory_current"}, Contains(UpTo(U64)))

Cpuset == Each({"cpus", "mems", "cpus_effective", "mems_effective"}, Text)
cpuset_to_json == Each({"cpus", "mems", "cpus_effective", "mems_effective"}, Always)
cpuset_from_json == Each({"cpus", "mems", "cpus_effective", "mems_effective"}, At(String))

Permission == Each({"euid", "egid"}, Number(U32)) @@ Each({"capabilities"}, List(Text)) @@ Each({"is_root"}, Flag)
permission_to_json == Each({"euid", "egid", "capabilities", "is_root"}, Always)
permission_from_json ==
  Each({"euid", "egid"}, At(UpTo(U32))) @@ Each({"capabilities"}, Contains(Array(String)))
  @@ Each({"is_root"}, At(Boolean))

Container == Each({"kind"}, Enum(4)) @@ Each({"id", "runtime"}, Text)
container_to_json == Each({"kind", "id", "runtime"}, Always)
container_from_json == Each({"kind"}, At(UpTo(4))) @@ Each({"id", "runtime"}, At(String))

ExecutionContext ==
  Each({"process", "environment", "cgroup", "cpuset", "permission"}, Record) @@ Each({"container"}, Opt(Record))
  @@ Each({"visible_logical_cpu_ids", "visible_accelerator_ids"}, List(Number(U32)))
  @@ Each({"visible_network_interface_names"}, List(Text))
  @@ Each({"cpu_visibility_known", "accelerator_visibility_restricted"}, Flag)

execution_to_json == [Each(DOMAIN ExecutionContext, Always) EXCEPT !["container"] = IfSet]

execution_from_json ==
  Each({"process", "environment", "cgroup", "cpuset", "permission"}, At(Object)) @@ Each({"container"}, Contains(Object))
  @@ Each({"visible_logical_cpu_ids", "visible_accelerator_ids"}, At(Array(UpTo(U32))))
  @@ Each({"visible_network_interface_names"}, At(Array(String)))
  @@ Each({"cpu_visibility_known", "accelerator_visibility_restricted"}, Value(Boolean, 0))

----------------------------------------------------------------------------
\* 50 is SysfsHwmon, the only source a sensor has, and the bound of its reader.
SensorIdentity ==
  Each({"id", "chip", "driver", "channel", "label", "origin", "device_path"}, Text)
  @@ Each({"source"}, Enum(50)) @@ Each({"pci_address"}, Opt(Record))

identity_to_json ==
  Each({"id", "chip", "driver", "channel", "label", "source", "origin", "device_path"}, Always)
  @@ Each({"pci_address"}, IfSet)

identity_from_json ==
  Each({"id"}, At(String)) @@ Each({"source"}, At(UpTo(50))) @@ Each({"pci_address"}, Contains(Object))
  @@ Each({"chip", "driver", "channel", "label", "origin", "device_path"}, Value(String, Blank))

\* SensorReading<Unit>: temperatures are signed, fan speeds and powers are not.
SensorReading(measure) ==
  Each({"identity"}, Record) @@ Each({"input", "average", "minimum", "maximum", "critical"}, Opt(measure))
  @@ Each({"enabled", "fault"}, Opt(Flag)) @@ Each({"alarms"}, List(Record)) @@ Each({"unit_supported"}, From(Flag, 1))

\* Mutant of sensor_to_json: a measurement of 0 is taken for none.
sensor_to_json_truthy ==
  Each({"identity", "unit_supported", "alarms"}, Always)
  @@ Each({"input", "average", "minimum", "maximum", "critical", "enabled", "fault"}, {Unset, 0})

sensor_to_json ==
  Each({"identity", "unit_supported", "alarms"}, Always)
  @@ Each({"input", "average", "minimum", "maximum", "critical", "enabled", "fault"}, IfSet)

\* Mutant of sensor_from_json: evidence from before unit_supported has unsupported units.
sensor_from_json_strict(unit) ==
  Each({"identity"}, At(Object)) @@ Each({"unit_supported"}, Value(Boolean, 0))
  @@ Each({"input", "average", "minimum", "maximum", "critical"}, Contains(unit))
  @@ Each({"enabled", "fault"}, Contains(Boolean)) @@ Each({"alarms"}, Contains(Array(Object)))

sensor_from_json(unit) ==
  Each({"identity"}, At(Object)) @@ Each({"unit_supported"}, Value(Boolean, 1))
  @@ Each({"input", "average", "minimum", "maximum", "critical"}, Contains(unit))
  @@ Each({"enabled", "fault"}, Contains(Boolean)) @@ Each({"alarms"}, Contains(Array(Object)))

Sensors == Each({"temperatures", "fans", "powers"}, List(Record))
sensors_to_json == Each({"temperatures", "fans", "powers"}, Always)
sensors_from_json == Each({"temperatures", "fans", "powers"}, Contains(Array(Object)))

----------------------------------------------------------------------------
SensorAlert == Each({"sensor", "origin"}, Text) @@ Each({"kind"}, Enum(4)) @@ Each({"severity"}, Enum(2))
sensor_alert_to_json == Each({"sensor", "kind", "severity", "origin"}, Always)
sensor_alert_from_json ==
  Each({"sensor", "origin"}, At(String)) @@ Each({"kind"}, At(UpTo(4))) @@ Each({"severity"}, At(UpTo(2)))

StorageAlert ==
  Each({"device", "origin"}, Text) @@ Each({"degraded_members"}, Number(U32)) @@ Each({"severity"}, From(Enum(2), 1))
storage_alert_to_json == Each({"device", "degraded_members", "severity", "origin"}, Always)
storage_alert_from_json ==
  Each({"device", "origin"}, At(String)) @@ Each({"degraded_members"}, At(UpTo(U64))) @@ Each({"severity"}, At(UpTo(2)))

\* The writer adds the period of the counts, which is always the same and not read.
MemoryErrorEvent ==
  Each({"controller_index"}, Number(U32)) @@ Each({"corrected", "uncorrected"}, Opt(Number(U64)))
  @@ Each({"severity"}, Enum(2)) @@ Each({"origin"}, Text)

memory_event_to_json ==
  Each({"controller_index", "severity", "origin"}, Always) @@ Each({"corrected", "uncorrected"}, IfSet)

memory_event_from_json ==
  Each({"controller_index"}, At(UpTo(U64))) @@ Each({"corrected", "uncorrected"}, Contains(UpTo(U64)))
  @@ Each({"severity"}, At(UpTo(2))) @@ Each({"origin"}, At(String))

DriveFinding ==
  Each({"target", "origin"}, Text) @@ Each({"kind"}, Enum(7)) @@ Each({"severity"}, Enum(2))
  @@ Each({"attribute_id"}, Opt([Number(U8) EXCEPT !.codes = {1, U8}]))

drive_finding_to_json == Each({"target", "kind", "severity", "origin"}, Always) @@ Each({"attribute_id"}, IfSet)

drive_finding_from_json ==
  Each({"target", "origin"}, At(String)) @@ Each({"kind"}, At(UpTo(7))) @@ Each({"severity"}, At(UpTo(2)))
  @@ Each({"attribute_id"}, Contains(Between(1, U8)))

HealthCoverage ==
  Each({"domain"}, Text) @@ Each({"status"}, Enum(3)) @@ Each({"usable_readings", "alarm_reports"}, Number(U32))

coverage_to_json == Each({"domain", "status", "usable_readings", "alarm_reports"}, Always)

coverage_from_json ==
  Each({"domain"}, At(String)) @@ Each({"status"}, At(UpTo(3)))
  @@ Each({"usable_readings", "alarm_reports"}, At(UpTo(U64)))

HardwareHealth ==
  Each({"sensor_alerts", "storage_alerts", "memory_events", "coverage", "drive_findings"}, List(Record))

health_to_json == Each(DOMAIN HardwareHealth, Always)
health_from_json == Each(DOMAIN HardwareHealth, Contains(Array(Object)))
=============================================================================
