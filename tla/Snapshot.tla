------------------------------ MODULE Snapshot ------------------------------
(***************************************************************************)
(* The life of a record of the public model outside of the library: it is  *)
(* written as JSON, kept in a string (to_json, from_json) or in a file     *)
(* (save_raw_store, load_raw_store), read back, perhaps by a newer release *)
(* than the one that wrote it, and written and read once more.             *)
(*                                                                         *)
(* The schemas say what each writer and reader does with each member; here *)
(* they meet.  The file may be lost at every point: the disk is full, or   *)
(* the program ends.                                                       *)
(***************************************************************************)
EXTENDS SchemaEvidence, SchemaCompute, SchemaDevices, SchemaHost

CONSTANT Inputs   \* for each type, the values a program may write

System ==
  Each({"info", "meta"}, Record) @@ Each({"warnings"}, List(Text)) @@ Each({"raw"}, Opt(Record))

to_json == Each({"info", "meta", "warnings"}, Always) @@ Each({"raw"}, IfSet)

from_json ==
  [info |-> At(Object), meta |-> Contains(Object), raw |-> Contains(Object), warnings |-> Contains(Array(String))]

Schemas == [
  System                 |-> Schema(System, to_json, from_json),
  SystemInfo             |-> Schema(SystemInfo, system_info_to_json, system_info_from_json),
  SnapshotMeta           |-> Schema(SnapshotMeta, meta_to_json, meta_from_json),
  CollectionObservation  |-> Schema(CollectionObservation, observation_to_json, observation_from_json),
  InventoryReport        |-> Schema(InventoryReport, inventory_to_json, inventory_from_json),
  RawStore               |-> Schema(RawStore, raw_store_to_json, raw_store_from_json),
  RawRecord              |-> Schema(RawRecord, raw_record_to_json, raw_record_from_json),
  InventoryEnumeration   |-> Schema(InventoryEnumeration, enumeration_to_json, enumeration_from_json),
  CollectionRequest      |-> Schema(CollectionRequest, collection_request_to_json, collection_request_from_json),
  PciAddress             |-> Schema(PciAddress, pci_address_to_json, pci_address_from_json),
  Host                   |-> Schema(Host, host_to_json, host_from_json),
  Os                     |-> Schema(Os, os_to_json, os_from_json),
  Kernel                 |-> Schema(Kernel, kernel_to_json, kernel_from_json),
  Architecture           |-> Schema(Architecture, arch_to_json, arch_from_json),
  Firmware               |-> Schema(Firmware, firmware_to_json, firmware_from_json),
  Virtualization         |-> Schema(Virtualization, virt_to_json, virt_from_json),
  Baseboard              |-> Schema(Baseboard, baseboard_to_json, baseboard_from_json),
  Chassis                |-> Schema(Chassis, chassis_to_json, chassis_from_json),
  Platform               |-> Schema(Platform, platform_to_json, platform_from_json),
  Driver                 |-> Schema(Driver, driver_to_json, driver_from_json),
  Runtime                |-> Schema(Runtime, runtime_to_json, runtime_from_json),
  Compiler               |-> Schema(Compiler, compiler_to_json, compiler_from_json),
  Library                |-> Schema(Library, library_to_json, library_from_json),
  Cuda                   |-> Schema(Cuda, cuda_to_json, cuda_from_json),
  Rocm                   |-> Schema(Rocm, rocm_to_json, rocm_from_json),
  LevelZero              |-> Schema(LevelZero, level_zero_to_json, level_zero_from_json),
  Mpi                    |-> Schema(Mpi, mpi_to_json, mpi_from_json),
  RdmaStack              |-> Schema(RdmaStack, rdma_to_json, rdma_from_json),
  SoftwareStack          |-> Schema(SoftwareStack, software_to_json, software_from_json),
  Process                |-> Schema(Process, process_to_json, process_from_json),
  Environment            |-> Schema(Environment, environment_to_json, environment_from_json),
  Cgroup                 |-> Schema(Cgroup, cgroup_to_json, cgroup_from_json),
  Cpuset                 |-> Schema(Cpuset, cpuset_to_json, cpuset_from_json),
  Permission             |-> Schema(Permission, permission_to_json, permission_from_json),
  Container              |-> Schema(Container, container_to_json, container_from_json),
  ExecutionContext       |-> Schema(ExecutionContext, execution_to_json, execution_from_json),
  CpuPackage             |-> Schema(CpuPackage, cpu_package_to_json, cpu_package_from_json),
  CpuCore                |-> Schema(CpuCore, cpu_core_to_json, cpu_core_from_json),
  CpuIdentification      |-> Schema(CpuIdentification, cpu_identification_to_json, cpu_identification_from_json),
  CpuFrequencyPolicy     |-> Schema(CpuFrequencyPolicy, cpu_policy_to_json, cpu_policy_from_json),
  LogicalCpu             |-> Schema(LogicalCpu, logical_cpu_to_json, logical_cpu_from_json),
  NumaNode               |-> Schema(NumaNode, numa_node_to_json, numa_node_from_json),
  CpuCache               |-> Schema(CpuCache, cpu_cache_to_json, cpu_cache_from_json),
  ThermalZone            |-> Schema(ThermalZone, thermal_zone_to_json, thermal_zone_from_json),
  Cpu                    |-> Schema(Cpu, cpu_to_json, cpu_from_json),
  MemoryController       |-> Schema(MemoryController, memory_controller_to_json, memory_controller_from_json),
  NumaMemory             |-> Schema(NumaMemory, numa_memory_to_json, numa_memory_from_json),
  DimmInfo               |-> Schema(DimmInfo, dimm_info_to_json, dimm_info_from_json),
  Memory                 |-> Schema(Memory, memory_to_json, memory_from_json),
  EdacLocation           |-> Schema(EdacLocation, edac_location_to_json, edac_location_from_json),
  EdacLocationCoordinate |-> Schema(EdacLocationCoordinate, coordinate_to_json, coordinate_from_json),
  EdacMemoryDevice       |-> Schema(EdacMemoryDevice, edac_devices_to_json, edac_devices_from_json),
  PciDevice              |-> Schema(PciDevice, pci_device_to_json, pci_device_from_json),
  Pci                    |-> Schema(Pci, pci_to_json, pci_from_json),
  AcceleratorDevice      |-> Schema(AcceleratorDevice, accel_device_to_json, accel_device_from_json),
  Accelerators           |-> Schema(Accelerators, accelerators_to_json, accelerators_from_json),
  NetworkInterface       |-> Schema(NetworkInterface, net_iface_to_json, net_iface_from_json),
  Network                |-> Schema(Network, network_to_json, network_from_json),
  RdmaPort               |-> Schema(RdmaPort, port_to_json, port_from_json),
  RdmaDevice             |-> Schema(RdmaDevice, device_to_json, device_from_json),
  RdmaInventory          |-> Schema(RdmaInventory, rdma_inventory_to_json, rdma_inventory_from_json),
  DeviceNumber           |-> Schema(DeviceNumber, device_number_to_json, device_number_from_json),
  StorageMount           |-> Schema(StorageMount, storage_mount_to_json, storage_mount_from_json),
  StorageDevice          |-> Schema(StorageDevice, storage_dev_to_json, storage_dev_from_json),
  Storage                |-> Schema(Storage, storage_to_json, storage_from_json),
  StorageClassification  |-> Schema(StorageClassification, storage_classification_to_json, storage_classification_from_json),
  NvmeNamespaceInfo      |-> Schema(NvmeNamespaceInfo, nvme_namespace_to_json, nvme_namespace_from_json),
  ScsiDeviceInfo         |-> Schema(ScsiDeviceInfo, scsi_device_to_json, scsi_device_from_json),
  ScsiAddress            |-> Schema(ScsiAddress, scsi_address_to_json, scsi_address_from_json),
  StorageController      |-> Schema(StorageController, controllers_to_json, controllers_from_json),
  NvmeController         |-> Schema(NvmeController, nvme_controllers_to_json, nvme_controllers_from_json),
  ScsiHost               |-> Schema(ScsiHost, scsi_hosts_to_json, scsi_hosts_from_json),
  FilesystemReport       |-> Schema(FilesystemReport, filesystems_to_json, filesystems_from_json),
  FilesystemUsage        |-> Schema(FilesystemUsage, usage_to_json, usage_from_json),
  NvmeHealth             |-> Schema(NvmeHealth, nvme_to_json, nvme_from_json),
  AtaHealthAttribute     |-> Schema(AtaHealthAttribute, ata_attribute_to_json, ata_attribute_from_json),
  ScsiHealth             |-> Schema(ScsiHealth, scsi_to_json, scsi_from_json),
  StorageHealthReport    |-> Schema(StorageHealthReport, storage_health_to_json, storage_health_from_json),
  SensorIdentity         |-> Schema(SensorIdentity, identity_to_json, identity_from_json),
  TemperatureSensor      |-> Schema(SensorReading(Signed(I64)), sensor_to_json, sensor_from_json(Integer(I64))),
  FanSensor              |-> Schema(SensorReading(Number(U64)), sensor_to_json, sensor_from_json(UpTo(U64))),
  Sensors                |-> Schema(Sensors, sensors_to_json, sensors_from_json),
  SensorAlert            |-> Schema(SensorAlert, sensor_alert_to_json, sensor_alert_from_json),
  StorageAlert           |-> Schema(StorageAlert, storage_alert_to_json, storage_alert_from_json),
  MemoryErrorEvent       |-> Schema(MemoryErrorEvent, memory_event_to_json, memory_event_from_json),
  DriveFinding           |-> Schema(DriveFinding, drive_finding_to_json, drive_finding_from_json),
  HealthCoverage         |-> Schema(HealthCoverage, coverage_to_json, coverage_from_json),
  HardwareHealth         |-> Schema(HardwareHealth, health_to_json, health_from_json)]

Types == DOMAIN Schemas

\* A value of the struct, as the parsers make it.
Legal(schema, v) == DOMAIN v = DOMAIN schema.type /\ \A m \in DOMAIN v : v[m] \in schema.type[m].codes

ASSUME InputsLegal == \A t \in Types : \A v \in Inputs[t] : Legal(Schemas[t], v)

----------------------------------------------------------------------------
VARIABLES
    type,       \* what is written
    medium,     \* "string", or "file" for a RawStore
    original,   \* the value that was written
    value,      \* the value in memory
    text,       \* what was written of it: how much, the members, by which release
    removed,    \* members that were left out, or that the writing release did not know
    late,       \* the last bytes were lost when the stream was closed
    round,      \* first or second time
    pc

vars == <<type, medium, original, value, text, removed, late, round, pc>>

NoText == [is |-> "none", members |-> << >>, release |-> "this"]
Torn   == [NoText EXCEPT !.is = "torn"]     \* a proper prefix, which no parser accepts
Whole(json) == [is |-> "whole", members |-> json, release |-> "this"]

Init ==
    /\ type \in Types
    /\ original \in Inputs[type]
    /\ value = original
    /\ medium \in IF type = "RawStore" THEN {"string", "file"} ELSE {"string"}
    /\ text = NoText
    /\ removed = {}
    /\ late = FALSE
    /\ round = 1
    /\ pc = "composed"

\* std::ofstream truncates what was there, or cannot be opened.
Open ==
    /\ pc = "composed" /\ medium = "file"
    /\ \/ text' = Torn /\ pc' = "opened"
       \/ pc' = "failed" /\ UNCHANGED text
    /\ UNCHANGED <<type, medium, original, value, removed, late, round>>

\* SerializationOptions: meta and raw may be left out of a System.
Options == IF type = "System" THEN SUBSET {"meta", "raw"} ELSE {{}}

\* dump() throws a type_error for a text that is not UTF-8; neither function catches it.
Dump ==
    /\ pc = (IF medium = "file" THEN "opened" ELSE "composed")
    /\ IF Dumps(Schemas[type], value)
       THEN IF medium = "file"
            THEN pc' = "dumped" /\ UNCHANGED <<text, removed>>
            ELSE \E left \in Options :
                   LET json == ToJson(Schemas[type], value) IN
                   /\ text' = Whole([m \in DOMAIN json \ left |-> json[m]])
                   /\ removed' = left \cap DOMAIN json
                   /\ pc' = "saved"
       ELSE pc' = "refused" /\ UNCHANGED <<text, removed>>
    /\ UNCHANGED <<type, medium, original, value, late, round>>

\* Mutant of Stream: the state of the stream is not looked at after the text was written.
StreamUnchecked ==
    /\ pc = "dumped"
    /\ \/ text' = Whole(ToJson(Schemas[type], value)) /\ pc' = "written"
       \/ pc' = "written" /\ UNCHANGED text
       \/ pc' = "buffered" /\ UNCHANGED text
    /\ UNCHANGED <<type, medium, original, value, removed, late, round>>

\* A long text is written at once and checked, a short one stays in the buffer of the stream.
Stream ==
    /\ pc = "dumped"
    /\ \/ text' = Whole(ToJson(Schemas[type], value)) /\ pc' = "written"
       \/ pc' = "failed" /\ UNCHANGED text
       \/ pc' = "buffered" /\ UNCHANGED text
    /\ UNCHANGED <<type, medium, original, value, removed, late, round>>

\* The destructor of the stream writes what is buffered and keeps an error to itself.
Close ==
    /\ pc \in {"written", "buffered"}
    /\ \/ pc = "written" /\ UNCHANGED <<text, late>>
       \/ pc = "buffered" /\ text' = Whole(ToJson(Schemas[type], value)) /\ UNCHANGED late
       \/ pc = "buffered" /\ late' = TRUE /\ UNCHANGED text
    /\ pc' = "saved"
    /\ UNCHANGED <<type, medium, original, value, removed, round>>

Crash ==
    /\ pc \in {"opened", "dumped", "written", "buffered"}
    /\ pc' = "crashed"
    /\ UNCHANGED <<type, medium, original, value, text, removed, late, round>>

\* The text turns out to be by an earlier release of the same minor version, which did not
\* have one, or any, of the members a reader does without.
Optional == {m \in DOMAIN text.members : ~Schemas[type].reads[m].required}

Age ==
    /\ pc = "saved" /\ text.is = "whole" /\ removed = {} /\ round = 1
    /\ \E gone \in {{m} : m \in Optional} \cup {Optional} :
         /\ removed' = gone
         /\ text' = [text EXCEPT !.members = [m \in DOMAIN @ \ gone |-> @[m]]]
    /\ UNCHANGED <<type, medium, original, value, late, round, pc>>

\* Or by a release of another minor version.
Outdate ==
    /\ pc = "saved" /\ type = "System" /\ text.release = "this"
    /\ text' = [text EXCEPT !.release = "other"]
    /\ UNCHANGED <<type, medium, original, value, removed, late, round, pc>>

\* The version is in the metadata: a text without it is not refused.
Compatible == text.release = "this" \/ "meta" \notin DOMAIN text.members

Read ==
    /\ \/ pc = "saved"
       \/ medium = "file" /\ pc \in {"failed", "refused", "crashed"}
    /\ IF text.is = "whole" /\ Compatible /\ Loads(Schemas[type], text.members)
       THEN value' = FromJson(Schemas[type], text.members) /\ pc' = "loaded"
       ELSE pc' = "rejected" /\ UNCHANGED value
    /\ UNCHANGED <<type, medium, original, text, removed, late, round>>

\* What was read is written again, to another place.
Rewrite ==
    /\ pc = "loaded" /\ round = 1
    /\ original' = value /\ removed' = {} /\ late' = FALSE /\ round' = 2 /\ pc' = "composed"
    /\ text' = NoText
    /\ UNCHANGED <<type, medium, value>>

Next == Open \/ Dump \/ Stream \/ Close \/ Crash \/ Age \/ Outdate \/ Read \/ Rewrite

Spec == Init /\ [][Next]_vars

----------------------------------------------------------------------------
(* Properties.                                                             *)

\* What the reader takes a member for that is not there, when the others are.
Default(kind, row) == IF row.with = {} THEN kind.init ELSE row.absent

\* The reader accepts every value the writer writes.
AcceptsWritten(kind, row, c) ==
    LET s == Stored(kind, c) IN
    \/ s = Bytes /\ kind.form \in {<<"string">>, <<"array", "string">>}
    \/ s = Empty /\ row.accept.form[1] = "array"
    \/ row.accept.lo <= s /\ s <= row.accept.hi

\* Writer, reader and struct of a type are about the same members.  The reader accepts
\* what the writer writes, and takes what it leaves out for the value it had.  A member
\* that may be missing is then what the struct initialises it to, or nullopt.
AgreesOn(kind, omitted, row) ==
    /\ row.accept.form = kind.form
    /\ \A c \in kind.codes : Stored(kind, c) \in kind.codes
    /\ \A c \in kind.codes \ omitted : AcceptsWritten(kind, row, c)
    /\ \A c \in kind.codes \cap omitted : ~row.required /\ c = Stored(kind, c) /\ c = Default(kind, row)
    /\ ~row.required => kind.init \in kind.codes /\ Default(kind, row) \in {kind.init} \cup (kind.codes \cap {Unset})
    /\ Indeterminate \notin kind.codes

Agrees(schema) ==
    /\ DOMAIN schema.writes = DOMAIN schema.type
    /\ DOMAIN schema.reads = DOMAIN schema.type
    /\ \A m \in DOMAIN schema.type :
         /\ AgreesOn(schema.type[m], schema.writes[m], schema.reads[m])
         /\ \A w \in schema.reads[m].with \ {"*"} : w \in DOMAIN schema.type /\ schema.writes[w] = {}

\* The definitions agree for every type of the model (json_values.hpp, the functions
\* *_to_json and *_from_json, and the structs they are about, three files per type).
Agreement == Agrees(Schemas[type])

\* A value that was written whole by this release is loaded, and is the value that was
\* written, up to a fraction of a millisecond: 0, "", an empty list and nullopt included.
\* So is what was loaded of an older text, when it is written again.
RoundTrip ==
    pc \in {"loaded", "rejected"} /\ text.is = "whole" /\ text.release = "this" /\ removed = {}
      => pc = "loaded" /\ value = [m \in DOMAIN original |-> Stored(Schemas[type].type[m], original[m])]

\* A text that lacks members is loaded all the same; what is missing becomes what the
\* struct calls unknown (its initialiser, or nullopt), never a value nobody set, and what is there is kept
\* (cpu.md:81, raw_store.md:21).  Only a member whose meaning hangs on a missing one
\* (RdmaInventory::failure on the status) may become unknown with it.
MissingIsUnknown ==
    pc \in {"loaded", "rejected"} /\ text.is = "whole" /\ text.release = "this" /\ removed # {}
      => /\ pc = "loaded"
         /\ \A m \in DOMAIN original :
              LET kind == Schemas[type].type[m]
                  row  == Schemas[type].reads[m] IN
              /\ value[m] # Indeterminate
              /\ \/ m \notin removed /\ value[m] = Stored(kind, original[m])
                 \/ m \in removed \cup {n \in DOMAIN original : Schemas[type].reads[n].with \cap removed # {}}
                      /\ value[m] \in {kind.init} \cup (kind.codes \cap {Unset})

\* save_raw_store that returns has written the store whole, unless the disk was full when
\* the stream was closed; and nothing that happens to the file on the way makes a load
\* return a store that nobody saved (serialize.cpp:265).
SavedIsWhole ==
    medium = "file" =>
      /\ pc = "saved" => text.is = "whole" \/ late
      /\ pc = "loaded" => removed # {} \/ value = [m \in DOMAIN original |-> Stored(Schemas[type].type[m], original[m])]
=============================================================================
