--------------------------- MODULE SchemaDevices ---------------------------
(* The records of accelerators, of network interfaces and RDMA ports, and   *)
(* of storage: devices, mounts, classification, connections, filesystems    *)
(* and health.  Members, writers and readers, as in the other schemas.      *)
EXTENDS Codec

AcceleratorDevice ==
  Each({"id"}, Number(U32)) @@ Each({"kind"}, Enum(3)) @@ Each({"vendor", "name"}, Text)
  @@ Each({"pci_address"}, Opt(Record)) @@ Each({"memory_size"}, Opt(Number(U64)))
  @@ Each({"nearest_numa_node", "driver", "gpu_instance_id", "compute_instance_id"}, Opt(Number(U32)))
  @@ Each({"visible_to_current_process"}, Flag) @@ Each({"uuid", "parent_uuid"}, Opt(Text))

accel_device_to_json ==
  Each({"id", "kind", "vendor", "name", "visible_to_current_process"}, Always)
  @@ Each({"pci_address", "nearest_numa_node", "memory_size", "driver", "uuid", "parent_uuid", "gpu_instance_id",
           "compute_instance_id"}, IfSet)

accel_device_from_json ==
  Each({"id"}, At(UpTo(U32))) @@ Each({"kind"}, At(UpTo(3))) @@ Each({"vendor", "name"}, At(String))
  @@ Each({"pci_address"}, Contains(Object)) @@ Each({"memory_size"}, Contains(UpTo(U64)))
  @@ Each({"nearest_numa_node", "driver", "gpu_instance_id", "compute_instance_id"}, Contains(UpTo(U32)))
  @@ Each({"visible_to_current_process"}, At(Boolean)) @@ Each({"uuid", "parent_uuid"}, Contains(String))

Accelerators == Each({"devices"}, List(Record))
accelerators_to_json == Each({"devices"}, Always)
accelerators_from_json == Each({"devices"}, At(Array(Object)))

----------------------------------------------------------------------------
NetworkInterface ==
  Each({"name", "mac", "duplex", "driver", "physical_port_name", "vendor", "device_name", "firmware_version",
        "driver_version", "interface_kind", "bond_mode"}, Text)
  @@ Each({"state"}, From(Enum(2), 2)) @@ Each({"speed", "mtu"}, Opt(Number(U64)))
  @@ Each({"pci_address"}, Opt(Record)) @@ Each({"visible_to_current_process"}, Flag)
  @@ Each({"carrier", "autonegotiation"}, Opt(Flag))
  @@ Each({"numa_node", "interface_index", "vlan_id"}, Opt(Number(U32)))
  @@ Each({"permanent_mac", "master", "vlan_parent"}, Opt(Text))
  @@ Each({"addresses", "supported_link_modes", "advertised_link_modes", "peer_link_modes", "lower_interfaces"},
          List(Text))

net_iface_to_json ==
  Each({"name", "mac", "state", "visible_to_current_process", "addresses"}, Always)
  @@ Each({"speed", "pci_address", "mtu", "carrier", "numa_node", "interface_index", "permanent_mac",
           "autonegotiation", "master", "vlan_id", "vlan_parent"}, IfSet)
  @@ Each({"duplex", "driver", "physical_port_name", "vendor", "device_name", "firmware_version", "driver_version",
           "interface_kind", "bond_mode"}, Filled)
  @@ Each({"lower_interfaces", "supported_link_modes", "advertised_link_modes", "peer_link_modes"}, NonEmpty)

net_iface_from_json ==
  Each({"name", "mac"}, At(String)) @@ Each({"state"}, At(UpTo(2))) @@ Each({"visible_to_current_process"}, At(Boolean))
  @@ Each({"speed", "mtu"}, Contains(UpTo(U64))) @@ Each({"pci_address"}, Contains(Object))
  @@ Each({"carrier", "autonegotiation"}, Contains(Boolean))
  @@ Each({"numa_node", "interface_index", "vlan_id"}, Contains(UpTo(U32)))
  @@ Each({"duplex", "driver", "physical_port_name", "vendor", "device_name", "firmware_version", "driver_version",
           "interface_kind", "bond_mode"}, Value(String, Blank))
  @@ Each({"permanent_mac", "master", "vlan_parent"}, Contains(String))
  @@ Each({"addresses", "supported_link_modes", "advertised_link_modes", "peer_link_modes", "lower_interfaces"},
          Contains(Array(String)))

Network == Each({"interfaces"}, List(Record)) @@ Each({"rdma"}, Record)
network_to_json == Each({"interfaces", "rdma"}, Always)
network_from_json == Each({"interfaces"}, At(Array(Object))) @@ Each({"rdma"}, Contains(Object))

----------------------------------------------------------------------------
RdmaPort ==
  Each({"number"}, Number(U32)) @@ Each({"state"}, Enum(5)) @@ Each({"physical_state"}, Enum(7))
  @@ Each({"link_layer"}, Enum(2)) @@ Each({"rate_report"}, Text) @@ Each({"rate"}, Opt(Number(U64)))
  @@ Each({"lid", "subnet_manager_lid", "capability_mask"}, Opt(Number(U32)))
  @@ Each({"subnet_manager_sl"}, Opt(Number(15))) @@ Each({"lid_mask_count"}, Opt(Number(7)))
  @@ Each({"network_interfaces"}, List(Text))

port_to_json ==
  Each({"number", "state", "physical_state", "link_layer", "rate_report", "network_interfaces"}, Always)
  @@ Each({"rate", "lid", "subnet_manager_lid", "subnet_manager_sl", "lid_mask_count", "capability_mask"}, IfSet)

port_from_json ==
  Each({"number"}, At(UpTo(U32))) @@ Each({"state"}, Contains(UpTo(5))) @@ Each({"physical_state"}, Contains(UpTo(7)))
  @@ Each({"link_layer"}, Contains(UpTo(2))) @@ Each({"rate_report"}, Value(String, Blank))
  @@ Each({"rate"}, Contains(UpTo(U64))) @@ Each({"lid", "subnet_manager_lid", "capability_mask"}, Contains(UpTo(U32)))
  @@ Each({"subnet_manager_sl"}, Contains(UpTo(15))) @@ Each({"lid_mask_count"}, Contains(UpTo(7)))
  @@ Each({"network_interfaces"}, Contains(Array(String)))

RdmaDevice ==
  Each({"id"}, Number(U32)) @@ Each({"node_type"}, Enum(6))
  @@ Each({"name", "description", "node_guid", "system_image_guid", "firmware_version", "driver", "vendor",
           "device_name"}, Text)
  @@ Each({"pci_address"}, Opt(Record)) @@ Each({"numa_node"}, Opt(Number(U32)))
  @@ Each({"network_interfaces"}, List(Text)) @@ Each({"ports"}, List(Record))

device_to_json ==
  Each({"id", "name", "node_type", "description", "node_guid", "system_image_guid", "firmware_version", "driver",
        "vendor", "device_name", "network_interfaces", "ports"}, Always)
  @@ Each({"pci_address", "numa_node"}, IfSet)

device_from_json ==
  Each({"id"}, At(UpTo(U32))) @@ Each({"name"}, At(String)) @@ Each({"node_type"}, Contains(UpTo(6)))
  @@ Each({"description", "node_guid", "system_image_guid", "firmware_version", "driver", "vendor", "device_name"},
          Value(String, Blank))
  @@ Each({"pci_address"}, Contains(Object)) @@ Each({"numa_node"}, Contains(UpTo(U32)))
  @@ Each({"network_interfaces"}, Contains(Array(String))) @@ Each({"ports"}, Contains(Array(Object)))

RdmaInventory ==
  Each({"status"}, From(Enum(3), 3)) @@ Each({"failure"}, From(Opt(Enum(7)), 6)) @@ Each({"devices"}, List(Record))

rdma_inventory_to_json == Each({"status", "devices"}, Always) @@ Each({"failure"}, IfSet)

rdma_inventory_from_json ==
  Each({"status"}, Contains(UpTo(3))) @@ Each({"failure"}, ResetWith(UpTo(7), "status"))
  @@ Each({"devices"}, Contains(Array(Object)))

----------------------------------------------------------------------------
DeviceNumber == Each({"major", "minor"}, Number(U32))
device_number_to_json == Each({"major", "minor"}, Always)
device_number_from_json == Each({"major", "minor"}, At(UpTo(U32)))

\* The kernel hands out mount points and sources as whatever bytes they are.
StorageMount ==
  Each({"mount_id", "parent_mount_id"}, Number(U32)) @@ Each({"device_number"}, Record)
  @@ Each({"root", "path", "source"}, Foreign) @@ Each({"filesystem"}, Text) @@ Each({"options"}, List(Text))
  @@ Each({"block_device"}, Opt(Text)) @@ Each({"read_only"}, Flag)

storage_mount_to_json ==
  Each({"mount_id", "parent_mount_id", "device_number", "root", "path", "filesystem", "source", "options",
        "read_only"}, Always) @@ Each({"block_device"}, IfSet)

storage_mount_from_json ==
  Each({"mount_id", "parent_mount_id"}, At(UpTo(U32))) @@ Each({"device_number"}, At(Object))
  @@ Each({"root", "path", "filesystem", "source"}, At(String)) @@ Each({"options"}, At(Array(String)))
  @@ Each({"read_only"}, At(Boolean)) @@ Each({"block_device"}, Contains(String))

StorageDevice ==
  Each({"id"}, Number(U32)) @@ Each({"kind"}, From(Enum(3), 3)) @@ Each({"classification"}, Record)
  @@ Each({"name", "model", "vendor", "serial", "firmware_revision", "wwid", "transport", "controller_name",
           "scheduler", "layer", "mapper_name", "mapper_uuid", "raid_level", "raid_state", "driver"}, Text)
  @@ Each({"capacity", "logical_block_size", "physical_block_size", "minimum_io_size", "optimal_io_size"},
          Opt(Number(U64)))
  @@ Each({"pci_address", "device_number", "nvme_namespace", "scsi_device"}, Opt(Record))
  @@ Each({"mount_point"}, Opt(Foreign)) @@ Each({"fs_type", "parent"}, Opt(Text))
  @@ Each({"rotational", "read_only", "removable"}, Opt(Flag))
  @@ Each({"numa_node", "partition_number", "raid_disks", "raid_degraded"}, Opt(Number(U32)))
  @@ Each({"slaves"}, List(Text))

storage_dev_to_json ==
  Each({"id", "name", "kind", "classification"}, Always)
  @@ Each({"capacity", "pci_address", "mount_point", "fs_type", "logical_block_size", "physical_block_size",
           "minimum_io_size", "optimal_io_size", "rotational", "read_only", "removable", "numa_node",
           "partition_number", "parent", "raid_disks", "raid_degraded", "device_number", "nvme_namespace",
           "scsi_device"}, IfSet)
  @@ Each({"model", "vendor", "serial", "firmware_revision", "wwid", "scheduler", "transport", "driver",
           "controller_name", "layer", "mapper_name", "mapper_uuid", "raid_level", "raid_state"}, Filled)
  @@ Each({"slaves"}, NonEmpty)

storage_dev_from_json ==
  Each({"id"}, At(UpTo(U32))) @@ Each({"name"}, At(String)) @@ Each({"kind"}, At(UpTo(3)))
  @@ Each({"capacity", "logical_block_size", "physical_block_size", "minimum_io_size", "optimal_io_size"},
          Contains(UpTo(U64)))
  @@ Each({"pci_address", "device_number", "classification", "nvme_namespace", "scsi_device"}, Contains(Object))
  @@ Each({"mount_point", "fs_type", "parent"}, Contains(String))
  @@ Each({"model", "vendor", "serial", "firmware_revision", "wwid", "scheduler", "transport", "driver",
           "controller_name", "layer", "mapper_name", "mapper_uuid", "raid_level", "raid_state"}, Value(String, Blank))
  @@ Each({"rotational", "read_only", "removable"}, Contains(Boolean))
  @@ Each({"numa_node", "partition_number", "raid_disks", "raid_degraded"}, Contains(UpTo(U32)))
  @@ Each({"slaves"}, Contains(Array(String)))

Storage ==
  Each({"devices", "filesystems", "mounts", "health", "controllers", "nvme_controllers", "scsi_hosts"}, List(Record))

storage_to_json ==
  Each({"devices"}, Always)
  @@ Each({"health", "mounts", "controllers", "nvme_controllers", "scsi_hosts", "filesystems"}, NonEmpty)

storage_from_json ==
  Each({"devices"}, At(Array(Object)))
  @@ Each({"health", "mounts", "controllers", "nvme_controllers", "scsi_hosts", "filesystems"}, Contains(Array(Object)))

StorageClassification ==
  Each({"layer"}, Enum(6)) @@ Each({"purpose", "protocol"}, Enum(3)) @@ Each({"transports"}, List(Enum(9)))

storage_classification_to_json == Each({"layer", "purpose", "protocol", "transports"}, Always)

storage_classification_from_json ==
  Each({"layer"}, At(UpTo(6))) @@ Each({"purpose", "protocol"}, At(UpTo(3))) @@ Each({"transports"}, At(Array(UpTo(9))))

----------------------------------------------------------------------------
\* A namespace is made only with an identifier, which is not zero.
NvmeNamespaceInfo ==
  Each({"id"}, [Number(U32) EXCEPT !.codes = {1, U32}, !.init = 1]) @@ Each({"nguid", "eui"}, Text)
  @@ Each({"controllers"}, List(Text))

nvme_namespace_to_json == Each({"id", "nguid", "eui", "controllers"}, Always)

nvme_namespace_from_json ==
  Each({"id"}, At(Between(1, U32))) @@ Each({"nguid", "eui"}, Value(String, Blank))
  @@ Each({"controllers"}, Contains(Array(String)))

ScsiDeviceInfo == Each({"address"}, Record) @@ Each({"state"}, Text) @@ Each({"peripheral_type"}, Opt(Number(U32)))
scsi_device_to_json == Each({"address", "state"}, Always) @@ Each({"peripheral_type"}, IfSet)
scsi_device_from_json ==
  Each({"address"}, At(Object)) @@ Each({"state"}, Value(String, Blank)) @@ Each({"peripheral_type"}, Contains(UpTo(U32)))

ScsiAddress == Each({"host", "channel", "target"}, Number(U32)) @@ Each({"lun"}, Number(U64))
scsi_address_to_json == Each({"host", "channel", "target", "lun"}, Always)
scsi_address_from_json == Each({"host", "channel", "target"}, At(UpTo(U32))) @@ Each({"lun"}, At(UpTo(U64)))

\* "24-bit PCI class/subclass/programming interface" (storage_connections.hpp).
StorageController ==
  Each({"pci_address"}, Record) @@ Each({"class_code"}, Number(U24)) @@ Each({"vendor", "model", "driver"}, Text)
  @@ Each({"numa_node"}, Opt(Number(U32)))

controllers_to_json == Each({"pci_address", "class_code", "vendor", "model", "driver"}, Always) @@ Each({"numa_node"}, IfSet)

controllers_from_json ==
  Each({"pci_address"}, At(Object)) @@ Each({"class_code"}, At(UpTo(U24)))
  @@ Each({"vendor", "model", "driver"}, Value(String, Blank)) @@ Each({"numa_node"}, Contains(UpTo(U32)))

NvmeController ==
  Each({"name", "transport", "address", "model", "serial", "firmware_revision", "state", "subsystem_nqn"}, Text)
  @@ Each({"controller_id"}, Opt(Number(U16))) @@ Each({"pci_address"}, Opt(Record)) @@ Each({"numa_node"}, Opt(Number(U32)))

nvme_controllers_to_json ==
  Each({"name", "transport", "address", "model", "serial", "firmware_revision", "state", "subsystem_nqn"}, Always)
  @@ Each({"controller_id", "pci_address", "numa_node"}, IfSet)

nvme_controllers_from_json ==
  Each({"name"}, At(String))
  @@ Each({"transport", "address", "model", "serial", "firmware_revision", "state", "subsystem_nqn"}, Value(String, Blank))
  @@ Each({"controller_id"}, Contains(UpTo(U16))) @@ Each({"pci_address"}, Contains(Object))
  @@ Each({"numa_node"}, Contains(UpTo(U32)))

ScsiHost ==
  Each({"number"}, Number(U32)) @@ Each({"proc_name", "state", "supported_mode", "active_mode"}, Text)
  @@ Each({"pci_address"}, Opt(Record)) @@ Each({"numa_node", "ata_port"}, Opt(Number(U32)))

scsi_hosts_to_json ==
  Each({"number", "proc_name", "state", "supported_mode", "active_mode"}, Always)
  @@ Each({"ata_port", "pci_address", "numa_node"}, IfSet)

scsi_hosts_from_json ==
  Each({"number"}, At(UpTo(U32))) @@ Each({"proc_name", "state", "supported_mode", "active_mode"}, Value(String, Blank))
  @@ Each({"ata_port", "numa_node"}, Contains(UpTo(U32))) @@ Each({"pci_address"}, Contains(Object))

----------------------------------------------------------------------------
FilesystemReport ==
  Each({"mount_ids"}, List(Number(U32))) @@ Each({"kind"}, From(Enum(5), 5)) @@ Each({"status"}, From(Enum(3), 3))
  @@ Each({"failure"}, Opt(Enum(7))) @@ Each({"skip"}, Opt(Enum(4))) @@ Each({"note"}, Text) @@ Each({"usage"}, Opt(Record))

filesystems_to_json ==
  Each({"mount_ids", "kind", "status", "note"}, Always) @@ Each({"failure", "skip", "usage"}, IfSet)

filesystems_from_json ==
  Each({"mount_ids"}, At(Array(UpTo(U32)))) @@ Each({"kind"}, At(UpTo(5))) @@ Each({"status"}, At(UpTo(3)))
  @@ Each({"failure"}, Contains(UpTo(7))) @@ Each({"skip"}, Contains(UpTo(4))) @@ Each({"note"}, Value(String, Blank))
  @@ Each({"usage"}, Contains(Object))

FilesystemUsage ==
  Each({"total"}, Number(U64)) @@ Each({"filesystem_id"}, Text)
  @@ Each({"free", "available", "inodes", "free_inodes", "available_inodes"}, Opt(Number(U64)))

usage_to_json ==
  Each({"total", "filesystem_id"}, Always)
  @@ Each({"free", "available", "inodes", "free_inodes", "available_inodes"}, IfSet)

usage_from_json ==
  Each({"total"}, At(UpTo(U64))) @@ Each({"filesystem_id"}, Value(String, Blank))
  @@ Each({"free", "available", "inodes", "free_inodes", "available_inodes"}, Contains(UpTo(U64)))

----------------------------------------------------------------------------
\* A 128-bit count kept as decimal text; only validated texts are ever made.
Counter == [Text EXCEPT !.codes = {Some}, !.init = Some]

NvmeHealth ==
  Each({"critical_warning", "available_spare", "spare_threshold", "percentage_used"}, Opt(Number(U8)))
  @@ Each({"temperature"}, Opt(Signed(I64)))
  @@ Each({"power_on_hours", "power_cycles", "unsafe_shutdowns", "media_errors", "error_log_entries",
           "data_units_read", "data_units_written"}, Opt(Counter))

nvme_to_json ==
  Each({"critical_warning", "available_spare", "spare_threshold", "percentage_used", "temperature", "power_on_hours",
        "power_cycles", "unsafe_shutdowns", "media_errors", "error_log_entries", "data_units_read",
        "data_units_written"}, IfSet)

nvme_from_json ==
  Each({"critical_warning", "available_spare", "spare_threshold", "percentage_used"}, Contains(UpTo(U8)))
  @@ Each({"temperature"}, Contains(Integer(I64)))
  @@ Each({"power_on_hours", "power_cycles", "unsafe_shutdowns", "media_errors", "error_log_entries",
           "data_units_read", "data_units_written"}, Contains(String))

\* smartctl never numbers an attribute 0.
AtaHealthAttribute ==
  Each({"id"}, [Number(U8) EXCEPT !.codes = {1, U8}, !.init = 1]) @@ Each({"name", "raw", "when_failed"}, Text)
  @@ Each({"value", "worst", "threshold"}, Opt(Number(U8)))

ata_attribute_to_json == Each({"id", "name", "raw", "when_failed"}, Always) @@ Each({"value", "worst", "threshold"}, IfSet)

ata_attribute_from_json ==
  Each({"id"}, At(Between(1, U8))) @@ Each({"name", "raw", "when_failed"}, At(String))
  @@ Each({"value", "worst", "threshold"}, Contains(UpTo(U8)))

ScsiHealth == Each({"read_uncorrected", "write_uncorrected", "verify_uncorrected"}, Opt(Counter))
scsi_to_json == Each({"read_uncorrected", "write_uncorrected", "verify_uncorrected"}, IfSet)
scsi_from_json == Each({"read_uncorrected", "write_uncorrected", "verify_uncorrected"}, Contains(String))

\* 52 and 53 are the two sources of a health report, Smartctl and NvmeSmartLog.
StorageHealthReport ==
  Each({"target", "origin"}, Text) @@ Each({"devices"}, List(Text)) @@ Each({"protocol"}, Enum(3))
  @@ Each({"source"}, [Enum(53) EXCEPT !.codes = {52, 53}, !.init = 52]) @@ Each({"status"}, From(Enum(3), 3))
  @@ Each({"failure"}, Opt(Enum(7))) @@ Each({"smart_available", "smart_enabled", "passed"}, Opt(Flag))
  @@ Each({"nvme", "scsi"}, Opt(Record)) @@ Each({"ata_attributes"}, List(Record))

storage_health_to_json ==
  Each({"target", "devices", "protocol", "source", "origin", "status"}, Always)
  @@ Each({"failure", "smart_available", "smart_enabled", "passed", "nvme", "scsi"}, IfSet)
  @@ Each({"ata_attributes"}, NonEmpty)

storage_health_from_json ==
  Each({"target", "origin"}, At(String)) @@ Each({"devices"}, At(Array(String))) @@ Each({"protocol"}, At(UpTo(3)))
  @@ Each({"source"}, At(UpTo(53))) @@ Each({"status"}, At(UpTo(3))) @@ Each({"failure"}, Contains(UpTo(7)))
  @@ Each({"smart_available", "smart_enabled", "passed"}, Contains(Boolean))
  @@ Each({"nvme", "scsi"}, Contains(Object)) @@ Each({"ata_attributes"}, Contains(Array(Object)))
=============================================================================
