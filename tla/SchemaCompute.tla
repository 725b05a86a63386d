--------------------------- MODULE SchemaCompute ---------------------------
(* The records of the processors, of the memory and of the PCI devices:     *)
(* members, writers and readers of include/sysal/model/cpu.hpp, memory.hpp  *)
(* and pci.hpp, as serialization/cpu.cpp, memory.cpp, memory_topology.cpp   *)
(* and pci.cpp have them.                                                   *)
EXTENDS Codec

CpuPackage ==
  Each({"id", "physical_cores", "logical_threads"}, Number(U32)) @@ Each({"vendor", "model_name"}, Text)
  @@ Each({"base_frequency", "max_frequency"}, Opt(Number(U64)))

cpu_package_to_json ==
  Each({"id", "vendor", "model_name", "physical_cores", "logical_threads"}, Always)
  @@ Each({"base_frequency", "max_frequency"}, IfSet)

cpu_package_from_json ==
  Each({"id", "physical_cores", "logical_threads"}, At(UpTo(U32))) @@ Each({"vendor", "model_name"}, At(String))
  @@ Each({"base_frequency", "max_frequency"}, Contains(UpTo(U64)))

CpuCore == Each({"id", "package_id", "logical_threads"}, Number(U32)) @@ Each({"numa_node"}, Opt(Number(U32)))

cpu_core_to_json == Each({"id", "package_id", "logical_threads"}, Always) @@ Each({"numa_node"}, IfSet)

cpu_core_from_json ==
  Each({"id", "package_id", "logical_threads"}, At(UpTo(U32))) @@ Each({"numa_node"}, Contains(UpTo(U32)))

----------------------------------------------------------------------------
CpuIdentification ==
  Each({"family", "model", "stepping", "implementer", "part", "variant"}, Opt(Number(U32)))
  @@ Each({"revision", "architecture", "microcode"}, Text) @@ Each({"features"}, List(Text))
  @@ Each({"features_reported"}, Flag)

cpu_identification_to_json ==
  Each({"family", "model", "stepping", "implementer", "part", "variant"}, IfSet)
  @@ Each({"revision", "architecture", "microcode", "features", "features_reported"}, Always)

cpu_identification_from_json ==
  Each({"family", "model", "stepping", "implementer", "part", "variant"}, Contains(UpTo(U32)))
  @@ Each({"revision", "architecture", "microcode"}, Value(String, Blank))
  @@ Each({"features"}, Value(Array(String), Empty)) @@ Each({"features_reported"}, Value(Boolean, 0))

CpuFrequencyPolicy ==
  Each({"index"}, Number(U32)) @@ Each({"related_cpus", "affected_cpus"}, List(Number(U32)))
  @@ Each({"base_frequency", "hardware_min_frequency", "hardware_max_frequency", "scaling_min_frequency",
           "scaling_max_frequency", "scaling_current_frequency", "hardware_current_frequency"}, Opt(Number(U64)))
  @@ Each({"driver", "governor", "energy_performance_preference"}, Text)

cpu_policy_to_json ==
  Each({"index", "related_cpus", "affected_cpus", "driver", "governor", "energy_performance_preference"}, Always)
  @@ Each({"base_frequency", "hardware_min_frequency", "hardware_max_frequency", "scaling_min_frequency",
           "scaling_max_frequency", "scaling_current_frequency", "hardware_current_frequency"}, IfSet)

cpu_policy_from_json ==
  Each({"index"}, At(UpTo(U32))) @@ Each({"related_cpus", "affected_cpus"}, At(Array(UpTo(U32))))
  @@ Each({"base_frequency", "hardware_min_frequency", "hardware_max_frequency", "scaling_min_frequency",
           "scaling_max_frequency", "scaling_current_frequency", "hardware_current_frequency"}, Contains(UpTo(U64)))
  @@ Each({"driver", "governor", "energy_performance_preference"}, Value(String, Blank))

LogicalCpu ==
  Each({"id", "core_id", "package_id"}, Number(U32)) @@ Each({"numa_node"}, Opt(Number(U32)))
  @@ Each({"visible_to_current_process", "online"}, Opt(Flag)) @@ Each({"identification"}, Record)

logical_cpu_to_json ==
  Each({"id", "core_id", "package_id", "identification"}, Always)
  @@ Each({"visible_to_current_process", "numa_node", "online"}, IfSet)

logical_cpu_from_json ==
  Each({"id", "core_id", "package_id"}, At(UpTo(U32))) @@ Each({"numa_node"}, Contains(UpTo(U32)))
  @@ Each({"visible_to_current_process", "online"}, Contains(Boolean)) @@ Each({"identification"}, Contains(Object))

----------------------------------------------------------------------------
NumaNode == Each({"id"}, Number(U32)) @@ Each({"cpus"}, List(Number(U32)))
numa_node_to_json == Each({"id", "cpus"}, Always)
numa_node_from_json == Each({"id"}, At(UpTo(U32))) @@ Each({"cpus"}, At(Array(UpTo(U32))))

CpuCache ==
  Each({"level", "ways", "line_size", "cpu_number"}, Number(U32)) @@ Each({"type"}, Enum(3))
  @@ Each({"size"}, Number(U64)) @@ Each({"cache_id", "sets"}, Opt(Number(U32)))
  @@ Each({"shared_cpus"}, List(Number(U32)))

cpu_cache_to_json ==
  Each({"level", "type", "size", "ways", "line_size", "cpu_number", "shared_cpus"}, Always)
  @@ Each({"cache_id", "sets"}, IfSet)

cpu_cache_from_json ==
  Each({"level", "ways", "line_size", "cpu_number"}, At(UpTo(U32))) @@ Each({"type"}, At(UpTo(3)))
  @@ Each({"size"}, At(UpTo(U64))) @@ Each({"cache_id", "sets"}, Contains(UpTo(U32)))
  @@ Each({"shared_cpus"}, Contains(Array(UpTo(U32))))

ThermalZone == Each({"name", "type"}, Text) @@ Each({"temp"}, Number(U64))
thermal_zone_to_json == Each({"name", "type", "temp"}, Always)
thermal_zone_from_json == Each({"name", "type"}, At(String)) @@ Each({"temp"}, At(UpTo(U64)))

\* The writer adds a feature summary, derived from the members and never read back.
Cpu ==
  Each({"arch"}, Enum(3)) @@ Each({"isa_extensions"}, List(Enum(16))) @@ Each({"governor", "smt_control"}, Text)
  @@ Each({"packages", "cores", "logical_cpus", "numa_nodes", "caches", "thermal_zones", "frequency_policies"},
          List(Record))
  @@ Each({"present_cpu_ids", "online_cpu_ids"}, Opt(List(Number(U32))))
  @@ Each({"smt_supported", "smt_active", "boost_enabled"}, Opt(Flag))

cpu_to_json ==
  Each({"arch", "packages", "cores", "logical_cpus", "numa_nodes", "isa_extensions", "caches", "governor",
        "thermal_zones", "frequency_policies", "smt_control"}, Always)
  @@ Each({"present_cpu_ids", "online_cpu_ids", "smt_supported", "smt_active", "boost_enabled"}, IfSet)

cpu_from_json ==
  Each({"arch"}, At(UpTo(3))) @@ Each({"packages", "cores", "logical_cpus", "numa_nodes"}, At(Array(Object)))
  @@ Each({"isa_extensions"}, At(Array(UpTo(16))))
  @@ Each({"caches", "thermal_zones", "frequency_policies"}, Contains(Array(Object)))
  @@ Each({"governor"}, Contains(String)) @@ Each({"present_cpu_ids", "online_cpu_ids"}, Contains(Array(UpTo(U32))))
  @@ Each({"smt_supported", "smt_active", "boost_enabled"}, Contains(Boolean))
  @@ Each({"smt_control"}, Value(String, Blank))

----------------------------------------------------------------------------
MemoryController ==
  Each({"index"}, Number(U32)) @@ Each({"name"}, Text)
  @@ Each({"capacity", "corrected_errors", "uncorrected_errors"}, Opt(Number(U64)))
  @@ Each({"numa_node"}, Opt(Number(U32))) @@ Each({"pci_address"}, Opt(Record)) @@ Each({"max_location"}, Record)

memory_controller_to_json ==
  Each({"index", "name"}, Always)
  @@ Each({"capacity", "corrected_errors", "uncorrected_errors", "numa_node", "pci_address"}, IfSet)
  @@ Each({"max_location"}, Unless(0))

memory_controller_from_json ==
  Each({"index"}, At(UpTo(U32))) @@ Each({"name"}, Value(String, Blank))
  @@ Each({"capacity", "corrected_errors", "uncorrected_errors"}, Contains(UpTo(U64)))
  @@ Each({"numa_node"}, Contains(UpTo(U32))) @@ Each({"pci_address", "max_location"}, Contains(Object))

NumaMemory == Each({"node"}, Number(U32)) @@ Each({"total"}, Number(U64)) @@ Each({"available", "free"}, Opt(Number(U64)))
numa_memory_to_json == Each({"node", "total"}, Always) @@ Each({"available", "free"}, IfSet)
numa_memory_from_json ==
  Each({"node"}, At(UpTo(U32))) @@ Each({"total"}, At(UpTo(U64))) @@ Each({"available", "free"}, Contains(UpTo(U64)))

DimmInfo ==
  Each({"locator", "bank_locator", "memory_type", "serial", "asset_tag", "type_detail", "edac_mode", "device_width"}, Text)
  @@ Each({"size"}, Number(U64)) @@ Each({"present"}, Flag)
  @@ Each({"speed_mts", "configured_speed_mts", "configured_voltage_mv"}, Opt(Number(U64)))
  @@ Each({"manufacturer", "part_number", "form_factor"}, Opt(Text))
  @@ Each({"rank", "total_width", "data_width", "controller_index", "numa_node", "edac_device_index"}, Opt(Number(U32)))
  @@ Each({"edac_association"}, Enum(2))

dimm_info_to_json ==
  Each({"locator", "bank_locator", "size", "present"}, Always)
  @@ Each({"speed_mts", "manufacturer", "part_number", "rank", "total_width", "data_width", "form_factor",
           "configured_speed_mts", "configured_voltage_mv", "controller_index", "numa_node", "edac_device_index"}, IfSet)
  @@ Each({"memory_type", "serial", "asset_tag", "type_detail", "edac_mode", "device_width"}, Filled)
  @@ Each({"edac_association"}, Unless(0))

dimm_info_from_json ==
  Each({"locator", "bank_locator"}, At(String)) @@ Each({"size"}, At(UpTo(U64))) @@ Each({"present"}, At(Boolean))
  @@ Each({"speed_mts", "configured_speed_mts", "configured_voltage_mv"}, Contains(UpTo(U64)))
  @@ Each({"manufacturer", "part_number", "form_factor"}, Contains(String))
  @@ Each({"rank", "total_width", "data_width", "controller_index", "numa_node", "edac_device_index"}, Contains(UpTo(U32)))
  @@ Each({"memory_type", "serial", "asset_tag", "type_detail", "edac_mode", "device_width"}, Value(String, Blank))
  @@ Each({"edac_association"}, Contains(UpTo(2)))

Memory ==
  Each({"total_memory"}, Number(U64)) @@ Each({"available_memory", "configured_speed_mts", "reported_array_max_capacity"}, Opt(Number(U64)))
  @@ Each({"memory_type", "dimm_inventory_source", "reported_array_location", "reported_array_error_correction"}, Text)
  @@ Each({"numa_memory", "dimms", "controllers", "edac_devices"}, List(Record))
  @@ Each({"dimm_count", "populated_dimms", "reported_slot_count"}, Opt(Number(U32)))
  @@ Each({"reported_slots_complete"}, Opt(Flag))

memory_to_json ==
  Each({"total_memory", "numa_memory", "dimms"}, Always)
  @@ Each({"available_memory", "configured_speed_mts", "dimm_count", "populated_dimms", "reported_slot_count",
           "reported_slots_complete", "reported_array_max_capacity"}, IfSet)
  @@ Each({"memory_type", "dimm_inventory_source", "reported_array_location", "reported_array_error_correction"}, Filled)
  @@ Each({"controllers", "edac_devices"}, NonEmpty)

memory_from_json ==
  Each({"total_memory"}, At(UpTo(U64)))
  @@ Each({"available_memory", "configured_speed_mts", "reported_array_max_capacity"}, Contains(UpTo(U64)))
  @@ Each({"memory_type"}, Contains(String))
  @@ Each({"numa_memory", "dimms", "controllers", "edac_devices"}, Contains(Array(Object)))
  @@ Each({"dimm_count", "populated_dimms", "reported_slot_count"}, Contains(UpTo(U32)))
  @@ Each({"dimm_inventory_source", "reported_array_location", "reported_array_error_correction"}, Value(String, Blank))
  @@ Each({"reported_slots_complete"}, Contains(Boolean))

----------------------------------------------------------------------------
EdacLocation == Each({"report"}, Text) @@ Each({"coordinates"}, List(Record))
edac_location_to_json == Each({"report", "coordinates"}, Always)
edac_location_from_json == Each({"report"}, Value(String, Blank)) @@ Each({"coordinates"}, Contains(Array(Object)))

EdacLocationCoordinate == Each({"layer"}, Enum(5)) @@ Each({"index"}, Number(U32))
coordinate_to_json == Each({"layer", "index"}, Always)
coordinate_from_json == Each({"layer"}, At(UpTo(5))) @@ Each({"index"}, At(UpTo(U32)))

EdacMemoryDevice ==
  Each({"controller_index", "index"}, Number(U32)) @@ Each({"kind"}, Enum(2))
  @@ Each({"label", "memory_type", "edac_mode", "device_width"}, Text) @@ Each({"size"}, Opt(Number(U64)))
  @@ Each({"location"}, Record) @@ Each({"numa_node"}, Opt(Number(U32)))

edac_devices_to_json ==
  Each({"controller_index", "index", "kind", "label", "location", "memory_type", "edac_mode", "device_width"}, Always)
  @@ Each({"size", "numa_node"}, IfSet)

edac_devices_from_json ==
  Each({"controller_index", "index"}, At(UpTo(U32))) @@ Each({"kind"}, At(UpTo(2)))
  @@ Each({"label", "memory_type", "edac_mode", "device_width"}, Value(String, Blank))
  @@ Each({"location"}, Contains(Object)) @@ Each({"size"}, Contains(UpTo(U64))) @@ Each({"numa_node"}, Contains(UpTo(U32)))

----------------------------------------------------------------------------
PciDevice ==
  Each({"address"}, Record)
  @@ Each({"vendor", "device_name", "device_class", "physical_slot", "firmware_label", "current_link_speed",
           "max_link_speed", "driver_name"}, Text)
  @@ Each({"numa_node", "current_link_width", "max_link_width", "maximum_virtual_functions",
           "enabled_virtual_functions"}, Opt(Number(U32)))
  @@ Each({"upstream_address", "physical_function"}, Opt(Record)) @@ Each({"local_cpus"}, List(Number(U32)))

pci_device_to_json ==
  Each({"address", "vendor", "device_name", "device_class"}, Always)
  @@ Each({"numa_node", "current_link_width", "max_link_width", "upstream_address", "physical_function",
           "maximum_virtual_functions", "enabled_virtual_functions"}, IfSet)
  @@ Each({"physical_slot", "firmware_label", "current_link_speed", "max_link_speed", "driver_name"}, Filled)
  @@ Each({"local_cpus"}, NonEmpty)

pci_device_from_json ==
  Each({"address"}, At(Object)) @@ Each({"vendor", "device_name", "device_class"}, At(String))
  @@ Each({"numa_node", "current_link_width", "max_link_width", "maximum_virtual_functions",
           "enabled_virtual_functions"}, Contains(UpTo(U32)))
  @@ Each({"physical_slot", "firmware_label", "current_link_speed", "max_link_speed", "driver_name"}, Value(String, Blank))
  @@ Each({"upstream_address", "physical_function"}, Contains(Object)) @@ Each({"local_cpus"}, Contains(Array(UpTo(U32))))

Pci == Each({"devices"}, List(Record))
pci_to_json == Each({"devices"}, Always)
pci_from_json == Each({"devices"}, At(Array(Object)))
=============================================================================
