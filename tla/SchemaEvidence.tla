--------------------------- MODULE SchemaEvidence ---------------------------
(* The records of the evidence and of the metadata of a snapshot: RawStore, *)
(* SnapshotMeta, the enumeration reports and the collection request.        *)
(* For each struct of include/sysal/model: its members, its writer and its  *)
(* reader, under the names the code gives them.                             *)
EXTENDS Codec

RawSource == 56           \* FilesystemUsage, the last of the enumeration
CollectStatus == 3        \* NotCollected
ReadFailure == 7          \* LowPower
SkipReason == 4           \* NotApplicable

----------------------------------------------------------------------------
RawRecord ==
  Each({"source"}, Uninitialised(Enum(RawSource))) @@ Each({"status"}, Uninitialised(Enum(CollectStatus)))
  @@ Each({"path_or_command", "payload"}, Foreign) @@ Each({"collected_at"}, Time)
  @@ Each({"failure"}, Opt(Enum(ReadFailure))) @@ Each({"skip"}, Opt(Enum(SkipReason)))

raw_record_to_json ==
  Each({"source", "path_or_command", "payload", "status", "collected_at"}, Always)
  @@ Each({"failure", "skip"}, IfSet)

\* Mutant of raw_record_from_json: a bound that was not moved with the enumeration.
raw_record_from_json_stale ==
  Each({"source"}, At(UpTo(55))) @@ Each({"path_or_command", "payload"}, At(String))
  @@ Each({"status"}, At(UpTo(3))) @@ Each({"collected_at"}, At(Epoch))
  @@ Each({"failure"}, Contains(UpTo(7))) @@ Each({"skip"}, Contains(UpTo(4)))

raw_record_from_json ==
  Each({"source"}, At(UpTo(56))) @@ Each({"path_or_command", "payload"}, At(String))
  @@ Each({"status"}, At(UpTo(3))) @@ Each({"collected_at"}, At(Epoch))
  @@ Each({"failure"}, Contains(UpTo(7))) @@ Each({"skip"}, Contains(UpTo(4)))

RawStore ==
  Each({"records", "enumerations"}, List(Record)) @@ Each({"collection_request"}, Opt(Record))

raw_store_to_json ==
  Each({"records", "enumerations"}, Always) @@ Each({"collection_request"}, IfSet)

raw_store_from_json ==
  Each({"records"}, At(Array(Object))) @@ Each({"enumerations"}, Contains(Array(Object)))
  @@ Each({"collection_request"}, Contains(Object))

----------------------------------------------------------------------------
CollectionObservation ==
  Each({"domain", "origin"}, Text) @@ Each({"source"}, Uninitialised(Enum(RawSource)))
  @@ Each({"status"}, Uninitialised(Enum(CollectStatus)))
  @@ Each({"failure"}, Opt(Enum(ReadFailure))) @@ Each({"skip"}, Opt(Enum(SkipReason)))

observation_to_json ==
  Each({"domain", "source", "origin", "status"}, Always) @@ Each({"failure", "skip"}, IfSet)

observation_from_json ==
  Each({"domain", "origin"}, At(String)) @@ Each({"source"}, At(UpTo(56))) @@ Each({"status"}, At(UpTo(3)))
  @@ Each({"failure"}, Contains(UpTo(7))) @@ Each({"skip"}, Contains(UpTo(4)))

\* duration<double> has no initialiser: its count is indeterminate until it is set.
SnapshotMeta ==
  Each({"collect_time"}, Time) @@ Each({"sysal_version"}, Text)
  @@ Each({"collect_duration"}, Uninitialised(Number(U32))) @@ Each({"requested_flags"}, Number(U32))
  @@ Each({"succeeded_collectors", "failed_collectors"}, List(Text))
  @@ Each({"observations", "inventories"}, List(Record)) @@ Each({"collection_request"}, Opt(Record))

meta_to_json ==
  Each({"collect_time", "sysal_version", "collect_duration", "requested_flags", "succeeded_collectors",
        "failed_collectors", "inventories"}, Always)
  @@ Each({"collection_request"}, IfSet) @@ Each({"observations"}, NonEmpty)

meta_from_json ==
  Each({"collect_time"}, At(Epoch)) @@ Each({"sysal_version"}, At(String))
  @@ Each({"collect_duration"}, At(Integer(U64))) @@ Each({"requested_flags"}, At(UpTo(U32)))
  @@ Each({"succeeded_collectors", "failed_collectors"}, At(Array(String)))
  @@ Each({"collection_request"}, Contains(Object))
  @@ Each({"inventories", "observations"}, Contains(Array(Object)))

----------------------------------------------------------------------------
InventoryEnumeration ==
  Each({"inventory"}, Uninitialised(Enum(8))) @@ Each({"source"}, Uninitialised(Enum(RawSource)))
  @@ Each({"origin"}, Text) @@ Each({"entries"}, List(Text))
  @@ Each({"status"}, Uninitialised(Enum(CollectStatus))) @@ Each({"failure"}, Opt(Enum(ReadFailure)))

enumeration_to_json ==
  Each({"inventory", "source", "origin", "entries", "status"}, Always) @@ Each({"failure"}, IfSet)

enumeration_from_json ==
  Each({"inventory"}, At(UpTo(8))) @@ Each({"source"}, At(UpTo(56))) @@ Each({"origin"}, At(String))
  @@ Each({"entries"}, At(Array(String))) @@ Each({"status"}, At(UpTo(3))) @@ Each({"failure"}, Contains(UpTo(7)))

InventoryReport ==
  Each({"inventory"}, Uninitialised(Enum(8))) @@ Each({"completeness"}, Enum(2)) @@ Each({"origin"}, Text)

inventory_to_json == Each({"inventory", "completeness", "origin"}, Always)

inventory_from_json ==
  Each({"inventory"}, At(UpTo(8))) @@ Each({"completeness"}, At(UpTo(2))) @@ Each({"origin"}, At(String))

\* Flags outside `full` are refused; its twelve bits are 4095, coded as the maximum of a type of their own.
FullFlags == 1012

CollectionRequest ==
  Each({"flags"}, From(Number(FullFlags), FullFlags)) @@ Each({"filesystems"}, From(Enum(2), 1)) @@ Each({"sensors"}, Enum(1))

collection_request_to_json == Each({"flags", "filesystems", "sensors"}, Always)

collection_request_from_json ==
  Each({"flags"}, At(UpTo(FullFlags))) @@ Each({"filesystems"}, At(UpTo(2))) @@ Each({"sensors"}, At(UpTo(1)))

----------------------------------------------------------------------------
\* The kernel numbers devices in five bits and functions in three, less than the bytes that hold them.
PciAddress ==
  Each({"domain"}, Number(U16)) @@ Each({"bus"}, Number(U8)) @@ Each({"device"}, Number(31)) @@ Each({"function"}, Number(7))

pci_address_to_json == Each({"domain", "bus", "device", "function"}, Always)

pci_address_from_json ==
  Each({"domain"}, At(UpTo(U16))) @@ Each({"bus"}, At(UpTo(U8))) @@ Each({"device"}, At(UpTo(31)))
  @@ Each({"function"}, At(UpTo(7)))

----------------------------------------------------------------------------
SystemInfo ==
  Each({"platform", "cpu", "memory", "accelerators", "network", "storage", "pci", "software", "execution",
        "sensors", "hardware_health"}, Record)

system_info_to_json == Each(DOMAIN SystemInfo, Always)

system_info_from_json ==
  Each({"platform", "cpu", "memory", "accelerators", "network", "storage", "pci", "software", "execution"}, At(Object))
  @@ Each({"sensors", "hardware_health"}, Contains(Object))
=============================================================================
