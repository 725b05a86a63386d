------------------------------ MODULE Pipeline ------------------------------
(***************************************************************************)
(* The collection pipeline behind System::collect, System::refresh and     *)
(* test::collect_from_raw: validate the request, read the sources it needs *)
(* one after the other while the host changes, parse each requested domain *)
(* from the evidence, join domains in the resolver, and hand over one      *)
(* snapshot or throw.                                                      *)
(*                                                                         *)
(* A source is a reader function of reader/linux; a reading is one call of *)
(* it.  A domain of a snapshot is represented by the readings it was made  *)
(* from: none for a default-constructed domain.                            *)
(***************************************************************************)
EXTENDS Naturals, Sequences, FiniteSets

CONSTANTS
    Requests,     \* the flag sets callers pass (bound)
    Failures,     \* the sets of sources that may fail during one call (bound)
    MaxCalls      \* bound: calls of the API on one handle

Flags == {"Platform", "Cpu", "Memory", "Accelerator", "Network", "Storage", "Pci",
          "Software", "Execution", "Raw", "Sensors", "StorageHealth"}

Policies == {"all", "restricted"}

\* has(): some bit is in common.
Has(flags, mask) == flags \cap mask # {}

-----------------------------------------------------------------------------
(* Reading.  One row per reader call of read_procfs and read_sysfs, in      *)
(* order: what it reads, the flags that ask for it, and the flags under     *)
(* which an earlier row has read it already.                                *)

Row(source, any, unless) == [source |-> source, any |-> any, unless |-> unless]

ReadProcfs == <<
    Row("cpuinfo",    {"Platform"}, {}),
    Row("identity",   {"Platform"}, {}),
    Row("dockerenv",  {"Platform"}, {}),
    Row("cpuinfo",    {"Cpu"}, {"Platform"}),
    Row("meminfo",    {"Memory"}, {}),
    Row("udevadm",    {"Memory"}, {}),
    Row("backends",   {"Accelerator"}, {}),
    Row("mig",        {"Accelerator"}, {}),
    Row("nvidia_smi", {"Accelerator"}, {}),
    Row("lspci",      {"Network"}, {}),
    Row("addresses",  {"Network"}, {}),
    Row("mountinfo",  {"Storage"}, {}),
    Row("filesystems", {"Storage"}, {}),
    Row("lspci",      {"Pci", "Storage"}, {"Network"}),
    Row("nvcc",       {"Software"}, {}),
    Row("backends",   {"Software"}, {"Accelerator"}),
    Row("nvidia_smi", {"Software"}, {"Accelerator"}),
    Row("toolchain",  {"Software"}, {}),
    Row("limits",     {"Execution"}, {}),
    Row("process",    {"Execution"}, {}) >>

ReadSysfs == <<
    Row("cpu",         {"Cpu"}, {}),
    Row("numa",        {"Cpu", "Memory"}, {}),
    Row("net",         {"Network"}, {}),
    Row("rdma",        {"Network"}, {}),
    Row("pci",         {"Pci", "Network", "Storage", "StorageHealth"}, {}),
    Row("block",       {"Storage", "StorageHealth"}, {}),
    Row("connections", {"Storage", "StorageHealth"}, {}),
    Row("dmi",         {"Platform"}, {}),
    Row("hypervisor",  {"Platform"}, {}),
    Row("edac",        {"Memory"}, {}),
    Row("health",      {"StorageHealth"}, {}),
    Row("hwmon",       {"Sensors"}, {}),
    Row("thermal",     {"Sensors"}, {}),
    Row("thermal",     {"Cpu"}, {"Sensors"}) >>

\* Mutant of Plan: no one supplies what Network and Accelerator usually read.
PlanUnshared == SelectSeq(ReadProcfs, LAMBDA row : row.unless = {}) \o ReadSysfs

Plan == ReadProcfs \o ReadSysfs

Sources == {"cpuinfo", "identity", "dockerenv", "meminfo", "udevadm", "backends", "mig",
            "nvidia_smi", "lspci", "addresses", "mountinfo", "filesystems", "nvcc",
            "toolchain", "limits", "process", "cpu", "numa", "net", "rdma", "pci", "block",
            "connections", "dmi", "hypervisor", "edac", "health", "hwmon", "thermal"}

\* The readers that take a CollectOptions policy.
Restricted == {"filesystems", "hwmon", "thermal"}

\* Mutant of Wanted: shared sources are read again by the second domain.
WantedTwice(row, flags) == Has(flags, row.any)

Wanted(row, flags) == Has(flags, row.any) /\ ~Has(flags, row.unless)

-----------------------------------------------------------------------------
(* Parsing.                                                                 *)

Domains == {"sensors", "platform", "cpu", "memory", "pci", "network", "accelerator",
            "storage", "storage_health", "software", "execution"}

\* The flag of a domain in record_collector_status.
FlagOf == [sensors |-> "Sensors", platform |-> "Platform", cpu |-> "Cpu", memory |-> "Memory",
           pci |-> "Pci", network |-> "Network", accelerator |-> "Accelerator",
           storage |-> "Storage", storage_health |-> "StorageHealth",
           software |-> "Software", execution |-> "Execution"]

\* Mutant of ParsedFor: pci is parsed for its own flag only.
ParsedForOwn(d) == IF d = "storage" THEN {"Storage", "StorageHealth"} ELSE {FlagOf[d]}

\* parser_dispatch, and parse_storage_health after it.
ParsedFor(d) ==
    IF d = "pci" THEN {"Pci", "Network", "Storage", "StorageHealth"}
    ELSE IF d = "storage" THEN {"Storage", "StorageHealth"}
    ELSE {FlagOf[d]}

\* The sources whose records the parser of a domain looks up.
Consumes ==
    [sensors     |-> {"hwmon", "thermal"},
     platform    |-> {"cpuinfo", "identity", "dmi", "hypervisor"},
     cpu         |-> {"cpuinfo", "cpu", "numa", "thermal"},
     memory      |-> {"meminfo", "udevadm", "numa", "edac"},
     pci         |-> {"lspci", "pci"},
     network     |-> {"net", "rdma", "addresses"},
     accelerator |-> {"backends", "mig", "nvidia_smi", "pci"},
     storage     |-> {"block", "connections", "mountinfo", "filesystems"},
     storage_health |-> {"health"},
     software    |-> {"nvcc", "backends", "nvidia_smi", "toolchain"},
     execution   |-> {"limits", "process", "dockerenv"}]

Succeeded(readings, s) == \E i \in DOMAIN readings[s] : readings[s][i].ok

\* The parser returns a value: what it insists on differs from domain to domain.
\* A directory that cannot be listed still leaves a record of that failure.
Value(d, readings) ==
    LET has(s) == readings[s] # <<>>
        ok(s)  == Succeeded(readings, s)
    IN  CASE d \in {"sensors", "platform"} -> TRUE
          [] d = "cpu"         -> ok("cpuinfo")
          [] d = "memory"      -> ok("meminfo")
          [] d = "pci"         -> has("pci")
          [] d = "network"     -> has("net") \/ has("rdma")
          [] d = "accelerator" -> ok("backends") \/ ok("nvidia_smi") \/ ok("mig")
          [] d = "storage"     -> has("block") \/ has("connections") \/ ok("mountinfo")
          [] d = "storage_health" -> ok("health") /\ (has("block") \/ has("connections") \/ ok("mountinfo"))
          [] d = "software"    -> ok("nvidia_smi") \/ ok("backends") \/ ok("nvcc") \/ ok("toolchain")
          [] d = "execution"   -> ok("limits") \/ ok("process")

Parsed(d, flags, readings) == Has(flags, ParsedFor(d)) /\ Value(d, readings)

\* What resolve joins into a domain: PCI locality, and the visibility the
\* execution context decides.
Joined(d) ==
    CASE d \in {"memory", "network", "storage"} -> {d, "pci"}
      [] d \in {"cpu", "accelerator"} -> {d, "execution"}
      [] OTHER -> {d}

\* The readings a resolved domain was made from.
Evidence(d, flags, readings) ==
    UNION {{<<s, readings[s][i]>> : i \in DOMAIN readings[s]} :
             s \in UNION {Consumes[e] : e \in {e \in Joined(d) : Parsed(e, flags, readings)}}}

Resolve(flags, readings) ==
    [d \in Domains |-> IF Parsed(d, flags, readings) THEN Evidence(d, flags, readings) ELSE {}]

Requested(flags) == {d \in Domains : FlagOf[d] \in flags}

ASSUME PipelineAssumption ==
    /\ Requests \subseteq SUBSET Flags
    /\ Failures \subseteq SUBSET Sources
    /\ MaxCalls \in Nat

-----------------------------------------------------------------------------
VARIABLES
    pc,        \* "idle" between calls, "reading" inside run_pipeline
    call,      \* the call in progress: operation, flags, options, number
    failing,   \* sources that fail during this call
    cursor,    \* next row of Plan
    raw,       \* RawStore of the call: readings of each source
    handle,    \* the caller's System
    kept,      \* a RawStore the caller took out of a snapshot
    outcome,   \* how the last call ended
    calls      \* calls made so far

vars == <<pc, call, failing, cursor, raw, handle, kept, outcome, calls>>

Unread == [s \in Sources |-> <<>>]

NoSnapshot == [requested |-> {}, request |-> {}, succeeded |-> {}, failed |-> {},
               info |-> [d \in Domains |-> {}], raw |-> {}]

Readings == [call : 1 .. MaxCalls, policy : Policies, ok : BOOLEAN]

\* An optional value is a set of at most one element.
CollectionRequest == [flags : SUBSET Flags, options : Policies]

TypeOK ==
    /\ pc \in {"idle", "reading"}
    /\ call \in [op : {"none", "collect", "refresh", "replay"}, flags : SUBSET Flags,
                 options : Policies, number : 0 .. MaxCalls]
    /\ pc = "reading" => call.number > 0
    /\ failing \in SUBSET Sources
    /\ cursor \in 1 .. Len(Plan) + 1
    /\ raw \in [Sources -> Seq(Readings)]
    /\ handle.requested \in SUBSET Flags
    /\ handle.request \in SUBSET CollectionRequest
    /\ handle.failed # {} => handle.succeeded # {}
    /\ \A store \in kept : store.request \in SUBSET CollectionRequest
    /\ outcome \in {"none", "ok", "invalid_argument", "CollectionFailed", "exception"}
    /\ calls \in 0 .. MaxCalls

Init ==
    /\ pc = "idle"
    /\ call = [op |-> "none", flags |-> {}, options |-> "all", number |-> 0]
    /\ failing = {}
    /\ cursor = 1
    /\ raw = Unread
    /\ handle = NoSnapshot
    /\ kept = {}
    /\ outcome = "none"
    /\ calls = 0

\* run_pipeline starts with an empty store; which sources fail is the host's choice.
Start(op, flags, options) ==
    /\ calls < MaxCalls
    /\ calls' = calls + 1
    /\ call' = [op |-> op, flags |-> flags, options |-> options, number |-> calls + 1]
    /\ failing' \in Failures
    /\ pc' = "reading"
    /\ cursor' = 1
    /\ raw' = Unread
    /\ UNCHANGED <<handle, kept, outcome>>

\* CollectionRequest::validate passes: the flags and the policy are known ones.
Collect ==
    /\ pc = "idle"
    /\ \E flags \in Requests, options \in Policies : Start("collect", flags, options)

\* Mutant of RefreshOptions: collect(flags) with default options.
RefreshDefault(request) == "all"

RefreshOptions(request) == request.options

\* refresh repeats the scope of the snapshot under the saved policy.
Refresh ==
    /\ pc = "idle"
    /\ handle # NoSnapshot
    /\ \E request \in handle.request :
         Start("refresh", handle.requested, RefreshOptions(request))

\* The policy of a snapshot without a request is unknown: nothing is read.
RefreshUnknown ==
    /\ pc = "idle"
    /\ handle # NoSnapshot
    /\ handle.request = {}
    /\ calls < MaxCalls
    /\ calls' = calls + 1
    /\ outcome' = "invalid_argument"
    /\ UNCHANGED <<pc, call, failing, cursor, raw, handle, kept>>

\* The next reader that the request wants, on the host as it is now.
Read ==
    /\ pc = "reading"
    /\ \E i \in cursor .. Len(Plan) :
         /\ Wanted(Plan[i], call.flags)
         /\ \A j \in cursor .. i - 1 : ~Wanted(Plan[j], call.flags)
         /\ cursor' = i + 1
         /\ LET s == Plan[i].source
            IN  raw' = [raw EXCEPT ![s] = Append(@,
                    [call |-> call.number, policy |-> call.options, ok |-> s \notin failing])]
    /\ UNCHANGED <<pc, call, failing, handle, kept, outcome, calls>>

\* A reader or a parser throws (no memory, a malformed class file): the local
\* snapshot is unwound, the handle is not touched.
Throw ==
    /\ pc = "reading"
    /\ pc' = "idle"
    /\ raw' = Unread
    /\ cursor' = 1
    /\ outcome' = "exception"
    /\ UNCHANGED <<call, failing, handle, kept, calls>>

\* run_replay: a pure function of the store and the flags.  Nobody succeeded and
\* somebody failed: it throws.
Replay(flags, readings, request) ==
    LET good == {d \in Requested(flags) : Parsed(d, flags, readings)}
    IN  [requested |-> flags, request |-> request,
         succeeded |-> good, failed |-> Requested(flags) \ good,
         info |-> Resolve(flags, readings), raw |-> {}]

\* Mutant of Throws: only a scope of every domain can fail as a whole.
ThrowsForAll(snapshot) == snapshot.failed = Domains

Throws(snapshot) == snapshot.succeeded = {} /\ snapshot.failed # {}

\* Mutant of Assigned: the handle is filled in place, domain by domain.
AssignedInPlace(new) ==
    [new EXCEPT !.info = [d \in Domains |-> IF new.info[d] = {} THEN handle.info[d] ELSE new.info[d]]]

\* *this = std::move(new_sys).
Assigned(new) == new

\* The end of run_pipeline: Raw evidence is kept on request only.
Finish ==
    /\ pc = "reading"
    /\ \A i \in cursor .. Len(Plan) : ~Wanted(Plan[i], call.flags)
    /\ LET new == Replay(call.flags, raw, {[flags |-> call.flags, options |-> call.options]})
       IN  IF Throws(new)
           THEN /\ outcome' = "CollectionFailed"
                /\ UNCHANGED handle
           ELSE /\ outcome' = "ok"
                /\ handle' = Assigned([new EXCEPT !.raw = IF "Raw" \in call.flags THEN {raw} ELSE {}])
    /\ pc' = "idle"
    /\ raw' = Unread
    /\ cursor' = 1
    /\ UNCHANGED <<call, failing, kept, calls>>

\* The caller copies the evidence out of the snapshot, with or without the
\* request it was collected under (older stores have none).
Keep ==
    /\ pc = "idle"
    /\ kept = {}
    /\ \E readings \in handle.raw, request \in {{}, handle.request} :
         kept' = {[readings |-> readings, request |-> request]}
    /\ UNCHANGED <<pc, call, failing, cursor, raw, handle, outcome, calls>>

\* collect_from_raw: any flags, any store, no reading.
CollectFromRaw ==
    /\ pc = "idle"
    /\ calls < MaxCalls
    /\ calls' = calls + 1
    /\ \E store \in kept, flags \in Requests :
         LET new == Replay(flags, store.readings, store.request)
         IN  /\ call' = [op |-> "replay", flags |-> flags, options |-> call.options, number |-> calls + 1]
             /\ IF Throws(new)
                THEN outcome' = "CollectionFailed" /\ UNCHANGED handle
                ELSE outcome' = "ok" /\ handle' = new
    /\ UNCHANGED <<pc, failing, cursor, raw, kept>>

\* The caller makes no more calls.
Done ==
    /\ pc = "idle"
    /\ calls = MaxCalls
    /\ UNCHANGED vars

Next ==
    \/ Collect \/ Refresh \/ RefreshUnknown \/ Read \/ Throw \/ Finish
    \/ Keep \/ CollectFromRaw \/ Done

Spec == Init /\ [][Next]_vars
-----------------------------------------------------------------------------
(* What a caller relies on.                                                 *)

\* No source is read twice for one snapshot: domains that share a source were
\* made from the same reading of it, and lookups that insist on a single record
\* (topology_known) find one.
OneReading == \A s \in Sources : Len(raw[s]) <= 1

ReadingDone == pc = "reading" /\ \A i \in cursor .. Len(Plan) : ~Wanted(Plan[i], call.flags)

\* Evidence of other domains that a parser looks at only if it happens to be there.
Opportunistic(d) == IF d = "execution" THEN {"dockerenv"} ELSE IF d = "accelerator" THEN {"pci"} ELSE {}

\* For each of the 4096 scopes, a requested domain finds the sources its parser
\* looks up, also when the domain that usually reads a shared one is not requested.
SharedSupplied ==
    ReadingDone =>
        \A d \in Requested(call.flags) : \A s \in Consumes[d] \ Opportunistic(d) : raw[s] # <<>>

\* procfs.cpp:182 names three dependencies between domains and requires the reader
\* to supply the shared evidence for each; the container detection of Execution
\* looks for /.dockerenv as well.
ContainerMarkerSupplied ==
    ReadingDone /\ "Execution" \in call.flags => raw["dockerenv"] # <<>>

\* A network or storage domain that was collected is joined with PCI locality,
\* whether or not Pci was requested, live and in a replay.
LocalityJoined ==
    \A d \in {"network", "storage"} \cap handle.succeeded : \E e \in handle.info[d] : e[1] = "pci"

\* Every reading in a store was made by call number n.
MadeBy(readings, n) == \A s \in Sources : \A i \in DOMAIN readings[s] : readings[s][i].call = n

\* The domains of a snapshot come from one call.
FromOneCall(info) ==
    \A d, e \in Domains : \A x \in info[d], y \in info[e] : x[2].call = y[2].call

\* A snapshot is made by one call: no domain survives from before a refresh, not
\* even one that the refresh failed to collect, and no two domains of it come
\* from different calls.
OneCall == FromOneCall(handle.info)

Recorded(readings) == \E n \in 0 .. MaxCalls : MadeBy(readings, n)

\* The stores a snapshot can be made from hold the readings of one call each; what
\* an earlier call left, by an exception or a failed collection, is not among them.
OneCallPerStore ==
    /\ pc = "reading" => MadeBy(raw, call.number)
    /\ \A readings \in handle.raw : Recorded(readings)
    /\ \A store \in kept : Recorded(store.readings)

\* Any number of refreshes, failed ones and refreshed replays included, keep the
\* scope and the policy the caller chose; a policy is never widened.
ScopeKept ==
    [][call'.op = "refresh" /\ handle' # handle =>
        /\ handle'.requested = handle.requested
        /\ \A r \in handle.request, n \in handle'.request : n.options = r.options
        /\ \A d \in Domains, r \in handle.request : \A e \in handle'.info[d] :
             e[1] \in Restricted => e[2].policy = r.options]_vars
=============================================================================
