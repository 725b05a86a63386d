--------------------------- MODULE PipelineProofs ---------------------------
(***************************************************************************)
(* Proofs about Pipeline for every choice of scopes, failing sources and   *)
(* number of calls; then about its reading plan, for each of the 4096      *)
(* scopes: no source is read twice, and none that a requested parser looks *)
(* up is left out.                                                         *)
(***************************************************************************)
EXTENDS Pipeline, SequenceTheorems, TLAPS

\* A parser looks up sources of the reader only.
LEMMA ConsumesSources ==
  ASSUME NEW d \in Domains PROVE Consumes[d] \subseteq Sources /\ Joined(d) \subseteq Domains
<1>1. Consumes[d] \subseteq Sources
  BY DEF Domains, Consumes, Sources
<1>2. Joined(d) \subseteq Domains
  BY DEF Domains, Joined
<1> QED
  BY <1>1, <1>2

\* Whatever is parsed and joined, a domain is made from readings of the store.
LEMMA EvidenceFromStore ==
  ASSUME NEW readings, NEW flags, NEW d \in Domains, NEW x \in Resolve(flags, readings)[d]
  PROVE  \E s \in Sources : \E i \in DOMAIN readings[s] : x = <<s, readings[s][i]>>
<1>1. x \in Evidence(d, flags, readings)
  BY DEF Resolve
<1>2. PICK s \in UNION {Consumes[e] : e \in {e \in Joined(d) : Parsed(e, flags, readings)}} :
        x \in {<<s, readings[s][i]>> : i \in DOMAIN readings[s]}
  BY <1>1 DEF Evidence
<1>3. s \in Sources
  BY <1>2, ConsumesSources
<1> QED
  BY <1>2, <1>3

\* So a snapshot made from the store of one call is made by one call.
LEMMA ReplayOneCall ==
  ASSUME NEW readings, NEW n, MadeBy(readings, n), NEW flags, NEW request,
         NEW d \in Domains, NEW e \in Domains,
         NEW x \in Replay(flags, readings, request).info[d],
         NEW y \in Replay(flags, readings, request).info[e]
  PROVE  x[2].call = n /\ y[2].call = n
  BY EvidenceFromStore DEF Replay, MadeBy

\* An empty store holds the readings of any call.
LEMMA UnreadMadeBy == ASSUME NEW n PROVE MadeBy(Unread, n)
  BY DEF MadeBy, Unread

\* One more reading by call n, wherever the reader puts it.
LEMMA AppendMadeBy ==
  ASSUME NEW readings, NEW n, NEW T, NEW s, NEW x \in T, x.call = n, MadeBy(readings, n),
         DOMAIN readings = Sources, readings \in [Sources -> Seq(T)]
  PROVE  /\ MadeBy([readings EXCEPT ![s] = Append(@, x)], n)
         /\ [readings EXCEPT ![s] = Append(@, x)] \in [Sources -> Seq(T)]
<1> DEFINE new == [readings EXCEPT ![s] = Append(@, x)]
<1>1. CASE s \in Sources
  <2>1. new[s] = Append(readings[s], x) /\ readings[s] \in Seq(T)
    BY <1>1
  <2>2. \A i \in DOMAIN new[s] : new[s][i].call = n
    BY <1>1, <2>1 DEF MadeBy
  <2>3. \A t \in Sources \ {s} : new[t] = readings[t]
    OBVIOUS
  <2> QED
    BY <2>1, <2>2, <2>3 DEF MadeBy
<1>2. CASE s \notin Sources
  <2>1. new = readings
    BY <1>2
  <2> QED
    BY <2>1
<1> QED
  BY <1>1, <1>2

\* So a snapshot made from the store of one call is made by one call.
LEMMA ReplayFromOneCall ==
  ASSUME NEW readings, NEW flags, NEW request, Recorded(readings)
  PROVE  FromOneCall(Replay(flags, readings, request).info)
<1> PICK n \in 0 .. MaxCalls : MadeBy(readings, n)
  BY DEF Recorded
<1> QED
  BY ReplayOneCall DEF FromOneCall

\* The store, like everything else, has its type.
THEOREM TypeCorrect == Spec => []TypeOK
<1> USE PipelineAssumption
<1> USE DEF Policies
<1>0. Len(Plan) \in Nat /\ Unread \in [Sources -> Seq(Readings)]
  BY DEF Plan, ReadProcfs, ReadSysfs, Unread
<1>1. Init => TypeOK
  BY <1>0 DEF Init, TypeOK, NoSnapshot
<1>2. TypeOK /\ [Next]_vars => TypeOK'
  <2> SUFFICES ASSUME TypeOK, [Next]_vars PROVE TypeOK'
    OBVIOUS
  <2>1. ASSUME NEW op \in {"collect", "refresh"}, NEW flags \in SUBSET Flags,
               NEW options \in Policies, Start(op, flags, options)
        PROVE  TypeOK'
    BY <1>0, <2>1 DEF Start, TypeOK
  <2>2. CASE Collect
    BY <2>1, <2>2 DEF Collect
  <2>3. CASE Refresh
    BY <2>1, <2>3 DEF Refresh, RefreshOptions, CollectionRequest, TypeOK
  <2>4. CASE RefreshUnknown
    BY <2>4 DEF RefreshUnknown, TypeOK
  <2>5. CASE Read
    <3>1. PICK i \in cursor .. Len(Plan) :
            /\ cursor' = i + 1
            /\ raw' = [raw EXCEPT ![Plan[i].source] = Append(@,
                 [call |-> call.number, policy |-> call.options, ok |-> Plan[i].source \notin failing])]
      BY <2>5 DEF Read
    <3>2. cursor' \in 1 .. Len(Plan) + 1
      BY <1>0, <3>1 DEF TypeOK
    <3>3. [call |-> call.number, policy |-> call.options, ok |-> Plan[i].source \notin failing] \in Readings
      BY <2>5 DEF Read, TypeOK, Readings
    <3>4. ASSUME NEW x \in Readings, NEW s, raw' = [raw EXCEPT ![s] = Append(@, x)]
          PROVE  raw' \in [Sources -> Seq(Readings)]
      <4>1. CASE s \in Sources
        <5>1. Append(raw[s], x) \in Seq(Readings)
          BY <4>1 DEF TypeOK
        <5> QED
          BY <3>4, <5>1 DEF TypeOK
      <4>2. CASE s \notin Sources
        BY <3>4, <4>2 DEF TypeOK
      <4> QED
        BY <4>1, <4>2
    <3> QED
      BY <2>5, <3>1, <3>2, <3>3, <3>4 DEF Read, TypeOK
  <2>6. CASE Throw
    BY <1>0, <2>6 DEF Throw, TypeOK
  <2>7. CASE Finish
    <3> DEFINE request == {[flags |-> call.flags, options |-> call.options]}
    <3> DEFINE new == Replay(call.flags, raw, request)
    <3>1. /\ new.requested \in SUBSET Flags
          /\ new.request \in SUBSET CollectionRequest
      BY DEF TypeOK, Replay, CollectionRequest
    <3>2. CASE Throws(new)
      BY <1>0, <2>7, <3>2 DEF Finish, TypeOK
    <3>3. CASE ~Throws(new)
      <4>1. new.failed # {} => new.succeeded # {}
        BY <3>3 DEF Throws
      <4>2. /\ handle'.requested = new.requested /\ handle'.request = new.request
            /\ handle'.failed = new.failed /\ handle'.succeeded = new.succeeded
        BY <2>7, <3>3 DEF Finish, Assigned, Replay
      <4>3. /\ pc' = "idle" /\ outcome' = "ok" /\ raw' = Unread /\ cursor' = 1
            /\ UNCHANGED <<call, failing, kept, calls>>
        BY <2>7, <3>3 DEF Finish
      <4> HIDE DEF new
      <4> QED
        BY <1>0, <3>1, <4>1, <4>2, <4>3 DEF TypeOK
    <3> QED
      BY <3>2, <3>3
  <2>8. CASE Keep
    BY <2>8 DEF Keep, TypeOK
  <2>9. CASE CollectFromRaw
    BY <2>9 DEF CollectFromRaw, TypeOK, Throws, Replay
  <2>10. CASE UNCHANGED vars
    BY <2>10 DEF vars, TypeOK
  <2> QED
    BY <2>2, <2>3, <2>4, <2>5, <2>6, <2>7, <2>8, <2>9, <2>10 DEF Next, Done
<1> QED
  BY <1>1, <1>2, PTL DEF Spec

\* Every store, the one being filled, those in snapshots and those a caller kept,
\* holds the readings of one call; so does every snapshot.
StoreInv == TypeOK /\ OneCallPerStore /\ OneCall

LEMMA StoreInvAlways == Spec => []StoreInv
<1> USE PipelineAssumption
<1>1. Init => OneCallPerStore /\ OneCall
  <2>1. FromOneCall(NoSnapshot.info)
    BY DEF FromOneCall, NoSnapshot
  <2> QED
    BY <2>1, UnreadMadeBy DEF Init, NoSnapshot, OneCallPerStore, OneCall
<1>2. StoreInv /\ [Next]_vars => OneCallPerStore' /\ OneCall'
  <2> SUFFICES ASSUME StoreInv, [Next]_vars PROVE OneCallPerStore' /\ OneCall'
    OBVIOUS
  <2>0. call.number \in 0 .. MaxCalls
    BY DEF StoreInv, TypeOK
  <2>1. ASSUME NEW op, NEW flags, NEW options, Start(op, flags, options)
        PROVE  OneCallPerStore' /\ OneCall'
    <3>1. MadeBy(raw, call.number)'
      BY <2>1, UnreadMadeBy DEF Start
    <3> QED
      BY <2>1, <3>1 DEF Start, StoreInv, OneCallPerStore, OneCall
  <2>2. CASE Collect
    BY <2>1, <2>2 DEF Collect
  <2>3. CASE Refresh
    BY <2>1, <2>3 DEF Refresh
  <2>4. CASE RefreshUnknown
    BY <2>4 DEF RefreshUnknown, StoreInv, OneCallPerStore, OneCall
  <2>5. CASE Read
    <3>1. PICK s : raw' = [raw EXCEPT ![s] = Append(@,
                     [call |-> call.number, policy |-> call.options, ok |-> s \notin failing])]
      BY <2>5 DEF Read
    <3> DEFINE x == [call |-> call.number, policy |-> call.options, ok |-> s \notin failing]
    <3>2. x \in Readings /\ x.call = call.number
      BY <2>5 DEF Read, StoreInv, TypeOK, Readings
    <3>3. MadeBy(raw', call.number)
      BY <2>5, <3>1, <3>2, AppendMadeBy DEF Read, StoreInv, TypeOK, OneCallPerStore
    <3> QED
      BY <2>5, <3>3 DEF Read, StoreInv, OneCallPerStore, OneCall
  <2>6. CASE Throw
    BY <2>6, UnreadMadeBy DEF Throw, StoreInv, OneCallPerStore, OneCall
  <2>7. CASE Finish
    <3> DEFINE request == {[flags |-> call.flags, options |-> call.options]}
    <3> DEFINE new == Replay(call.flags, raw, request)
    <3>1. Recorded(raw)
      BY <2>0, <2>7 DEF Finish, Recorded, StoreInv, OneCallPerStore
    <3>2. FromOneCall(new.info)
      BY <3>1, ReplayFromOneCall
    <3>3. \/ handle' = handle
          \/ handle'.info = new.info /\ handle'.raw \subseteq {raw}
      BY <2>7 DEF Finish, Assigned, Replay
    <3>4. OneCall'
      BY <3>2, <3>3 DEF StoreInv, OneCall
    <3>5. \A readings \in handle'.raw : Recorded(readings)
      BY <3>1, <3>3 DEF StoreInv, OneCallPerStore
    <3>6. pc' = "idle" /\ kept' = kept
      BY <2>7 DEF Finish
    <3> QED
      BY <3>4, <3>5, <3>6 DEF StoreInv, OneCallPerStore
  <2>8. CASE Keep
    BY <2>8 DEF Keep, StoreInv, OneCallPerStore, OneCall
  <2>9. CASE CollectFromRaw
    <3>1. PICK store \in kept, flags \in Requests :
            \/ handle' = handle
            \/ handle' = Replay(flags, store.readings, store.request)
      BY <2>9 DEF CollectFromRaw
    <3>2. FromOneCall(Replay(flags, store.readings, store.request).info)
      BY <3>1, ReplayFromOneCall DEF StoreInv, OneCallPerStore
    <3>3. OneCall'
      BY <3>1, <3>2 DEF StoreInv, OneCall
    <3>4. \A readings \in handle'.raw : Recorded(readings)
      BY <3>1 DEF StoreInv, OneCallPerStore, Replay
    <3>5. pc' = "idle" /\ kept' = kept
      BY <2>9 DEF CollectFromRaw, StoreInv, OneCallPerStore
    <3> QED
      BY <3>3, <3>4, <3>5 DEF StoreInv, OneCallPerStore
  <2>10. CASE UNCHANGED vars
    BY <2>10 DEF vars, StoreInv, OneCallPerStore, OneCall
  <2> QED
    BY <2>2, <2>3, <2>4, <2>5, <2>6, <2>7, <2>8, <2>9, <2>10 DEF Next, Done
<1> QED
  BY <1>1, <1>2, TypeCorrect, PTL DEF Spec, StoreInv

\* No snapshot mixes the readings of two calls.
THEOREM OneCallAlways == Spec => []OneCall
  BY StoreInvAlways, PTL DEF StoreInv

\* Nor does a store a snapshot can be made from, whatever a failed or interrupted
\* call left behind.
THEOREM OneCallPerStoreAlways == Spec => []OneCallPerStore
  BY StoreInvAlways, PTL DEF StoreInv

\* While a call reads, every reading follows its policy, and a refresh works under
\* the scope and the policy of the snapshot it will replace.
ScopeInv ==
  /\ \A r, t \in handle.request : r = t
  /\ \A store \in kept : \A r, t \in store.request : r = t
  /\ pc = "reading" =>
       \A s \in Sources : \A i \in DOMAIN raw[s] : raw[s][i].policy = call.options
  /\ pc = "reading" /\ call.op = "refresh" =>
       /\ call.flags = handle.requested
       /\ \A r \in handle.request : r.options = call.options

LEMMA ScopeInvAlways == Spec => []ScopeInv
<1> USE PipelineAssumption
<1>1. Init => ScopeInv
  BY DEF Init, ScopeInv, NoSnapshot
<1>2. TypeOK /\ ScopeInv /\ [Next]_vars => ScopeInv'
  <2> SUFFICES ASSUME TypeOK, ScopeInv, [Next]_vars PROVE ScopeInv'
    OBVIOUS
  <2>0. \A s \in Sources : DOMAIN Unread[s] = {}
    BY DEF Unread
  <2>2. CASE Collect
    BY <2>0, <2>2 DEF Collect, Start, ScopeInv
  <2>3. CASE Refresh
    BY <2>0, <2>3 DEF Refresh, RefreshOptions, Start, ScopeInv
  <2>4. CASE RefreshUnknown
    BY <2>4 DEF RefreshUnknown, ScopeInv
  <2>5. CASE Read
    <3>1. PICK t : raw' = [raw EXCEPT ![t] = Append(@,
                     [call |-> call.number, policy |-> call.options, ok |-> t \notin failing])]
      BY <2>5 DEF Read
    <3>2. \A s \in Sources : \A i \in DOMAIN raw'[s] : raw'[s][i].policy = call.options
      <4> SUFFICES ASSUME NEW s \in Sources, NEW i \in DOMAIN raw'[s]
                   PROVE  raw'[s][i].policy = call.options
        OBVIOUS
      <4>1. raw[s] \in Seq(Readings)
        BY DEF TypeOK
      <4>2. \A j \in DOMAIN raw[s] : raw[s][j].policy = call.options
        BY <2>5 DEF Read, ScopeInv
      <4>3. CASE s = t
        BY <3>1, <4>1, <4>2, <4>3 DEF TypeOK
      <4>4. CASE s # t
        BY <3>1, <4>2, <4>4 DEF TypeOK
      <4> QED
        BY <4>3, <4>4
    <3> QED
      BY <2>5, <3>2 DEF Read, ScopeInv
  <2>6. CASE Throw
    BY <2>6 DEF Throw, ScopeInv
  <2>7. CASE Finish
    BY <2>7 DEF Finish, Assigned, Replay, ScopeInv
  <2>8. CASE Keep
    BY <2>8 DEF Keep, ScopeInv
  <2>9. CASE CollectFromRaw
    BY <2>9 DEF CollectFromRaw, Replay, ScopeInv
  <2>10. CASE UNCHANGED vars
    BY <2>10 DEF vars, ScopeInv
  <2> QED
    BY <2>2, <2>3, <2>4, <2>5, <2>6, <2>7, <2>8, <2>9, <2>10 DEF Next, Done
<1> QED
  BY <1>1, <1>2, TypeCorrect, PTL DEF Spec

\* No sequence of refreshes, failed ones included, changes the scope or the policy
\* of the snapshots: restricted readers never see another policy.
THEOREM ScopeKeptAlways == Spec => ScopeKept
<1> DEFINE Step ==
      call'.op = "refresh" /\ handle' # handle =>
        /\ handle'.requested = handle.requested
        /\ \A r \in handle.request, n \in handle'.request : n.options = r.options
        /\ \A d \in Domains, r \in handle.request : \A e \in handle'.info[d] :
             e[1] \in Restricted => e[2].policy = r.options
<1>1. ScopeInv /\ [Next]_vars => Step
  <2> SUFFICES ASSUME ScopeInv, [Next]_vars, call'.op = "refresh", handle' # handle PROVE Step
    OBVIOUS
  <2>1. Finish
    BY DEF Next, vars, Collect, Refresh, RefreshUnknown, Start, Read, Throw, Keep, CollectFromRaw, Done
  <2> DEFINE new == Replay(call.flags, raw, {[flags |-> call.flags, options |-> call.options]})
  <2>2. /\ handle'.info = new.info /\ handle'.requested = call.flags
        /\ handle'.request = {[flags |-> call.flags, options |-> call.options]}
    BY <2>1 DEF Finish, Assigned, Replay
  <2>3. call.flags = handle.requested /\ \A r \in handle.request : r.options = call.options
    BY <2>1 DEF Finish, ScopeInv
  <2>4. ASSUME NEW d \in Domains, NEW e \in handle'.info[d] PROVE e[2].policy = call.options
    BY <2>1, <2>2, <2>4, EvidenceFromStore DEF Finish, ScopeInv, Replay
  <2>5. \A r \in handle.request, n \in handle'.request : n.options = r.options
    BY <2>2, <2>3
  <2>6. \A d \in Domains, r \in handle.request : \A e \in handle'.info[d] : e[2].policy = r.options
    BY <2>3, <2>4
  <2> QED
    BY <2>2, <2>3, <2>5, <2>6
<1> QED
  BY <1>1, ScopeInvAlways, PTL DEF Spec, ScopeKept

-----------------------------------------------------------------------------
(* The reading plan.                                                       *)

\* The rows of read_procfs and then of read_sysfs, with their sources.
LEMMA PlanSources ==
  /\ Len(Plan) = 34
  /\ DOMAIN Plan = 1 .. 34
  /\ Plan[1].source = "cpuinfo" /\ Plan[2].source = "identity"
  /\ Plan[3].source = "dockerenv" /\ Plan[4].source = "cpuinfo"
  /\ Plan[5].source = "meminfo" /\ Plan[6].source = "udevadm"
  /\ Plan[7].source = "backends" /\ Plan[8].source = "mig"
  /\ Plan[9].source = "nvidia_smi" /\ Plan[10].source = "lspci"
  /\ Plan[11].source = "addresses" /\ Plan[12].source = "mountinfo"
  /\ Plan[13].source = "filesystems" /\ Plan[14].source = "lspci"
  /\ Plan[15].source = "nvcc" /\ Plan[16].source = "backends"
  /\ Plan[17].source = "nvidia_smi" /\ Plan[18].source = "toolchain"
  /\ Plan[19].source = "limits" /\ Plan[20].source = "process"
  /\ Plan[21].source = "cpu" /\ Plan[22].source = "numa"
  /\ Plan[23].source = "net" /\ Plan[24].source = "rdma"
  /\ Plan[25].source = "pci" /\ Plan[26].source = "block"
  /\ Plan[27].source = "connections" /\ Plan[28].source = "dmi"
  /\ Plan[29].source = "hypervisor" /\ Plan[30].source = "edac"
  /\ Plan[31].source = "health" /\ Plan[32].source = "hwmon"
  /\ Plan[33].source = "thermal" /\ Plan[34].source = "thermal"
  BY DEF Plan, ReadProcfs, ReadSysfs, Row

\* Two rows of one source are never wanted together: the later one is for the
\* scopes in which the earlier one does not read.
LEMMA Exclusive ==
  ASSUME NEW i \in DOMAIN Plan, NEW j \in DOMAIN Plan, i < j, Plan[i].source = Plan[j].source
  PROVE  Plan[i].any = Plan[j].unless
<1>1. \/ i = 1 /\ j = 4
      \/ i = 10 /\ j = 14
      \/ i = 7 /\ j = 16
      \/ i = 9 /\ j = 17
      \/ i = 33 /\ j = 34
  <2>0. i \in 1 .. 34 /\ j \in 1 .. 34
    BY PlanSources
  <2>1. CASE j \in 1 .. 9
    BY <2>0, <2>1, PlanSources
  <2>2. CASE j \in 10 .. 15
    BY <2>0, <2>2, PlanSources
  <2>3. CASE j \in 16 .. 20
    BY <2>0, <2>3, PlanSources
  <2>4. CASE j \in 21 .. 27
    BY <2>0, <2>4, PlanSources
  <2>5. CASE j \in 28 .. 34
    BY <2>0, <2>5, PlanSources
  <2> QED
    BY ONLY <2>0, <2>1, <2>2, <2>3, <2>4, <2>5
<1>2. /\ Plan[1].any = {"Platform"} /\ Plan[4].unless = {"Platform"}
      /\ Plan[10].any = {"Network"} /\ Plan[14].unless = {"Network"}
      /\ Plan[7].any = {"Accelerator"} /\ Plan[16].unless = {"Accelerator"}
      /\ Plan[9].any = {"Accelerator"} /\ Plan[17].unless = {"Accelerator"}
  BY DEF Plan, ReadProcfs, ReadSysfs, Row
<1>3. Plan[33].any = {"Sensors"} /\ Plan[34].unless = {"Sensors"}
  BY DEF Plan, ReadProcfs, ReadSysfs, Row
<1> QED
  BY <1>1, <1>2, <1>3

\* A source is wanted by at most one row, whatever the scope.
LEMMA WantedOnce ==
  ASSUME NEW i \in DOMAIN Plan, NEW j \in DOMAIN Plan, Plan[i].source = Plan[j].source,
         NEW flags, Wanted(Plan[i], flags), Wanted(Plan[j], flags)
  PROVE  i = j
<1>1. i \in Nat /\ j \in Nat
  BY PlanSources
<1>2. ~(i < j) /\ ~(j < i)
  BY Exclusive DEF Wanted
<1> QED
  BY <1>1, <1>2

\* What a parser of the scope looks up, some row reads: one without conditions, or
\* the one of another domain that reads it first.
LEMMA Supplied ==
  ASSUME NEW flags \in SUBSET Flags, NEW d \in Requested(flags),
         NEW s \in Consumes[d] \ Opportunistic(d)
  PROVE  \E i \in DOMAIN Plan : Plan[i].source = s /\ Wanted(Plan[i], flags)
<1> DEFINE Reads(t) == \E i \in DOMAIN Plan : Plan[i].source = t /\ Wanted(Plan[i], flags)
<1>1. ASSUME NEW i \in DOMAIN Plan, NEW f \in Plan[i].any \cap flags, Plan[i].unless = {}
      PROVE  Reads(Plan[i].source)
  BY <1>1 DEF Wanted, Has
<1>2. ASSUME NEW t, NEW i \in DOMAIN Plan, NEW j \in DOMAIN Plan, i < j,
             Plan[i].source = t, Plan[j].source = t, Plan[i].unless = {},
             NEW f \in Plan[j].any \cap flags
      PROVE  Reads(t)
  BY <1>2, Exclusive DEF Wanted, Has
<1>3. CASE d = "platform"
  <2>1. "Platform" \in flags /\ s \in {"cpuinfo", "identity", "dmi", "hypervisor"}
    BY <1>3 DEF Requested, FlagOf, Domains, Consumes, Opportunistic
  <2>2. \A t \in {"cpuinfo", "identity", "dmi", "hypervisor"} : Reads(t)
    <3>1. \A i \in {1, 2, 28, 29} : "Platform" \in Plan[i].any /\ Plan[i].unless = {}
      BY DEF Plan, ReadProcfs, ReadSysfs, Row
    <3>2. \A i \in {1, 2, 28, 29} : i \in DOMAIN Plan
      BY PlanSources
    <3>3. \A i \in {1, 2, 28, 29} : Reads(Plan[i].source)
      BY ONLY <1>1, <2>1, <3>1, <3>2
    <3> QED
      BY <3>3, PlanSources
  <2> QED
    BY <2>1, <2>2
<1>4. CASE d = "cpu"
  <2>1. "Cpu" \in flags /\ s \in {"cpuinfo", "cpu", "numa", "thermal"}
    BY <1>4 DEF Requested, FlagOf, Domains, Consumes, Opportunistic
  <2>2. \A t \in {"cpu", "numa"} : Reads(t)
    <3>1. \A i \in {21, 22} : "Cpu" \in Plan[i].any /\ Plan[i].unless = {}
      BY DEF Plan, ReadProcfs, ReadSysfs, Row
    <3>2. \A i \in {21, 22} : i \in DOMAIN Plan
      BY PlanSources
    <3>3. \A i \in {21, 22} : Reads(Plan[i].source)
      BY ONLY <1>1, <2>1, <3>1, <3>2
    <3> QED
      BY <3>3, PlanSources
  <2>3. Reads("cpuinfo")
    <3>1. "Cpu" \in Plan[4].any /\ Plan[1].unless = {}
      BY DEF Plan, ReadProcfs, ReadSysfs, Row
    <3>2. /\ 1 \in DOMAIN Plan /\ Plan[1].source = "cpuinfo"
          /\ 4 \in DOMAIN Plan /\ Plan[4].source = "cpuinfo"
      BY PlanSources
    <3> QED
      BY ONLY <1>2, <2>1, <3>1, <3>2
  <2>4. Reads("thermal")
    <3>1. "Cpu" \in Plan[34].any /\ Plan[33].unless = {}
      BY DEF Plan, ReadProcfs, ReadSysfs, Row
    <3>2. /\ 33 \in DOMAIN Plan /\ Plan[33].source = "thermal"
          /\ 34 \in DOMAIN Plan /\ Plan[34].source = "thermal"
      BY PlanSources
    <3> QED
      BY ONLY <1>2, <2>1, <3>1, <3>2
  <2> QED
    BY <2>1, <2>2, <2>3, <2>4
<1>5. CASE d = "memory"
  <2>1. "Memory" \in flags /\ s \in {"meminfo", "udevadm", "numa", "edac"}
    BY <1>5 DEF Requested, FlagOf, Domains, Consumes, Opportunistic
  <2>2. \A t \in {"meminfo", "udevadm", "numa", "edac"} : Reads(t)
    <3>1. \A i \in {5, 6, 22, 30} : "Memory" \in Plan[i].any /\ Plan[i].unless = {}
      BY DEF Plan, ReadProcfs, ReadSysfs, Row
    <3>2. \A i \in {5, 6, 22, 30} : i \in DOMAIN Plan
      BY PlanSources
    <3>3. \A i \in {5, 6, 22, 30} : Reads(Plan[i].source)
      BY ONLY <1>1, <2>1, <3>1, <3>2
    <3> QED
      BY <3>3, PlanSources
  <2> QED
    BY <2>1, <2>2
<1>6. CASE d = "pci"
  <2>1. "Pci" \in flags /\ s \in {"lspci", "pci"}
    BY <1>6 DEF Requested, FlagOf, Domains, Consumes, Opportunistic
  <2>2. \A t \in {"pci"} : Reads(t)
    <3>1. \A i \in {25} : "Pci" \in Plan[i].any /\ Plan[i].unless = {}
      BY DEF Plan, ReadProcfs, ReadSysfs, Row
    <3>2. \A i \in {25} : i \in DOMAIN Plan
      BY PlanSources
    <3>3. \A i \in {25} : Reads(Plan[i].source)
      BY ONLY <1>1, <2>1, <3>1, <3>2
    <3> QED
      BY <3>3, PlanSources
  <2>3. Reads("lspci")
    <3>1. "Pci" \in Plan[14].any /\ Plan[10].unless = {}
      BY DEF Plan, ReadProcfs, ReadSysfs, Row
    <3>2. /\ 10 \in DOMAIN Plan /\ Plan[10].source = "lspci"
          /\ 14 \in DOMAIN Plan /\ Plan[14].source = "lspci"
      BY PlanSources
    <3> QED
      BY ONLY <1>2, <2>1, <3>1, <3>2
  <2> QED
    BY <2>1, <2>2, <2>3
<1>7. CASE d = "network"
  <2>1. "Network" \in flags /\ s \in {"net", "rdma", "addresses"}
    BY <1>7 DEF Requested, FlagOf, Domains, Consumes, Opportunistic
  <2>2. \A t \in {"net", "rdma", "addresses"} : Reads(t)
    <3>1. \A i \in {23, 24, 11} : "Network" \in Plan[i].any /\ Plan[i].unless = {}
      BY DEF Plan, ReadProcfs, ReadSysfs, Row
    <3>2. \A i \in {23, 24, 11} : i \in DOMAIN Plan
      BY PlanSources
    <3>3. \A i \in {23, 24, 11} : Reads(Plan[i].source)
      BY ONLY <1>1, <2>1, <3>1, <3>2
    <3> QED
      BY <3>3, PlanSources
  <2> QED
    BY <2>1, <2>2
<1>8. CASE d = "accelerator"
  <2>1. "Accelerator" \in flags /\ s \in {"backends", "mig", "nvidia_smi"}
    BY <1>8 DEF Requested, FlagOf, Domains, Consumes, Opportunistic
  <2>2. \A t \in {"backends", "mig", "nvidia_smi"} : Reads(t)
    <3>1. \A i \in {7, 8, 9} : "Accelerator" \in Plan[i].any /\ Plan[i].unless = {}
      BY DEF Plan, ReadProcfs, ReadSysfs, Row
    <3>2. \A i \in {7, 8, 9} : i \in DOMAIN Plan
      BY PlanSources
    <3>3. \A i \in {7, 8, 9} : Reads(Plan[i].source)
      BY ONLY <1>1, <2>1, <3>1, <3>2
    <3> QED
      BY <3>3, PlanSources
  <2> QED
    BY <2>1, <2>2
<1>9. CASE d = "storage"
  <2>1. "Storage" \in flags /\ s \in {"block", "connections", "mountinfo", "filesystems"}
    BY <1>9 DEF Requested, FlagOf, Domains, Consumes, Opportunistic
  <2>2. \A t \in {"block", "connections", "mountinfo", "filesystems"} : Reads(t)
    <3>1. \A i \in {26, 27, 12, 13} : "Storage" \in Plan[i].any /\ Plan[i].unless = {}
      BY DEF Plan, ReadProcfs, ReadSysfs, Row
    <3>2. \A i \in {26, 27, 12, 13} : i \in DOMAIN Plan
      BY PlanSources
    <3>3. \A i \in {26, 27, 12, 13} : Reads(Plan[i].source)
      BY ONLY <1>1, <2>1, <3>1, <3>2
    <3> QED
      BY <3>3, PlanSources
  <2> QED
    BY <2>1, <2>2
<1>10. CASE d = "storage_health"
  <2>1. "StorageHealth" \in flags /\ s \in {"health"}
    BY <1>10 DEF Requested, FlagOf, Domains, Consumes, Opportunistic
  <2>2. \A t \in {"health"} : Reads(t)
    <3>1. \A i \in {31} : "StorageHealth" \in Plan[i].any /\ Plan[i].unless = {}
      BY DEF Plan, ReadProcfs, ReadSysfs, Row
    <3>2. \A i \in {31} : i \in DOMAIN Plan
      BY PlanSources
    <3>3. \A i \in {31} : Reads(Plan[i].source)
      BY ONLY <1>1, <2>1, <3>1, <3>2
    <3> QED
      BY <3>3, PlanSources
  <2> QED
    BY <2>1, <2>2
<1>11. CASE d = "software"
  <2>1. "Software" \in flags /\ s \in {"nvcc", "backends", "nvidia_smi", "toolchain"}
    BY <1>11 DEF Requested, FlagOf, Domains, Consumes, Opportunistic
  <2>2. \A t \in {"nvcc", "toolchain"} : Reads(t)
    <3>1. \A i \in {15, 18} : "Software" \in Plan[i].any /\ Plan[i].unless = {}
      BY DEF Plan, ReadProcfs, ReadSysfs, Row
    <3>2. \A i \in {15, 18} : i \in DOMAIN Plan
      BY PlanSources
    <3>3. \A i \in {15, 18} : Reads(Plan[i].source)
      BY ONLY <1>1, <2>1, <3>1, <3>2
    <3> QED
      BY <3>3, PlanSources
  <2>3. Reads("backends")
    <3>1. "Software" \in Plan[16].any /\ Plan[7].unless = {}
      BY DEF Plan, ReadProcfs, ReadSysfs, Row
    <3>2. /\ 7 \in DOMAIN Plan /\ Plan[7].source = "backends"
          /\ 16 \in DOMAIN Plan /\ Plan[16].source = "backends"
      BY PlanSources
    <3> QED
      BY ONLY <1>2, <2>1, <3>1, <3>2
  <2>4. Reads("nvidia_smi")
    <3>1. "Software" \in Plan[17].any /\ Plan[9].unless = {}
      BY DEF Plan, ReadProcfs, ReadSysfs, Row
    <3>2. /\ 9 \in DOMAIN Plan /\ Plan[9].source = "nvidia_smi"
          /\ 17 \in DOMAIN Plan /\ Plan[17].source = "nvidia_smi"
      BY PlanSources
    <3> QED
      BY ONLY <1>2, <2>1, <3>1, <3>2
  <2> QED
    BY <2>1, <2>2, <2>3, <2>4
<1>12. CASE d = "execution"
  <2>1. "Execution" \in flags /\ s \in {"limits", "process"}
    BY <1>12 DEF Requested, FlagOf, Domains, Consumes, Opportunistic
  <2>2. \A t \in {"limits", "process"} : Reads(t)
    <3>1. \A i \in {19, 20} : "Execution" \in Plan[i].any /\ Plan[i].unless = {}
      BY DEF Plan, ReadProcfs, ReadSysfs, Row
    <3>2. \A i \in {19, 20} : i \in DOMAIN Plan
      BY PlanSources
    <3>3. \A i \in {19, 20} : Reads(Plan[i].source)
      BY ONLY <1>1, <2>1, <3>1, <3>2
    <3> QED
      BY <3>3, PlanSources
  <2> QED
    BY <2>1, <2>2
<1>13. CASE d = "sensors"
  <2>1. "Sensors" \in flags /\ s \in {"hwmon", "thermal"}
    BY <1>13 DEF Requested, FlagOf, Domains, Consumes, Opportunistic
  <2>2. \A t \in {"hwmon", "thermal"} : Reads(t)
    <3>1. \A i \in {32, 33} : "Sensors" \in Plan[i].any /\ Plan[i].unless = {}
      BY DEF Plan, ReadProcfs, ReadSysfs, Row
    <3>2. \A i \in {32, 33} : i \in DOMAIN Plan
      BY PlanSources
    <3>3. \A i \in {32, 33} : Reads(Plan[i].source)
      BY ONLY <1>1, <2>1, <3>1, <3>2
    <3> QED
      BY <3>3, PlanSources
  <2> QED
    BY <2>1, <2>2
<1> QED
  BY <1>3, <1>4, <1>5, <1>6, <1>7, <1>8, <1>9, <1>10, <1>11, <1>12, <1>13 DEF Requested, Domains

-----------------------------------------------------------------------------
\* What has been read is what the rows so far wanted, once.
ReadOf(s, n) == \E i \in 1 .. n : Plan[i].source = s /\ Wanted(Plan[i], call.flags)

ReadInv ==
  /\ pc = "idle" => raw = Unread
  /\ pc = "reading" =>
       \A s \in Sources : Len(raw[s]) <= 1 /\ (raw[s] # <<>> <=> ReadOf(s, cursor - 1))

LEMMA ReadKeepsReadInv == TypeOK /\ ReadInv /\ Read => ReadInv'
<1> SUFFICES ASSUME TypeOK, ReadInv, Read PROVE ReadInv'
  OBVIOUS
<1>1. PICK i \in cursor .. Len(Plan) :
        /\ Wanted(Plan[i], call.flags)
        /\ \A j \in cursor .. i - 1 : ~Wanted(Plan[j], call.flags)
        /\ cursor' = i + 1
        /\ raw' = [raw EXCEPT ![Plan[i].source] = Append(@,
             [call |-> call.number, policy |-> call.options, ok |-> Plan[i].source \notin failing])]
  BY DEF Read
<1>2. pc = "reading" /\ pc' = "reading" /\ call' = call
  BY DEF Read
<1>3. cursor \in Nat \ {0} /\ i \in DOMAIN Plan /\ 1 .. cursor - 1 \subseteq DOMAIN Plan /\ i \in Nat
  <2>1. cursor \in 1 .. 35 /\ Len(Plan) = 34 /\ DOMAIN Plan = 1 .. 34
    BY PlanSources DEF TypeOK
  <2> QED
    BY ONLY <1>1, <2>1
<1>4. ASSUME NEW s \in Sources, s # Plan[i].source
      PROVE  Len(raw'[s]) <= 1 /\ (raw'[s] # <<>> <=> ReadOf(s, cursor - 1)')
  <2>1. raw'[s] = raw[s]
    BY <1>1, <1>4 DEF TypeOK
  <2>2. ReadOf(s, i) <=> ReadOf(s, cursor - 1)
    <3>1. \A j \in 1 .. i : j \in 1 .. cursor - 1 \/ j \in cursor .. i - 1 \/ j = i
      BY <1>3
    <3>2. \A j \in 1 .. cursor - 1 : j \in 1 .. i
      BY <1>1, <1>3
    <3> QED
      BY <1>1, <1>4, <3>1, <3>2 DEF ReadOf
  <2>3. cursor' - 1 = i
    BY <1>1, <1>3
  <2>4. ReadOf(s, cursor - 1)' <=> ReadOf(s, i)
    BY <1>2, <2>3 DEF ReadOf
  <2> QED
    BY <1>2, <2>1, <2>2, <2>4 DEF ReadInv
<1>5. ASSUME NEW s \in Sources, s = Plan[i].source
      PROVE  Len(raw'[s]) <= 1 /\ (raw'[s] # <<>> <=> ReadOf(s, cursor - 1)')
  <2>1. ~ReadOf(s, cursor - 1)
    <3>1. \A j \in 1 .. cursor - 1 : j # i
      BY <1>1, <1>3
    <3> QED
      BY <1>1, <1>3, <1>5, <3>1, WantedOnce DEF ReadOf
  <2>2. raw[s] = <<>>
    BY <1>2, <2>1 DEF ReadInv
  <2>3. Len(raw'[s]) = 1 /\ raw'[s] # <<>>
    BY <1>1, <1>5, <2>2 DEF TypeOK
  <2>4. cursor' - 1 = i
    BY <1>1, <1>3
  <2>5. i \in 1 .. i
    BY <1>1, <1>3
  <2>6. ReadOf(s, cursor - 1)'
    BY <1>1, <1>2, <1>5, <2>4, <2>5 DEF ReadOf
  <2> QED
    BY <2>3, <2>6
<1> QED
  BY <1>2, <1>4, <1>5 DEF ReadInv

LEMMA ReadInvAlways == Spec => []ReadInv
<1>1. Init => ReadInv
  BY DEF Init, ReadInv
<1>2. TypeOK /\ ReadInv /\ [Next]_vars => ReadInv'
  <2> SUFFICES ASSUME TypeOK, ReadInv, [Next]_vars PROVE ReadInv'
    OBVIOUS
  <2>1. ASSUME NEW op, NEW flags, NEW options, Start(op, flags, options) PROVE ReadInv'
    <3>1. pc' = "reading" /\ cursor' = 1 /\ raw' = Unread
      BY <2>1 DEF Start
    <3>2. \A s \in Sources : ~ReadOf(s, cursor - 1)'
      BY <3>1 DEF ReadOf
    <3>3. \A s \in Sources : Len(raw'[s]) = 0 /\ raw'[s] = <<>>
      BY <3>1 DEF Unread
    <3> QED
      BY <3>1, <3>2, <3>3 DEF ReadInv
  <2>2. CASE Collect
    BY <2>1, <2>2 DEF Collect
  <2>3. CASE Refresh
    BY <2>1, <2>3 DEF Refresh
  <2>4. CASE RefreshUnknown
    BY <2>4 DEF RefreshUnknown, ReadInv
  <2>5. CASE Read
    BY <2>5, ReadKeepsReadInv
  <2>6. CASE Throw
    BY <2>6 DEF Throw, ReadInv
  <2>7. CASE Finish
    BY <2>7 DEF Finish, ReadInv
  <2>8. CASE Keep
    BY <2>8 DEF Keep, ReadInv
  <2>9. CASE CollectFromRaw
    BY <2>9 DEF CollectFromRaw, ReadInv
  <2>10. CASE UNCHANGED vars
    BY <2>10 DEF vars, ReadInv, ReadOf
  <2> QED
    BY <2>2, <2>3, <2>4, <2>5, <2>6, <2>7, <2>8, <2>9, <2>10 DEF Next, Done
<1> QED
  BY <1>1, <1>2, TypeCorrect, PTL DEF Spec

\* No source is read twice for one snapshot, in any scope.
THEOREM OneReadingAlways == Spec => []OneReading
<1>1. ReadInv /\ TypeOK => OneReading
  <2>1. ASSUME NEW s \in Sources PROVE Len(Unread[s]) <= 1
    BY DEF Unread
  <2> QED
    BY <2>1 DEF ReadInv, TypeOK, OneReading
<1> QED
  BY <1>1, ReadInvAlways, TypeCorrect, PTL

\* Every requested parser finds the sources it looks up, in any scope.
THEOREM SharedSuppliedAlways == Spec => []SharedSupplied
<1>1. TypeOK /\ ReadInv => SharedSupplied
  <2> SUFFICES ASSUME TypeOK, ReadInv, ReadingDone,
                      NEW d \in Requested(call.flags), NEW s \in Consumes[d] \ Opportunistic(d)
               PROVE  raw[s] # <<>>
    BY DEF SharedSupplied
  <2>1. call.flags \in SUBSET Flags
    BY DEF TypeOK
  <2>2. PICK i \in DOMAIN Plan : Plan[i].source = s /\ Wanted(Plan[i], call.flags)
    BY <2>1, Supplied
  <2>3. i \in 1 .. cursor - 1
    <3>1. cursor \in 1 .. 35 /\ Len(Plan) = 34 /\ i \in 1 .. 34
      BY PlanSources DEF TypeOK
    <3>2. i \notin cursor .. Len(Plan)
      BY <2>2 DEF ReadingDone
    <3> QED
      BY ONLY <3>1, <3>2
  <2>4. ReadOf(s, cursor - 1)
    BY <2>2, <2>3 DEF ReadOf
  <2>5. s \in Sources
    BY ConsumesSources DEF Requested
  <2> QED
    BY <2>4, <2>5 DEF ReadInv, ReadingDone
<1> QED
  BY <1>1, ReadInvAlways, TypeCorrect, PTL
-----------------------------------------------------------------------------
\* Sources without which no network or storage domain is parsed.
Neighbours == {"net", "rdma", "block", "connections", "mountinfo"}

\* A store that has one of them has PCI records as well.
WithPci(readings) ==
  (\E s \in Neighbours : readings[s] # <<>>) => readings["pci"] # <<>> /\ DOMAIN readings["pci"] # {}

LocalityInv ==
  /\ \A readings \in handle.raw : WithPci(readings)
  /\ \A store \in kept : WithPci(store.readings)
  /\ LocalityJoined

\* The rows that read them.
LEMMA NeighbourRows ==
  ASSUME NEW i \in DOMAIN Plan, Plan[i].source \in Neighbours PROVE i \in {12, 23, 24, 26, 27}
<1>1. i \in 1 .. 34
  BY PlanSources
<1>2. Plan[i].source \in {"net", "rdma", "block", "connections", "mountinfo"}
  BY DEF Neighbours
<1> QED
  BY <1>1, <1>2, PlanSources

\* What a reader of neighbours leaves, when it is through.
LEMMA ReadWithPci ==
  ASSUME TypeOK, ReadInv, ReadingDone PROVE WithPci(raw)
<1> SUFFICES ASSUME NEW s \in Neighbours, raw[s] # <<>>
             PROVE  raw["pci"] # <<>> /\ DOMAIN raw["pci"] # {}
  BY DEF WithPci
<1>1. s \in Sources /\ "pci" \in Sources
  BY DEF Neighbours, Sources
<1>2. PICK i \in 1 .. cursor - 1 : Plan[i].source = s /\ Wanted(Plan[i], call.flags)
  BY <1>1 DEF ReadInv, ReadingDone, ReadOf
<1>3. cursor \in 1 .. 35 /\ Len(Plan) = 34
  BY PlanSources DEF TypeOK
<1>4. i \in {12, 23, 24, 26, 27}
  <2>1. i \in 1 .. 34
    BY ONLY <1>2, <1>3
  <2> QED
    BY <1>2, <2>1, NeighbourRows, PlanSources
<1>5. Plan[i].any \subseteq {"Network", "Storage", "StorageHealth"}
  <2>1. /\ Plan[12].any = {"Storage"} /\ Plan[23].any = {"Network"} /\ Plan[24].any = {"Network"}
        /\ Plan[26].any = {"Storage", "StorageHealth"} /\ Plan[27].any = {"Storage", "StorageHealth"}
    BY DEF Plan, ReadProcfs, ReadSysfs, Row
  <2> QED
    BY <1>4, <2>1
<1>6. /\ {"Network", "Storage", "StorageHealth"} \subseteq Plan[25].any
      /\ Plan[25].unless = {}
      /\ Plan[25].source = "pci"
  BY DEF Plan, ReadProcfs, ReadSysfs, Row
<1>7. Wanted(Plan[25], call.flags)
  BY <1>2, <1>5, <1>6 DEF Wanted, Has
<1>8. 25 \in 1 .. cursor - 1
  <2>1. 25 \notin cursor .. Len(Plan)
    BY <1>7 DEF ReadingDone
  <2> QED
    BY ONLY <1>3, <2>1
<1>9. ReadOf("pci", cursor - 1)
  BY <1>6, <1>7, <1>8 DEF ReadOf
<1>10. raw["pci"] # <<>> /\ raw["pci"] \in Seq(Readings)
  BY <1>1, <1>9 DEF ReadInv, ReadingDone, TypeOK
<1>11. DOMAIN raw["pci"] = 1 .. Len(raw["pci"]) /\ Len(raw["pci"]) \in Nat \ {0}
  BY <1>10, EmptySeq
<1>12. 1 \in DOMAIN raw["pci"]
  BY ONLY <1>11
<1> QED
  BY ONLY <1>10, <1>12

\* Parsing either of them parses PCI too, for the join.
LEMMA ReplayJoined ==
  ASSUME NEW flags, NEW readings, NEW request, WithPci(readings),
         NEW d \in {"network", "storage"}, d \in Replay(flags, readings, request).succeeded
  PROVE  \E e \in Replay(flags, readings, request).info[d] : e[1] = "pci"
<1>1. Has(flags, ParsedFor(d)) /\ Value(d, readings) /\ d \in Domains
  BY DEF Replay, Requested, Parsed
<1>2. \E s \in Neighbours : readings[s] # <<>>
  <2>1. Succeeded(readings, "mountinfo") => readings["mountinfo"] # <<>>
    BY DEF Succeeded
  <2>2. CASE d = "network"
    BY <1>1, <2>2 DEF Value, Neighbours
  <2>3. CASE d = "storage"
    BY <1>1, <2>1, <2>3 DEF Value, Neighbours
  <2> QED
    BY <2>2, <2>3
<1>3. PICK i \in DOMAIN readings["pci"] : readings["pci"] # <<>>
  BY <1>2 DEF WithPci
<1>4. Parsed("pci", flags, readings)
  <2>1. ParsedFor(d) \subseteq {"Pci", "Network", "Storage", "StorageHealth"}
    BY DEF ParsedFor, FlagOf
  <2>2. Has(flags, {"Pci", "Network", "Storage", "StorageHealth"})
    BY <1>1, <2>1 DEF Has
  <2> QED
    BY <1>3, <2>2 DEF Parsed, ParsedFor, Value
<1>5. "pci" \in Joined(d) /\ "pci" \in Consumes["pci"]
  BY DEF Joined, Consumes
<1>6. <<"pci", readings["pci"][i]>> \in Evidence(d, flags, readings)
  BY <1>3, <1>4, <1>5 DEF Evidence
<1>7. Replay(flags, readings, request).info[d] = Evidence(d, flags, readings)
  BY <1>1 DEF Replay, Resolve, Parsed
<1> QED
  BY <1>6, <1>7

\* A collected network or storage domain always has PCI locality, live, refreshed
\* or replayed under another scope than the evidence was read for.
THEOREM LocalityJoinedAlways == Spec => []LocalityJoined
<1>1. Init => LocalityInv
  BY DEF Init, NoSnapshot, LocalityInv, LocalityJoined
<1>2. TypeOK /\ ReadInv /\ LocalityInv /\ [Next]_vars => LocalityInv'
  <2> SUFFICES ASSUME TypeOK, ReadInv, LocalityInv, [Next]_vars PROVE LocalityInv'
    OBVIOUS
  <2>1. CASE UNCHANGED <<handle, kept>>
    BY <2>1 DEF LocalityInv, LocalityJoined
  <2>2. CASE Finish
    <3> DEFINE new == Replay(call.flags, raw, {[flags |-> call.flags, options |-> call.options]})
    <3>1. WithPci(raw)
      BY <2>2, ReadWithPci DEF Finish, ReadingDone
    <3>2. kept' = kept
      BY <2>2 DEF Finish
    <3>3. CASE handle' = handle
      BY <3>2, <3>3 DEF LocalityInv, LocalityJoined
    <3>4. CASE handle'.info = new.info /\ handle'.succeeded = new.succeeded /\ handle'.raw \subseteq {raw}
      <4>1. LocalityJoined'
        BY <3>1, <3>4, ReplayJoined DEF LocalityJoined
      <4> QED
        BY <3>1, <3>2, <3>4, <4>1 DEF LocalityInv
    <3> QED
      BY <2>2, <3>3, <3>4 DEF Finish, Assigned, Replay
  <2>3. CASE Keep
    BY <2>3 DEF Keep, LocalityInv, LocalityJoined
  <2>4. CASE CollectFromRaw
    <3>1. PICK store \in kept, flags \in Requests :
            \/ handle' = handle
            \/ handle' = Replay(flags, store.readings, store.request)
      BY <2>4 DEF CollectFromRaw
    <3>2. kept' = kept /\ WithPci(store.readings)
      BY <2>4, <3>1 DEF CollectFromRaw, LocalityInv
    <3>3. CASE handle' = handle
      BY <3>2, <3>3 DEF LocalityInv, LocalityJoined
    <3>4. CASE handle' = Replay(flags, store.readings, store.request)
      <4>1. LocalityJoined'
        BY <3>2, <3>4, ReplayJoined DEF LocalityJoined
      <4>2. handle'.raw = {}
        BY <3>4 DEF Replay
      <4> QED
        BY <3>2, <4>1, <4>2 DEF LocalityInv
    <3> QED
      BY <3>1, <3>3, <3>4
  <2> QED
    BY <2>1, <2>2, <2>3, <2>4
       DEF Next, vars, Collect, Refresh, RefreshUnknown, Start, Read, Throw, Done
<1>3. LocalityInv => LocalityJoined
  BY DEF LocalityInv
<1> QED
  BY <1>1, <1>2, <1>3, ReadInvAlways, TypeCorrect, PTL DEF Spec
=============================================================================
