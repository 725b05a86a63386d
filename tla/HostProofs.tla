----------------------------- MODULE HostProofs -----------------------------
(***************************************************************************)
(* Proofs about HostSnapshot for any number of CPUs, names of devices and  *)
(* drives, any board, any accelerators, enumerations and selectors, any    *)
(* number of changes of the hardware while it is read, and any requested   *)
(* domains.                                                                *)
(***************************************************************************)
EXTENDS HostSnapshot, FiniteSetTheorems, FunctionTheorems, SequenceTheorems, WellFoundedInduction, TLAPS

\* A missing optional is neither a truth value nor a status.
LEMMA NoneApart == None \notin BOOLEAN /\ None \notin Nat /\ None # "Success"
  BY HostsAssumption

\* A drive that answered has an answer.
LEMMA AnswerIsThere == \A d : None \notin D!Exits(d)
  BY HostsAssumption DEF D!Exits

-----------------------------------------------------------------------------
(* Listings.                                                               *)

\* A sequence without repetition that is as long as a finite set is large has all of it.
LEMMA InjectionIsOnto ==
    ASSUME NEW S, IsFiniteSet(S), NEW f \in [1 .. Cardinality(S) -> S],
           \A i, j \in 1 .. Cardinality(S) : i # j => f[i] # f[j]
    PROVE  f \in Seq(S) /\ {f[i] : i \in DOMAIN f} = S
<1> DEFINE n == Cardinality(S)
<1>1. n \in Nat
  BY FS_CardinalityType
<1>2. Cardinality(1 .. n) = n
  BY <1>1, FS_Interval
<1>3. f \in Injection(1 .. n, S)
  BY DEF Injection, IsInjective
<1>4. f \in Surjection(1 .. n, S)
  BY <1>2, <1>3, FS_Injection
<1>5. \A s \in S : \E i \in 1 .. n : f[i] = s
  BY <1>4 DEF Surjection
<1>6. f \in Seq(S)
  BY <1>1
<1> QED
  BY <1>5, <1>6

\* A listing has entries of the directory only; without an error it has every one that
\* was there all the time.
LEMMA CpuListing ==
    ASSUME NEW ever, IsFiniteSet(ever), NEW always, NEW found \in C!Listings(always, ever)
    PROVE  /\ found.names \in Seq(ever) /\ C!Range(found.names) \subseteq ever
           /\ ~found.error => always \subseteq C!Range(found.names)
<1>1. PICK S \in SUBSET ever :
          found.names \in C!SetToSeqs(S) /\ (~found.error => always \subseteq S)
  BY DEF C!Listings
<1>2. IsFiniteSet(S)
  BY FS_Subset
<1>3. C!Cardinality(S) = Cardinality(S)
  BY DEF C!Cardinality, Cardinality
<1>4. found.names \in [1 .. Cardinality(S) -> S] /\ \A i, j \in 1 .. Cardinality(S) : i # j => found.names[i] # found.names[j]
  BY <1>1, <1>3 DEF C!SetToSeqs
<1>5. found.names \in Seq(S) /\ C!Range(found.names) = S
  BY <1>2, <1>4, InjectionIsOnto DEF C!Range
<1>6. found.names \in Seq(ever)
  BY <1>4, <1>5
<1> QED
  BY <1>1, <1>5, <1>6

-----------------------------------------------------------------------------
(* CPUs.                                                                   *)

Attributes == [package : Nat \cup {None}, core : Nat \cup {None}, online : BOOLEAN \cup {None}]

CpuTypes ==
    /\ IsFiniteSet(C!Cpus) /\ machine.place \in [C!Cpus -> Nat \X Nat]
    /\ online \subseteq C!Cpus /\ listable.ever \subseteq C!Cpus /\ up.ever \subseteq C!Cpus
    /\ entries \in Seq(C!Cpus) /\ position \in Nat
    /\ attributes \in [C!Cpus -> Attributes]

\* What was always there is there, and what is there was there at some time.
CpuSpans ==
    /\ listable.always \subseteq plugged /\ plugged \subseteq listable.ever
    /\ up.always \subseteq online /\ online \subseteq up.ever

CpuListed ==
    status = "Success" =>
        step = "attributes" /\ listable.always \subseteq C!Range(entries) /\ C!Range(entries) \subseteq listable.ever

\* Whatever was read was true when it was read.
CpuFiles ==
    \A c \in C!Cpus :
        /\ attributes[c].package \in {None, machine.place[c][1]}
        /\ attributes[c].core \in {None, machine.place[c][2]}
        /\ attributes[c].online = TRUE => c \in up.ever
        /\ attributes[c].online = FALSE => c \notin up.always

CpuLists ==
    /\ cpuinfo # None => up.always \subseteq cpuinfo /\ cpuinfo \subseteq up.ever
    /\ onlineList # None => up.always \subseteq onlineList /\ onlineList \subseteq up.ever
    /\ mask \in {None, machine.allowed}

CpuInv == CpuTypes /\ CpuSpans /\ CpuListed /\ CpuFiles /\ CpuLists

\* Nothing is read at first.
LEMMA CpuInit == Init => CpuInv
<1> SUFFICES ASSUME Init PROVE CpuInv
  OBVIOUS
<1>1. PICK host \in Hosts : machine = host.machine /\ plugged = host.plugged /\ online = host.online
  BY DEF Init
<1>2. IsFiniteSet(C!Cpus) /\ machine.place \in [C!Cpus -> Nat \X Nat] /\ online \subseteq plugged /\ plugged \subseteq C!Cpus
  BY <1>1, HostsAssumption DEF PossibleMachine, C!Cpus
<1>3. C!Start
  BY DEF Init
<1>4. entries \in Seq(C!Cpus) /\ position \in Nat
  BY <1>3 DEF C!Start
<1>5. \A c \in C!Cpus : attributes[c] = [package |-> None, core |-> None, online |-> None]
  BY <1>3 DEF C!Start
<1>6. attributes \in [C!Cpus -> Attributes]
  BY <1>3 DEF C!Start, Attributes
<1>7. CpuTypes /\ CpuSpans
  BY <1>2, <1>3, <1>4, <1>6 DEF C!Start, CpuTypes, CpuSpans
<1>8. None \notin BOOLEAN /\ None # "Success"
  BY NoneApart
<1>9. CpuListed /\ CpuFiles /\ CpuLists
  BY <1>3, <1>5, <1>8 DEF C!Start, CpuListed, CpuFiles, CpuLists
<1> QED
  BY <1>7, <1>9 DEF CpuInv

\* What changes while it is read widens what was there at some time and narrows what was
\* there all the time.
LEMMA CpuHotplug == CpuInv /\ C!Hotplug => CpuInv'
<1> SUFFICES ASSUME CpuInv, C!Hotplug PROVE CpuInv'
  OBVIOUS
<1> USE DEF CpuInv
<1>1. PICK nowPlugged \in SUBSET C!Cpus, nowOnline \in SUBSET C!Cpus : C!Become(nowPlugged, nowOnline)
  <2>1. online \subseteq C!Cpus /\ plugged \subseteq C!Cpus
    BY DEF CpuTypes, CpuSpans
  <2> QED
    BY <2>1 DEF C!Hotplug, C!Plug, C!Unplug, C!SwitchOn, C!SwitchOff
<1>2. /\ plugged' = nowPlugged /\ online' = nowOnline
      /\ listable'.always = listable.always \cap nowPlugged /\ listable'.ever = listable.ever \cup nowPlugged
      /\ up'.always = up.always \cap nowOnline /\ up'.ever = up.ever \cup nowOnline
      /\ UNCHANGED <<machine, cpuinfo, mask, onlineList, step, entries, status, attributes, position>>
  BY <1>1 DEF C!Become, C!records
<1>3. CpuTypes'
  BY <1>2 DEF CpuTypes, C!Cpus
<1>4. CpuSpans'
  BY <1>2 DEF CpuSpans
<1>5. CpuListed'
  BY <1>2 DEF CpuListed, C!Range
<1>6. CpuFiles'
  BY <1>2 DEF CpuFiles, C!Cpus
<1>7. CpuLists'
  BY <1>2 DEF CpuLists
<1> QED
  BY <1>3, <1>4, <1>5, <1>6, <1>7

\* What is read is true when it is read.
LEMMA CpuRead == CpuInv /\ C!Read => CpuInv'
<1> SUFFICES ASSUME CpuInv, C!Read PROVE CpuInv'
  OBVIOUS
<1> USE DEF CpuInv
<1>0. None \notin BOOLEAN /\ None # "Success"
  BY NoneApart
<1>1. CASE C!ReadCpuInfo
  <2>1. /\ step = "cpuinfo" /\ step' = "mask" /\ cpuinfo' \in {None, online}
        /\ UNCHANGED <<machine, plugged, online, listable, up, mask, onlineList, entries, status, attributes, position>>
    BY <1>1 DEF C!ReadCpuInfo, C!hardware
  <2>2. CpuTypes' /\ CpuSpans'
    BY <2>1 DEF CpuTypes, CpuSpans, C!Cpus
  <2>3. CpuListed' /\ CpuFiles'
    BY <2>1 DEF CpuListed, CpuFiles, C!Cpus, C!Range
  <2>4. CpuLists'
    BY <2>1 DEF CpuLists, CpuSpans
  <2> QED
    BY <2>2, <2>3, <2>4
<1>2. CASE C!ReadMask
  <2>1. /\ step = "mask" /\ mask' \in {None, machine.allowed}
        /\ UNCHANGED <<machine, plugged, online, listable, up, cpuinfo, onlineList, entries, status, attributes, position>>
    BY <1>2 DEF C!ReadMask, C!hardware
  <2>2. CpuTypes' /\ CpuSpans'
    BY <2>1 DEF CpuTypes, CpuSpans, C!Cpus
  <2>3. CpuListed' /\ CpuFiles'
    BY <2>1 DEF CpuListed, CpuFiles, C!Cpus, C!Range
  <2>4. CpuLists'
    BY <2>1 DEF CpuLists, CpuSpans
  <2> QED
    BY <2>2, <2>3, <2>4
<1>3. CASE C!ReadOnlineList
  <2>1. /\ step = "online list" /\ onlineList' \in {None, online}
        /\ UNCHANGED <<machine, plugged, online, listable, up, cpuinfo, mask, entries, status, attributes, position>>
    BY <1>3 DEF C!ReadOnlineList, C!hardware
  <2>2. CpuTypes' /\ CpuSpans'
    BY <2>1 DEF CpuTypes, CpuSpans, C!Cpus
  <2>3. CpuListed' /\ CpuFiles'
    BY <2>1 DEF CpuListed, CpuFiles, C!Cpus, C!Range
  <2>4. CpuLists'
    BY <2>1 DEF CpuLists, CpuSpans
  <2> QED
    BY <2>2, <2>3, <2>4
<1>4. CASE C!OpenDirectory
  <2>1. /\ step = "open" /\ listable'.always = plugged /\ listable'.ever = plugged
        /\ UNCHANGED <<machine, plugged, online, up, cpuinfo, mask, onlineList, entries, status, attributes, position>>
    BY <1>4 DEF C!OpenDirectory
  <2>2. CpuTypes' /\ CpuSpans'
    BY <2>1 DEF CpuTypes, CpuSpans, C!Cpus
  <2>3. CpuListed' /\ CpuFiles'
    BY <2>1 DEF CpuListed, CpuFiles, C!Cpus, C!Range
  <2>4. CpuLists'
    BY <2>1 DEF CpuLists, CpuSpans
  <2> QED
    BY <2>2, <2>3, <2>4
<1>5. CASE C!ListDirectory
  <2>1. PICK found \in C!Listings(listable.always, listable.ever) :
            entries' = found.names /\ status' = C!StatusOf(found)
    BY <1>5 DEF C!ListDirectory
  <2>2. /\ step' = "attributes"
        /\ UNCHANGED <<machine, plugged, online, listable, up, cpuinfo, mask, onlineList, attributes, position>>
    BY <1>5 DEF C!ListDirectory, C!hardware
  <2>3. IsFiniteSet(listable.ever) /\ Seq(listable.ever) \subseteq Seq(C!Cpus)
    BY FS_Subset DEF CpuTypes
  <2>4. /\ entries' \in Seq(listable.ever) /\ C!Range(entries') \subseteq listable.ever
        /\ ~found.error => listable.always \subseteq C!Range(entries')
    BY <2>1, <2>3, CpuListing
  <2>5. CpuTypes' /\ CpuSpans'
    BY <2>2, <2>3, <2>4 DEF CpuTypes, CpuSpans, C!Cpus
  <2>6. status' = "Success" => ~found.error
    BY <2>1 DEF C!StatusOf
  <2>7. CpuListed'
    BY <2>2, <2>4, <2>6 DEF CpuListed, C!Range
  <2>8. CpuFiles' /\ CpuLists'
    BY <2>2 DEF CpuFiles, CpuLists, C!Cpus
  <2> QED
    BY <2>5, <2>7, <2>8
<1>6. CASE C!ReadAttribute
  <2> DEFINE c == entries[position \div 3 + 1]
             field == <<"package", "core", "online">>[(position % 3) + 1]
  <2>1. /\ attributes' = [attributes EXCEPT ![c][field] = C!Content(c, field)] /\ position' = position + 1
        /\ UNCHANGED <<machine, plugged, online, listable, up, cpuinfo, mask, onlineList, step, entries, status>>
    BY <1>6 DEF C!ReadAttribute, C!hardware
  <2>2. field \in {"package", "core", "online"}
    BY DEF CpuTypes
  <2> HIDE DEF c, field
  <2>3. c \in C!Cpus
    <3>1. position < 3 * Len(entries) /\ Len(entries) \in Nat /\ position \in Nat
      BY <1>6 DEF C!ReadAttribute, C!Reading, CpuTypes
    <3>2. position \div 3 + 1 \in 1 .. Len(entries)
      BY <3>1
    <3> QED
      BY <3>2, ElementOfSeq DEF CpuTypes, c
  <2>4. /\ field = "package" => C!Content(c, field) \in {None, machine.place[c][1]}
        /\ field = "core" => C!Content(c, field) \in {None, machine.place[c][2]}
    BY DEF C!Content
  <2>4a. field = "online" => \/ C!Content(c, field) = None
                            \/ (C!Content(c, field) = TRUE /\ c \in online)
                            \/ (C!Content(c, field) = FALSE /\ c \notin online)
    <3>1. CASE c \notin plugged \/ c \notin machine.switchable
      BY <3>1 DEF C!Content
    <3>2. CASE c \in plugged /\ c \in machine.switchable /\ field = "online"
      <4>1. C!Content(c, field) <=> c \in online
        BY <3>2 DEF C!Content
      <4>2. C!Content(c, field) \in BOOLEAN
        BY <3>2 DEF C!Content
      <4> QED
        BY <4>1, <4>2
    <3> QED
      BY <3>1, <3>2
  <2>5. machine.place[c][1] \in Nat /\ machine.place[c][2] \in Nat
    BY <2>3 DEF CpuTypes
  <2>6. /\ \A d \in C!Cpus \ {c} : attributes'[d] = attributes[d]
        /\ attributes'[c] = [attributes[c] EXCEPT ![field] = C!Content(c, field)]
        /\ DOMAIN attributes' = C!Cpus
    BY <2>1, <2>3 DEF CpuTypes
  <2>7. attributes[c] \in Attributes
    BY <2>3 DEF CpuTypes
  <2>8. /\ attributes'[c] \in Attributes
        /\ attributes'[c].package \in {None, machine.place[c][1]}
        /\ attributes'[c].core \in {None, machine.place[c][2]}
        /\ \/ attributes'[c].online \in {attributes[c].online, None}
           \/ (attributes'[c].online = TRUE /\ c \in online)
           \/ (attributes'[c].online = FALSE /\ c \notin online)
    <3>1. CASE field = "package"
      BY <2>3, <2>4, <2>5, <2>6, <2>7, <3>1 DEF Attributes, CpuFiles
    <3>2. CASE field = "core"
      BY <2>3, <2>4, <2>5, <2>6, <2>7, <3>2 DEF Attributes, CpuFiles
    <3>3. CASE field = "online"
      BY <2>3, <2>4a, <2>5, <2>6, <2>7, <3>3 DEF Attributes, CpuFiles
    <3> QED
      BY <2>2, <3>1, <3>2, <3>3
  <2>9. attributes' \in [C!Cpus -> Attributes]
    BY <2>1, <2>6, <2>8 DEF CpuTypes
  <2>10. CpuTypes' /\ CpuSpans' /\ CpuListed' /\ CpuLists'
    BY <2>1, <2>9 DEF CpuTypes, CpuSpans, CpuListed, CpuLists, C!Cpus, C!Range
  <2>11. ASSUME NEW d \in C!Cpus
         PROVE  /\ attributes'[d].package \in {None, machine.place[d][1]}
                /\ attributes'[d].core \in {None, machine.place[d][2]}
                /\ attributes'[d].online = TRUE => d \in up.ever
                /\ attributes'[d].online = FALSE => d \notin up.always
    BY <1>0, <2>6, <2>8 DEF CpuFiles, CpuSpans
  <2>12. CpuFiles'
    BY <2>1, <2>11 DEF CpuFiles, C!Cpus
  <2> QED
    BY <2>10, <2>12
<1> QED
  BY <1>1, <1>2, <1>3, <1>4, <1>5, <1>6 DEF C!Read

\* A list of CPUs that is called complete is the enumeration as a whole.
LEMMA CpuComplete == CpuInv => C!CompleteIsAll
<1> SUFFICES ASSUME CpuInv, C!LogicalReport = "Complete"
             PROVE  listable.always \subseteq C!LogicalCpus /\ C!LogicalCpus \subseteq listable.ever
  BY DEF C!CompleteIsAll
<1>1. status = "Success" /\ C!Range(entries) = C!LogicalCpus
  BY DEF C!LogicalReport, C!Completeness, C!Observed
<1> QED
  BY <1>1 DEF CpuInv, CpuListed

\* Where both numbers of every CPU were read, the cores are those of the machine.
LEMMA CpuCores == CpuInv => C!CoresComplete
<1> SUFFICES ASSUME CpuInv, C!CoresReport = "Complete"
             PROVE  /\ {machine.place[c] : c \in listable.always} \subseteq {C!Place(c) : c \in C!LogicalCpus}
                    /\ {C!Place(c) : c \in C!LogicalCpus} \subseteq {machine.place[c] : c \in listable.ever}
  BY DEF C!CoresComplete
<1>1. C!TopologyKnown /\ C!LogicalReport = "Complete"
  BY DEF C!CoresReport, C!Observed
<1>2. status = "Success" /\ C!Range(entries) = C!LogicalCpus
  BY <1>1 DEF C!LogicalReport, C!Completeness, C!Observed
<1>3. listable.always \subseteq C!LogicalCpus /\ C!LogicalCpus \subseteq listable.ever /\ listable.ever \subseteq C!Cpus
  BY <1>2 DEF CpuInv, CpuListed, CpuTypes
<1>4. ASSUME NEW c \in C!LogicalCpus PROVE C!Place(c) = machine.place[c]
  <2>1. c \in C!Cpus /\ attributes[c].package # None /\ attributes[c].core # None
    BY <1>1, <1>3 DEF C!TopologyKnown, C!Located
  <2>2. attributes[c].package = machine.place[c][1] /\ attributes[c].core = machine.place[c][2]
    BY <2>1 DEF CpuInv, CpuFiles
  <2>3. C!Placed(c, "package", machine.place[c][1], 0) = attributes[c]["package"]
        /\ C!Placed(c, "core", machine.place[c][2], c) = attributes[c]["core"]
    BY <2>1 DEF C!Placed
  <2>4. machine.place[c] \in Nat \X Nat
    BY <2>1 DEF CpuInv, CpuTypes
  <2> QED
    BY <2>2, <2>3, <2>4 DEF C!Place
<1> QED
  BY <1>3, <1>4

\* The mask, the online list and the files decide, and each was true when it was read.
LEMMA CpuVisibility == CpuInv => C!VisibilityRight
<1> SUFFICES ASSUME CpuInv, ~C!Reading, "Cpu" \in requested
             PROVE  /\ \A c \in C!LogicalCpus :
                         /\ C!Visible(c) = TRUE => c \in machine.allowed /\ (c \in up.ever \/ C!Online(c) = None)
                         /\ C!Visible(c) = FALSE => (mask # None /\ c \notin machine.allowed) \/ c \notin up.always
                    /\ cpuinfo # None /\ mask # None =>
                         \A c \in up.always \cap machine.allowed : C!Visible(c) = TRUE /\ c \in C!LogicalCpus \ C!Mismatches
  BY DEF C!VisibilityRight
<1>0. None \notin BOOLEAN
  BY NoneApart
<1>1. C!LogicalCpus \subseteq C!Cpus
  BY DEF C!LogicalCpus, CpuInv, CpuLists, CpuTypes
<1>2. ASSUME NEW c \in C!Cpus
      PROVE  /\ C!Online(c) \in BOOLEAN \cup {None}
             /\ C!Online(c) = TRUE => c \in up.ever
             /\ C!Online(c) = FALSE => c \notin up.always
  <2>1. CASE onlineList # None
    <3>1. C!Online(c) \in BOOLEAN /\ (C!Online(c) <=> c \in onlineList)
      BY <2>1 DEF C!Online
    <3> QED
      BY <2>1, <3>1 DEF CpuInv, CpuLists
  <2>2. CASE onlineList = None
    <3>1. C!Online(c) = attributes[c].online
      BY <2>2 DEF C!Online
    <3>2. attributes[c].online \in BOOLEAN \cup {None}
      BY DEF CpuInv, CpuTypes, Attributes
    <3> QED
      BY <3>1, <3>2 DEF CpuInv, CpuFiles
  <2> QED
    BY <2>1, <2>2
<1>3. ASSUME NEW c \in C!Cpus
      PROVE  /\ C!Visible(c) = TRUE => C!Online(c) # FALSE /\ mask # None /\ c \in machine.allowed
             /\ C!Visible(c) = FALSE => C!Online(c) = FALSE \/ (mask # None /\ c \notin machine.allowed)
             /\ C!Online(c) # FALSE /\ mask # None /\ c \in machine.allowed => C!Visible(c) = TRUE
  <2>1. CASE C!Online(c) = FALSE
    <3>1. C!Visible(c) = FALSE
      BY <2>1 DEF C!Visible
    <3> QED
      BY <2>1, <3>1
  <2>2. CASE C!Online(c) # FALSE /\ mask = None
    <3>1. C!Visible(c) = None
      BY <2>2 DEF C!Visible
    <3> QED
      BY <1>0, <2>2, <3>1
  <2>3. CASE C!Online(c) # FALSE /\ mask # None
    <3>1. C!Visible(c) = (c \in mask)
      BY <2>3, Zenon DEF C!Visible
    <3>2. mask = machine.allowed
      BY <2>3 DEF CpuInv, CpuLists
    <3> QED
      BY <2>3, <3>1, <3>2
  <2> QED
    BY <2>1, <2>2, <2>3
<1>4. ASSUME NEW c \in C!LogicalCpus
      PROVE  /\ C!Visible(c) = TRUE => c \in machine.allowed /\ (c \in up.ever \/ C!Online(c) = None)
             /\ C!Visible(c) = FALSE => (mask # None /\ c \notin machine.allowed) \/ c \notin up.always
  BY <1>1, <1>2, <1>3
<1>5. ASSUME cpuinfo # None, mask # None, NEW c \in up.always \cap machine.allowed
      PROVE  C!Visible(c) = TRUE /\ c \in C!LogicalCpus \ C!Mismatches
  <2>1. c \in cpuinfo /\ c \in C!Cpus
    BY <1>5 DEF CpuInv, CpuLists, CpuSpans, CpuTypes
  <2>2. c \in C!LogicalCpus
    BY <1>5, <2>1 DEF C!LogicalCpus
  <2>3. c \notin C!Mismatches
    BY <2>2 DEF C!Mismatches
  <2> QED
    BY <1>2, <1>3, <1>5, <2>1, <2>2, <2>3
<1> QED
  BY <1>4, <1>5

-----------------------------------------------------------------------------
(* A directory of devices.                                                 *)

Looked == {"device", "bridge", "bonding", "loop"}
AtEntry == {"check", "files", "device", "bridge", "bonding", "loop"}

DirectoryTypes ==
    /\ census \in DOMAIN F!Natures
    /\ IsFiniteSet(F!Names) /\ bearer \in [F!Names -> F!Natures[census] \cup {None}]
    /\ bore \in [F!Names -> SUBSET (F!Natures[census] \cup {None})]
    /\ at \in {"lspci", "open", "list", "end"} \cup AtEntry
    /\ place \in Nat \ {0}
    /\ listing # None => listing.names \in Seq(F!Names)
    /\ at \in AtEntry =>
         /\ listing.names \in Seq(F!Names) /\ place <= Len(listing.names)
         /\ \E i \in DOMAIN F!Steps[census] : F!Steps[census][i] = at
    /\ exists \in [F!Names -> [Looked -> BOOLEAN \cup {None}]]

\* A name that was borne all the time was borne by one device.
Steady ==
    \A n \in F!Names :
        /\ bearer[n] \in bore[n]
        /\ None \notin bore[n] => bore[n] = {bearer[n]}

BeforeListing ==
    at \in {"lspci", "open", "list"} => listing = None /\ place = 1 /\ \A n \in F!Names, f \in Looked : exists[n][f] = None

DirectoryListed ==
    listing # None /\ ~listing.error =>
        F!Stayed \subseteq F!Range(listing.names) /\ F!Range(listing.names) \subseteq F!Occurred

\* A file that was seen is one of a device that bore the name; what was seen of a device
\* that stayed is what it shows.
FilesSeen ==
    \A n \in F!Names, f \in Looked :
        /\ exists[n][f] = TRUE => \E nature \in bore[n] : F!Shows(nature, f)
        /\ None \notin bore[n] => exists[n][f] \in {None, F!Shows(bearer[n], f)}

DirectoryInv == DirectoryTypes /\ Steady /\ BeforeListing /\ DirectoryListed /\ FilesSeen

\* The steps of an entry.
LEMMA DirectorySteps ==
    ASSUME NEW k \in DOMAIN F!Natures
    PROVE  /\ F!Steps[k] \in Seq(AtEntry) /\ F!Steps[k] # <<>>
           /\ \E i \in DOMAIN F!Steps[k] : F!Steps[k][i] = "files"
<1>1. k \in {"NetworkInterfaces", "BlockDevices", "PciDevices", "NumaNodes"}
  BY DEF F!Natures
<1>2. CASE k = "NetworkInterfaces"
  <2>1. F!Steps[k] = <<"check", "files", "device", "bridge", "bonding">>
    BY <1>2 DEF F!Steps
  <2>2. F!Steps[k] \in Seq(AtEntry) /\ 2 \in DOMAIN F!Steps[k] /\ F!Steps[k][2] = "files"
    BY <2>1 DEF AtEntry
  <2> QED
    BY <2>1, <2>2
<1>3. CASE k = "BlockDevices"
  <2>1. F!Steps[k] = <<"check", "files", "loop">>
    BY <1>3 DEF F!Steps
  <2>2. F!Steps[k] \in Seq(AtEntry) /\ 2 \in DOMAIN F!Steps[k] /\ F!Steps[k][2] = "files"
    BY <2>1 DEF AtEntry
  <2> QED
    BY <2>1, <2>2
<1>4. CASE k = "PciDevices"
  <2>1. F!Steps[k] = <<"files">>
    BY <1>4 DEF F!Steps
  <2>2. F!Steps[k] \in Seq(AtEntry) /\ 1 \in DOMAIN F!Steps[k] /\ F!Steps[k][1] = "files"
    BY <2>1 DEF AtEntry
  <2> QED
    BY <2>1, <2>2
<1>5. CASE k = "NumaNodes"
  <2>1. F!Steps[k] = <<"check", "files">>
    BY <1>5 DEF F!Steps
  <2>2. F!Steps[k] \in Seq(AtEntry) /\ 2 \in DOMAIN F!Steps[k] /\ F!Steps[k][2] = "files"
    BY <2>1 DEF AtEntry
  <2> QED
    BY <2>1, <2>2
<1> QED
  BY <1>1, <1>2, <1>3, <1>4, <1>5

\* The loop stays within the listing and the steps of its directory.
Within(p, a) ==
    /\ p \in Nat \ {0}
    /\ \/ a = "end"
       \/ (a \in AtEntry /\ p <= Len(listing.names) /\ \E i \in DOMAIN F!Steps[census] : F!Steps[census][i] = a)

LEMMA DirectoryNext ==
    ASSUME DirectoryTypes, at \in AtEntry, F!AfterEntry \/ F!AfterStep
    PROVE  Within(place', at')
<1> DEFINE steps == F!Steps[census]
<1>1. /\ listing.names \in Seq(F!Names) /\ place \in Nat \ {0} /\ place <= Len(listing.names)
      /\ \E j \in DOMAIN steps : steps[j] = at
  BY DEF DirectoryTypes
<1>2. steps \in Seq(AtEntry) /\ steps # <<>>
  BY DirectorySteps DEF DirectoryTypes
<1>3. 1 \in DOMAIN steps /\ Head(steps) = steps[1] /\ steps[1] \in AtEntry /\ Len(steps) \in Nat /\ DOMAIN steps = 1 .. Len(steps)
  BY <1>2
<1> HIDE DEF steps
<1>4. CASE F!AfterEntry
  <2>1. CASE place = Len(listing.names)
    BY <1>1, <1>4, <2>1 DEF F!AfterEntry, Within
  <2>2. CASE place # Len(listing.names)
    <3>1. at' = steps[1] /\ place' = place + 1
      BY <1>3, <1>4, <2>2 DEF F!AfterEntry, steps
    <3>2. place + 1 \in Nat \ {0} /\ place + 1 <= Len(listing.names)
      BY <1>1, <2>2
    <3> QED
      BY <1>3, <3>1, <3>2 DEF Within, steps
  <2> QED
    BY <2>1, <2>2
<1>5. CASE F!AfterStep /\ ~F!AfterEntry
  <2> DEFINE i == CHOOSE j \in DOMAIN steps : steps[j] = at
  <2>1. i \in DOMAIN steps
    BY <1>1
  <2>2. i # Len(steps) /\ at' = steps[i + 1] /\ place' = place
    BY <1>5 DEF F!AfterStep, steps
  <2> HIDE DEF i
  <2>3. i + 1 \in DOMAIN steps
    BY <1>3, <2>1, <2>2
  <2>4. steps[i + 1] \in AtEntry
    BY <1>2, <1>3, <2>3, ElementOfSeq
  <2> QED
    BY <1>1, <2>2, <2>3, <2>4 DEF Within, steps
<1> QED
  BY <1>4, <1>5

\* A listing of names, see CpuListing.
LEMMA DeviceListing ==
    ASSUME NEW ever, IsFiniteSet(ever), NEW always, NEW found \in F!Listings(always, ever)
    PROVE  /\ found.names \in Seq(ever) /\ F!Range(found.names) \subseteq ever
           /\ ~found.error => always \subseteq F!Range(found.names)
<1>1. PICK S \in SUBSET ever :
          found.names \in F!SetToSeqs(S) /\ (~found.error => always \subseteq S)
  BY DEF F!Listings
<1>2. IsFiniteSet(S)
  BY FS_Subset
<1>3. F!Cardinality(S) = Cardinality(S)
  BY DEF F!Cardinality, Cardinality
<1>4. found.names \in [1 .. Cardinality(S) -> S] /\ \A i, j \in 1 .. Cardinality(S) : i # j => found.names[i] # found.names[j]
  BY <1>1, <1>3 DEF F!SetToSeqs
<1>5. found.names \in Seq(S) /\ F!Range(found.names) = S
  BY <1>2, <1>4, InjectionIsOnto DEF F!Range
<1>6. found.names \in Seq(ever)
  BY <1>4, <1>5
<1> QED
  BY <1>1, <1>5, <1>6

\* Before the directory is opened nothing was seen of it.
LEMMA DirectoryInit == Init => DirectoryInv
<1> SUFFICES ASSUME Init PROVE DirectoryInv
  OBVIOUS
<1>1. PICK host \in Hosts : census = host.census /\ bearer = host.bearer
  BY DEF Init
<1>2. census \in DOMAIN F!Natures /\ IsFiniteSet(F!Names) /\ bearer \in [F!Names -> F!Natures[census] \cup {None}]
  BY <1>1, HostsAssumption DEF PossibleDirectory, F!Names
<1>3. F!Start
  BY DEF Init
<1>4. \A n \in F!Names : bore[n] = {bearer[n]} /\ \A f \in Looked : exists[n][f] = None
  BY <1>3 DEF F!Start, Looked
<1>5. at \in {"lspci", "open", "end"} /\ listing = None /\ place = 1
  BY <1>3 DEF F!Start
<1>6. bore \in [F!Names -> SUBSET (F!Natures[census] \cup {None})] /\ exists \in [F!Names -> [Looked -> BOOLEAN \cup {None}]]
  BY <1>2, <1>3 DEF F!Start, Looked
<1>7. DirectoryTypes
  BY <1>2, <1>5, <1>6 DEF DirectoryTypes, AtEntry
<1>8. None \notin BOOLEAN
  BY NoneApart
<1>9. Steady /\ BeforeListing /\ DirectoryListed /\ FilesSeen
  BY <1>4, <1>5, <1>8 DEF Steady, BeforeListing, DirectoryListed, FilesSeen
<1> QED
  BY <1>7, <1>9 DEF DirectoryInv

\* A device takes a name that is free, and one that leaves a name leaves it free: who
\* stayed is who was there.
LEMMA DirectoryHotplug == DirectoryInv /\ F!Hotplug => DirectoryInv'
<1> SUFFICES ASSUME DirectoryInv, F!Hotplug PROVE DirectoryInv'
  OBVIOUS
<1> DEFINE All == F!Natures[census] \cup {None}
<1>1. IsFiniteSet(F!Names) /\ bearer \in [F!Names -> All] /\ bore \in [F!Names -> SUBSET All]
  BY DEF DirectoryInv, DirectoryTypes
<1> HIDE DEF All
<1>2. PICK now : /\ F!Become(now) /\ now \in [F!Names -> All]
                 /\ \A n \in F!Names : now[n] = bearer[n] \/ now[n] = None \/ bearer[n] = None
  <2>1. CASE F!Leave
    <3>1. PICK n \in F!Names : F!Become([bearer EXCEPT ![n] = None])
      BY <2>1 DEF F!Leave
    <3> DEFINE now == [bearer EXCEPT ![n] = None]
    <3>2. now \in [F!Names -> All] /\ \A k \in F!Names : now[k] = bearer[k] \/ now[k] = None
      BY <1>1 DEF All
    <3> QED
      BY <3>1, <3>2
  <2>2. CASE F!Arrive
    <3>1. PICK n \in F!Names, nature \in F!Natures[census] : bearer[n] = None /\ F!Become([bearer EXCEPT ![n] = nature])
      BY <2>2 DEF F!Arrive
    <3> DEFINE now == [bearer EXCEPT ![n] = nature]
    <3>2. now \in [F!Names -> All] /\ \A k \in F!Names : now[k] = bearer[k] \/ bearer[k] = None
      BY <1>1, <3>1 DEF All
    <3> QED
      BY <3>1, <3>2
  <2>3. CASE F!Rename
    <3>1. PICK n \in F!Names, m \in F!Names :
              bearer[n] # None /\ bearer[m] = None /\ F!Become([bearer EXCEPT ![n] = None, ![m] = bearer[n]])
      BY <2>3 DEF F!Rename
    <3> DEFINE now == [bearer EXCEPT ![n] = None, ![m] = bearer[n]]
    <3>2. now \in [F!Names -> All] /\ \A k \in F!Names : now[k] = bearer[k] \/ now[k] = None \/ bearer[k] = None
      BY <1>1, <3>1 DEF All
    <3> QED
      BY <3>1, <3>2
  <2> QED
    BY <2>1, <2>2, <2>3 DEF F!Hotplug
<1>3. /\ bearer' = now /\ bore' = [n \in F!Names |-> bore[n] \cup {now[n]}]
      /\ UNCHANGED <<census, at, listing, place, tool, files, exists>>
  BY <1>2 DEF F!Become
<1>4. F!Names' = F!Names
  BY <1>1, <1>2, <1>3 DEF F!Names
<1>5. DirectoryTypes'
  <2>1. bore' \in [F!Names -> SUBSET All] /\ bearer' \in [F!Names -> All]
    BY <1>1, <1>2, <1>3
  <2> QED
    BY <1>3, <1>4, <2>1 DEF All, DirectoryInv, DirectoryTypes
<1>6. ASSUME NEW n \in F!Names
      PROVE  /\ bearer'[n] \in bore'[n] /\ bore[n] \subseteq bore'[n]
             /\ None \notin bore'[n] => None \notin bore[n] /\ bearer'[n] = bearer[n] /\ bore'[n] = {bearer[n]}
             /\ bore[n] # {None} => bore'[n] # {None}
  <2>1. bore'[n] = bore[n] \cup {now[n]} /\ bearer'[n] = now[n]
    BY <1>1, <1>3
  <2>2. bearer[n] \in bore[n] /\ (None \notin bore[n] => bore[n] = {bearer[n]})
    BY DEF DirectoryInv, Steady
  <2> QED
    BY <1>2, <2>1, <2>2
<1>7. Steady'
  BY <1>4, <1>6 DEF Steady
<1>8. BeforeListing'
  BY <1>3, <1>4 DEF DirectoryInv, BeforeListing
<1>9. DirectoryListed'
  <2>1. F!Stayed' \subseteq F!Stayed /\ F!Occurred \subseteq F!Occurred'
    BY <1>4, <1>6 DEF F!Stayed, F!Occurred
  <2> QED
    BY <1>3, <2>1 DEF DirectoryInv, DirectoryListed, F!Range
<1>10. FilesSeen'
  BY <1>3, <1>4, <1>6 DEF DirectoryInv, FilesSeen, F!Shows
<1> QED
  BY <1>5, <1>7, <1>8, <1>9, <1>10 DEF DirectoryInv

\* What was listed or seen was there.
LEMMA DirectoryRead == DirectoryInv /\ F!Read => DirectoryInv'
<1> SUFFICES ASSUME DirectoryInv, F!Read PROVE DirectoryInv'
  OBVIOUS
<1> USE DEF DirectoryInv
<1>0. None \notin BOOLEAN
  BY NoneApart
<1>1. CASE F!RunLspci
  <2>1. at' = "open" /\ UNCHANGED <<census, bearer, bore, listing, place, files, exists>>
    BY <1>1 DEF F!RunLspci, F!bus
  <2>2. at = "lspci"
    BY <1>1 DEF F!RunLspci
  <2>3. DirectoryTypes'
    BY <2>1 DEF DirectoryTypes, F!Names, AtEntry
  <2> QED
    BY <2>1, <2>2, <2>3 DEF Steady, BeforeListing, DirectoryListed, FilesSeen, F!Names, F!Stayed, F!Occurred, F!Range, F!Shows
<1>2. CASE F!OpenDirectory
  <2>1. /\ at = "open" /\ at' = "list" /\ bore' = [n \in F!Names |-> {bearer[n]}]
        /\ UNCHANGED <<census, bearer, listing, place, files, exists>>
    BY <1>2 DEF F!OpenDirectory
  <2>2. listing = None /\ \A n \in F!Names, f \in Looked : exists[n][f] = None
    BY <2>1 DEF BeforeListing
  <2>3. bore' \in [F!Names -> SUBSET (F!Natures[census] \cup {None})]
    BY <2>1 DEF DirectoryTypes
  <2>4. DirectoryTypes'
    BY <2>1, <2>3 DEF DirectoryTypes, F!Names, AtEntry
  <2>5. Steady' /\ BeforeListing' /\ DirectoryListed'
    BY <2>1, <2>2 DEF Steady, BeforeListing, DirectoryListed, F!Names
  <2>6. FilesSeen'
    BY <1>0, <2>1, <2>2 DEF FilesSeen, F!Names
  <2> QED
    BY <2>4, <2>5, <2>6
<1>3. CASE F!ListDirectory
  <2>1. /\ at = "list" /\ listing' \in F!Listings(F!Stayed, F!Occurred)
        /\ at' = IF listing'.names = <<>> THEN "end" ELSE F!Head(F!Steps[census])
        /\ UNCHANGED <<census, bearer, bore, place, files, exists>>
    BY <1>3 DEF F!ListDirectory, F!bus
  <2>2. IsFiniteSet(F!Occurred) /\ F!Occurred \subseteq F!Names
    BY FS_Subset DEF DirectoryTypes, F!Occurred
  <2>3. listing'.names \in Seq(F!Occurred) /\ F!Range(listing'.names) \subseteq F!Occurred
        /\ (~listing'.error => F!Stayed \subseteq F!Range(listing'.names))
    BY <2>1, <2>2, DeviceListing
  <2>4. listing'.names \in Seq(F!Names)
    BY <2>2, <2>3
  <2>4a. Len(listing'.names) \in Nat
    BY <2>4
  <2>5. DirectoryTypes'
    <3>1. CASE listing'.names = <<>>
      BY <2>1, <2>4, <3>1 DEF DirectoryTypes, F!Names, AtEntry
    <3>2. CASE listing'.names # <<>>
      <4> DEFINE steps == F!Steps[census]
      <4>1. steps \in Seq(AtEntry) /\ steps # <<>>
        BY DirectorySteps DEF DirectoryTypes
      <4>2. 1 \in DOMAIN steps /\ at' = steps[1] /\ steps[1] \in AtEntry
        BY <2>1, <3>2, <4>1
      <4> HIDE DEF steps
      <4>3. 1 <= Len(listing'.names)
        BY <2>4, <3>2
      <4>4. place' = 1
        BY <2>1 DEF BeforeListing
      <4>5. at' \in AtEntry /\ listing'.names \in Seq(F!Names)' /\ place' <= Len(listing'.names)
            /\ \E i \in DOMAIN F!Steps[census'] : F!Steps[census'][i] = at'
        BY <2>1, <2>4, <4>2, <4>3, <4>4 DEF F!Names, steps
      <4>6. census' \in DOMAIN F!Natures /\ IsFiniteSet(F!Names') /\ bearer' \in [F!Names' -> F!Natures[census'] \cup {None}]
            /\ bore' \in [F!Names' -> SUBSET (F!Natures[census'] \cup {None})]
            /\ exists' \in [F!Names' -> [Looked -> BOOLEAN \cup {None}]]
        BY <2>1 DEF DirectoryTypes, F!Names
      <4> QED
        BY <4>4, <4>5, <4>6 DEF DirectoryTypes
    <3> QED
      BY <3>1, <3>2
  <2>6. Steady' /\ FilesSeen'
    BY <2>1 DEF Steady, FilesSeen, F!Names, F!Shows
  <2>7. F!Stayed' = F!Stayed /\ F!Occurred' = F!Occurred
    BY <2>1 DEF F!Stayed, F!Occurred, F!Names
  <2>8. DirectoryListed'
    BY <2>3, <2>7 DEF DirectoryListed, F!Range
  <2>9. BeforeListing'
    <3>1. at' \notin {"lspci", "open", "list"}
      <4>1. CASE listing'.names = <<>>
        BY <2>1, <4>1
      <4>2. CASE listing'.names # <<>>
        <5> DEFINE steps == F!Steps[census]
        <5>1. steps \in Seq(AtEntry) /\ steps # <<>>
          BY DirectorySteps DEF DirectoryTypes
        <5>2. at' = steps[1] /\ steps[1] \in AtEntry
          BY <2>1, <4>2, <5>1
        <5> HIDE DEF steps
        <5> QED
          BY <5>2 DEF AtEntry
      <4> QED
        BY <4>1, <4>2
    <3> QED
      BY <3>1 DEF BeforeListing
  <2> QED
    BY <2>5, <2>6, <2>8, <2>9
<1>4. ASSUME at \in AtEntry, Within(place', at'), UNCHANGED <<census, bearer, bore, listing>>,
             exists' \in [F!Names -> [Looked -> BOOLEAN \cup {None}]]
      PROVE  DirectoryTypes' /\ Steady' /\ BeforeListing' /\ DirectoryListed'
  <2>1. listing.names \in Seq(F!Names)
    BY <1>4 DEF DirectoryTypes
  <2>2. DirectoryTypes'
    <3>1. /\ census' \in DOMAIN F!Natures /\ IsFiniteSet(F!Names') /\ bearer' \in [F!Names' -> F!Natures[census'] \cup {None}]
          /\ bore' \in [F!Names' -> SUBSET (F!Natures[census'] \cup {None})]
          /\ exists' \in [F!Names' -> [Looked -> BOOLEAN \cup {None}]]
          /\ listing' # None => listing'.names \in Seq(F!Names')
      BY <1>4, <2>1 DEF DirectoryTypes, F!Names
    <3>2. listing'.names \in Seq(F!Names')
      BY <1>4, <2>1 DEF F!Names
    <3>3. place' \in Nat \ {0} /\ "end" \notin AtEntry
      BY <1>4 DEF Within, AtEntry
    <3>4. \/ at' = "end"
          \/ (at' \in AtEntry /\ place' <= Len(listing'.names) /\ \E i \in DOMAIN F!Steps[census'] : F!Steps[census'][i] = at')
      BY <1>4 DEF Within
    <3> QED
      BY <3>1, <3>2, <3>3, <3>4 DEF DirectoryTypes
  <2>3. Steady' /\ DirectoryListed'
    BY <1>4 DEF Steady, DirectoryListed, F!Names, F!Stayed, F!Occurred, F!Range
  <2>4. BeforeListing'
    BY <1>4 DEF BeforeListing, Within, AtEntry
  <2> QED
    BY <2>2, <2>3, <2>4
<1>5. CASE F!Check
  <2>1. at = "check" /\ at \in AtEntry /\ UNCHANGED <<census, bearer, bore, listing, files, exists>>
    BY <1>5 DEF F!Check, F!bus, AtEntry
  <2>2. Within(place', at')
    <3>1. CASE F!AfterEntry
      BY <2>1, <3>1, DirectoryNext
    <3>2. CASE at' = "files" /\ place' = place
      BY <2>1, <3>2, DirectorySteps DEF DirectoryTypes, Within, AtEntry
    <3> QED
      BY <1>5, <3>1, <3>2 DEF F!Check
  <2>3. exists' \in [F!Names -> [Looked -> BOOLEAN \cup {None}]]
    BY <2>1 DEF DirectoryTypes
  <2>4. FilesSeen'
    BY <2>1 DEF FilesSeen, F!Names, F!Shows
  <2> QED
    BY <1>4, <2>1, <2>2, <2>3, <2>4
<1>6. CASE F!ReadFiles
  <2>1. at = "files" /\ at \in AtEntry /\ F!AfterStep /\ UNCHANGED <<census, bearer, bore, listing, exists>>
    BY <1>6 DEF F!ReadFiles, F!bus, AtEntry
  <2>2. Within(place', at')
    BY <2>1, DirectoryNext
  <2>3. exists' \in [F!Names -> [Looked -> BOOLEAN \cup {None}]]
    BY <2>1 DEF DirectoryTypes
  <2>4. FilesSeen'
    BY <2>1 DEF FilesSeen, F!Names, F!Shows
  <2> QED
    BY <1>4, <2>1, <2>2, <2>3, <2>4
<1>7. CASE F!LookFor
  <2>1. at \in Looked /\ at \in AtEntry /\ F!AfterStep /\ UNCHANGED <<census, bearer, bore, listing>>
    BY <1>7 DEF F!LookFor, F!bus, AtEntry, Looked
  <2>2. Within(place', at')
    BY <2>1, DirectoryNext
  <2> DEFINE entry == F!Entry
  <2>3. entry \in F!Names
    <3>1. place \in Nat \ {0} /\ listing.names \in Seq(F!Names) /\ place <= Len(listing.names)
      BY <2>1 DEF DirectoryTypes
    <3>2. Len(listing.names) \in Nat
      BY <3>1
    <3> QED
      BY <3>1, <3>2, ElementOfSeq DEF F!Entry
  <2>4. PICK result \in F!PathExists(entry, at) : exists' = [exists EXCEPT ![entry][at] = result]
    BY <1>7 DEF F!LookFor
  <2> HIDE DEF entry
  <2>5. \/ result = None
        \/ (result = TRUE /\ F!Shows(bearer[entry], at))
        \/ (result = FALSE /\ ~F!Shows(bearer[entry], at))
    <3>1. F!Shows(bearer[entry], at) \in BOOLEAN
      BY DEF F!Shows
    <3> QED
      BY <2>4, <3>1 DEF F!PathExists
  <2>6. exists' \in [F!Names -> [Looked -> BOOLEAN \cup {None}]]
    BY <2>1, <2>3, <2>4, <2>5 DEF DirectoryTypes
  <2>7. \A n \in F!Names, f \in Looked : (n = entry /\ f = at /\ exists'[n][f] = result) \/ exists'[n][f] = exists[n][f]
    BY <2>1, <2>3, <2>4 DEF DirectoryTypes
  <2>8. bearer[entry] \in bore[entry]
    BY <2>3 DEF Steady
  <2>9. ASSUME NEW n \in F!Names, NEW f \in Looked
        PROVE  /\ exists'[n][f] = TRUE => \E nature \in bore[n] : F!Shows(nature, f)
               /\ None \notin bore[n] => exists'[n][f] \in {None, F!Shows(bearer[n], f)}
    <3>1. CASE exists'[n][f] = exists[n][f]
      BY <3>1 DEF FilesSeen
    <3>2. CASE n = entry /\ f = at /\ exists'[n][f] = result
      <4>1. CASE result = None
        BY <1>0, <3>2, <4>1
      <4>2. CASE result = TRUE /\ F!Shows(bearer[n], f)
        BY <2>8, <3>2, <4>2 DEF F!Shows
      <4>3. CASE result = FALSE /\ ~F!Shows(bearer[n], f)
        <5>1. F!Shows(bearer[n], f) \in BOOLEAN
          BY DEF F!Shows
        <5>2. F!Shows(bearer[n], f) = FALSE
          BY <4>3, <5>1
        <5> QED
          BY <3>2, <4>3, <5>2
      <4> QED
        BY <2>5, <3>2, <4>1, <4>2, <4>3
    <3> QED
      BY <2>7, <3>1, <3>2
  <2>10. FilesSeen'
    BY <2>1, <2>9 DEF FilesSeen, F!Names, F!Shows
  <2> QED
    BY <1>4, <2>1, <2>2, <2>6, <2>10
<1> QED
  BY <1>1, <1>2, <1>3, <1>5, <1>6, <1>7 DEF F!Read

\* A directory that is called complete has what was there all the time and nothing else.
LEMMA DirectoryComplete == DirectoryInv => F!CompleteIsAll
<1> SUFFICES ASSUME DirectoryInv, listing # None, F!Report = "Complete"
             PROVE  F!Stayed \subseteq F!Members /\ F!Members \subseteq F!Occurred
  BY DEF F!CompleteIsAll
<1>1. F!StatusOf(listing) = "Success" /\ F!Range(listing.names) = F!Members
  BY DEF F!Report, F!Completeness, F!Observed
<1>2. ~listing.error
  BY <1>1 DEF F!StatusOf
<1> QED
  BY <1>1, <1>2 DEF DirectoryInv, DirectoryListed

\* A file that was there makes the kind of one that bore the name; where none was there,
\* and the name was borne all the time, its bearer has none of the three.
LEMMA DirectoryKind == DirectoryInv => F!KindRight
<1> SUFFICES ASSUME DirectoryInv, census = "NetworkInterfaces", NEW n \in F!Names, F!Kind(n) # None
             PROVE  F!Kind(n) \in bore[n] \/ (F!Kind(n) = "virtual" /\ None \in bore[n])
  BY DEF F!KindRight
<1> DEFINE e == exists[n]
<1>1. None \notin {e.device, e.bridge, e.bonding}
  BY DEF F!Kind
<1>2. e.device \in BOOLEAN /\ e.bridge \in BOOLEAN /\ e.bonding \in BOOLEAN
  <2>1. e \in [Looked -> BOOLEAN \cup {None}]
    BY DEF DirectoryInv, DirectoryTypes
  <2> QED
    BY <1>1, <2>1 DEF Looked
<1>3. ASSUME NEW f \in Looked
      PROVE  /\ exists[n][f] = TRUE => \E nature \in bore[n] : F!Shows(nature, f)
             /\ None \notin bore[n] => exists[n][f] \in {None, F!Shows(bearer[n], f)}
  BY DEF DirectoryInv, FilesSeen
<1>4. CASE e.bridge = TRUE
  <2>1. F!Kind(n) = "bridge"
    BY <1>1, <1>4 DEF F!Kind
  <2> QED
    BY <1>3, <1>4, <2>1 DEF F!Shows, Looked
<1>5. CASE e.bridge = FALSE /\ e.bonding = TRUE
  <2>1. F!Kind(n) = "bond"
    BY <1>1, <1>5 DEF F!Kind
  <2> QED
    BY <1>3, <1>5, <2>1 DEF F!Shows, Looked
<1>6. CASE e.bridge = FALSE /\ e.bonding = FALSE /\ e.device = TRUE
  <2>1. F!Kind(n) = "physical"
    BY <1>1, <1>6 DEF F!Kind
  <2> QED
    BY <1>3, <1>6, <2>1 DEF F!Shows, Looked
<1>7. CASE e.bridge = FALSE /\ e.bonding = FALSE /\ e.device = FALSE
  <2>1. F!Kind(n) = "virtual"
    BY <1>1, <1>7 DEF F!Kind
  <2>2. bearer[n] \in bore[n] /\ bearer[n] \in {"physical", "virtual", "bridge", "bond"} \cup {None}
    BY DEF DirectoryInv, DirectoryTypes, Steady, F!Natures
  <2>3. ASSUME None \notin bore[n] PROVE bearer[n] = "virtual"
    <3>1. ASSUME NEW f \in {"device", "bridge", "bonding"} PROVE ~F!Shows(bearer[n], f)
      <4>1. exists[n][f] = FALSE /\ exists[n][f] # None
        BY <1>1, <1>7
      <4>2. exists[n][f] = F!Shows(bearer[n], f)
        BY <1>3, <2>3, <4>1 DEF Looked
      <4> QED
        BY <4>1, <4>2
    <3> QED
      BY <2>2, <2>3, <3>1 DEF F!Shows
  <2> QED
    BY <2>1, <2>2, <2>3
<1> QED
  BY <1>2, <1>4, <1>5, <1>6, <1>7

-----------------------------------------------------------------------------
(* Drives.                                                                 *)

DriveTypes ==
    /\ D!Drives \subseteq Nat
    /\ drives \in [D!Drives -> [kind : {"nvme", "ata", "scsi", "usb"}, failing : BOOLEAN, readable : BOOLEAN]]
    /\ targets \subseteq D!Drives
    /\ DOMAIN answers = D!Drives /\ DOMAIN fallbacks = D!Drives
    /\ broken \in BOOLEAN

DriveSpans == kept \subseteq attached /\ kept \subseteq span.always /\ kept \subseteq D!Drives

\* While no record is deficient, the drives that stayed and can be read are targets, directory
\* by directory.
Scanned ==
    ~broken =>
        /\ stage \in {"block directory", "disks", "query"} => kept \cap D!Readable({"nvme"}) \subseteq targets
        /\ stage = "query" => kept \cap D!Readable({"ata", "scsi", "usb"}) \subseteq targets \ D!Of({"usb"})

Requested == targets # {} => "StorageHealth" \in requested

\* An answer says what is true of the drive, or nothing.
Told(d, a) ==
    \/ (a.end \in {"timed out", "other"} /\ a.object)
    \/ /\ a.end = "exited" /\ a.code \in Nat /\ a.object \in BOOLEAN
       /\ a.passed \in {None, ~drives[d].failing} /\ a.warning \in {None, drives[d].failing}
       /\ a.code % 4 # 0 \/ ~a.object => a.passed = None /\ a.warning = None /\ ~a.readings

Answered ==
    \A d \in D!Drives :
        /\ answers[d] # None => Told(d, answers[d])
        /\ fallbacks[d] # None =>
             /\ answers[d] # None /\ answers[d].end = "exited" /\ answers[d].code = 127
             /\ fallbacks[d].object \in BOOLEAN /\ fallbacks[d].warning \in {None, drives[d].failing}

DriveInv == DriveTypes /\ DriveSpans /\ Scanned /\ Requested /\ Answered

\* The next drive to ask is one of those that were not asked.
LEMMA NextTarget == ASSUME NEW S, S \subseteq Nat, S # {} PROVE D!Min(S) \in S
<1> DEFINE R == {p \in Nat \X Nat : p[1] < p[2]}
<1>1. IsWellFoundedOn(R, Nat)
  BY ONLY NatLessThanWellFounded DEF OpToRel
<1>2. PICK x \in S : \A y \in S : ~ (<<y, x>> \in R)
  <2> HIDE DEF R
  <2> QED
    BY <1>1, WFMin
<1>3. ASSUME NEW y \in S PROVE x <= y
  <2>1. y \in Nat /\ x \in Nat
    OBVIOUS
  <2>2. <<y, x>> \in R <=> y < x
    BY <2>1
  <2> HIDE DEF R
  <2> QED
    BY <1>2, <2>1, <2>2
<1> QED
  BY <1>3 DEF D!Min

\* No drive is asked at first, and all that are there have been so all the time.
LEMMA DriveInit == Init => DriveInv
<1> SUFFICES ASSUME Init PROVE DriveInv
  OBVIOUS
<1>1. PICK host \in Hosts : drives = host.drives /\ attached = DOMAIN host.drives
  BY DEF Init
<1>2. /\ D!Drives \subseteq Nat
      /\ drives \in [D!Drives -> [kind : {"nvme", "ata", "scsi", "usb"}, failing : BOOLEAN, readable : BOOLEAN]]
  BY <1>1, HostsAssumption DEF PossibleDrives, D!Drives
<1>3. D!Start
  BY DEF Init
<1>4. DriveTypes /\ Scanned /\ Requested
  BY <1>2, <1>3 DEF D!Start, DriveTypes, Scanned, Requested
<1>5. DriveSpans
  BY <1>1, <1>3 DEF D!Start, DriveSpans, D!Drives
<1>6. Answered
  BY <1>3 DEF D!Start, Answered
<1> QED
  BY <1>4, <1>5, <1>6 DEF DriveInv

\* A drive that goes has not been there all the time.
LEMMA DriveSwap == DriveInv /\ D!Swap => DriveInv'
<1> SUFFICES ASSUME DriveInv, D!Swap PROVE DriveInv'
  OBVIOUS
<1>1. /\ kept' = kept \cap attached' /\ span'.always = span.always \cap attached'
      /\ UNCHANGED <<requested, drives, stage, targets, broken, answers, fallbacks>>
  BY DEF D!Swap
<1> QED
  BY <1>1 DEF DriveInv, DriveTypes, DriveSpans, Scanned, Requested, Answered, Told, D!Drives, D!Of, D!Readable

\* A listing without a deficient record finds what has been there all the time; an answer
\* is true of its drive.
LEMMA DriveRead == DriveInv /\ D!Read => DriveInv'
<1> SUFFICES ASSUME DriveInv, D!Read PROVE DriveInv'
  OBVIOUS
<1> USE DEF DriveInv
<1>0. "StorageHealth" \in requested
  BY DEF D!Read, D!Collecting
<1>1. CASE D!Open
  <2>1. /\ span'.always = attached /\ UNCHANGED <<requested, drives, attached, kept, targets, broken, answers, fallbacks>>
        /\ \/ (stage = "nvme directory" /\ stage' = "controllers")
           \/ (stage = "block directory" /\ stage' = "disks")
    <3>1. PICK next \in {<<"nvme directory", "controllers">>, <<"block directory", "disks">>} :
              stage = next[1] /\ stage' = next[2]
      BY <1>1 DEF D!Open
    <3>2. CASE next = <<"nvme directory", "controllers">>
      BY <1>1, <3>1, <3>2 DEF D!Open
    <3>3. CASE next = <<"block directory", "disks">>
      BY <1>1, <3>1, <3>3 DEF D!Open
    <3> QED
      BY <3>1, <3>2, <3>3
  <2>2. DriveTypes' /\ Requested' /\ Answered'
    BY <2>1 DEF DriveTypes, Requested, Answered, Told, D!Drives
  <2>3. DriveSpans' /\ Scanned'
    BY <2>1 DEF DriveSpans, Scanned, D!Drives, D!Of, D!Readable
  <2> QED
    BY <2>2, <2>3
<1>2. CASE D!List
  <2>1. PICK scan \in {<<"controllers", {"nvme"}, "block directory">>, <<"disks", {"ata", "scsi", "usb"}, "query">>} :
            /\ stage = scan[1]
            /\ \E found \in SUBSET D!Drives, error \in BOOLEAN :
                 /\ D!Listed(found, scan[2], error)
                 /\ targets' = targets \cup (found \ D!Of({"usb"}))
                 /\ broken' = (broken \/ D!Deficient(found, error))
            /\ stage' = scan[3]
    BY <1>2 DEF D!List
  <2>2. PICK found \in SUBSET D!Drives, error \in BOOLEAN :
                 /\ D!Listed(found, scan[2], error)
                 /\ targets' = targets \cup (found \ D!Of({"usb"}))
                 /\ broken' = (broken \/ D!Deficient(found, error))
    BY <2>1
  <2>3. UNCHANGED <<requested, drives, attached, span, kept, answers, fallbacks>>
    BY <1>2 DEF D!List, D!bay
  <2>4. DriveTypes'
    BY <2>2, <2>3 DEF DriveTypes, D!Drives
  <2>5. DriveSpans' /\ Requested' /\ Answered'
    BY <1>0, <2>3 DEF DriveSpans, Requested, Answered, Told, D!Drives
  <2>6. ASSUME ~broken'
        PROVE  ~broken /\ found \cap D!Of({"usb"}) = {} /\ D!Readable(scan[2]) \cap kept \subseteq found
    BY <2>2, <2>6 DEF D!Deficient, D!Listed, DriveSpans
  <2>7. Scanned'
    <3> DEFINE controllers == <<"controllers", {"nvme"}, "block directory">>
               disks == <<"disks", {"ata", "scsi", "usb"}, "query">>
    <3>1. CASE scan = controllers
      <4>1. scan[2] = {"nvme"} /\ stage' = "block directory"
        BY <2>1, <3>1
      <4> QED
        BY <2>2, <2>3, <2>6, <4>1 DEF Scanned, D!Readable, D!Of, D!Drives
    <3>2. CASE scan = disks
      <4>1. scan[2] = {"ata", "scsi", "usb"} /\ stage = "disks" /\ stage' = "query"
        BY <2>1, <3>2
      <4> QED
        BY <2>2, <2>3, <2>6, <4>1 DEF Scanned, D!Readable, D!Of, D!Drives
    <3> QED
      BY <2>1, <3>1, <3>2
  <2> QED
    BY <2>4, <2>5, <2>7
<1>3. CASE D!Query
  <2> DEFINE d == D!Min(targets \ D!Asked)
  <2>1. d \in targets \ D!Asked /\ d \in D!Drives
    <3>1. targets \ D!Asked # {} /\ targets \ D!Asked \subseteq Nat /\ targets \subseteq D!Drives
      BY <1>3 DEF D!Query, D!Asked, DriveTypes
    <3> QED
      BY <3>1, NextTarget
  <2>2. PICK a \in D!Answer(d) :
             /\ answers' = [answers EXCEPT ![d] = a]
             /\ IF drives[d].kind = "nvme" /\ a.code = 127 /\ ~a.object
                THEN \E b \in D!SecondAnswer(d) : fallbacks' = [fallbacks EXCEPT ![d] = b]
                ELSE UNCHANGED fallbacks
    BY <1>3 DEF D!Query
  <2> HIDE DEF d
  <2>3. UNCHANGED <<requested, drives, attached, span, kept, stage, targets, broken>>
    BY <1>3 DEF D!Query, D!bay
  <2>4. drives[d].failing \in BOOLEAN
    BY <2>1 DEF DriveTypes
  <2>5. Told(d, a)
    <3>1. CASE a \in D!Exits(d) /\ D!Truthful(d, a)
      <4>1. /\ a.end = "exited" /\ a.code \in ExitCodes /\ a.object \in BOOLEAN
            /\ a.passed \in BOOLEAN \cup {None} /\ a.warning \in BOOLEAN \cup {None} /\ a.readings \in BOOLEAN
        BY <3>1 DEF D!Exits
      <4>2. a.code \in Nat
        BY <4>1, HostsAssumption
      <4>3. /\ a.code % 4 # 0 \/ ~a.object => a.passed = None /\ a.warning = None /\ ~a.readings
            /\ a.passed \in {None, ~drives[d].failing}
            /\ a.warning \in IF drives[d].kind = "nvme" THEN {None, drives[d].failing} ELSE {None}
        BY <3>1, Zenon DEF D!Truthful
      <4>4. a.warning \in {None, drives[d].failing}
        BY <4>3, Zenon
      <4> QED
        BY <4>1, <4>2, <4>3, <4>4, Zenon DEF Told
    <3>2. CASE \E end \in {"timed out", "other"} :
                 a = [end |-> end, code |-> None, object |-> TRUE, passed |-> ~drives[d].failing, warning |-> None,
                      readings |-> TRUE]
      <4>0. PICK end \in {"timed out", "other"} :
                 a = [end |-> end, code |-> None, object |-> TRUE, passed |-> ~drives[d].failing, warning |-> None,
                      readings |-> TRUE]
        BY <3>2
      <4>1. a.end = end /\ a.object = TRUE
        BY <4>0
      <4> QED
        BY <4>0, <4>1 DEF Told
    <3> QED
      BY <2>2, <3>1, <3>2, Zenon DEF D!Answer
  <2>6. DriveTypes'
    BY <2>1, <2>2, <2>3 DEF DriveTypes, D!Drives
  <2>7. DriveSpans' /\ Scanned' /\ Requested'
    BY <2>3 DEF DriveSpans, Scanned, Requested, D!Drives, D!Of, D!Readable
  <2>8. ASSUME NEW e \in D!Drives PROVE answers'[e] = IF e = d THEN a ELSE answers[e]
    BY <2>1, <2>2 DEF DriveTypes
  <2>9. CASE drives[d].kind = "nvme" /\ a.code = 127 /\ ~a.object
    <3>1. PICK b \in D!SecondAnswer(d) : fallbacks' = [fallbacks EXCEPT ![d] = b]
      BY <2>2, <2>9
    <3>2. ASSUME NEW e \in D!Drives PROVE fallbacks'[e] = IF e = d THEN b ELSE fallbacks[e]
      BY <2>1, <3>1 DEF DriveTypes
    <3>3. DOMAIN fallbacks' = D!Drives
      BY <3>1 DEF DriveTypes
    <3>4. b.object \in BOOLEAN /\ b.warning \in {None, drives[d].failing}
      <4> DEFINE some == IF d \in attached THEN {None, drives[d].failing} ELSE {}
      <4>1. some \subseteq {None, drives[d].failing}
        BY Zenon
      <4> HIDE DEF some
      <4>2. CASE b = [object |-> FALSE, warning |-> None, readings |-> FALSE]
        BY <4>2
      <4>3. CASE \E warning \in some, readings \in BOOLEAN : b = [object |-> TRUE, warning |-> warning, readings |-> readings]
        <5>1. PICK warning \in some, readings \in BOOLEAN : b = [object |-> TRUE, warning |-> warning, readings |-> readings]
          BY <4>3
        <5>2. b.object = TRUE /\ b.warning = warning
          BY <5>1
        <5> QED
          BY <4>1, <5>1, <5>2
      <4>4. b \in {[object |-> FALSE, warning |-> None, readings |-> FALSE]}
                    \cup {[object |-> TRUE, warning |-> warning, readings |-> readings] : warning \in some, readings \in BOOLEAN}
        BY <3>1 DEF D!SecondAnswer, some
      <4> QED
        BY <4>2, <4>3, <4>4
    <3>5. a.end = "exited" /\ a # None
      <4>1. CASE a \in D!Exits(d)
        BY <4>1, AnswerIsThere DEF D!Exits
      <4>2. CASE \E end \in {"timed out", "other"} :
                   a = [end |-> end, code |-> None, object |-> TRUE, passed |-> ~drives[d].failing, warning |-> None,
                        readings |-> TRUE]
        <5>1. PICK end \in {"timed out", "other"} :
                   a = [end |-> end, code |-> None, object |-> TRUE, passed |-> ~drives[d].failing, warning |-> None,
                        readings |-> TRUE]
          BY <4>2
        <5>2. a.object = TRUE
          BY <5>1
        <5> QED
          BY <2>9, <5>2
      <4> QED
        BY <2>2, <4>1, <4>2, Zenon DEF D!Answer
    <3>6. DriveTypes'
      BY <2>2, <2>3, <3>3 DEF DriveTypes, D!Drives
    <3>7. ASSUME NEW e \in D!Drives
          PROVE  /\ answers'[e] # None => Told(e, answers'[e])
                 /\ fallbacks'[e] # None =>
                      /\ answers'[e] # None /\ answers'[e].end = "exited" /\ answers'[e].code = 127
                      /\ fallbacks'[e].object \in BOOLEAN /\ fallbacks'[e].warning \in {None, drives[e].failing}
      <4>1. CASE e = d
        BY <2>5, <2>8, <2>9, <3>2, <3>4, <3>5, <4>1
      <4>2. CASE e # d
        BY <2>8, <3>2, <4>2 DEF Answered
      <4> QED
        BY <4>1, <4>2
    <3>8. Answered'
      BY <2>3, <3>7 DEF Answered, Told, D!Drives
    <3> QED
      BY <2>7, <3>6, <3>8
  <2>10. CASE ~(drives[d].kind = "nvme" /\ a.code = 127 /\ ~a.object)
    <3>1. UNCHANGED fallbacks
      BY <2>2, <2>10
    <3>2. DriveTypes'
      BY <2>2, <2>3, <3>1 DEF DriveTypes, D!Drives
    <3>3. answers[d] = None
      BY <2>1 DEF D!Asked
    <3>4. ASSUME NEW e \in D!Drives
          PROVE  /\ answers'[e] # None => Told(e, answers'[e])
                 /\ fallbacks[e] # None =>
                      /\ answers'[e] # None /\ answers'[e].end = "exited" /\ answers'[e].code = 127
                      /\ fallbacks[e].object \in BOOLEAN /\ fallbacks[e].warning \in {None, drives[e].failing}
      BY <2>5, <2>8, <3>3 DEF Answered
    <3>5. Answered'
      BY <2>3, <3>1, <3>4 DEF Answered, Told, D!Drives
    <3> QED
      BY <2>7, <3>2, <3>5
  <2> QED
    BY <2>9, <2>10
<1> QED
  BY <1>1, <1>2, <1>3 DEF D!Read

\* What a report says of a target: nvme-cli's word where smartctl is missing, otherwise
\* that of an answer with an object.
LEMMA ReportOf ==
    ASSUME NEW d
    PROVE  /\ fallbacks[d] # None =>
                /\ D!Report(d).passed = None /\ D!Report(d).warning = fallbacks[d].warning
                /\ D!Report(d).readings = fallbacks[d].readings
           /\ fallbacks[d] = None /\ D!Outcome(answers[d], drives[d].kind) \in {"Success", "Partial"} =>
                /\ D!Report(d).status = D!Outcome(answers[d], drives[d].kind)
                /\ D!Report(d).passed = answers[d].passed /\ D!Report(d).warning = answers[d].warning
                /\ D!Report(d).readings = answers[d].readings
           /\ fallbacks[d] = None /\ D!Outcome(answers[d], drives[d].kind) \notin {"Success", "Partial"} =>
                /\ D!Report(d).status = D!Outcome(answers[d], drives[d].kind)
                /\ D!Report(d).passed = None /\ D!Report(d).warning = None
<1>1. CASE fallbacks[d] # None
  BY <1>1 DEF D!Report
<1>2. CASE fallbacks[d] = None /\ D!Outcome(answers[d], drives[d].kind) \in {"Success", "Partial"}
  BY <1>2 DEF D!Report
<1>3. CASE fallbacks[d] = None /\ D!Outcome(answers[d], drives[d].kind) \notin {"Success", "Partial"}
  BY <1>3 DEF D!Report
<1> QED
  BY <1>1, <1>2, <1>3

\* What is available was asked drive by drive, and each has evidence.
LEMMA DriveAvailable == DriveInv => D!HealthAvailableIsComplete
<1> SUFFICES ASSUME DriveInv, ~D!Collecting, D!Coverage = "Available", NEW d \in kept, drives[d].readable
             PROVE  /\ drives[d].kind # "usb" /\ d \in targets
                    /\ \/ (fallbacks[d] # None /\ (fallbacks[d].warning # None \/ fallbacks[d].readings))
                       \/ (answers[d].end = "exited" /\ answers[d].code % 8 = 0 /\ D!HasEvidence(answers[d]))
  BY DEF D!HealthAvailableIsComplete
<1>1. "StorageHealth" \in requested /\ ~D!Incomplete
  BY DEF D!Coverage
<1>2. stage = "query" /\ ~broken /\ \A e \in targets : D!Report(e).status = "Success" /\ D!HasEvidence(D!Report(e))
  BY <1>1 DEF D!Collecting, D!Incomplete
<1>3. d \in D!Drives /\ drives[d].kind \in {"nvme", "ata", "scsi", "usb"}
  BY DEF DriveInv, DriveSpans, DriveTypes
<1>4. d \in targets /\ drives[d].kind # "usb"
  BY <1>2, <1>3 DEF DriveInv, Scanned, D!Of, D!Readable
<1>5. CASE fallbacks[d] # None
  BY <1>2, <1>4, <1>5, ReportOf DEF D!HasEvidence
<1>6. CASE fallbacks[d] = None
  <2>1. D!Outcome(answers[d], drives[d].kind) = "Success"
    BY <1>2, <1>4, <1>6, ReportOf
  <2>2. D!HasEvidence(answers[d])
    BY <1>2, <1>4, <1>6, <2>1, ReportOf DEF D!HasEvidence
  <2>3. answers[d].end = "exited" /\ answers[d].code % 8 = 0
    BY <2>1 DEF D!Outcome
  <2> QED
    BY <1>4, <2>2, <2>3
<1> QED
  BY <1>4, <1>5, <1>6

\* What is critical is what a tool said of the drive, and nothing else takes that away.
LEMMA DriveFailing == DriveInv => D!FailingFound
<1> SUFFICES ASSUME DriveInv, ~D!Collecting, NEW d \in targets
             PROVE  /\ D!Critical(d) => drives[d].failing /\ answers[d].end = "exited"
                    /\ drives[d].failing /\ answers[d].end = "exited" /\ answers[d].code % 4 = 0
                         /\ (answers[d].passed # None \/ answers[d].warning # None) => D!Critical(d)
  BY DEF D!FailingFound
<1>0. None \notin BOOLEAN
  BY NoneApart
<1>1. d \in D!Drives /\ drives[d].failing \in BOOLEAN
  BY DEF DriveInv, DriveTypes
<1>2. answers[d] # None
  BY DEF DriveInv, Requested, D!Collecting, D!Asked
<1>3. Told(d, answers[d])
  BY <1>1, <1>2 DEF DriveInv, Answered
<1>4. CASE fallbacks[d] # None
  <2>1. /\ answers[d].end = "exited" /\ answers[d].code = 127 /\ fallbacks[d].warning \in {None, drives[d].failing}
    BY <1>1, <1>4 DEF DriveInv, Answered
  <2>2. D!Critical(d) <=> fallbacks[d].warning = TRUE
    BY <1>0, <1>4, ReportOf DEF D!Critical
  <2>3. ~(answers[d].code % 4 = 0)
    BY <2>1
  <2>4. fallbacks[d].warning = TRUE => drives[d].failing
    <3>1. CASE drives[d].failing = FALSE
      <4>1. fallbacks[d].warning \in {None, FALSE}
        BY <2>1, <3>1
      <4> QED
        BY <1>0, <4>1
    <3> QED
      BY <1>1, <3>1
  <2> QED
    BY <2>1, <2>2, <2>3, <2>4
<1>5. CASE fallbacks[d] = None /\ D!Outcome(answers[d], drives[d].kind) \in {"Success", "Partial"}
  <2>1. answers[d].end = "exited"
    BY <1>5 DEF D!Outcome
  <2>2. answers[d].passed \in {None, ~drives[d].failing} /\ answers[d].warning \in {None, drives[d].failing}
    BY <1>3, <2>1 DEF Told
  <2>3. D!Critical(d) <=> answers[d].passed = FALSE \/ answers[d].warning = TRUE
    BY <1>5, ReportOf DEF D!Critical
  <2>4. CASE drives[d].failing = TRUE
    <3>1. answers[d].passed \in {None, FALSE} /\ answers[d].warning \in {None, TRUE}
      BY <2>2, <2>4
    <3> QED
      BY <2>1, <2>3, <2>4, <3>1
  <2>5. CASE drives[d].failing = FALSE
    <3>1. answers[d].passed \in {None, TRUE} /\ answers[d].warning \in {None, FALSE}
      BY <2>2, <2>5
    <3> QED
      BY <1>0, <2>3, <2>5, <3>1
  <2> QED
    BY <1>1, <2>4, <2>5
<1>6. CASE fallbacks[d] = None /\ D!Outcome(answers[d], drives[d].kind) \notin {"Success", "Partial"}
  <2>1. ~D!Critical(d)
    BY <1>0, <1>6, ReportOf DEF D!Critical
  <2>2. ASSUME answers[d].end = "exited", answers[d].code % 4 = 0, answers[d].passed # None \/ answers[d].warning # None
        PROVE  FALSE
    <3>1. answers[d].code \in Nat /\ answers[d].object
      BY <1>3, <2>2 DEF Told
    <3>2. answers[d].code # 3 /\ answers[d].code # 5
      BY <2>2, <3>1
    <3>3. <<drives[d].kind, answers[d].code>> \notin {<<"ata", 3>>, <<"scsi", 3>>, <<"ata", 5>>}
      BY <3>2
    <3> QED
      BY <1>6, <2>2, <3>1, <3>3 DEF D!Outcome
  <2> QED
    BY <2>1, <2>2
<1> QED
  BY <1>4, <1>5, <1>6

-----------------------------------------------------------------------------
(* NUMA nodes.                                                             *)

\* The picture of the board is the same all the time.
BoardInv ==
    /\ IsFiniteSet(board.smbios) /\ IsFiniteSet(board.edac)
    /\ \A d, e \in board.smbios : d.slot = e.slot => d = e
    /\ \A d, e \in board.edac : d.slot = e.slot => d = e
    /\ \A e \in board.edac :
         /\ e.controller = board.home[e.slot] /\ e.controller \in DOMAIN board.controllers
         /\ board.smbios # {} => \E d \in board.smbios : d.slot = e.slot /\ d.label = e.label /\ d.size = e.size
    /\ None \notin DOMAIN board.controllers
    /\ \A i \in DOMAIN board.controllers :
         /\ board.controllers[i].node \in {None, board.node[i]}
         /\ board.controllers[i].pci \in DOMAIN board.pci => board.pci[board.controllers[i].pci] \in {None, board.node[i]}

\* The board is one of the possible ones.
LEMMA BoardInit == Init => BoardInv
<1> SUFFICES ASSUME Init PROVE BoardInv
  OBVIOUS
<1>1. PICK host \in Hosts : board = host.board
  BY DEF Init
<1>2. PossibleBoard(host)
  BY HostsAssumption
<1>3. None \notin DOMAIN board.controllers
  BY <1>1, <1>2, NoneApart DEF PossibleBoard
<1> QED
  BY <1>1, <1>2, <1>3 DEF PossibleBoard, BoardInv

\* A controller is known by its own node or by none.
LEMMA NodeOfController ==
    ASSUME BoardInv, NEW i
    PROVE  /\ L!ControllerNode(i) # None => i \in DOMAIN board.controllers /\ L!ControllerNode(i) = board.node[i]
           /\ i \in DOMAIN board.controllers
                /\ (board.controllers[i].node # None \/ L!PciNode(board.controllers[i].pci) # None)
                => L!ControllerNode(i) # None
<1>1. CASE i \notin DOMAIN board.controllers
  BY <1>1 DEF L!ControllerNode
<1>2. CASE i \in DOMAIN board.controllers
  <2>1. L!ControllerNode(i) = L!Or(board.controllers[i].node, L!PciNode(board.controllers[i].pci))
    BY <1>2 DEF L!ControllerNode
  <2>2. board.controllers[i].node \in {None, board.node[i]}
    BY <1>2 DEF BoardInv
  <2>3. L!PciNode(board.controllers[i].pci) \in {None, board.node[i]}
    BY <1>2 DEF BoardInv, L!PciNode
  <2> QED
    BY <1>2, <2>1, <2>2, <2>3 DEF L!Or
<1> QED
  BY <1>1, <1>2

\* One record that is alike is the one.
LEMMA OneAlike ==
    ASSUME NEW records, IsFiniteSet(records), NEW a, NEW b \in records, L!Alike(a, b)
    PROVE  L!Likes(records, a) = 1 <=> \A c \in records : L!Alike(a, c) => c = b
<1> DEFINE alike == {c \in records : L!Alike(a, c)}
<1>1. IsFiniteSet(alike)
  BY FS_Subset
<1>2. L!Likes(records, a) = Cardinality(alike)
  <2>1. L!Likes(records, a) = L!Cardinality(alike)
    BY DEF L!Likes
  <2> HIDE DEF alike
  <2>2. L!Cardinality(alike) = Cardinality(alike)
    BY DEF L!Cardinality, Cardinality
  <2> QED
    BY <2>1, <2>2
<1>3. Cardinality(alike) = 1 <=> \E x : alike = {x}
  BY <1>1, FS_Singleton
<1>4. b \in alike
  OBVIOUS
<1>5. (\E x : alike = {x}) <=> alike = {b}
  BY <1>4
<1>6. alike = {b} <=> \A c \in records : L!Alike(a, c) => c = b
  BY <1>4
<1> QED
  BY <1>2, <1>3, <1>5, <1>6

\* A record is handed on where the labels tell it apart, and only there.
LEMMA BoardKnown == BoardInv => L!NumaHandedOn
<1> SUFFICES ASSUME BoardInv PROVE L!NumaHandedOn
  OBVIOUS
<1> DEFINE known(i) == board.controllers[i].node # None \/ L!PciNode(board.controllers[i].pci) # None
           alone(e) == \A x \in board.smbios \cup board.edac : x.slot # e.slot => ~L!Alike(x, e)
<1>1. ASSUME NEW d \in board.smbios, NEW e \in L!Associated(d)
      PROVE  e \in board.edac /\ e.slot = d.slot
  <2>1. e \in board.edac /\ L!Alike(e, d) /\ L!Likes(board.smbios, e) = 1
    BY DEF L!Associated
  <2>2. PICK s \in board.smbios : s.slot = e.slot /\ s.label = e.label /\ s.size = e.size
    BY <2>1 DEF BoardInv
  <2>3. L!Alike(e, s) /\ L!Alike(e, d)
    BY <2>1, <2>2 DEF L!Alike
  <2>4. d = s
    BY <2>1, <2>3, OneAlike DEF BoardInv
  <2> QED
    BY <2>1, <2>2, <2>4
<1>2. ASSUME NEW d \in board.smbios, NEW e \in board.edac, d.slot = e.slot, e.label # None, alone(e)
      PROVE  L!Associated(d) = {e}
  <2>1. PICK s \in board.smbios : s.slot = e.slot /\ s.label = e.label /\ s.size = e.size
    BY DEF BoardInv
  <2>2. s = d
    BY <1>2, <2>1 DEF BoardInv
  <2>3. L!Alike(e, d) /\ L!Alike(e, e)
    BY <2>1, <2>2 DEF L!Alike
  <2>4. \A x \in board.smbios : L!Alike(e, x) => x = d
    BY <1>2 DEF BoardInv, L!Alike
  <2>5. \A x \in board.edac : L!Alike(e, x) => x = e
    BY <1>2 DEF BoardInv, L!Alike
  <2>6. L!Likes(board.smbios, e) = 1
    BY <2>3, <2>4, OneAlike DEF BoardInv
  <2>7. L!Likes(board.edac, e) = 1
    BY <2>3, <2>5, OneAlike DEF BoardInv
  <2>8. e \in L!Associated(d)
    BY <1>2, <2>3, <2>6, <2>7 DEF L!Associated
  <2>9. ASSUME NEW f \in L!Associated(d) PROVE f = e
    <3>1. f \in board.edac /\ L!Alike(f, d)
      BY DEF L!Associated
    <3>2. L!Alike(e, f)
      BY <2>3, <3>1 DEF L!Alike
    <3> QED
      BY <2>5, <3>1, <3>2
  <2> QED
    BY <2>8, <2>9
<1>3. ASSUME NEW d \in L!Dimms
      PROVE  /\ L!ControllerNode(d.controller) \in {None, board.node[board.home[d.slot]]}
             /\ \A e \in board.edac :
                  known(e.controller) /\ e.label # None /\ d.slot = e.slot /\ alone(e) => L!ControllerNode(d.controller) # None
  <2> HIDE DEF known, alone
  <2>1. CASE board.smbios = {}
    <3>1. d \in board.edac
      BY <2>1 DEF L!Dimms
    <3>2. d.controller = board.home[d.slot] /\ d.controller \in DOMAIN board.controllers
      BY <3>1 DEF BoardInv
    <3>3. \A e \in board.edac : d.slot = e.slot => d = e
      BY <3>1 DEF BoardInv
    <3> QED
      BY <3>2, <3>3, NodeOfController DEF known
  <2>2. CASE board.smbios # {}
    <3>1. PICK s \in board.smbios :
              d = [slot |-> s.slot, label |-> s.label, size |-> s.size,
                   controller |-> IF L!Associated(s) = {} THEN None
                                  ELSE (CHOOSE e \in L!Associated(s) : TRUE).controller]
      BY <2>2 DEF L!Dimms
    <3> DEFINE e == CHOOSE e \in L!Associated(s) : TRUE
    <3>2. d.slot = s.slot
      BY <3>1
    <3>3. CASE L!Associated(s) = {}
      <4>1. d.controller = None
        BY <3>1, <3>3
      <4>2. L!ControllerNode(d.controller) = None
        BY <4>1, NodeOfController DEF BoardInv
      <4>3. \A f \in board.edac : ~(f.label # None /\ d.slot = f.slot /\ alone(f))
        BY <1>2, <3>2, <3>3 DEF alone
      <4> QED
        BY <4>2, <4>3
    <3>4. CASE L!Associated(s) # {}
      <4>1. e \in L!Associated(s)
        BY <3>4
      <4>2. d.controller = e.controller
        BY <3>1, <3>4
      <4> HIDE DEF e
      <4>3. e \in board.edac /\ e.slot = s.slot
        BY <1>1, <4>1
      <4>4. e.controller = board.home[d.slot] /\ e.controller \in DOMAIN board.controllers
        BY <3>2, <4>3 DEF BoardInv
      <4>5. \A f \in board.edac : d.slot = f.slot => f = e
        BY <3>2, <4>3 DEF BoardInv
      <4> QED
        BY <4>2, <4>4, <4>5, NodeOfController DEF known
    <3> QED
      BY <3>3, <3>4
  <2> QED
    BY <2>1, <2>2
<1>4. ASSUME NEW e \in board.edac, known(e.controller)
      PROVE  L!ControllerNode(e.controller) = board.node[e.controller]
  <2>1. e.controller \in DOMAIN board.controllers
    BY DEF BoardInv
  <2> QED
    BY <1>4, <2>1, NodeOfController
<1>5. \A part \in L!Parts : L!PciNode(part.pci) # None => L!PartNode(part) # None
  BY DEF L!PartNode, L!Or
<1> QED
  BY <1>3, <1>4, <1>5 DEF L!NumaHandedOn

-----------------------------------------------------------------------------
(* Accelerators.                                                           *)

\* What is before an element.
Preceding(S, R, q) == {r \in S : <<r, q>> \in R}

\* As many elements are before one as its place in the order says.
LEMMA SortedAll ==
    ASSUME NEW S, IsFiniteSet(S), NEW R,
           \A p \in S : <<p, p>> \notin R,
           \A p, q \in S : p # q => <<p, q>> \in R \/ <<q, p>> \in R,
           \A p, q, r \in S : <<p, q>> \in R /\ <<q, r>> \in R => <<p, r>> \in R
    PROVE  /\ V!Sorted(S, R) \in [1 .. Cardinality(S) -> S]
           /\ V!Sorted(S, R) \in Seq(S) /\ Len(V!Sorted(S, R)) = Cardinality(S)
           /\ \A n \in 1 .. Cardinality(S) : Cardinality(Preceding(S, R, V!Sorted(S, R)[n])) = n - 1
           /\ \A q \in S : \E n \in 1 .. Cardinality(S) :
                V!Sorted(S, R)[n] = q /\ Cardinality(Preceding(S, R, q)) = n - 1
           /\ V!Elements(V!Sorted(S, R)) = S
<1> DEFINE Before(q) == Preceding(S, R, q)
           n == Cardinality(S)
           f == [q \in S |-> Cardinality(Before(q)) + 1]
<1>1. n \in Nat
  BY FS_CardinalityType
<1>2. ASSUME NEW q \in S PROVE IsFiniteSet(Before(q)) /\ Cardinality(Before(q)) \in Nat
  BY FS_Subset, FS_CardinalityType DEF Preceding
<1>3. ASSUME NEW p \in S, NEW q \in S, <<p, q>> \in R PROVE Cardinality(Before(p)) < Cardinality(Before(q))
  <2>1. Before(p) \subseteq Before(q) /\ p \in Before(q) /\ p \notin Before(p)
    BY <1>3 DEF Preceding
  <2>2. /\ Cardinality(Before(p)) <= Cardinality(Before(q))
        /\ Cardinality(Before(q)) = Cardinality(Before(p)) => Before(q) = Before(p)
    BY <1>2, <2>1, FS_Subset
  <2> HIDE DEF Before
  <2> QED
    BY <1>2, <2>1, <2>2
<1>4. \A q \in S : Cardinality(Before(q)) < n
  <2> SUFFICES ASSUME NEW q \in S PROVE Cardinality(Before(q)) < n
    OBVIOUS
  <2>1. Before(q) \subseteq S /\ q \in S /\ q \notin Before(q)
    BY DEF Preceding
  <2>2. /\ Cardinality(Before(q)) <= n
        /\ n = Cardinality(Before(q)) => S = Before(q)
    BY <2>1, FS_Subset
  <2> HIDE DEF Before
  <2> QED
    BY <1>1, <1>2, <2>1, <2>2
<1>5. \A p, q \in S : Cardinality(Before(p)) = Cardinality(Before(q)) => p = q
  <2> SUFFICES ASSUME NEW p \in S, NEW q \in S, Cardinality(Before(p)) = Cardinality(Before(q)), p # q PROVE FALSE
    OBVIOUS
  <2>1. CASE <<p, q>> \in R
    <3>1. Cardinality(Before(p)) < Cardinality(Before(q))
      BY <1>3, <2>1
    <3> HIDE DEF Before
    <3> QED BY <1>2, <3>1
  <2>2. CASE <<q, p>> \in R
    <3>1. Cardinality(Before(q)) < Cardinality(Before(p))
      BY <1>3, <2>2
    <3> HIDE DEF Before
    <3> QED BY <1>2, <3>1
  <2> QED BY <2>1, <2>2
<1>6. f \in Injection(S, 1 .. n)
  <2> HIDE DEF Before, n
  <2>1. f \in [S -> 1 .. n]
    BY <1>1, <1>2, <1>4
  <2>2. \A p, q \in S : f[p] = f[q] => p = q
    BY <1>2, <1>5
  <2> HIDE DEF f
  <2> QED
    BY <2>1, <2>2 DEF Injection, IsInjective
<1>7. f \in Surjection(S, 1 .. n)
  <2>1. IsFiniteSet(1 .. n) /\ Cardinality(1 .. n) = n
    BY <1>1, FS_Interval
  <2> HIDE DEF f
  <2> QED
    BY <1>6, <2>1, FS_Injection
<1>8. \A k \in 1 .. n : \E q \in S : Cardinality(Before(q)) = k - 1
  <2> SUFFICES ASSUME NEW k \in 1 .. n PROVE \E q \in S : Cardinality(Before(q)) = k - 1
    OBVIOUS
  <2>1. PICK q \in S : f[q] = k
    <3> HIDE DEF f
    <3> QED BY <1>7 DEF Surjection
  <2> HIDE DEF Before, n
  <2> QED
    BY <1>1, <1>2, <2>1
<1>9. V!Sorted(S, R) = [k \in 1 .. n |-> CHOOSE q \in S : Cardinality(Before(q)) = k - 1]
  BY DEF V!Sorted, V!Cardinality, Cardinality, Preceding
<1> DEFINE s == V!Sorted(S, R)
<1>10. \A k \in 1 .. n : s[k] \in S /\ Cardinality(Before(s[k])) = k - 1
  <2> HIDE DEF Before, n
  <2> QED BY <1>8, <1>9
<1>11. s \in [1 .. n -> S]
  <2> HIDE DEF Before, n
  <2> QED BY <1>9, <1>10
<1>12. \A q \in S : \E k \in 1 .. n : s[k] = q /\ Cardinality(Before(q)) = k - 1
  <2> SUFFICES ASSUME NEW q \in S PROVE \E k \in 1 .. n : s[k] = q /\ Cardinality(Before(q)) = k - 1
    OBVIOUS
  <2> DEFINE k == Cardinality(Before(q)) + 1
  <2>1. k \in 1 .. n /\ Cardinality(Before(q)) = k - 1
    <3> HIDE DEF Before, n
    <3> QED BY <1>1, <1>2, <1>4
  <2>2. s[k] = q
    <3> HIDE DEF Before, n, s, k
    <3> QED BY <1>5, <1>10, <2>1
  <2> HIDE DEF k, s, Before, n
  <2> QED BY <2>1, <2>2
<1>13. V!Elements(s) = S
  <2> HIDE DEF s, n
  <2>1. DOMAIN s = 1 .. n /\ \A k \in 1 .. n : s[k] \in S
    BY <1>11
  <2>2. \A q \in S : \E k \in 1 .. n : s[k] = q
    BY <1>12
  <2> QED
    BY <2>1, <2>2 DEF V!Elements
<1>14. s \in Seq(S) /\ Len(s) = n
  <2> HIDE DEF s, n
  <2> QED
    BY <1>1, <1>11
<1> QED
  BY <1>10, <1>11, <1>12, <1>13, <1>14

\* A set of numbers has a least one.
LEMMA LeastOf == ASSUME NEW S, S \subseteq Nat, S # {} PROVE \E m \in S : \A j \in S : ~(j < m)
<1> DEFINE R == {p \in Nat \X Nat : p[1] < p[2]}
<1>1. IsWellFoundedOn(R, Nat)
  BY ONLY NatLessThanWellFounded DEF OpToRel
<1>2. PICK m \in S : \A j \in S : <<j, m>> \notin R
  <2> HIDE DEF R
  <2> QED BY <1>1, WFMin
<1> QED
  BY <1>2

\* What the devices, the enumerations and the selectors of a call are.
Accelerators == [devices |-> devices, runtime |-> runtime]
Selectors == [environment |-> environment]
Vendor == {"NVIDIA", "AMD", "Intel"}

\* The vendors, as a set.
LEMMA VendorsAre == V!Elements(V!Vendors) = Vendor
  BY DEF V!Elements, V!Vendors, Vendor

\* The devices are a list, and no set of them is taken for a missing optional.
LEMMA DevicesListed ==
    ASSUME PossibleAccelerators(Accelerators)
    PROVE  /\ V!Indices = 1 .. Len(devices) /\ Len(devices) \in Nat
           /\ IsFiniteSet(V!Indices) /\ V!Indices \subseteq Nat
           /\ \A S : S \subseteq V!Indices => IsFiniteSet(S) /\ S # None
           /\ \A v : V!Own(v) \subseteq V!Indices
<1>1. devices \in Seq(V!Elements(devices))
  BY DEF PossibleAccelerators, Accelerators, IsList
<1>2. V!Indices = 1 .. Len(devices) /\ Len(devices) \in Nat
  BY <1>1 DEF V!Indices
<1>3. IsFiniteSet(V!Indices)
  BY <1>2, FS_Interval
<1>4. \A S : S \subseteq V!Indices => IsFiniteSet(S)
  BY <1>3, FS_Subset
<1>5. \A S \in SUBSET V!Indices : S # None
  BY DEF PossibleAccelerators, Accelerators, V!Indices
<1> QED
  BY <1>2, <1>3, <1>4, <1>5 DEF V!Own

\* Devices in the order of their ids are all there.
LEMMA SortedById ==
    ASSUME PossibleAccelerators(Accelerators), NEW S, S \subseteq V!Indices
    PROVE  V!ById(S) \in Seq(S) /\ V!Elements(V!ById(S)) = S
<1> DEFINE R == {p \in S \X S : devices[p[1]].id < devices[p[2]].id}
<1>1. \A i \in S : devices[i].id \in Nat
  BY DEF PossibleAccelerators, Accelerators, V!Indices
<1>2. \A i, j \in S : i # j => devices[i].id # devices[j].id
  BY DEF PossibleAccelerators, Accelerators, V!Indices
<1>3. \A p, q \in S : <<p, q>> \in R <=> devices[p].id < devices[q].id
  OBVIOUS
<1>4. V!ById(S) = V!Sorted(S, R)
  BY DEF V!ById
<1>5. IsFiniteSet(S)
  BY DevicesListed
<1> HIDE DEF R
<1>6. /\ \A p \in S : <<p, p>> \notin R
      /\ \A p, q \in S : p # q => <<p, q>> \in R \/ <<q, p>> \in R
      /\ \A p, q, r \in S : <<p, q>> \in R /\ <<q, r>> \in R => <<p, r>> \in R
  BY <1>1, <1>2, <1>3
<1> QED
  BY <1>4, <1>5, <1>6, SortedAll

\* The candidates are the devices of the vendor.
LEMMA CandidatesAre ==
    ASSUME PossibleAccelerators(Accelerators), NEW v
    PROVE  V!Candidates(v) \in Seq(V!Own(v)) /\ V!Elements(V!Candidates(v)) = V!Own(v)
  BY SortedById, DevicesListed DEF V!Candidates

\* An enumeration that is associated as a whole is a list of the devices it reports.
LEMMA AssociationIs ==
    ASSUME PossibleAccelerators(Accelerators), NEW v \in Vendor
    PROVE  LET list == V!Association(v, runtime[v])
           IN  /\ list = None <=> ~V!Complete(v)
               /\ list # None => /\ list \in Seq(V!Own(v)) /\ list \in Seq(Nat)
                                 /\ V!Elements(list) = {i \in V!Own(v) : V!Reported(i)}
<1>1. CASE runtime[v] = None
  BY <1>1 DEF V!Association, V!Complete
<1>2. CASE runtime[v] # None
  <2> DEFINE e == runtime[v]
             found == {p \in (DOMAIN e) \X V!Indices : p[2] \in V!Identified(v, e[p[1]])}
             before == {w \in found \X found : w[1][1] < w[2][1] \/ (w[1][1] = w[2][1] /\ w[1][2] < w[2][2])}
  <2>1. /\ e \in Seq(V!Elements(e))
        /\ \A k \in DOMAIN e : IF v = "NVIDIA" THEN e[k].uuid # None ELSE e[k].pci # None
    <3>1. IsList(e) /\ \A entry \in V!Elements(e) : IF v = "NVIDIA" THEN entry.uuid # None ELSE entry.pci # None
      BY <1>2, VendorsAre DEF PossibleAccelerators, Accelerators
    <3> HIDE DEF e
    <3> QED BY <3>1 DEF IsList, V!Elements
  <2>2. \A k \in DOMAIN e : V!Identified(v, e[k]) = {i \in V!Own(v) : V!Is(i, e[k])}
    BY <2>1 DEF V!Identified, V!Own, V!Is
  <2>3. V!Entries(v) = {e[k] : k \in DOMAIN e}
    BY <1>2 DEF V!Entries, V!Elements
  <2>4. \A i \in V!Own(v) : V!Reported(i) <=> \E k \in DOMAIN e : i \in V!Identified(v, e[k])
    BY <2>2, <2>3 DEF V!Reported, V!Own
  <2>5. V!Complete(v) <=> \A k \in DOMAIN e : V!Identified(v, e[k]) # {}
    BY <1>2, <2>2, <2>3 DEF V!Complete
  <2>6. CASE ~V!Complete(v)
    BY <1>2, <2>5, <2>6 DEF V!Association
  <2>7. CASE V!Complete(v)
    <3> DEFINE list == [n \in 1 .. Cardinality(found) |-> V!Sorted(found, before)[n][2]]
    <3>1. V!Association(v, runtime[v]) = list
      BY <1>2, <2>5, <2>7 DEF V!Association, V!Cardinality, Cardinality
    <3>2. IsFiniteSet(found) /\ DOMAIN e \subseteq Nat
      <4>1. IsFiniteSet(DOMAIN e) /\ DOMAIN e \subseteq Nat
        <5>1. DOMAIN e = 1 .. Len(e) /\ Len(e) \in Nat
          BY <2>1
        <5> QED BY <5>1, FS_Interval
      <4>2. IsFiniteSet((DOMAIN e) \X V!Indices)
        BY <4>1, DevicesListed, FS_Product
      <4> QED
        BY <4>1, <4>2, FS_Subset
    <3>3. /\ \A p \in found : p = <<p[1], p[2]>> /\ p[1] \in Nat /\ p[2] \in Nat /\ p[2] \in V!Own(v)
      BY <3>2, DevicesListed DEF V!Identified, V!Own
    <3>4. \A p, q \in found : <<p, q>> \in before <=> p[1] < q[1] \/ (p[1] = q[1] /\ p[2] < q[2])
      OBVIOUS
    <3> HIDE DEF before, found
    <3>5. /\ \A p \in found : <<p, p>> \notin before
          /\ \A p, q \in found : p # q => <<p, q>> \in before \/ <<q, p>> \in before
          /\ \A p, q, r \in found : <<p, q>> \in before /\ <<q, r>> \in before => <<p, r>> \in before
      BY <3>3, <3>4
    <3>6. /\ V!Sorted(found, before) \in [1 .. Cardinality(found) -> found]
          /\ \A q \in found : \E n \in 1 .. Cardinality(found) : V!Sorted(found, before)[n] = q
      <4> HIDE DEF list, e
      <4>1. IsFiniteSet(found)
        BY <3>2
      <4>2. V!Sorted(found, before) \in [1 .. Cardinality(found) -> found]
        BY ONLY <3>5, <4>1, SortedAll
      <4>3. \A q \in found : \E n \in 1 .. Cardinality(found) : V!Sorted(found, before)[n] = q
        <5>1. V!Elements(V!Sorted(found, before)) = found
          BY ONLY <3>5, <4>1, SortedAll
        <5> QED
          BY ONLY <4>2, <5>1 DEF V!Elements
      <4> QED
        BY ONLY <4>2, <4>3
    <3>7. Cardinality(found) \in Nat
      BY <3>2, FS_CardinalityType
    <3>8. \A n \in 1 .. Cardinality(found) : list[n] \in V!Own(v) /\ list[n] \in Nat
      BY <3>3, <3>6
    <3>9. list \in Seq(V!Own(v)) /\ list \in Seq(Nat)
      BY <3>7, <3>8
    <3>10. V!Elements(list) = {p[2] : p \in found}
      BY <3>6 DEF V!Elements
    <3>11. {p[2] : p \in found} = {i \in V!Own(v) : V!Reported(i)}
      <4>1. \A i \in V!Own(v), k \in DOMAIN e : i \in V!Identified(v, e[k]) => <<k, i>> \in found
        BY DevicesListed DEF found
      <4>2. \A p \in found : p[1] \in DOMAIN e /\ p[2] \in V!Identified(v, e[p[1]])
        BY DEF found
      <4> HIDE DEF e
      <4> QED
        BY <2>4, <3>3, <4>1, <4>2
    <3>12. list # None
      BY <3>9, HostsAssumption
    <3> HIDE DEF list
    <3> QED
      BY <2>7, <3>1, <3>9, <3>10, <3>11, <3>12
  <2> QED
    BY <2>6, <2>7
<1> QED
  BY <1>1, <1>2

\* Tokens that name a device each make a list of what they name, in their order.
LEMMA GatheredIs ==
    ASSUME NEW taken, taken \subseteq Nat, NEW named, NEW P, IsFiniteSet(P),
           \A k \in taken : named[k] \subseteq P /\ \A a, b \in named[k] : a = b
    PROVE  /\ V!Gathered(taken, named) \in Seq(P)
           /\ V!Elements(V!Gathered(taken, named)) = UNION {named[k] : k \in taken}
<1> DEFINE found == UNION {named[k] : k \in taken}
           first(i) == CHOOSE k \in taken : i \in named[k] /\ \A j \in taken : j < k => i \notin named[j]
           R == {p \in found \X found : first(p[1]) < first(p[2])}
<1>1. ASSUME NEW i \in found PROVE first(i) \in Nat /\ first(i) \in taken /\ i \in named[first(i)]
  <2> DEFINE K == {k \in taken : i \in named[k]}
  <2>1. K \subseteq Nat /\ K # {}
    OBVIOUS
  <2>2. PICK m \in K : \A j \in K : ~(j < m)
    <3> HIDE DEF K
    <3> QED BY <2>1, LeastOf
  <2>3. m \in taken /\ i \in named[m] /\ \A j \in taken : j < m => i \notin named[j]
    BY <2>2
  <2>4. first(i) \in taken /\ i \in named[first(i)]
    BY <2>3
  <2> QED
    BY <2>4
<1>2. \A i, j \in found : first(i) = first(j) => i = j
  <2> SUFFICES ASSUME NEW i \in found, NEW j \in found, first(i) = first(j) PROVE i = j
    OBVIOUS
  <2>1. first(i) \in taken /\ i \in named[first(i)] /\ j \in named[first(j)]
    BY <1>1
  <2> HIDE DEF first, found
  <2> QED
    BY <2>1
<1>3. \A p, q \in found : <<p, q>> \in R <=> first(p) < first(q)
  <2> HIDE DEF first, found
  <2> QED OBVIOUS
<1>4. /\ \A p \in found : <<p, p>> \notin R
      /\ \A p, q \in found : p # q => <<p, q>> \in R \/ <<q, p>> \in R
      /\ \A p, q, r \in found : <<p, q>> \in R /\ <<q, r>> \in R => <<p, r>> \in R
  <2>1. \A i \in found : first(i) \in Nat
    BY <1>1
  <2> HIDE DEF first, found, R
  <2> QED
    BY <1>2, <1>3, <2>1
<1>5. found \subseteq P /\ IsFiniteSet(found)
  <2>1. found \subseteq P
    OBVIOUS
  <2> HIDE DEF found
  <2> QED
    BY <2>1, FS_Subset
<1>6. V!Gathered(taken, named) = V!Sorted(found, R)
  BY DEF V!Gathered
<1>7. V!Sorted(found, R) \in Seq(found) /\ V!Elements(V!Sorted(found, R)) = found
  <2> HIDE DEF R, found, first
  <2> QED
    BY <1>4, <1>5, SortedAll
<1>8. V!Sorted(found, R) \in Seq(P)
  <2> HIDE DEF R, found, first
  <2> QED
    BY <1>5, <1>7
<1> QED
  BY <1>6, <1>7, <1>8

\* What a selector keeps of its tokens, and what they name.
Keeps(value, pool, uuidPool, byId) ==
    {k \in DOMAIN value : \A j \in 1 .. k : V!Valid(value[j], V!Named(value[j], pool, uuidPool, byId))}

\* A selector selects the devices that the tokens it keeps name.
LEMMA SelectCsvIs ==
    ASSUME PossibleAccelerators(Accelerators), NEW value, IsSelector(value), NEW byId \in BOOLEAN,
           NEW P, P \subseteq V!Indices, NEW pool \in Seq(P), NEW uuidPool \in Seq(P)
    PROVE  LET list == V!SelectCsv(value, pool, uuidPool, byId)
           IN  /\ list \in Seq(P) /\ V!Elements(list) \subseteq P
               /\ V!Elements(list) =
                    UNION {V!Named(value[k], pool, uuidPool, byId) : k \in Keeps(value, pool, uuidPool, byId)}
<1> DEFINE N(k) == V!Named(value[k], pool, uuidPool, byId)
           named == [k \in DOMAIN value |-> N(k)]
           taken == {k \in DOMAIN value : \A j \in 1 .. k : V!Valid(value[j], named[j])}
<1>1. DOMAIN value = 1 .. Len(value) /\ Len(value) \in Nat
  BY DEF IsSelector, IsList
<1>2. taken = Keeps(value, pool, uuidPool, byId) /\ taken \subseteq DOMAIN value /\ taken \subseteq Nat
  <2>1. \A k \in DOMAIN value : 1 .. k \subseteq DOMAIN value
    BY <1>1
  <2> HIDE DEF N
  <2>2. taken = {k \in DOMAIN value : \A j \in 1 .. k : V!Valid(value[j], N(j))}
    BY <2>1
  <2>3. taken = Keeps(value, pool, uuidPool, byId)
    BY <2>2 DEF Keeps, N
  <2>4. taken \subseteq DOMAIN value
    BY <2>2
  <2>5. DOMAIN value \subseteq Nat
    BY <1>1
  <2> HIDE DEF taken
  <2> QED
    BY <2>3, <2>4, <2>5
<1>3. V!SelectCsv(value, pool, uuidPool, byId) = V!Gathered(taken, named)
  BY DEF V!SelectCsv
<1>4. ASSUME NEW k \in taken PROVE named[k] \subseteq P /\ \A a, b \in named[k] : a = b
  <2>1. named[k] = N(k) /\ k \in DOMAIN value
    BY <1>2
  <2>2. V!Valid(value[k], N(k))
    <3>1. k \in 1 .. k
      BY <1>2
    <3> HIDE DEF N
    <3> QED
      BY <2>1, <3>1
  <2>3. V!Elements(pool) \subseteq P /\ V!Elements(uuidPool) \subseteq P /\ \A n \in 1 .. Len(pool) : pool[n] \in P
    BY DEF V!Elements
  <2>4. CASE value[k].kind = "ordinal" /\ byId
    <3>1. N(k) = {i \in V!Elements(pool) : devices[i].id = value[k].n}
      BY <2>4 DEF V!Named
    <3>2. \A i, j \in P : i # j => devices[i].id # devices[j].id
      BY DEF PossibleAccelerators, Accelerators, V!Indices
    <3> HIDE DEF N
    <3> QED
      BY <2>1, <2>3, <3>1, <3>2
  <2>5. CASE value[k].kind = "ordinal" /\ ~byId
    <3>1. N(k) = IF value[k].n < Len(pool) THEN {pool[value[k].n + 1]} ELSE {}
      BY <2>5 DEF V!Named
    <3>2. value[k].n \in Nat
      BY <2>1, <2>5 DEF IsSelector, IsList
    <3> HIDE DEF N
    <3> QED
      BY <2>1, <2>3, <3>1, <3>2
  <2>6. CASE value[k].kind = "uuid"
    <3>1. N(k) = {i \in V!Elements(uuidPool) : V!MatchesUuid(devices[i], value[k])}
      BY <2>6 DEF V!Named
    <3>2. N(k) \subseteq P
      BY <2>3, <3>1
    <3>3. IsFiniteSet(N(k)) /\ Cardinality(N(k)) = 1
      <4>1. IsFiniteSet(N(k))
        BY <3>2, DevicesListed
      <4> HIDE DEF N
      <4> QED
        BY <2>2, <2>6, <4>1 DEF V!Valid, V!Cardinality, Cardinality
    <3>4. PICK x : N(k) = {x}
      <4> HIDE DEF N
      <4> QED BY <3>3, FS_Singleton
    <3> HIDE DEF N
    <3> QED
      BY <2>1, <3>2, <3>4
  <2>7. CASE value[k].kind \notin {"ordinal", "uuid"}
    <3>1. N(k) = {}
      BY <2>7 DEF V!Named
    <3> HIDE DEF N
    <3> QED
      BY <2>1, <3>1
  <2> QED
    BY <2>4, <2>5, <2>6, <2>7
<1>5. /\ V!Gathered(taken, named) \in Seq(P)
      /\ V!Elements(V!Gathered(taken, named)) = UNION {named[k] : k \in taken}
  <2>1. IsFiniteSet(P)
    BY DevicesListed
  <2> HIDE DEF taken, named, N
  <2> QED
    BY <1>2, <1>4, <2>1, GatheredIs
<1>6. UNION {named[k] : k \in taken} = UNION {N(k) : k \in taken}
  <2> HIDE DEF N
  <2> QED BY <1>2
<1>7. UNION {named[k] : k \in taken} \subseteq P
  <2> HIDE DEF taken, named, N
  <2> QED BY <1>4
<1> HIDE DEF taken, named
<1> QED
  BY <1>2, <1>3, <1>5, <1>6, <1>7

\* What is narrowed are devices still.
LEMMA NarrowedIs ==
    ASSUME PossibleAccelerators(Accelerators), NEW P, P \subseteq V!Indices, NEW list \in Seq(P),
           NEW value, value # None => IsSelector(value)
    PROVE  V!Narrowed(list, value) \in Seq(P)
<1>1. CASE value = None
  BY <1>1 DEF V!Narrowed
<1>2. CASE value # None
  <2>1. V!SelectCsv(value, list, list, FALSE) \in Seq(P)
    BY <1>2, SelectCsvIs
  <2> QED
    BY <1>2, <2>1 DEF V!Narrowed
<1> QED
  BY <1>1, <1>2

\* The devices at lower addresses.
Below(S, i) == {j \in S : devices[j].pci < devices[i].pci}

\* GPUs in the order of their addresses, those without one last.
LEMMA SortedByAddress ==
    ASSUME PossibleAccelerators(Accelerators), NEW S, S \subseteq V!Own("NVIDIA"),
           \A i \in S : devices[i].parent = None
    PROVE  /\ V!ByAddress(S) \in Seq(S) /\ V!Elements(V!ByAddress(S)) = S
           /\ Len(V!ByAddress(S)) = Cardinality(S) /\ Cardinality(S) \in Nat
           /\ (\A i \in S : devices[i].pci # None) =>
                \A i \in S : \E n \in 1 .. Cardinality(S) :
                  V!ByAddress(S)[n] = i /\ Cardinality(Below(S, i)) = n - 1
           /\ (\A i \in S : devices[i].pci # None) =>
                \A n \in 1 .. Cardinality(S) :
                  Cardinality(Below(S, V!ByAddress(S)[n])) = n - 1
<1> DEFINE Before(i, j) == IF devices[i].pci = None \/ devices[j].pci = None
                           THEN devices[j].pci = None /\ (devices[i].pci # None \/ i < j)
                           ELSE devices[i].pci < devices[j].pci
           R == {p \in S \X S : Before(p[1], p[2])}
<1>1. \A i \in S : i \in Nat /\ devices[i].pci \in Nat \cup {None}
  <2>1. \A i \in V!Indices : devices[i].pci \in Nat \cup {None}
    BY DEF PossibleAccelerators, Accelerators, V!Indices
  <2> QED
    BY <2>1, DevicesListed DEF V!Own
<1>2. \A i, j \in S : i # j /\ devices[i].pci # None => devices[i].pci # devices[j].pci
  BY DEF PossibleAccelerators, Accelerators, V!Own, V!Indices
<1>3. V!ByAddress(S) = V!Sorted(S, R)
  BY DEF V!ByAddress
<1>4. \A i, j \in S : <<i, j>> \in R <=> Before(i, j)
  OBVIOUS
<1>5. None \notin Nat
  BY HostsAssumption
<1>6. /\ \A p \in S : <<p, p>> \notin R
      /\ \A p, q \in S : p # q => <<p, q>> \in R \/ <<q, p>> \in R
      /\ \A p, q, r \in S : <<p, q>> \in R /\ <<q, r>> \in R => <<p, r>> \in R
  <2> HIDE DEF R
  <2> QED
    BY <1>1, <1>2, <1>4, <1>5
<1>7. IsFiniteSet(S)
  BY DevicesListed
<1>8. Cardinality(S) \in Nat
  BY <1>7, FS_CardinalityType
<1>9. /\ V!Sorted(S, R) \in Seq(S) /\ V!Elements(V!Sorted(S, R)) = S /\ Len(V!Sorted(S, R)) = Cardinality(S)
      /\ V!Sorted(S, R) \in [1 .. Cardinality(S) -> S]
  <2> HIDE DEF R
  <2> QED
    BY <1>6, <1>7, SortedAll
<1>10. \A n \in 1 .. Cardinality(S) : Cardinality(Preceding(S, R, V!Sorted(S, R)[n])) = n - 1
  <2> HIDE DEF R
  <2> QED
    BY <1>6, <1>7, SortedAll
<1>11. \A q \in S : \E n \in 1 .. Cardinality(S) :
          V!Sorted(S, R)[n] = q /\ Cardinality(Preceding(S, R, q)) = n - 1
  <2> HIDE DEF R
  <2> QED
    BY <1>6, <1>7, SortedAll
<1>12. ASSUME \A i \in S : devices[i].pci # None, NEW i \in S
       PROVE  Preceding(S, R, i) = Below(S, i)
  <2> HIDE DEF R
  <2> QED
    BY <1>4, <1>12 DEF Preceding, Below
<1> HIDE DEF R, Before
<1>13. ASSUME \A i \in S : devices[i].pci # None, NEW i \in S
       PROVE  \E n \in 1 .. Cardinality(S) :
                V!Sorted(S, R)[n] = i /\ Cardinality(Below(S, i)) = n - 1
  <2>1. PICK n \in 1 .. Cardinality(S) : V!Sorted(S, R)[n] = i /\ Cardinality(Preceding(S, R, i)) = n - 1
    BY <1>11
  <2> QED
    BY <1>12, <1>13, <2>1
<1>14. ASSUME \A i \in S : devices[i].pci # None, NEW n \in 1 .. Cardinality(S)
       PROVE  Cardinality(Below(S, V!Sorted(S, R)[n])) = n - 1
  <2>1. V!Sorted(S, R)[n] \in S
    BY <1>9
  <2> QED
    BY <1>10, <1>12, <1>14, <2>1
<1>15. /\ V!ByAddress(S) \in Seq(S) /\ V!Elements(V!ByAddress(S)) = S
       /\ Len(V!ByAddress(S)) = Cardinality(S) /\ Cardinality(S) \in Nat
  BY <1>3, <1>8, <1>9
<1> QED
  BY <1>3, <1>13, <1>14, <1>15

\* The enumerations have been associated.
Associated == observed = [v \in V!Elements(V!Vendors) |-> V!Association(v, runtime[v])]

ReportedBy(v) == {i \in V!Own(v) : V!Reported(i)}

\* What a complete enumeration of a vendor says is what there is to select from.
LEMMA ObservedIs ==
    ASSUME PossibleAccelerators(Accelerators), Associated, NEW v \in Vendor
    PROVE  /\ observed[v] = V!Association(v, runtime[v])
           /\ observed[v] # None <=> V!Complete(v)
           /\ V!Complete(v) => observed[v] \in Seq(V!Own(v)) /\ V!Elements(observed[v]) = ReportedBy(v)
<1>1. observed[v] = V!Association(v, runtime[v])
  BY VendorsAre DEF Associated
<1> QED
  BY <1>1, AssociationIs DEF ReportedBy

\* The physical GPUs in the order of CUDA_DEVICE_ORDER.
Gpus == {i \in V!Own("NVIDIA") : devices[i].parent = None}

\* What decides about NVIDIA: a complete enumeration, or else CUDA_VISIBLE_DEVICES.
LEMMA NvidiaSelects ==
    ASSUME PossibleAccelerators(Accelerators), PossibleEnvironment(Selectors), Associated
    PROVE  LET list == V!Candidates("NVIDIA")
               ordered == IF environment.pciOrder THEN V!ByAddress(Gpus) ELSE V!ById(Gpus)
               selection == V!SelectCsv(environment.cuda, ordered, list, ~environment.pciOrder)
           IN  /\ ordered \in Seq(V!Own("NVIDIA"))
               /\ V!Complete("NVIDIA") => V!Decisive("NVIDIA") = ReportedBy("NVIDIA")
               /\ ~V!Complete("NVIDIA") /\ environment.cuda = None => V!Decisive("NVIDIA") = None
               /\ ~V!Complete("NVIDIA") /\ environment.cuda # None =>
                    /\ V!Decisive("NVIDIA") = V!Elements(selection)
                    /\ V!Elements(selection) \subseteq V!Own("NVIDIA")
<1> DEFINE own == V!Own("NVIDIA")
           list == V!Candidates("NVIDIA")
           ordered == IF environment.pciOrder THEN V!ByAddress(Gpus) ELSE V!ById(Gpus)
           selection == V!SelectCsv(environment.cuda, ordered, list, ~environment.pciOrder)
<1>1. /\ observed["NVIDIA"] # None <=> V!Complete("NVIDIA")
      /\ V!Complete("NVIDIA") => V!Elements(observed["NVIDIA"]) = ReportedBy("NVIDIA")
  BY ObservedIs DEF Vendor
<1>2. list \in Seq(own) /\ V!Elements(list) = own /\ own \subseteq V!Indices
  BY CandidatesAre, DevicesListed
<1>3. ordered \in Seq(own)
  <2>1. V!ByAddress(Gpus) \in Seq(Gpus)
    BY SortedByAddress DEF Gpus
  <2>2. V!ById(Gpus) \in Seq(Gpus)
    BY <1>2, SortedById DEF Gpus
  <2>3. Gpus \subseteq own
    BY DEF Gpus
  <2> QED
    BY <2>1, <2>2, <2>3
<1>4. CASE V!Complete("NVIDIA")
  <2>1. V!Selection("NVIDIA", observed["NVIDIA"], TRUE) = None
    BY DEF V!Selection, V!SelectNvidia
  <2> QED
    BY <1>1, <1>3, <1>4, <2>1 DEF V!Decisive
<1>5. CASE ~V!Complete("NVIDIA") /\ environment.cuda = None
  <2>1. V!Selection("NVIDIA", list, FALSE) = None
    BY <1>5 DEF V!Selection, V!SelectNvidia
  <2> QED
    BY <1>1, <1>3, <1>5, <2>1 DEF V!Decisive
<1>6. CASE ~V!Complete("NVIDIA") /\ environment.cuda # None
  <2>1. {i \in V!Elements(list) : devices[i].parent = None} = Gpus
    BY <1>2 DEF Gpus
  <2>2. V!Selection("NVIDIA", list, FALSE) = V!Elements(selection)
    <3> HIDE DEF list
    <3> QED
      BY <1>6, <2>1 DEF V!Selection, V!SelectNvidia
  <2>3. IsSelector(environment.cuda) /\ environment.pciOrder \in BOOLEAN
    BY <1>6 DEF PossibleEnvironment, Selectors
  <2>4. V!Elements(selection) \subseteq own
    <3> HIDE DEF list, ordered, own
    <3> QED
      BY <1>2, <1>3, <2>3, SelectCsvIs
  <2>5. V!Elements(selection) # None
    BY <1>2, <2>4, DevicesListed
  <2>6. V!Decisive("NVIDIA") = V!Elements(selection)
    <3> HIDE DEF selection
    <3> QED
      BY <1>1, <1>6, <2>2, <2>5 DEF V!Decisive
  <2> QED
    BY <1>3, <1>6, <2>4, <2>6
<1> QED
  BY <1>4, <1>5, <1>6

\* What decides about AMD: a complete enumeration, or else the variables, one within the other.
LEMMA AmdSelects ==
    ASSUME PossibleAccelerators(Accelerators), PossibleEnvironment(Selectors), Associated
    PROVE  LET list == V!Candidates("AMD")
           IN  /\ V!Complete("AMD") => V!Decisive("AMD") = ReportedBy("AMD")
               /\ ~V!Complete("AMD") /\ environment.rocr = None /\ environment.hip = None => V!Decisive("AMD") = None
               /\ ~V!Complete("AMD") /\ (environment.rocr # None \/ environment.hip # None) =>
                    V!Decisive("AMD") \subseteq V!Own("AMD")
               /\ ~V!Complete("AMD") /\ environment.rocr # None =>
                    V!Decisive("AMD") \subseteq V!Elements(V!SelectCsv(environment.rocr, list, list, FALSE))
<1> DEFINE own == V!Own("AMD")
           list == V!Candidates("AMD")
           first == V!Narrowed(list, environment.rocr)
           second == V!Narrowed(first, environment.hip)
<1>1. /\ observed["AMD"] # None <=> V!Complete("AMD")
      /\ V!Complete("AMD") => V!Elements(observed["AMD"]) = ReportedBy("AMD")
  BY ObservedIs DEF Vendor
<1>2. list \in Seq(own) /\ V!Elements(list) = own /\ own \subseteq V!Indices
  BY CandidatesAre, DevicesListed
<1>3. /\ environment.rocr # None => IsSelector(environment.rocr)
      /\ environment.hip # None => IsSelector(environment.hip)
  BY DEF PossibleEnvironment, Selectors
<1>4. CASE V!Complete("AMD")
  <2>1. V!Selection("AMD", observed["AMD"], TRUE) = None
    BY DEF V!Selection, V!SelectAmd
  <2> QED
    BY <1>1, <1>4, <2>1 DEF V!Decisive
<1>5. CASE ~V!Complete("AMD") /\ environment.rocr = None /\ environment.hip = None
  <2>1. V!Selection("AMD", list, FALSE) = None
    BY <1>5 DEF V!Selection, V!SelectAmd
  <2> QED
    BY <1>1, <1>5, <2>1 DEF V!Decisive
<1>6. CASE ~V!Complete("AMD") /\ (environment.rocr # None \/ environment.hip # None)
  <2>1. V!Selection("AMD", list, FALSE) = V!Elements(second)
    BY <1>6 DEF V!Selection, V!SelectAmd
  <2>2. first \in Seq(own)
    <3> HIDE DEF list, own
    <3> QED BY <1>2, <1>3, NarrowedIs
  <2>3. first \in Seq(V!Elements(first)) /\ V!Elements(first) \subseteq own
    <3> HIDE DEF first, own
    <3> QED BY <2>2 DEF V!Elements
  <2>4. second \in Seq(V!Elements(first))
    <3> HIDE DEF first, own
    <3>1. V!Elements(first) \subseteq V!Indices
      BY <1>2, <2>3
    <3> QED BY <1>3, <2>3, <3>1, NarrowedIs
  <2>5. V!Elements(second) \subseteq V!Elements(first)
    <3> HIDE DEF first, second, own
    <3>1. \A k \in DOMAIN second : second[k] \in V!Elements(first)
      BY <2>4
    <3> QED BY <3>1 DEF V!Elements
  <2>6. V!Elements(second) \subseteq own /\ V!Elements(second) # None
    <3> HIDE DEF first, second
    <3> QED BY <1>2, <2>3, <2>5, DevicesListed
  <2>7. V!Decisive("AMD") = V!Elements(second)
    <3> HIDE DEF second
    <3> QED BY <1>1, <1>6, <2>1, <2>6 DEF V!Decisive
  <2>8. environment.rocr # None => first = V!SelectCsv(environment.rocr, list, list, FALSE)
    BY DEF V!Narrowed
  <2> HIDE DEF second, first
  <2> QED
    BY <1>6, <2>5, <2>6, <2>7, <2>8
<1> QED
  BY <1>4, <1>5, <1>6

\* A filter of ONEAPI_DEVICE_SELECTOR selects from the candidates.
LEMMA SyclIs ==
    ASSUME PossibleEnvironment(Selectors), NEW P, NEW list \in Seq(P), NEW known \in BOOLEAN,
           environment.oneapi # None
    PROVE  V!SelectSycl(list, environment.oneapi, known) \subseteq P
<1> DEFINE filters == environment.oneapi
<1>1. V!Elements(list) \subseteq P /\ \A n \in 1 .. Len(list) : list[n] \in P
  BY DEF V!Elements
<1>2. CASE filters = <<>> \/ ~V!Readable(filters, known)
  BY <1>1, <1>2 DEF V!SelectSycl
<1>3. CASE filters # <<>> /\ V!Readable(filters, known)
  <2> DEFINE matching(exclude) ==
                 UNION {V!Picked(list, filters[k]) :
                        k \in {j \in DOMAIN filters : V!OfIntel(filters[j]) /\ filters[j].exclude = exclude}}
             accepted == IF \A k \in DOMAIN filters : filters[k].exclude THEN V!Elements(list) ELSE matching(FALSE)
  <2>1. \A k \in DOMAIN filters : filters[k].ordinals \subseteq Nat
    BY <1>3 DEF V!Readable, PossibleEnvironment, Selectors
  <2>2. \A k \in DOMAIN filters : V!Picked(list, filters[k]) \subseteq P
    <3> SUFFICES ASSUME NEW k \in DOMAIN filters PROVE V!Picked(list, filters[k]) \subseteq P
      OBVIOUS
    <3>1. \A m \in filters[k].ordinals : m < Len(list) => list[m + 1] \in P
      BY <1>1, <2>1
    <3> QED
      BY <1>1, <3>1 DEF V!Picked
  <2>3. matching(FALSE) \subseteq P
    <3> HIDE DEF filters
    <3> QED BY <2>2
  <2>4. V!SelectSycl(list, filters, known) = accepted \ matching(TRUE)
    BY <1>3 DEF V!SelectSycl
  <2> HIDE DEF matching
  <2> QED
    BY <1>1, <2>3, <2>4
<1> QED
  BY <1>2, <1>3

\* A selector that cannot be interpreted selects what there is to select from.
LEMMA UnreadableSelects ==
    ASSUME PossibleEnvironment(Selectors), NEW list, NEW known \in BOOLEAN, environment.oneapi # None,
           \/ environment.oneapi = Malformed
           \/ \E k \in DOMAIN environment.oneapi :
                /\ environment.oneapi[k].ordinals # {} /\ V!OfIntel(environment.oneapi[k])
                /\ environment.oneapi[k].backend # "level_zero" \/ ~known
    PROVE  V!SelectSycl(list, environment.oneapi, known) = V!Elements(list)
<1>1. Malformed # <<>>
  BY HostsAssumption
<1>2. environment.oneapi # <<>>
  BY <1>1
<1>3. ~V!Readable(environment.oneapi, known)
  BY DEF V!Readable
<1> QED
  BY <1>2, <1>3 DEF V!SelectSycl

\* What decides about Intel: the selector, within a complete enumeration or within the mask.
LEMMA IntelSelects ==
    ASSUME PossibleAccelerators(Accelerators), PossibleEnvironment(Selectors), Associated
    PROVE  LET view == IF V!Complete("Intel") THEN ReportedBy("Intel") ELSE V!Own("Intel")
           IN  /\ V!Complete("Intel") /\ environment.oneapi = None => V!Decisive("Intel") = ReportedBy("Intel")
               /\ V!Complete("Intel") /\ environment.oneapi # None =>
                    V!Decisive("Intel") \subseteq ReportedBy("Intel") /\ V!Decisive("Intel") # None
               /\ ~V!Complete("Intel") => V!Decisive("Intel") = None \/ V!Decisive("Intel") \subseteq V!Own("Intel")
               /\ ~V!Complete("Intel") /\ environment.mask = None /\ environment.oneapi = None =>
                    V!Decisive("Intel") = None
               /\ /\ environment.mask \in {None, Subdevices} /\ environment.oneapi # None
                  /\ \/ environment.oneapi = Malformed
                     \/ \E k \in DOMAIN environment.oneapi :
                          /\ environment.oneapi[k].ordinals # {} /\ V!OfIntel(environment.oneapi[k])
                          /\ environment.oneapi[k].backend # "level_zero" \/ ~V!Complete("Intel")
                  => V!Decisive("Intel") = view /\ view # None
<1> DEFINE own == V!Own("Intel")
           known == observed["Intel"] # None
           list == IF known THEN observed["Intel"] ELSE V!Candidates("Intel")
           view == IF known THEN ReportedBy("Intel") ELSE own
           tiles == IF known \/ environment.mask = Subdevices THEN None ELSE environment.mask
           masked == V!Narrowed(list, tiles)
           sycl == V!SelectSycl(masked, environment.oneapi, known)
           selection == V!Selection("Intel", list, known)
<1>1. known <=> V!Complete("Intel")
  BY ObservedIs DEF Vendor
<1>2. ReportedBy("Intel") \subseteq own /\ own \subseteq V!Indices
  BY DevicesListed DEF ReportedBy
<1>3. list \in Seq(view) /\ V!Elements(list) = view
  <2>1. CASE known
    <3>1. observed["Intel"] \in Seq(own) /\ V!Elements(observed["Intel"]) = ReportedBy("Intel")
      BY <1>1, <2>1, ObservedIs DEF Vendor
    <3>2. observed["Intel"] \in Seq(ReportedBy("Intel"))
      <4> HIDE DEF own
      <4> QED BY <3>1 DEF V!Elements
    <3> QED BY <2>1, <3>1, <3>2
  <2>2. CASE ~known
    BY <2>2, CandidatesAre
  <2> QED BY <2>1, <2>2
<1>4. view \subseteq V!Indices /\ view \subseteq own
  BY <1>2
<1>5. tiles # None => IsSelector(tiles)
  BY DEF PossibleEnvironment, Selectors
<1>6. masked \in Seq(view) /\ (known \/ environment.mask \in {None, Subdevices} => masked = list)
  <2>1. masked \in Seq(view)
    <3> HIDE DEF list, view, tiles
    <3> QED BY <1>3, <1>4, <1>5, NarrowedIs
  <2>2. known \/ environment.mask \in {None, Subdevices} => tiles = None
    OBVIOUS
  <2>3. tiles = None => masked = list
    BY DEF V!Narrowed
  <2> QED BY <2>1, <2>2, <2>3
<1>7. /\ environment.oneapi # None => selection = sycl
      /\ environment.oneapi = None /\ tiles # None => selection = V!Elements(masked)
      /\ environment.oneapi = None /\ tiles = None => selection = None
  BY DEF V!Selection, V!SelectIntel
<1>8. V!Decisive("Intel") = IF selection # None THEN selection ELSE IF known THEN V!Elements(observed["Intel"]) ELSE None
  BY DEF V!Decisive
<1>9. \A S : S \subseteq view => S # None
  BY <1>4, DevicesListed
<1>10. V!Elements(masked) \subseteq view
  <2> HIDE DEF masked, view
  <2> QED BY <1>6 DEF V!Elements
<1>11. known \in BOOLEAN
  OBVIOUS
<1>12. environment.oneapi # None => sycl \subseteq view
  <2> HIDE DEF masked, view, known
  <2> QED BY <1>6, <1>11, SyclIs
<1>13. CASE environment.oneapi = None /\ tiles = None
  <2>1. V!Decisive("Intel") = IF known THEN V!Elements(list) ELSE None
    BY <1>7, <1>8, <1>13
  <2>2. known => V!Decisive("Intel") = ReportedBy("Intel")
    BY <1>3, <2>1
  <2> HIDE DEF list, masked, sycl, selection, own, tiles, known
  <2> QED BY <1>1, <1>13, <2>1, <2>2
<1>14. CASE environment.oneapi = None /\ tiles # None
  <2>1. V!Decisive("Intel") = V!Elements(masked)
    <3> HIDE DEF masked, selection, view, known
    <3> QED BY <1>7, <1>8, <1>9, <1>10, <1>14
  <2>2. ~known /\ environment.mask # None
    BY <1>14
  <2> HIDE DEF list, masked, sycl, selection, tiles, known
  <2> QED BY <1>1, <1>4, <1>10, <1>14, <2>1, <2>2
<1>15. CASE environment.oneapi # None
  <2>1. V!Decisive("Intel") = sycl
    <3> HIDE DEF sycl, selection, view, known
    <3> QED BY <1>7, <1>8, <1>9, <1>12, <1>15
  <2>2. ASSUME environment.mask \in {None, Subdevices},
               \/ environment.oneapi = Malformed
               \/ \E k \in DOMAIN environment.oneapi :
                    /\ environment.oneapi[k].ordinals # {} /\ V!OfIntel(environment.oneapi[k])
                    /\ environment.oneapi[k].backend # "level_zero" \/ ~V!Complete("Intel")
        PROVE  sycl = view
    <3>1. masked = list
      BY <1>6, <2>2
    <3>2. sycl = V!Elements(masked)
      <4> HIDE DEF masked, known
      <4> QED BY <1>1, <1>11, <1>15, <2>2, UnreadableSelects
    <3> HIDE DEF masked, sycl, list, view
    <3> QED BY <1>3, <3>1, <3>2
  <2>3. sycl # None /\ view # None
    <3> HIDE DEF sycl, view
    <3> QED BY <1>9, <1>12, <1>15
  <2>4. (known => view = ReportedBy("Intel")) /\ (~known => view = own)
    OBVIOUS
  <2> HIDE DEF list, masked, sycl, selection, tiles, known, view
  <2> QED BY <1>1, <1>4, <1>12, <1>15, <2>1, <2>2, <2>3, <2>4
<1> QED
  BY <1>13, <1>14, <1>15

\* The devices of a vendor stay its own while the devices stay.
LEMMA OwnKept == ASSUME UNCHANGED <<devices>>, NEW v PROVE V!Own(v)' = V!Own(v)
  BY DEF V!Own, V!Indices

\* So do the candidates.
LEMMA CandKept == ASSUME UNCHANGED <<devices>>, NEW v PROVE V!Candidates(v)' = V!Candidates(v)
  BY DEF V!Own, V!Indices, V!Candidates, V!ById, V!Sorted

\* So does the order of the ids.
LEMMA ByIdKept == ASSUME UNCHANGED <<devices>>, NEW S PROVE V!ById(S)' = V!ById(S)
  BY DEF V!ById

\* So does the order of the addresses.
LEMMA ByAddressKept == ASSUME UNCHANGED <<devices>>, NEW S PROVE V!ByAddress(S)' = V!ByAddress(S)
  BY DEF V!ByAddress

\* So does what a token names.
LEMMA NamedKept ==
    ASSUME UNCHANGED <<devices>>, NEW token, NEW pool, NEW uuidPool, NEW byId
    PROVE  V!Named(token, pool, uuidPool, byId)' = V!Named(token, pool, uuidPool, byId)
  BY DEF V!Named, V!MatchesUuid

\* So does what a selector selects.
LEMMA CsvKept ==
    ASSUME UNCHANGED <<devices>>, NEW value, NEW pool, NEW uuidPool, NEW byId
    PROVE  V!SelectCsv(value, pool, uuidPool, byId)' = V!SelectCsv(value, pool, uuidPool, byId)
<1>1. \A k : V!Named(value[k], pool, uuidPool, byId)' = V!Named(value[k], pool, uuidPool, byId)
  BY NamedKept
<1> QED
  BY <1>1 DEF V!SelectCsv

\* So does what is narrowed by it.
LEMMA NarrowedKept ==
    ASSUME UNCHANGED <<devices>>, NEW list, NEW value
    PROVE  V!Narrowed(list, value)' = V!Narrowed(list, value)
  BY CsvKept DEF V!Narrowed

\* What is selected of a vendor stays while the devices and the variables stay: NVIDIA.
LEMMA NvidiaKept ==
    ASSUME UNCHANGED <<devices, environment>>, NEW list, NEW known
    PROVE  V!SelectNvidia(list, known)' = V!SelectNvidia(list, known)
<1> DEFINE physical == {i \in V!Elements(list) : devices[i].parent = None}
           a == V!SelectCsv(environment.cuda, V!ByAddress(physical), list, ~environment.pciOrder)
           b == V!SelectCsv(environment.cuda, V!ById(physical), list, ~environment.pciOrder)
<1>1. physical' = physical
  OBVIOUS
<1>2. V!ByAddress(physical)' = V!ByAddress(physical) /\ V!ById(physical)' = V!ById(physical)
  <2> HIDE DEF physical
  <2> QED BY <1>1, ByIdKept, ByAddressKept
<1>3. a' = a /\ b' = b
  <2> HIDE DEF physical
  <2> QED BY <1>2, CsvKept
<1> QED
  BY <1>2, <1>3 DEF V!SelectNvidia

\* The same of AMD.
LEMMA AmdKept ==
    ASSUME UNCHANGED <<devices, environment>>, NEW list, NEW known
    PROVE  V!SelectAmd(list, known)' = V!SelectAmd(list, known)
  BY NarrowedKept DEF V!SelectAmd

\* The same of Intel.
LEMMA IntelKept ==
    ASSUME UNCHANGED <<devices, environment>>, NEW list, NEW known
    PROVE  V!SelectIntel(list, known)' = V!SelectIntel(list, known)
  BY NarrowedKept DEF V!SelectIntel

\* What decides about a vendor stays while the devices, the variables and the enumerations stay.
LEMMA DecisiveKept ==
    ASSUME UNCHANGED <<devices, environment, observed>>, NEW v
    PROVE  V!Decisive(v)' = V!Decisive(v)
<1>1. \A list, known : V!Selection(v, list, known)' = V!Selection(v, list, known)
  BY NvidiaKept, AmdKept, IntelKept DEF V!Selection
<1> QED
  BY <1>1, CandKept DEF V!Decisive

\* What is usable to begin with.
Plain(v) == {i \in V!Own(v) : V!Usable(i)}

\* The vendors left to resolve, at each step.
Left == {V!Vendors, <<"AMD", "Intel">>, <<"Intel">>, <<>>}

Settled(v) ==
    visible \cap V!Own(v) =
        IF v \in V!Elements(todo) \/ V!Decisive(v) = None THEN Plain(v) ELSE V!Applied(V!Own(v), V!Decisive(v))

\* What decides about a vendor is what its devices are shown by, once it is resolved.
VisibleInv ==
    /\ PossibleAccelerators(Accelerators) /\ PossibleEnvironment(Selectors)
    /\ visible \subseteq V!Indices
    /\ todo \in {None} \cup Left
    /\ todo # None => Associated /\ \A v \in Vendor : Settled(v)

\* The devices and what was enumerated of them do not change.
LEMMA AcceleratorsKept ==
    ASSUME UNCHANGED <<devices, environment, runtime>>
    PROVE  /\ (PossibleAccelerators(Accelerators) => PossibleAccelerators(Accelerators)')
           /\ (PossibleEnvironment(Selectors) => PossibleEnvironment(Selectors)')
           /\ V!Indices' = V!Indices
           /\ \A v : V!Own(v)' = V!Own(v) /\ Plain(v)' = Plain(v) /\ V!Association(v, runtime[v])' = V!Association(v, runtime[v])
           /\ \A v, S : V!Applied(V!Own(v), S)' = V!Applied(V!Own(v), S)
<1>1. Accelerators' = Accelerators /\ Selectors' = Selectors
  BY DEF Accelerators, Selectors
<1>2. PossibleAccelerators(Accelerators) => PossibleAccelerators(Accelerators)'
  BY <1>1 DEF PossibleAccelerators
<1>3. PossibleEnvironment(Selectors) => PossibleEnvironment(Selectors)'
  BY <1>1 DEF PossibleEnvironment
<1>4. V!Indices' = V!Indices /\ \A v : V!Own(v)' = V!Own(v)
  BY DEF V!Own, V!Indices
<1>5. \A i : V!Instances(i)' = V!Instances(i)
  BY <1>4 DEF V!Instances
<1>6. V!HasSelection' = V!HasSelection /\ V!LegacyIds' = V!LegacyIds
  BY DEF V!HasSelection, V!LegacyIds
<1>7. \A i : V!Usable(i)' <=> V!Usable(i)
  BY <1>5, <1>6 DEF V!Usable
<1>8. \A v : Plain(v)' = Plain(v)
  BY <1>4, <1>7 DEF Plain
<1>9. \A v : V!Association(v, runtime[v])' = V!Association(v, runtime[v])
  BY <1>4 DEF V!Association, V!Identified, V!Sorted
<1>10. \A v, S : V!Applied(V!Own(v), S)' = V!Applied(V!Own(v), S)
  BY <1>4, <1>5 DEF V!Applied
<1> QED
  BY <1>2, <1>3, <1>4, <1>8, <1>9, <1>10

\* Nothing is resolved at first.
LEMMA VisibleInit == Init => VisibleInv
<1> SUFFICES ASSUME Init PROVE VisibleInv
  OBVIOUS
<1>1. PICK host \in Hosts :
        /\ devices = IF "Accelerator" \in requested THEN host.devices ELSE <<>>
        /\ runtime = IF "Accelerator" \in requested THEN host.runtime ELSE [NVIDIA |-> None, AMD |-> None, Intel |-> None]
        /\ environment = IF "Execution" \in requested THEN host.environment ELSE Unset
  BY DEF Init
<1>2. PossibleAccelerators(host) /\ PossibleEnvironment(host)
  BY HostsAssumption
<1>3. PossibleAccelerators(Accelerators)
  <2>1. CASE "Accelerator" \in requested
    <3>1. Accelerators.devices = host.devices /\ Accelerators.runtime = host.runtime
      BY <1>1, <2>1 DEF Accelerators
    <3> QED
      BY <1>2, <3>1 DEF PossibleAccelerators
  <2>2. CASE "Accelerator" \notin requested
    <3>1. devices = <<>> /\ \A v \in V!Elements(V!Vendors) : runtime[v] = None
      BY <1>1, <2>2, VendorsAre DEF Vendor
    <3>2. \A S \in SUBSET DOMAIN devices : None # S
      BY <1>2, <3>1 DEF PossibleAccelerators
    <3>3. IsList(devices) /\ DOMAIN devices = {}
      BY <3>1 DEF IsList, V!Elements
    <3> QED
      BY <3>1, <3>2, <3>3 DEF PossibleAccelerators, Accelerators
  <2> QED
    BY <2>1, <2>2
<1>4. PossibleEnvironment(Selectors)
  <2>1. CASE "Execution" \in requested
    BY <1>1, <1>2, <2>1 DEF PossibleEnvironment, Selectors
  <2>2. CASE "Execution" \notin requested
    BY <1>1, <2>2 DEF PossibleEnvironment, Selectors, Unset
  <2> QED
    BY <2>1, <2>2
<1>5. visible = {} /\ todo = None
  BY DEF Init, V!Start
<1> QED
  BY <1>3, <1>4, <1>5 DEF VisibleInv

\* Resolving one vendor leaves the devices of the others as they are.
LEMMA VisibleResolve == VisibleInv /\ V!Resolve => VisibleInv'
<1> SUFFICES ASSUME VisibleInv, V!Resolve PROVE VisibleInv'
  OBVIOUS
<1> DEFINE vendor == Head(todo)
           applied == V!Applied(V!Own(vendor), V!Decisive(vendor))
<1>1. UNCHANGED <<devices, environment, runtime, observed>> /\ todo' = Tail(todo) /\ todo \in Left \ {<<>>}
  BY DEF V!Resolve, VisibleInv
<1>2. Associated /\ \A v \in Vendor : Settled(v)
  <2>1. todo # None
    BY DEF V!Resolve
  <2> QED BY <2>1 DEF VisibleInv
<1>3. /\ vendor \in Vendor /\ vendor \in V!Elements(todo) /\ vendor \notin V!Elements(todo')
      /\ \A v \in Vendor \ {vendor} : v \in V!Elements(todo') <=> v \in V!Elements(todo)
      /\ todo' \in Left
  <2>1. CASE todo = <<"NVIDIA", "AMD", "Intel">>
    <3>1. todo' = <<"AMD", "Intel">>
      BY <1>1, <2>1
    <3> QED BY <2>1, <3>1 DEF Left, Vendor, V!Elements
  <2>2. CASE todo = <<"AMD", "Intel">>
    <3>1. todo' = <<"Intel">>
      BY <1>1, <2>2
    <3> QED BY <2>2, <3>1 DEF Left, Vendor, V!Elements
  <2>3. CASE todo = <<"Intel">>
    <3>1. todo' = <<>>
      BY <1>1, <2>3
    <3> QED BY <2>3, <3>1 DEF Left, Vendor, V!Elements
  <2> QED
    BY <1>1, <2>1, <2>2, <2>3 DEF Left, V!Vendors
<1>4. visible' = IF V!Decisive(vendor) = None THEN visible ELSE (visible \ V!Own(vendor)) \cup applied
  BY DEF V!Resolve
<1>5. applied \subseteq V!Own(vendor)
  BY DEF V!Applied
<1>6. \A v \in Vendor \ {vendor} : V!Own(v) \cap V!Own(vendor) = {}
  BY DEF V!Own
<1>7. PossibleAccelerators(Accelerators)' /\ PossibleEnvironment(Selectors)' /\ V!Indices' = V!Indices
  BY <1>1, AcceleratorsKept DEF VisibleInv
<1>8. visible' \subseteq V!Indices
  <2>1. V!Own(vendor) \subseteq V!Indices /\ visible \subseteq V!Indices
    BY DEF V!Own, VisibleInv
  <2> HIDE DEF applied, vendor
  <2> QED BY <1>4, <1>5, <2>1
<1>9. ASSUME NEW v \in Vendor PROVE Settled(v)'
  <2>1. /\ V!Own(v)' = V!Own(v) /\ Plain(v)' = Plain(v) /\ V!Decisive(v)' = V!Decisive(v)
        /\ V!Applied(V!Own(v), V!Decisive(v))' = V!Applied(V!Own(v), V!Decisive(v))
    <3>1. V!Own(v)' = V!Own(v) /\ Plain(v)' = Plain(v) /\ \A S : V!Applied(V!Own(v), S)' = V!Applied(V!Own(v), S)
      BY <1>1, AcceleratorsKept
    <3>2. V!Decisive(v)' = V!Decisive(v)
      BY <1>1, DecisiveKept
    <3>3. \A S : V!Applied(V!Own(v)', S) = V!Applied(V!Own(v), S)
      BY <3>1
    <3>4. V!Applied(V!Own(v), V!Decisive(v))' = V!Applied(V!Own(v), V!Decisive(v))
      <4>1. \A i : V!Instances(i)' = V!Instances(i)
        BY <1>1 DEF V!Instances, V!Indices
      <4> QED BY <3>1, <3>2, <4>1 DEF V!Applied
    <3> QED
      BY <3>1, <3>2, <3>4
  <2>2. visible \cap V!Own(v) =
           IF v \in V!Elements(todo) \/ V!Decisive(v) = None THEN Plain(v) ELSE V!Applied(V!Own(v), V!Decisive(v))
    BY <1>2 DEF Settled
  <2>3. visible' \cap V!Own(v) =
           IF v \in V!Elements(todo') \/ V!Decisive(v) = None THEN Plain(v) ELSE V!Applied(V!Own(v), V!Decisive(v))
    <3>1. CASE v = vendor
      <4>1. CASE V!Decisive(vendor) = None
        <5> HIDE DEF vendor, applied
        <5> QED BY <1>3, <1>4, <2>2, <3>1, <4>1
      <4>2. CASE V!Decisive(vendor) # None
        <5>1. visible' \cap V!Own(vendor) = applied
          <6> HIDE DEF vendor, applied
          <6> QED BY <1>4, <1>5, <4>2
        <5>2. applied = V!Applied(V!Own(v), V!Decisive(v))
          BY <3>1
        <5> HIDE DEF vendor, applied
        <5> QED BY <1>3, <3>1, <4>2, <5>1, <5>2
      <4> QED BY <4>1, <4>2
    <3>2. CASE v # vendor
      <4>1. V!Own(v) \cap V!Own(vendor) = {} /\ (v \in V!Elements(todo') <=> v \in V!Elements(todo))
        <5> HIDE DEF vendor
        <5> QED BY <1>3, <1>6, <3>2
      <4>2. visible' \cap V!Own(v) = visible \cap V!Own(v)
        <5> HIDE DEF vendor, applied
        <5> QED BY <1>4, <1>5, <4>1
      <4> HIDE DEF vendor, applied
      <4> QED BY <2>2, <4>1, <4>2
    <3> QED BY <3>1, <3>2
  <2>4. V!Elements(todo)' = V!Elements(todo')
    BY DEF V!Elements
  <2> QED
    BY <2>1, <2>3, <2>4 DEF Settled
<1>10. Associated'
  BY <1>1, <1>2, AcceleratorsKept DEF Associated
<1>11. Vendor' = Vendor /\ Left' = Left
  BY DEF Vendor, Left, V!Vendors
<1> QED
  BY <1>3, <1>7, <1>8, <1>9, <1>10, <1>11 DEF VisibleInv

\* At first everything that may be used is.
LEMMA VisibleBaseline == VisibleInv /\ V!Baseline => VisibleInv'
<1> SUFFICES ASSUME VisibleInv, V!Baseline PROVE VisibleInv'
  OBVIOUS
<1>1. /\ UNCHANGED <<devices, environment, runtime>> /\ todo' = V!Vendors
      /\ observed' = [v \in V!Elements(V!Vendors) |-> V!Association(v, runtime[v])]
      /\ visible' = {i \in V!Indices : V!Usable(i)}
  BY DEF V!Baseline
<1>2. PossibleAccelerators(Accelerators)' /\ PossibleEnvironment(Selectors)' /\ V!Indices' = V!Indices
  BY <1>1, AcceleratorsKept DEF VisibleInv
<1>3. \A v : V!Own(v)' = V!Own(v) /\ Plain(v)' = Plain(v) /\ V!Association(v, runtime[v])' = V!Association(v, runtime[v])
  BY <1>1, AcceleratorsKept
<1>4. Associated'
  <2>1. V!Elements(V!Vendors)' = V!Elements(V!Vendors)
    BY DEF V!Elements, V!Vendors
  <2> QED BY <1>1, <1>3, <2>1 DEF Associated
<1>5. \A v \in Vendor : v \in V!Elements(todo)' /\ visible' \cap V!Own(v) = Plain(v)
  <2>1. V!Elements(todo)' = Vendor
    BY <1>1, VendorsAre DEF V!Elements
  <2> QED BY <1>1, <2>1 DEF Plain, V!Own
<1>6. \A v \in Vendor : Settled(v)'
  BY <1>3, <1>5 DEF Settled
<1>7. Vendor' = Vendor /\ todo' \in Left' /\ visible' \subseteq V!Indices'
  BY <1>1, <1>2 DEF Vendor, Left, V!Vendors
<1> QED
  BY <1>2, <1>4, <1>6, <1>7 DEF VisibleInv

\* What is shown depends on nothing but the accelerators and the variables.
LEMMA VisibleStays == VisibleInv /\ UNCHANGED <<devices, environment, runtime, observed, todo, visible>> => VisibleInv'
<1> SUFFICES ASSUME VisibleInv, UNCHANGED <<devices, environment, runtime, observed, todo, visible>> PROVE VisibleInv'
  OBVIOUS
<1>1. PossibleAccelerators(Accelerators)' /\ PossibleEnvironment(Selectors)' /\ V!Indices' = V!Indices
  BY AcceleratorsKept DEF VisibleInv
<1>2. Vendor' = Vendor /\ Left' = Left /\ V!Elements(todo)' = V!Elements(todo)
  BY DEF Vendor, Left, V!Vendors, V!Elements
<1>3. \A v : V!Own(v)' = V!Own(v) /\ Plain(v)' = Plain(v) /\ V!Association(v, runtime[v])' = V!Association(v, runtime[v])
  BY AcceleratorsKept
<1>4. \A v : V!Decisive(v)' = V!Decisive(v)
  BY DecisiveKept
<1>5. \A i : V!Instances(i)' = V!Instances(i)
  BY DEF V!Instances, V!Indices
<1>6. \A v : V!Applied(V!Own(v), V!Decisive(v))' = V!Applied(V!Own(v), V!Decisive(v))
  BY <1>3, <1>4, <1>5 DEF V!Applied
<1>7. \A v \in Vendor : Settled(v) => Settled(v)'
  BY <1>2, <1>3, <1>4, <1>6 DEF Settled
<1>8. Associated => Associated'
  <2>1. V!Elements(V!Vendors)' = V!Elements(V!Vendors)
    BY DEF V!Elements, V!Vendors
  <2> QED BY <1>3, <2>1 DEF Associated
<1> QED
  BY <1>1, <1>2, <1>7, <1>8 DEF VisibleInv

\* Each step of the resolver keeps the invariant.
LEMMA VisibleNext == VisibleInv /\ V!Next => VisibleInv'
  BY VisibleBaseline, VisibleResolve, VisibleStays DEF V!Next, V!Publish

\* Once all is resolved, what decides about a vendor is what its devices are shown by.
LEMMA ShownBy ==
    ASSUME VisibleInv, V!Resolved, NEW v \in Vendor
    PROVE  /\ V!Decisive(v) = None => V!Own(v) \cap visible = Plain(v)
           /\ V!Decisive(v) # None => V!Own(v) \cap visible = V!Applied(V!Own(v), V!Decisive(v))
           /\ Associated
<1>1. todo = <<>> /\ V!Elements(todo) = {}
  BY DEF V!Resolved, V!Elements
<1>2. todo # None
  <2>1. <<>> \in Seq(Nat)
    OBVIOUS
  <2> QED
    BY <1>1, <2>1, HostsAssumption
<1>3. Settled(v) /\ Associated
  BY <1>2 DEF VisibleInv
<1> QED
  BY <1>1, <1>3 DEF Settled

\* A device that is shown as it is, or within one that is.
LEMMA AppliedTo ==
    ASSUME NEW S, NEW shown, NEW i \in S, V!Instances(i) = {}
    PROVE  i \in V!Applied(S, shown) <=> \E p \in shown : p = i \/ i \in V!Instances(p)
  BY DEF V!Applied

\* A device is hidden for a reason of its own vendor.
LEMMA VisibleReason == VisibleInv => V!HiddenForReason
<1> SUFFICES ASSUME VisibleInv, V!Resolved, NEW i \in V!Indices, i \notin visible,
                    V!Instances(i) = {}, V!Unset(devices[i].vendor)
             PROVE  V!Complete(devices[i].vendor) /\ ~V!ReportedOrWithin(i)
  BY DEF V!HiddenForReason
<1> DEFINE v == devices[i].vendor
<1>1. v \in Vendor /\ i \in V!Own(v)
  BY VendorsAre DEF VisibleInv, PossibleAccelerators, Accelerators, V!Indices, V!Own
<1>2. PossibleAccelerators(Accelerators) /\ PossibleEnvironment(Selectors) /\ Associated
  BY <1>1, ShownBy DEF VisibleInv
<1>3. V!Decisive(v) # None
  <2> SUFFICES ASSUME V!Decisive(v) = None PROVE FALSE
    OBVIOUS
  <2>1. i \notin Plain(v)
    BY <1>1, ShownBy
  <2>2. ~V!HasSelection /\ V!LegacyIds # {}
    BY <1>1, <2>1 DEF Plain, V!Usable
  <2>3. environment.cuda # None
    BY <2>2 DEF V!LegacyIds
  <2> QED
    BY <2>2, <2>3 DEF V!HasSelection, V!Variables
<1>4. i \notin V!Applied(V!Own(v), V!Decisive(v))
  BY <1>1, <1>3, ShownBy
<1>5. V!Complete(v) /\ V!Decisive(v) = ReportedBy(v)
  <2>1. CASE v = "NVIDIA"
    <3>1. environment.cuda = None
      BY <2>1 DEF V!Unset, V!VariablesOf
    <3> QED
      BY <1>2, <1>3, <2>1, <3>1, NvidiaSelects
  <2>2. CASE v = "AMD"
    <3>1. environment.rocr = None /\ environment.hip = None
      BY <2>2 DEF V!Unset, V!VariablesOf
    <3> QED
      BY <1>2, <1>3, <2>2, <3>1, AmdSelects
  <2>3. CASE v = "Intel"
    <3>1. environment.mask = None /\ environment.oneapi = None
      BY <2>3 DEF V!Unset, V!VariablesOf
    <3> QED
      BY <1>2, <1>3, <2>3, <3>1, IntelSelects
  <2> QED
    BY <1>1, <2>1, <2>2, <2>3 DEF Vendor
<1>6. ~V!ReportedOrWithin(i)
  <2> SUFFICES ASSUME V!ReportedOrWithin(i) PROVE FALSE
    OBVIOUS
  <2>1. PICK p \in V!Own(v) : V!Reported(p) /\ (p = i \/ i \in V!Instances(p))
    BY DEF V!ReportedOrWithin
  <2>2. p \in ReportedBy(v)
    BY <2>1 DEF ReportedBy
  <2> QED
    BY <1>1, <1>4, <1>5, <2>1, <2>2, AppliedTo
<1> QED
  BY <1>5, <1>6

\* What a complete enumeration says is what is visible.
LEMMA VisibleRuntime == VisibleInv => V!RuntimeDecides
<1> SUFFICES ASSUME VisibleInv, V!Resolved, NEW v \in Vendor, V!Complete(v), NEW i \in V!Own(v), V!Instances(i) = {}
             PROVE  /\ i \in visible => V!ReportedOrWithin(i)
                    /\ v # "Intel" \/ environment.oneapi = None => (V!ReportedOrWithin(i) => i \in visible)
  BY VendorsAre DEF V!RuntimeDecides
<1>1. PossibleAccelerators(Accelerators) /\ PossibleEnvironment(Selectors) /\ Associated
  BY ShownBy DEF VisibleInv
<1>2. ReportedBy(v) # None
  BY <1>1, DevicesListed DEF ReportedBy
<1>3. /\ V!Decisive(v) # None /\ V!Decisive(v) \subseteq ReportedBy(v)
      /\ v # "Intel" \/ environment.oneapi = None => V!Decisive(v) = ReportedBy(v)
  <2>1. CASE v = "NVIDIA"
    BY <1>1, <1>2, <2>1, NvidiaSelects
  <2>2. CASE v = "AMD"
    BY <1>1, <1>2, <2>2, AmdSelects
  <2>3. CASE v = "Intel"
    BY <1>1, <1>2, <2>3, IntelSelects
  <2> QED
    BY <2>1, <2>2, <2>3 DEF Vendor
<1>4. i \in visible <=> \E p \in V!Decisive(v) : p = i \/ i \in V!Instances(p)
  <2>1. V!Own(v) \cap visible = V!Applied(V!Own(v), V!Decisive(v))
    BY <1>3, ShownBy
  <2> QED
    BY <2>1, AppliedTo
<1>5. devices[i].vendor = v
  BY DEF V!Own
<1>6. V!ReportedOrWithin(i) <=> \E p \in ReportedBy(v) : p = i \/ i \in V!Instances(p)
  BY <1>5 DEF V!ReportedOrWithin, ReportedBy
<1> QED
  BY <1>3, <1>4, <1>6

\* Only NVIDIA GPUs have instances.
LEMMA WithoutInstances ==
    ASSUME PossibleAccelerators(Accelerators), NEW i \in V!Indices, devices[i].vendor # "NVIDIA"
    PROVE  V!Instances(i) = {}
  BY DEF PossibleAccelerators, Accelerators, V!Indices, V!Instances

\* A selector that cannot be interpreted hides nothing.
LEMMA VisibleUnreadable == VisibleInv => V!UnreadableHidesNothing
<1> DEFINE view == IF V!Complete("Intel") THEN ReportedBy("Intel") ELSE V!Own("Intel")
<1> SUFFICES ASSUME VisibleInv, V!Resolved, environment.mask \in {None, Subdevices}, environment.oneapi # None,
                    \/ environment.oneapi = Malformed
                    \/ \E k \in DOMAIN environment.oneapi :
                         /\ environment.oneapi[k].ordinals # {} /\ V!OfIntel(environment.oneapi[k])
                         /\ environment.oneapi[k].backend # "level_zero" \/ ~V!Complete("Intel")
             PROVE  V!Own("Intel") \cap visible = view
  BY DEF V!UnreadableHidesNothing, ReportedBy
<1>1. PossibleAccelerators(Accelerators) /\ PossibleEnvironment(Selectors) /\ Associated
  BY ShownBy DEF VisibleInv, Vendor
<1>2. V!Decisive("Intel") = view /\ view # None
  BY <1>1, IntelSelects
<1>3. V!Own("Intel") \cap visible = V!Applied(V!Own("Intel"), view)
  BY <1>2, ShownBy DEF Vendor
<1>4. view \subseteq V!Own("Intel") /\ \A i \in V!Own("Intel") : V!Instances(i) = {}
  BY <1>1, WithoutInstances DEF ReportedBy, V!Own
<1> HIDE DEF view
<1> QED
  BY <1>3, <1>4 DEF V!Applied

\* A token of CUDA_VISIBLE_DEVICES is valid if it chooses a device, and names that device.
LEMMA TokenChooses ==
    ASSUME PossibleAccelerators(Accelerators),
           \A i \in V!Own("NVIDIA") : devices[i].parent = None => devices[i].pci # None,
           NEW token, token.kind = "ordinal" => token.n \in Nat
    PROVE  LET named == V!Named(token, V!ByAddress(Gpus), V!Candidates("NVIDIA"), FALSE)
           IN  /\ V!Valid(token, named) <=> \E g \in V!Own("NVIDIA") : V!Chosen(token, g)
               /\ \A g \in V!Own("NVIDIA") : V!Valid(token, named) => (g \in named <=> V!Chosen(token, g))
<1> DEFINE ordered == V!ByAddress(Gpus)
           list == V!Candidates("NVIDIA")
           own == V!Own("NVIDIA")
           named == V!Named(token, ordered, list, FALSE)
<1>1. V!Addressed = Gpus /\ Gpus \subseteq own
  BY DEF V!Addressed, Gpus
<1>2. V!Elements(list) = own /\ \A S : S \subseteq own => IsFiniteSet(S)
  BY CandidatesAre, DevicesListed
<1>3. CASE token.kind = "ordinal"
  <2>1. named = IF token.n < Len(ordered) THEN {ordered[token.n + 1]} ELSE {}
    BY <1>3 DEF V!Named
  <2>2. V!Valid(token, named) <=> named # {}
    BY <1>3 DEF V!Valid
  <2>3. \A g : V!Chosen(token, g) <=> g \in Gpus /\ V!Rank(g) = token.n
    BY <1>1, <1>3 DEF V!Chosen
  <2>4. \A g : V!Rank(g) = Cardinality(Below(Gpus, g))
    BY <1>1 DEF Below, V!Rank, V!Cardinality, Cardinality
  <2>5. (\A i \in Gpus : devices[i].parent = None) /\ (\A i \in Gpus : devices[i].pci # None)
    BY DEF Gpus
  <2>6. /\ ordered \in Seq(Gpus) /\ Len(ordered) = Cardinality(Gpus) /\ Cardinality(Gpus) \in Nat
        /\ \A i \in Gpus : \E n \in 1 .. Cardinality(Gpus) : ordered[n] = i /\ V!Rank(i) = n - 1
        /\ \A n \in 1 .. Cardinality(Gpus) : V!Rank(ordered[n]) = n - 1
    <3>1. Gpus \subseteq V!Own("NVIDIA")
      BY <1>1
    <3>2. V!ByAddress(Gpus) \in Seq(Gpus) /\ Len(V!ByAddress(Gpus)) = Cardinality(Gpus) /\ Cardinality(Gpus) \in Nat
      BY <2>5, <3>1, SortedByAddress
    <3>3. \A i \in Gpus : \E n \in 1 .. Cardinality(Gpus) :
             V!ByAddress(Gpus)[n] = i /\ Cardinality(Below(Gpus, i)) = n - 1
      BY <2>5, <3>1, SortedByAddress
    <3>4. \A n \in 1 .. Cardinality(Gpus) :
             Cardinality(Below(Gpus, V!ByAddress(Gpus)[n])) = n - 1
      BY <2>5, <3>1, SortedByAddress
    <3>5. \A i \in Gpus : \E n \in 1 .. Cardinality(Gpus) : ordered[n] = i /\ V!Rank(i) = n - 1
      BY <2>4, <3>3
    <3>6. \A n \in 1 .. Cardinality(Gpus) : V!Rank(ordered[n]) = n - 1
      BY <2>4, <3>4
    <3> QED BY <3>2, <3>5, <3>6
  <2>7. \A n \in 1 .. Cardinality(Gpus) : ordered[n] \in Gpus
    <3> HIDE DEF ordered
    <3> QED BY <2>6
  <2>8. token.n \in Nat
    BY <1>3
  <2>9. \A g \in own : g \in named <=> V!Chosen(token, g)
    <3> HIDE DEF ordered, named, own
    <3>1. ASSUME NEW g \in own, g \in named PROVE V!Chosen(token, g)
      <4>1. token.n < Len(ordered) /\ g = ordered[token.n + 1]
        BY <2>1, <3>1
      <4>2. token.n + 1 \in 1 .. Cardinality(Gpus)
        BY <2>6, <2>8, <4>1
      <4>3. V!Rank(g) = (token.n + 1) - 1 /\ g \in Gpus
        BY <2>6, <2>7, <4>1, <4>2
      <4> QED BY <2>3, <2>8, <4>3
    <3>2. ASSUME NEW g \in own, V!Chosen(token, g) PROVE g \in named
      <4>1. g \in Gpus /\ V!Rank(g) = token.n
        BY <2>3, <3>2
      <4>2. PICK n \in 1 .. Cardinality(Gpus) : ordered[n] = g /\ V!Rank(g) = n - 1
        BY <2>6, <4>1
      <4>3. token.n < Len(ordered) /\ token.n + 1 = n
        BY <2>6, <2>8, <4>1, <4>2
      <4> QED BY <2>1, <4>2, <4>3
    <3> QED BY <3>1, <3>2
  <2>10. named \subseteq own
    <3>1. token.n < Len(ordered) => ordered[token.n + 1] \in Gpus
      <4> HIDE DEF ordered
      <4> QED BY <2>6, <2>7, <2>8
    <3> HIDE DEF ordered, named, own
    <3> QED BY <1>1, <2>1, <3>1
  <2> HIDE DEF named, own
  <2> QED
    BY <2>2, <2>9, <2>10 DEF named, own
<1>4. CASE token.kind = "uuid"
  <2>1. named = {j \in own : V!MatchesUuid(devices[j], token)}
    BY <1>2, <1>4 DEF V!Named
  <2>2. V!Valid(token, named) <=> named # {} /\ Cardinality(named) = 1
    BY <1>4 DEF V!Valid, V!Cardinality, Cardinality
  <2>3. \A g : V!Chosen(token, g) <=> named = {g}
    BY <1>4, <2>1 DEF V!Chosen
  <2>4. named \subseteq own /\ IsFiniteSet(named)
    BY <1>2, <2>1
  <2> HIDE DEF named, own
  <2>5. Cardinality(named) = 1 <=> \E g : named = {g}
    BY <2>4, FS_Singleton
  <2> QED
    BY <2>2, <2>3, <2>4, <2>5 DEF named, own
<1>5. CASE token.kind \notin {"ordinal", "uuid"}
  <2>1. named = {} /\ \A g : ~V!Chosen(token, g)
    BY <1>5 DEF V!Named, V!Chosen
  <2>2. ~V!Valid(token, named)
    BY <2>1 DEF V!Valid
  <2> QED BY <2>1, <2>2
<1> QED
  BY <1>3, <1>4, <1>5

\* Ordinals count the addresses up to the first token that is not valid.
LEMMA VisibleOrder == VisibleInv => V!SelectionInOrder
<1> SUFFICES ASSUME VisibleInv, V!Resolved PROVE V!SelectionInOrder
  BY DEF V!SelectionInOrder
<1>1. PossibleAccelerators(Accelerators) /\ PossibleEnvironment(Selectors) /\ Associated
  BY ShownBy DEF VisibleInv, Vendor
<1>2. ASSUME environment.pciOrder, environment.cuda # None, ~V!Complete("NVIDIA"),
             \A i \in V!Own("NVIDIA") : devices[i].parent = None => devices[i].pci # None,
             NEW i \in V!Own("NVIDIA"), V!Instances(i) = {}
      PROVE  i \in visible <=> \E k \in DOMAIN environment.cuda :
                 /\ \A j \in 1 .. k : \E g \in V!Own("NVIDIA") : V!Chosen(environment.cuda[j], g)
                 /\ \E g \in V!Own("NVIDIA") : V!Chosen(environment.cuda[k], g) /\ (g = i \/ i \in V!Instances(g))
  <2> DEFINE own == V!Own("NVIDIA")
             value == environment.cuda
             pool == V!ByAddress(Gpus)
             list == V!Candidates("NVIDIA")
             shown == V!Elements(V!SelectCsv(value, pool, list, FALSE))
             Names(k) == V!Named(value[k], pool, list, FALSE)
  <2>1. V!Decisive("NVIDIA") = shown /\ shown \subseteq own /\ pool \in Seq(own)
    BY <1>1, <1>2, NvidiaSelects
  <2>2. own \subseteq V!Indices /\ list \in Seq(own)
    BY <1>1, CandidatesAre, DevicesListed
  <2>3. shown # None
    BY <1>1, <2>1, <2>2, DevicesListed
  <2>4. V!Own("NVIDIA") \cap visible = V!Applied(V!Own("NVIDIA"), shown)
    BY <2>1, <2>3, ShownBy DEF Vendor
  <2>5. i \in visible <=> \E g \in shown : g = i \/ i \in V!Instances(g)
    <3> HIDE DEF shown
    <3> QED BY <1>2, <2>4, AppliedTo
  <2>6. IsSelector(value)
    BY <1>1, <1>2 DEF PossibleEnvironment, Selectors
  <2>7. shown = UNION {Names(k) : k \in Keeps(value, pool, list, FALSE)}
    <3>1. pool \in Seq(own) /\ list \in Seq(own) /\ FALSE \in BOOLEAN
      BY <2>1, <2>2
    <3> HIDE DEF pool, list, value, own
    <3>2. V!Elements(V!SelectCsv(value, pool, list, FALSE)) =
            UNION {V!Named(value[k], pool, list, FALSE) : k \in Keeps(value, pool, list, FALSE)}
      BY ONLY <1>1, <2>2, <2>6, <3>1, SelectCsvIs
    <3> QED BY <3>2
  <2>8. DOMAIN value = 1 .. Len(value) /\ Len(value) \in Nat
    BY <2>6 DEF IsSelector, IsList
  <2>9. ASSUME NEW k \in DOMAIN value
        PROVE  /\ V!Valid(value[k], Names(k)) <=> \E g \in own : V!Chosen(value[k], g)
               /\ \A g \in own : V!Valid(value[k], Names(k)) => (g \in Names(k) <=> V!Chosen(value[k], g))
    <3>1. value[k].kind = "ordinal" => value[k].n \in Nat
      BY <2>6 DEF IsSelector
    <3> HIDE DEF value
    <3> QED BY <1>1, <1>2, <3>1, TokenChooses
  <2>10. Keeps(value, pool, list, FALSE) = {k \in DOMAIN value : \A j \in 1 .. k : V!Valid(value[j], Names(j))}
    BY DEF Keeps
  <2>11. \A k \in DOMAIN value : 1 .. k \subseteq DOMAIN value /\ k \in 1 .. k
    BY <2>8
  <2> HIDE DEF Names, shown, pool, list, value, own
  <2>12. \A g : g \in shown <=> \E k \in DOMAIN value : /\ \A j \in 1 .. k : \E h \in own : V!Chosen(value[j], h)
                                                   /\ g \in own /\ V!Chosen(value[k], g)
    <3>1. ASSUME NEW g \in shown
          PROVE  \E k \in DOMAIN value : /\ \A j \in 1 .. k : \E h \in own : V!Chosen(value[j], h)
                                         /\ g \in own /\ V!Chosen(value[k], g)
      <4>1. PICK k \in Keeps(value, pool, list, FALSE) : g \in Names(k)
        BY <2>7, <3>1
      <4>2. k \in DOMAIN value /\ \A j \in 1 .. k : V!Valid(value[j], Names(j))
        BY <2>10, <4>1
      <4>3. \A j \in 1 .. k : \E h \in own : V!Chosen(value[j], h)
        BY <2>9, <2>11, <4>2
      <4>4. g \in own /\ V!Chosen(value[k], g)
        BY <2>1, <2>9, <2>11, <3>1, <4>1, <4>2
      <4> QED BY <4>2, <4>3, <4>4
    <3>2. ASSUME NEW g \in own, NEW k \in DOMAIN value,
                 \A j \in 1 .. k : \E h \in own : V!Chosen(value[j], h), V!Chosen(value[k], g)
          PROVE  g \in shown
      <4>1. \A j \in 1 .. k : V!Valid(value[j], Names(j))
        BY <2>9, <2>11, <3>2
      <4>2. k \in Keeps(value, pool, list, FALSE)
        BY <2>10, <4>1
      <4>3. g \in Names(k)
        BY <2>9, <2>11, <3>2, <4>1
      <4> QED BY <2>7, <4>2, <4>3
    <3> QED BY <3>1, <3>2
  <2>13. i \in visible <=> \E k \in DOMAIN value :
                 /\ \A j \in 1 .. k : \E g \in own : V!Chosen(value[j], g)
                 /\ \E g \in own : V!Chosen(value[k], g) /\ (g = i \/ i \in V!Instances(g))
    BY <2>5, <2>12
  <2> QED
    BY <2>13 DEF value, own
<1>3. ASSUME environment.rocr # None, ~V!Complete("AMD")
      PROVE  V!Own("AMD") \cap visible
               \subseteq V!Elements(V!SelectCsv(environment.rocr, V!Candidates("AMD"), V!Candidates("AMD"), FALSE))
  <2> DEFINE shown == V!Decisive("AMD")
  <2>1. /\ shown \subseteq V!Own("AMD")
        /\ shown \subseteq V!Elements(V!SelectCsv(environment.rocr, V!Candidates("AMD"), V!Candidates("AMD"), FALSE))
    BY <1>1, <1>3, AmdSelects
  <2>2. V!Own("AMD") \subseteq V!Indices
    BY <1>1, DevicesListed
  <2>3. shown # None
    <3> HIDE DEF shown
    <3> QED BY <1>1, <2>1, <2>2, DevicesListed
  <2>4. V!Own("AMD") \cap visible = V!Applied(V!Own("AMD"), shown)
    BY <2>3, ShownBy DEF Vendor
  <2>5. \A p \in V!Own("AMD") : V!Instances(p) = {}
    BY <1>1, WithoutInstances DEF V!Own
  <2> HIDE DEF shown
  <2>6. V!Applied(V!Own("AMD"), shown) \subseteq shown
    BY <2>1, <2>5 DEF V!Applied
  <2> QED
    BY <2>1, <2>4, <2>6
<1> QED
  BY <1>2, <1>3 DEF V!SelectionInOrder

-----------------------------------------------------------------------------
(* The host.                                                               *)

HostInv == CpuInv /\ DirectoryInv /\ DriveInv /\ BoardInv /\ VisibleInv

\* The invariant of the CPUs speaks of them alone.
LEMMA CpuStays == CpuInv /\ UNCHANGED cpuVars => CpuInv'
  BY DEF CpuInv, CpuTypes, CpuSpans, CpuListed, CpuFiles, CpuLists, cpuVars, C!Cpus, C!Range

\* The invariant of the directory speaks of it alone.
LEMMA DirectoryStays == DirectoryInv /\ UNCHANGED fileVars => DirectoryInv'
<1> SUFFICES ASSUME DirectoryInv, UNCHANGED fileVars PROVE DirectoryInv'
  OBVIOUS
<1>1. UNCHANGED <<census, bearer, at, listing, place, exists, bore>> /\ F!Names' = F!Names
  BY DEF fileVars, F!Names
<1>2. F!Stayed' = F!Stayed /\ F!Occurred' = F!Occurred
  BY <1>1 DEF F!Stayed, F!Occurred
<1>3. DirectoryTypes'
  BY <1>1 DEF DirectoryInv, DirectoryTypes
<1>4. Steady' /\ BeforeListing'
  BY <1>1 DEF DirectoryInv, Steady, BeforeListing
<1>5. DirectoryListed'
  BY <1>1, <1>2 DEF DirectoryInv, DirectoryListed, F!Range
<1>6. FilesSeen'
  BY <1>1 DEF DirectoryInv, FilesSeen, F!Shows
<1> QED
  BY <1>3, <1>4, <1>5, <1>6 DEF DirectoryInv

\* The invariant of the drives speaks of them and of the requested domains alone.
LEMMA DriveStays == DriveInv /\ UNCHANGED <<requested, driveVars>> => DriveInv'
<1> SUFFICES ASSUME DriveInv, UNCHANGED <<requested, driveVars>> PROVE DriveInv'
  OBVIOUS
<1>1. /\ UNCHANGED <<requested, drives, attached, stage, targets, broken, answers, fallbacks, span, kept>>
      /\ D!Drives' = D!Drives
  BY DEF driveVars, D!Drives
<1>2. DriveTypes' /\ DriveSpans' /\ Requested'
  BY <1>1 DEF DriveInv, DriveTypes, DriveSpans, Requested
<1>3. Scanned'
  BY <1>1 DEF DriveInv, Scanned, D!Of, D!Readable
<1>4. Answered'
  BY <1>1 DEF DriveInv, Answered, Told
<1> QED
  BY <1>2, <1>3, <1>4 DEF DriveInv

\* The invariant of the board speaks of it alone.
LEMMA BoardStays == BoardInv /\ UNCHANGED board => BoardInv'
  BY DEF BoardInv

\* A step of a part leaves the others alone.
LEMMA HostNext == HostInv /\ [Next]_vars => HostInv'
<1> SUFFICES ASSUME HostInv, [Next]_vars PROVE HostInv'
  OBVIOUS
<1> USE CpuStays, DirectoryStays, DriveStays, BoardStays, VisibleStays DEF HostInv, acceleratorVars
<1>1. CASE Change
  <2>1. CASE C!Hotplug /\ UNCHANGED <<fileVars, driveVars, board, acceleratorVars>>
    BY <2>1, CpuHotplug DEF C!Hotplug, C!Plug, C!Unplug, C!SwitchOn, C!SwitchOff, C!Become
  <2>2. CASE F!Hotplug /\ UNCHANGED <<cpuVars, driveVars, board, acceleratorVars>>
    BY <2>2, DirectoryHotplug DEF F!Hotplug, F!Leave, F!Arrive, F!Rename, F!Become
  <2>3. CASE D!Swap /\ UNCHANGED <<cpuVars, fileVars, board, acceleratorVars>>
    BY <2>3, DriveSwap
  <2> QED
    BY <1>1, <2>1, <2>2, <2>3 DEF Change
<1>2. CASE Collect
  <2>1. CASE C!Read /\ UNCHANGED <<budget, fileVars, driveVars, board, acceleratorVars>>
    BY <2>1, CpuRead DEF C!Read, C!ReadCpuInfo, C!ReadMask, C!ReadOnlineList, C!OpenDirectory, C!ListDirectory, C!ReadAttribute
  <2>2. CASE F!Read /\ UNCHANGED <<budget, cpuVars, driveVars, board, acceleratorVars>>
    BY <2>2, DirectoryRead DEF F!Read, F!RunLspci, F!OpenDirectory, F!ListDirectory, F!Check, F!ReadFiles, F!LookFor
  <2>3. CASE D!Read /\ UNCHANGED <<budget, cpuVars, fileVars, board, acceleratorVars>>
    BY <2>3, DriveRead
  <2> QED
    BY <1>2, <2>1, <2>2, <2>3 DEF Collect
<1>3. CASE Resolve
  BY <1>3, VisibleNext DEF Resolve
<1>4. CASE UNCHANGED vars
  BY <1>4 DEF vars
<1> QED
  BY <1>1, <1>2, <1>3, <1>4 DEF Next, Finished

\* What was read is true of the hardware when it was read, all through a snapshot.
THEOREM HostInvAlways == Spec => []HostInv
<1>1. Init => HostInv
  BY CpuInit, DirectoryInit, DriveInit, BoardInit, VisibleInit DEF HostInv
<1> QED
  BY <1>1, HostNext, PTL DEF Spec

\* A list of CPUs, and one of a directory of devices, that is called complete has all
\* that were there all the time and none that was never there, whatever came, went and
\* was renamed while read_sysfs went through them.
THEOREM CompleteIsAllAlways == Spec => []CompleteIsAll
<1>1. HostInv => CompleteIsAll
  BY CpuComplete, DirectoryComplete DEF HostInv, CompleteIsAll
<1> QED
  BY <1>1, HostInvAlways, PTL

\* The kind of an interface that is known is the kind of one that bore its name, unless
\* the name was free at some time and none of the three files was found.
THEOREM KindRightAlways == Spec => []KindRight
<1>1. HostInv => KindRight
  BY DirectoryKind DEF HostInv, KindRight
<1> QED
  BY <1>1, HostInvAlways, PTL

\* The cores that are called complete are those of the machine: no default takes the
\* place of a number that was not read.
THEOREM CoresCompleteAlways == Spec => []CoresComplete
<1>1. HostInv => CoresComplete
  BY CpuCores DEF HostInv, CoresComplete
<1> QED
  BY <1>1, HostInvAlways, PTL

\* A CPU that is called visible was allowed and online at some time, or its state is not
\* known; one that is called invisible was not allowed or offline at some time.
THEOREM VisibilityRightAlways == Spec => []VisibilityRight
<1>1. HostInv => VisibilityRight
  BY CpuVisibility DEF HostInv, VisibilityRight
<1> QED
  BY <1>1, HostInvAlways, PTL

\* An available storage health covers every drive that was there all the time and
\* whose entry could be read.
THEOREM HealthAvailableAlways == Spec => []HealthAvailableIsComplete
<1>1. HostInv => HealthAvailableIsComplete
  BY DriveAvailable DEF HostInv, HealthAvailableIsComplete
<1> QED
  BY <1>1, HostInvAlways, PTL

\* A failing drive whose tool said so is critical, and no other drive is.
THEOREM FailingFoundAlways == Spec => []FailingFound
<1>1. HostInv => FailingFound
  BY DriveFailing DEF HostInv, FailingFound
<1> QED
  BY <1>1, HostInvAlways, PTL

\* No join of the resolver moves a DIMM to the node of a controller it is not on, and none
\* loses a node that is known.
THEOREM NumaHandedOnAlways == Spec => []NumaHandedOn
<1>1. HostInv => NumaHandedOn
  BY BoardKnown DEF HostInv, NumaHandedOn
<1> QED
  BY <1>1, HostInvAlways, PTL

\* An accelerator is hidden by its own vendor's variables, by a complete enumeration
\* without it, or because its instances stand in its place: never by a partial
\* enumeration, nor by what is set for another vendor.
THEOREM HiddenForReasonAlways == Spec => []HiddenForReason
<1>1. HostInv => HiddenForReason
  BY VisibleReason DEF HostInv, HiddenForReason
<1> QED
  BY <1>1, HostInvAlways, PTL

\* What a complete enumeration of CUDA or HIP reports is what is visible, whatever the
\* variables say; one of Level Zero bounds what ONEAPI_DEVICE_SELECTOR leaves.
THEOREM RuntimeDecidesAlways == Spec => []RuntimeDecides
<1>1. HostInv => RuntimeDecides
  BY VisibleRuntime DEF HostInv, RuntimeDecides
<1> QED
  BY <1>1, HostInvAlways, PTL

\* Ordinals of CUDA_VISIBLE_DEVICES count the GPUs by address, up to the first token that
\* is not valid, and HIP_VISIBLE_DEVICES never shows what ROCR_VISIBLE_DEVICES hides.
THEOREM SelectionInOrderAlways == Spec => []SelectionInOrder
<1>1. HostInv => SelectionInOrder
  BY VisibleOrder DEF HostInv, SelectionInOrder
<1> QED
  BY <1>1, HostInvAlways, PTL

\* An ONEAPI_DEVICE_SELECTOR that cannot be interpreted leaves the Intel view as it is.
THEOREM UnreadableHidesNothingAlways == Spec => []UnreadableHidesNothing
<1>1. HostInv => UnreadableHidesNothing
  BY VisibleUnreadable DEF HostInv, UnreadableHidesNothing
<1> QED
  BY <1>1, HostInvAlways, PTL
=============================================================================
