---------------------------- MODULE CpuInventory ----------------------------
(***************************************************************************)
(* Which logical CPUs a snapshot lists, where it places them, which of     *)
(* them it calls visible and whether it calls the list complete.  The      *)
(* evidence is read file by file (/proc/cpuinfo, the affinity mask, the    *)
(* online list, the directory of CPUs, three attributes of every entry)    *)
(* while CPUs are plugged, unplugged and switched on and off.              *)
(*                                                                         *)
(* The first part is the machine and the reading of it (the reader); the   *)
(* second what parser and resolver make of the records, as operators on    *)
(* them, since those run when nothing is read any more.                    *)
(***************************************************************************)
EXTENDS Integers, Enumeration

CONSTANT None                  \* a missing record or optional

VARIABLES
    requested,     \* the domains of the call
    machine,       \* what never changes: see MachineType
    plugged,       \* CPUs with a directory in sysfs
    online,        \* CPUs that run
    budget,        \* how many more changes of the hardware there will be
    cpuinfo,       \* CPUs in /proc/cpuinfo, None when it was not read
    mask,          \* Cpus_allowed_list, None when it was not read
    onlineList,    \* /sys/devices/system/cpu/online, None when it was not read
    step,          \* what is read next
    entries,       \* InventoryEnumeration::entries
    status,        \* InventoryEnumeration::status, None without an enumeration
    attributes,    \* CPU -> its three files, None where not read
    position,      \* how many attribute files were tried
    listable,      \* CPUs plugged all the time, and at some time, of the enumeration
    up             \* CPUs online all the time, and at some time, of the call

hardware == <<plugged, online, budget, listable, up>>
records == <<cpuinfo, mask, onlineList, step, entries, status, attributes, position>>

Cpus == DOMAIN machine.place

\* place: CPU -> its package and core.  allowed: the affinity of the process, which may
\* name absent CPUs.  ids: cpuinfo has package and core numbers (x86).  switchable: has
\* a file "online".  dim: the files that are unreadable.  keeps: an offline CPU keeps
\* its topology files.
MachineType ==
    [place : [Cpus -> Seq(Nat)], allowed : SUBSET Cpus, ids : BOOLEAN, switchable : SUBSET Cpus,
     dim : SUBSET (Cpus \X {"package", "core"}), keeps : BOOLEAN]

Start ==
    /\ cpuinfo = None /\ mask = None /\ onlineList = None
    /\ step = "cpuinfo"
    /\ entries = <<>> /\ status = None
    /\ attributes = [c \in Cpus |-> [package |-> None, core |-> None, online |-> None]]
    /\ position = 0
    /\ listable = [always |-> plugged, ever |-> plugged]
    /\ up = [always |-> online, ever |-> online]

Reading == step # "attributes" \/ position < 3 * Len(entries)

\* The hardware changes under the reader.
Become(nowPlugged, nowOnline) ==
    /\ Reading /\ budget > 0
    /\ plugged' = nowPlugged /\ online' = nowOnline
    /\ budget' = budget - 1
    /\ listable' = [always |-> listable.always \cap nowPlugged, ever |-> listable.ever \cup nowPlugged]
    /\ up' = [always |-> up.always \cap nowOnline, ever |-> up.ever \cup nowOnline]
    /\ UNCHANGED <<requested, machine, records>>

Plug == \E c \in Cpus \ plugged : Become(plugged \cup {c}, online)
Unplug == \E c \in plugged \ online : Become(plugged \ {c}, online)
SwitchOn == \E c \in plugged \ online : Become(plugged, online \cup {c})
SwitchOff == \E c \in online \cap machine.switchable : Become(plugged, online \ {c})

Hotplug == Plug \/ Unplug \/ SwitchOn \/ SwitchOff

\* /proc/cpuinfo has the online CPUs; it is read for two domains.
ReadCpuInfo ==
    /\ step = "cpuinfo"
    /\ cpuinfo' \in IF requested \cap {"Platform", "Cpu"} = {} THEN {None} ELSE {None, online}
    /\ step' = "mask"
    /\ UNCHANGED <<requested, machine, hardware, mask, onlineList, entries, status, attributes, position>>

\* Cpus_allowed_list of /proc/self/status; without Cpu nothing else is read.
ReadMask ==
    /\ step = "mask"
    /\ mask' \in IF "Execution" \in requested THEN {None, machine.allowed} ELSE {None}
    /\ step' = IF "Cpu" \in requested THEN "online list" ELSE "attributes"
    /\ UNCHANGED <<requested, machine, hardware, cpuinfo, onlineList, entries, status, attributes, position>>

ReadOnlineList ==
    /\ step = "online list"
    /\ onlineList' \in {None, online}
    /\ step' = "open"
    /\ UNCHANGED <<requested, machine, hardware, cpuinfo, mask, entries, status, attributes, position>>

OpenDirectory ==
    /\ step = "open"
    /\ step' = "list"
    /\ listable' = [always |-> plugged, ever |-> plugged]
    /\ UNCHANGED <<requested, machine, plugged, online, budget, up, cpuinfo, mask, onlineList, entries, status,
                   attributes, position>>

\* inventory_entries
ListDirectory ==
    /\ step = "list"
    /\ \E found \in Listings(listable.always, listable.ever) : entries' = found.names /\ status' = StatusOf(found)
    /\ step' = "attributes"
    /\ UNCHANGED <<requested, machine, hardware, cpuinfo, mask, onlineList, attributes, position>>

\* What a read of an attribute returns now.
Content(c, field) ==
    IF c \notin plugged THEN None
    ELSE IF field = "online" THEN (IF c \in machine.switchable THEN c \in online ELSE None)
    ELSE IF (c \in online \/ machine.keeps) /\ <<c, field>> \notin machine.dim
         THEN machine.place[c][IF field = "package" THEN 1 ELSE 2] ELSE None

\* read_cpu_sysfs, the next file of the next entry.
ReadAttribute ==
    /\ step = "attributes"
    /\ Reading
    /\ LET c == entries[position \div 3 + 1]
           field == <<"package", "core", "online">>[(position % 3) + 1]
       IN  attributes' = [attributes EXCEPT ![c][field] = Content(c, field)]
    /\ position' = position + 1
    /\ UNCHANGED <<requested, machine, hardware, cpuinfo, mask, onlineList, step, entries, status>>

Read == ReadCpuInfo \/ ReadMask \/ ReadOnlineList \/ OpenDirectory \/ ListDirectory \/ ReadAttribute
-----------------------------------------------------------------------------
Located(c) == attributes[c].package # None /\ attributes[c].core # None

\* The entries of parse_cpu: those of cpuinfo, and what sysfs places as a whole.
LogicalCpus ==
    IF "Cpu" \notin requested \/ cpuinfo \in {None, {}} THEN {} ELSE cpuinfo \cup {c \in Cpus : Located(c)}

\* sysfs before cpuinfo before package 0 and a core of its own.
Placed(c, field, reported, default) ==
    IF attributes[c][field] # None THEN attributes[c][field]
    ELSE IF machine.ids /\ c \in cpuinfo THEN reported ELSE default
Place(c) == <<Placed(c, "package", machine.place[c][1], 0), Placed(c, "core", machine.place[c][2], c)>>

\* The online list replaces what the files of the CPUs say.
Online(c) == IF onlineList # None THEN c \in onlineList ELSE attributes[c].online

\* Mutant of Visible: an offline CPU of the mask counts as visible.
VisibleByMask(c) == IF mask # None THEN c \in mask ELSE None

\* compute_cpu_visibility
Visible(c) ==
    IF Online(c) = FALSE THEN FALSE
    ELSE IF mask # None THEN c \in mask ELSE None

\* cross_check_cpu_visibility: CPUs of the mask that are not in the model.
Mismatches == IF mask = None THEN {} ELSE mask \ LogicalCpus

\* report(): complete only when the whole enumeration is what the model has.
LogicalReport == Completeness(status, entries, LogicalCpus)

\* Mutant of TopologyKnown: the package alone counts.
TopologyKnownByPackage == LogicalCpus # {} /\ \A c \in LogicalCpus : attributes[c].package # None

\* topology_known
TopologyKnown == LogicalCpus # {} /\ \A c \in LogicalCpus : Located(c)

CoresReport == IF TopologyKnown THEN LogicalReport ELSE Observed(LogicalCpus)
-----------------------------------------------------------------------------
\* A list that is called complete has every CPU that was there all the time, and none
\* that was never there, whatever was plugged while files were read and errors met.
CompleteIsAll ==
    ~Reading /\ LogicalReport = "Complete" =>
        listable.always \subseteq LogicalCpus /\ LogicalCpus \subseteq listable.ever

\* Cores that are called complete are the cores of the machine: no default number takes
\* the place of a core that was not read, and none is counted twice.
CoresComplete ==
    ~Reading /\ CoresReport = "Complete" =>
        LET cores == {Place(c) : c \in LogicalCpus}
        IN  /\ {machine.place[c] : c \in listable.always} \subseteq cores
            /\ cores \subseteq {machine.place[c] : c \in listable.ever}

\* A visible CPU is allowed, and ran at some time unless its state was unreadable; a
\* hidden one is not allowed or did not run at some time; one that ran all the time and
\* is allowed is listed, visible and not reported as missing from the model.
VisibilityRight ==
    ~Reading /\ "Cpu" \in requested =>
        /\ \A c \in LogicalCpus :
             /\ Visible(c) = TRUE => c \in machine.allowed /\ (c \in up.ever \/ Online(c) = None)
             /\ Visible(c) = FALSE => (mask # None /\ c \notin machine.allowed) \/ c \notin up.always
        /\ cpuinfo # None /\ mask # None =>
             \A c \in up.always \cap machine.allowed : Visible(c) = TRUE /\ c \in LogicalCpus \ Mismatches
=============================================================================
