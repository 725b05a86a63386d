---------------------------- MODULE HostSnapshot ----------------------------
(***************************************************************************)
(* One snapshot of a host whose hardware changes: the reader goes through  *)
(* the CPUs, one directory of devices and the drives while CPUs, devices   *)
(* and drives come and go; nothing is read any more when parser and        *)
(* resolver work on the records, joins first, then visibility, findings    *)
(* and reports.  What is not in the requested domains stays at rest.       *)
(*                                                                         *)
(* The parts share the requested domains and the budget of changes.        *)
(***************************************************************************)
EXTENDS Integers, Sequences, FiniteSets

CONSTANTS
    Hosts,         \* the hosts and calls to start from
    ExitCodes,     \* see DriveHealth
    Subdevices,    \* see AcceleratorVisibility
    Malformed,     \* see AcceleratorVisibility
    None           \* a missing record or optional

VARIABLES
    requested, budget,
    machine, plugged, online, cpuinfo, mask, onlineList, step, entries, status, attributes, position, listable, up,
    census, bearer, at, listing, place, tool, files, exists, bore,
    drives, attached, stage, targets, broken, answers, fallbacks, span, kept,
    board,
    devices, environment, runtime, observed, todo, visible, restricted, index

C == INSTANCE CpuInventory
F == INSTANCE DeviceDirectory
D == INSTANCE DriveHealth
L == INSTANCE Locality
V == INSTANCE AcceleratorVisibility

cpuVars == <<machine, plugged, online, cpuinfo, mask, onlineList, step, entries, status, attributes, position,
             listable, up>>
fileVars == <<census, bearer, at, listing, place, tool, files, exists, bore>>
driveVars == <<drives, attached, stage, targets, broken, answers, fallbacks, span, kept>>
acceleratorVars == <<devices, environment, runtime, observed, todo, visible, restricted, index>>
vars == <<requested, budget, cpuVars, fileVars, driveVars, board, acceleratorVars>>

\* A CPU has one package and one core; a running CPU is plugged.
PossibleMachine(host) ==
    LET cpus == DOMAIN host.machine.place
    IN  /\ IsFiniteSet(cpus) /\ host.machine.place \in [cpus -> Nat \X Nat]
        /\ host.online \subseteq host.plugged /\ host.plugged \subseteq cpus

\* A name is borne by a device of the directory's kind, or by none.
PossibleDirectory(host) ==
    /\ host.census \in DOMAIN F!Natures
    /\ IsFiniteSet(DOMAIN host.bearer)
    /\ host.bearer \in [DOMAIN host.bearer -> F!Natures[host.census] \cup {None}]

PossibleDrives(host) ==
    /\ DOMAIN host.drives \subseteq Nat
    /\ host.drives \in [DOMAIN host.drives ->
                           [kind : {"nvme", "ata", "scsi", "usb"}, failing : BOOLEAN, readable : BOOLEAN]]

\* Slots are told apart.  EDAC names the controller a slot is on and reports no node but
\* its own, nor does its PCI device; SMBIOS has every slot, where it is there at all.
PossibleBoard(host) ==
    LET b == host.board
    IN  /\ IsFiniteSet(b.smbios) /\ IsFiniteSet(b.edac)
        /\ \A records \in {b.smbios, b.edac} : \A d, e \in records : d.slot = e.slot => d = e
        /\ \A e \in b.edac :
             /\ e.controller = b.home[e.slot] /\ e.controller \in DOMAIN b.controllers
             /\ b.smbios # {} => \E d \in b.smbios : d.slot = e.slot /\ d.label = e.label /\ d.size = e.size
        /\ DOMAIN b.controllers \subseteq Nat
        /\ \A i \in DOMAIN b.controllers :
             /\ b.controllers[i].node \in {None, b.node[i]}
             /\ b.controllers[i].pci \in DOMAIN b.pci => b.pci[b.controllers[i].pci] \in {None, b.node[i]}

IsList(s) == s \in Seq(V!Elements(s))

\* Ids are told apart (UniqueIds of AcceleratorInventory), only NVIDIA GPUs are partitioned,
\* and at an address there is one of them; CUDA enumerates by UUID, the others by address.
PossibleAccelerators(host) ==
    LET d == host.devices
    IN  /\ IsList(d) /\ \A S \in SUBSET DOMAIN d : None # S
        /\ \A i \in DOMAIN d :
             d[i].vendor \in V!Elements(V!Vendors) /\ d[i].id \in Nat /\ d[i].pci \in Nat \cup {None}
        /\ \A i, j \in DOMAIN d :
             /\ i # j => d[i].id # d[j].id
             /\ d[i].uuid # None /\ d[j].parent = d[i].uuid => d[i].vendor = "NVIDIA" /\ d[j].vendor = "NVIDIA"
             /\ /\ i # j /\ d[i].vendor = "NVIDIA" /\ d[j].vendor = "NVIDIA"
                /\ d[i].parent = None /\ d[j].parent = None /\ d[i].pci # None
                => d[i].pci # d[j].pci
        /\ \A vendor \in V!Elements(V!Vendors) : host.runtime[vendor] # None =>
             /\ IsList(host.runtime[vendor])
             /\ \A entry \in V!Elements(host.runtime[vendor]) :
                  IF vendor = "NVIDIA" THEN entry.uuid # None ELSE entry.pci # None

\* A selector is a list of tokens, an ordinal a number.
IsSelector(value) == IsList(value) /\ \A k \in DOMAIN value : value[k].kind = "ordinal" => value[k].n \in Nat

PossibleEnvironment(host) ==
    LET e == host.environment
    IN  /\ e.pciOrder \in BOOLEAN
        /\ e.cuda # None => IsSelector(e.cuda)
        /\ e.rocr # None => IsSelector(e.rocr)
        /\ e.hip # None => IsSelector(e.hip)
        /\ e.mask \notin {None, Subdevices} => IsSelector(e.mask)
        /\ e.oneapi \notin {None, Malformed} =>
             IsList(e.oneapi) /\ \A k \in DOMAIN e.oneapi : e.oneapi[k].ordinals \subseteq Nat

\* A missing optional is no value of its type, and no answer.
ASSUME HostsAssumption ==
    /\ None \notin BOOLEAN \cup Nat \cup {"Success", "Partial", "Failed"}
    /\ None \notin Seq(Nat) \cup Seq(V!Elements(V!Vendors)) /\ Malformed # <<>>
    /\ ExitCodes \subseteq Nat /\ None \notin D!Exits(None)
    /\ \A host \in Hosts :
         /\ PossibleMachine(host) /\ PossibleDirectory(host) /\ PossibleDrives(host) /\ PossibleBoard(host)
         /\ PossibleAccelerators(host) /\ PossibleEnvironment(host)

Unset == [cuda |-> None, pciOrder |-> FALSE, rocr |-> None, hip |-> None, mask |-> None, oneapi |-> None]

\* Accelerators and selection variables are there only in the domains they belong to.
Init ==
    /\ \E host \in Hosts :
         /\ requested = host.requested
         /\ budget = host.budget
         /\ machine = host.machine /\ plugged = host.plugged /\ online = host.online
         /\ census = host.census /\ bearer = host.bearer
         /\ drives = host.drives /\ attached = DOMAIN host.drives
         /\ board = host.board
         /\ devices = IF "Accelerator" \in requested THEN host.devices ELSE <<>>
         /\ runtime = IF "Accelerator" \in requested THEN host.runtime ELSE [NVIDIA |-> None, AMD |-> None, Intel |-> None]
         /\ environment = IF "Execution" \in requested THEN host.environment ELSE Unset
    /\ C!Start /\ F!Start /\ D!Start /\ V!Start

\* CPUs, devices and drives change while they are read.
Change ==
    \/ C!Hotplug /\ UNCHANGED <<fileVars, driveVars, board, acceleratorVars>>
    \/ F!Hotplug /\ UNCHANGED <<cpuVars, driveVars, board, acceleratorVars>>
    \/ D!Swap /\ UNCHANGED <<cpuVars, fileVars, board, acceleratorVars>>

\* read_procfs and read_sysfs: CPUs, then a directory of devices, then drives.
Collect ==
    \/ C!Read /\ UNCHANGED <<budget, fileVars, driveVars, board, acceleratorVars>>
    \/ ~C!Reading /\ F!Read /\ UNCHANGED <<budget, cpuVars, driveVars, board, acceleratorVars>>
    \/ ~C!Reading /\ ~F!Reading /\ D!Read /\ UNCHANGED <<budget, cpuVars, fileVars, board, acceleratorVars>>

Recorded == ~C!Reading /\ ~F!Reading /\ ~D!Collecting

\* resolve: what is not an action is a function of the records, and without a device
\* accelerator visibility changes nothing.
Resolve == Recorded /\ devices # <<>> /\ V!Next /\ UNCHANGED <<requested, budget, cpuVars, fileVars, driveVars, board>>

Finished == Recorded /\ (devices # <<>> => index # None) /\ UNCHANGED vars

Next == Change \/ Collect \/ Resolve \/ Finished

Spec == Init /\ [][Next]_vars
-----------------------------------------------------------------------------
\* The lists of CPUs and devices that are called complete, see CpuInventory and
\* DeviceDirectory.
CompleteIsAll == C!CompleteIsAll /\ F!CompleteIsAll

\* The kinds of interfaces, see DeviceDirectory.
KindRight == F!KindRight

\* The cores that are called complete, see CpuInventory.
CoresComplete == C!CoresComplete

\* Which CPUs are visible, see CpuInventory.
VisibilityRight == C!VisibilityRight

\* What an available storage health covers, see DriveHealth.
HealthAvailableIsComplete == D!HealthAvailableIsComplete

\* Failing drives and critical findings, see DriveHealth.
FailingFound == D!FailingFound

\* NUMA nodes that are handed on, see Locality.
NumaHandedOn == L!NumaHandedOn

\* Why an accelerator is hidden, see AcceleratorVisibility.
HiddenForReason == V!HiddenForReason

\* What a complete enumeration decides, see AcceleratorVisibility.
RuntimeDecides == V!RuntimeDecides

\* Which devices ordinals and UUIDs select, see AcceleratorVisibility.
SelectionInOrder == V!SelectionInOrder

\* Selectors that cannot be interpreted, see AcceleratorVisibility.
UnreadableHidesNothing == V!UnreadableHidesNothing
=============================================================================
