------------------------------ MODULE Locality ------------------------------
(***************************************************************************)
(* The NUMA node of memory modules, drives, interfaces and adapters.  It   *)
(* is reported by some of the files about a device, and handed on by the   *)
(* resolver from PCI devices to memory controllers, from those to DIMMs    *)
(* and EDAC devices, and from PCI devices to whatever sits on them.  Which *)
(* controller a DIMM belongs to is concluded from a label and a capacity.  *)
(*                                                                         *)
(* The records are one constant picture of a board, so that there are no   *)
(* actions: the operators are what parse_memory and resolve compute.       *)
(***************************************************************************)
EXTENDS Integers, FiniteSets

CONSTANT None                  \* a missing optional

VARIABLES
    requested,     \* the domains of the call
    board          \* the records, and the truth about the board

\* pci: address -> node of the PCI device, None when it reports -1.
\* controllers: index -> [pci, node], as EDAC reports a memory controller.
\* smbios: DIMMs that udev reports, [slot, label, size]; {} without the tool.
\* edac: DIMMs that EDAC reports, [slot, label, size, controller].
\* parts: [kind, pci, node] with the node of the device's own attribute.
\* home: slot -> index of the controller it really is on.  node: index -> its real node.

\* info.pci is there when a domain that needs it was asked for.
PciNode(address) ==
    IF requested \cap {"Pci", "Network", "Storage", "StorageHealth"} # {} /\ address \in DOMAIN board.pci
    THEN board.pci[address] ELSE None

\* The first known of two.
Or(first, second) == IF first # None THEN first ELSE second

\* Mutant of ControllerNode: DIMMs are joined before the controllers are.
ControllerNodeAsParsed(i) ==
    IF i \in DOMAIN board.controllers THEN board.controllers[i].node ELSE None

ControllerNode(i) ==
    IF i \in DOMAIN board.controllers
    THEN Or(board.controllers[i].node, PciNode(board.controllers[i].pci)) ELSE None

Alike(a, b) == a.label = b.label /\ a.size = b.size
Likes(records, a) == Cardinality({b \in records : Alike(a, b)})

\* apply_edac_inventory: the EDAC device of a DIMM, when label and capacity name one on
\* each side.
Associated(dimm) ==
    {e \in board.edac : /\ e.label # None /\ Alike(e, dimm)
                        /\ Likes(board.smbios, e) = 1 /\ Likes(board.edac, e) = 1}

\* The DIMMs of the model with their controllers: those of EDAC where udev has none.
Dimms ==
    IF board.smbios = {} THEN board.edac
    ELSE {[slot |-> d.slot, label |-> d.label, size |-> d.size,
           controller |-> IF Associated(d) = {} THEN None ELSE (CHOOSE e \in Associated(d) : TRUE).controller] :
             d \in board.smbios}

\* Interfaces and drives keep a node of their own; RDMA devices, NVMe controllers and
\* SCSI hosts have none.
PartNode(part) ==
    IF part.kind \in {"interface", "drive"} THEN Or(part.node, PciNode(part.pci)) ELSE PciNode(part.pci)

DomainOf == [interface |-> "Network", rdma |-> "Network", drive |-> "Storage", nvme |-> "Storage", scsi |-> "Storage"]
Parts == {part \in board.parts : DomainOf[part.kind] \in requested}
-----------------------------------------------------------------------------
\* The node of a DIMM is the one of the controller it is on, or unknown: labels that
\* repeat and records that are missing never move it to another socket.  It is known
\* whenever its controller is known by either report and the labels tell it apart; an
\* EDAC device and a part on PCI are as well known as what they sit on.
NumaHandedOn ==
    LET known(i) == board.controllers[i].node # None \/ PciNode(board.controllers[i].pci) # None
    IN  /\ "Memory" \in requested =>
             /\ \A d \in Dimms : ControllerNode(d.controller) \in {None, board.node[board.home[d.slot]]}
             /\ \A e \in board.edac :
                  /\ known(e.controller) => ControllerNode(e.controller) = board.node[e.controller]
                  /\ known(e.controller) /\ e.label # None =>
                       \A d \in Dimms :
                         d.slot = e.slot /\ (\A x \in board.smbios \cup board.edac : x.slot # e.slot => ~Alike(x, e))
                           => ControllerNode(d.controller) # None
        /\ \A part \in Parts : PciNode(part.pci) # None => PartNode(part) # None
=============================================================================
