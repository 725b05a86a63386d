--------------------------- MODULE MCHostSnapshot ---------------------------
(***************************************************************************)
(* Small hosts for TLC.  Each call asks for the domains of one part of the *)
(* composition, with many states of that part and a quiet rest; the last   *)
(* ones ask for everything.                                                *)
(*                                                                         *)
(* Accelerators: lists of two or three devices per vendor, as the backends *)
(* report them, and selectors that name devices by ordinal, by id, by UUID *)
(* prefix, ambiguously or not at all.  A UUID is a model value, an address *)
(* a number.                                                               *)
(***************************************************************************)
EXTENDS HostSnapshot, FiniteSets, TLC

CONSTANTS g1, g2, m1, m2, a1, a2


Device(id, vendor, uuid, pci) ==
    [id |-> id, vendor |-> vendor, uuid |-> uuid, parent |-> None, instance |-> None, pci |-> pci]
Instance(id, uuid, parent, number, pci) ==
    [id |-> id, vendor |-> "NVIDIA", uuid |-> uuid, parent |-> parent, instance |-> number, pci |-> pci]

AmdAndIntel == <<Device(4, "AMD", a1, 3), Device(5, "AMD", a2, 4), Device(6, "Intel", None, 5), Device(7, "Intel", None, 6)>>

\* By NVML; by NVML with the first GPU partitioned; by DRM alone, where ids are not in
\* the order of the addresses and there is no NVIDIA UUID; without an address.
AnyInventory == {
    <<Device(0, "NVIDIA", g1, 1), Device(1, "NVIDIA", g2, 2)>> \o AmdAndIntel,
    <<Device(0, "NVIDIA", g1, 1), Instance(2, m1, g1, 1, 1), Instance(3, None, g1, 2, 1), Device(1, "NVIDIA", g2, 2)>>
      \o AmdAndIntel,
    <<Device(0, "NVIDIA", g1, 2), Device(1, "NVIDIA", None, 1)>>,
    <<Device(0, "NVIDIA", None, None), Device(1, "NVIDIA", g2, 2), Device(2, "Intel", None, 1)>>}

Ordinal(n) == [kind |-> "ordinal", n |-> n]
Prefix(S) == [kind |-> "uuid", prefixOf |-> S, legacy |-> None]
Legacy(parent, number) == [kind |-> "uuid", prefixOf |-> {}, legacy |-> <<parent, number>>]
Neither == [kind |-> "other"]

CudaLists == {<<>>, <<Ordinal(0)>>, <<Ordinal(1), Neither, Ordinal(0)>>, <<Ordinal(1), Ordinal(0)>>, <<Ordinal(5), Ordinal(0)>>,
    <<Prefix({g2}), Ordinal(0)>>, <<Prefix({g1, g2})>>, <<Prefix({m1})>>, <<Legacy(g1, 2), Prefix({m1, m2})>>}
OrdinalLists == {None, <<>>, <<Ordinal(0)>>, <<Ordinal(1)>>, <<Ordinal(1), Ordinal(0)>>, <<Neither, Ordinal(0)>>}

Filter(backend, all, ordinals, exclude) ==
    [backend |-> backend, all |-> all, ordinals |-> ordinals, exclude |-> exclude]
Selectors == {Malformed, <<>>,
    <<Filter("level_zero", TRUE, {}, FALSE)>>, <<Filter("level_zero", FALSE, {0}, FALSE)>>,
    <<Filter("opencl", FALSE, {1}, FALSE)>>, <<Filter("other", TRUE, {}, FALSE)>>,
    <<Filter("any", TRUE, {}, FALSE), Filter("level_zero", FALSE, {1}, TRUE)>>,
    <<Filter("level_zero", FALSE, {1}, TRUE), Filter("any", TRUE, {}, FALSE)>>}

AnyEnvironment ==
    {[Unset EXCEPT !.cuda = list, !.pciOrder = order, !.rocr = rocr] :
        list \in CudaLists \cup {None}, order \in BOOLEAN, rocr \in {None, <<Ordinal(0)>>}}
    \cup {[Unset EXCEPT !.rocr = rocr, !.hip = hip] : rocr \in OrdinalLists, hip \in OrdinalLists}
    \cup {[Unset EXCEPT !.mask = tiles, !.oneapi = selector] :
        tiles \in OrdinalLists \cup {Subdevices}, selector \in Selectors \cup {None}}

Entry(uuid, pci) == [uuid |-> uuid, pci |-> pci]
Nothing == [NVIDIA |-> None, AMD |-> None, Intel |-> None]

\* Nothing, everything, nothing visible, one of several, and a device no backend lists.
AnyRuntime == {Nothing,
    [Nothing EXCEPT !.NVIDIA = <<>>], [Nothing EXCEPT !.NVIDIA = <<Entry(g2, 2)>>],
    [Nothing EXCEPT !.NVIDIA = <<Entry(m1, 1), Entry(g2, 2)>>], [Nothing EXCEPT !.NVIDIA = <<Entry(g2, 2), Entry(m2, 1)>>],
    [Nothing EXCEPT !.AMD = <<Entry(None, 4)>>], [Nothing EXCEPT !.AMD = <<Entry(None, 4), Entry(None, 9)>>],
    [Nothing EXCEPT !.Intel = <<Entry(None, 6), Entry(None, 5)>>], [Nothing EXCEPT !.Intel = <<Entry(None, 6)>>],
    [NVIDIA |-> <<Entry(g1, 1), Entry(g2, 2)>>, AMD |-> <<Entry(None, 3)>>, Intel |-> <<Entry(None, 5), Entry(None, 9)>>]}
-----------------------------------------------------------------------------
Quiet ==
    [requested |-> {}, budget |-> 0,
     machine |-> [place |-> (0 :> <<0, 0>>), allowed |-> {0}, ids |-> TRUE, switchable |-> {}, dim |-> {}, keeps |-> FALSE],
     plugged |-> {0}, online |-> {0}, census |-> "PciDevices", bearer |-> ("1" :> "function"), drives |-> <<>>,
     board |-> [pci |-> <<>>, controllers |-> <<>>, smbios |-> {}, edac |-> {}, parts |-> {}, home |-> <<>>, node |-> <<>>],
     devices |-> <<>>, environment |-> Unset, runtime |-> Nothing]

\* CPU 0 is always on.  CPU 1 is its sibling on core 1, CPU 2 is absent or has a core
\* whose number the default of CPU 0 would take.
Machine(allowed, ids, dim, keeps) ==
    [place |-> (0 :> <<0, 1>> @@ 1 :> <<0, 1>> @@ 2 :> <<1, 0>>), allowed |-> allowed, ids |-> ids,
     switchable |-> {1, 2}, dim |-> dim, keeps |-> keeps]
Machines == {Machine({0, 1}, TRUE, {}, FALSE), Machine({0, 1, 2}, FALSE, {}, TRUE),
             Machine({0, 1, 2}, FALSE, {<<0, "core">>}, FALSE)}
CpuHosts ==
    {[Quiet EXCEPT !.requested = scope, !.budget = 2, !.machine = m, !.plugged = there, !.online = {0, 1}] :
        scope \in {{"Cpu"}, {"Cpu", "Execution"}, {"Execution"}}, m \in Machines, there \in {{0, 1}, {0, 1, 2}}}

\* Two names, one borne by a device of any nature or by none, the other by any device or
\* by none; two changes, of interfaces one of two names and two of one.
Calls == {<<"Network", "NetworkInterfaces">>, <<"Storage", "BlockDevices">>, <<"Pci", "PciDevices">>,
          <<"Cpu", "NumaNodes">>}
Bearers(kind) ==
    {"1" :> first @@ "2" :> second :
        first \in F!Natures[kind] \cup {None}, second \in {CHOOSE n \in F!Natures[kind] : TRUE, None}}
DirectoryHosts ==
    UNION {{[Quiet EXCEPT !.requested = {call[1]}, !.budget = IF call[1] = "Network" THEN 1 ELSE 2,
                          !.census = call[2], !.bearer = names] : names \in Bearers(call[2])} : call \in Calls}
    \cup {[Quiet EXCEPT !.requested = {"Network"}, !.budget = 2, !.census = "NetworkInterfaces",
                        !.bearer = ("1" :> first)] : first \in F!Natures.NetworkInterfaces \cup {None}}

Drive(kind, failing) == [kind |-> kind, failing |-> failing, readable |-> TRUE]
Unreadable(kind) == [Drive(kind, TRUE) EXCEPT !.readable = FALSE]
DriveHosts ==
    {[Quiet EXCEPT !.requested = {"StorageHealth"}, !.budget = 1, !.drives = list] :
        list \in {<<Drive("nvme", TRUE), Drive("ata", FALSE)>>, <<Drive("ata", TRUE), Drive("scsi", FALSE)>>,
                  <<Drive("nvme", FALSE), Drive("scsi", TRUE), Drive("usb", TRUE)>>,
                  <<Drive("scsi", TRUE), Unreadable("nvme"), Unreadable("usb")>>,
                  <<Unreadable("ata"), Drive("nvme", FALSE)>>}}

\* Two sockets with a memory controller each.  Slots 1 and 2 bear the same label.
Slot(slot, label, size) == [slot |-> slot, label |-> label, size |-> size]
Slots == {Slot(1, "A", 8), Slot(2, "A", 8), Slot(3, "B", 8), Slot(4, "B", 16)}
Home == <<0, 1, 0, 1>>
Reported(slot) == [slot |-> slot.slot, label |-> slot.label, size |-> slot.size, controller |-> Home[slot.slot]]
BoardHosts ==
    {[Quiet EXCEPT !.requested = scope, !.board =
        [pci |-> (7 :> n7 @@ 9 :> 1),
         controllers |-> (0 :> [pci |-> 7, node |-> None] @@ 1 :> [pci |-> p1, node |-> n1]),
         smbios |-> dimms, edac |-> {Reported(slot) : slot \in shown},
         parts |-> {[kind |-> kind, pci |-> pci, node |-> node] :
                       kind \in {"interface", "rdma", "drive", "nvme", "scsi"}, pci \in {7, 9}, node \in {None}},
         home |-> Home, node |-> (0 :> 0 @@ 1 :> 1)]] :
        scope \in {{"Memory"}, {"Memory", "Pci"}, {"Memory", "Network"}, {"Storage"}}, n7 \in {None, 0},
        p1 \in {None, 9}, n1 \in {None, 1}, dimms \in {{}, Slots}, shown \in SUBSET Slots}

AcceleratorHosts ==
    {[Quiet EXCEPT !.requested = {"Accelerator", "Execution"}, !.devices = list, !.environment = selection,
                   !.runtime = found] :
        list \in AnyInventory, selection \in AnyEnvironment, found \in AnyRuntime}

WholeHosts ==
    {[requested |-> {"Cpu", "Execution", "Memory", "Pci", "Storage", "StorageHealth", "Accelerator"}, budget |-> 1,
      machine |-> Quiet.machine,
      plugged |-> {0}, online |-> {0}, census |-> "PciDevices", bearer |-> ("1" :> "function"),
      drives |-> <<Drive("ata", TRUE)>>,
      board |-> host.board, devices |-> AmdAndIntel, environment |-> [Unset EXCEPT !.rocr = <<Ordinal(1)>>],
      runtime |-> Nothing] :
        host \in {h \in BoardHosts : /\ h.requested = {"Memory"} /\ h.board.pci[7] = 0
                                    /\ h.board.controllers[1] = [pci |-> 9, node |-> None]
                                    /\ h.board.smbios = Slots /\ Cardinality(h.board.edac) = 4}}

AnyHost == CpuHosts \cup DirectoryHosts \cup DriveHosts \cup BoardHosts \cup AcceleratorHosts \cup WholeHosts
=============================================================================
