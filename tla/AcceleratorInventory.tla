------------------------ MODULE AcceleratorInventory ------------------------
(***************************************************************************)
(* parse_accelerator: the records of NVML, nvidia-smi, the MIG list, the   *)
(* compute runtimes and DRM, each with some fields missing, merged by      *)
(* AcceleratorInventory::add into one list of devices with ids.            *)
(*                                                                         *)
(* The evidence is that of one host whose devices do not change.  A device *)
(* stands for its own UUID and its own PCI address; an instance of a       *)
(* partitioned GPU has the PCI address of the GPU.                         *)
(***************************************************************************)
EXTENDS Integers, Sequences

CONSTANTS
    Gpus,         \* NVIDIA GPUs in the order NVML and nvidia-smi number them
    Migs,         \* MIG instances in the order NVML enumerates them
    Listing,      \* the lines of nvidia-smi -L: each GPU followed by its instances
    Computing,    \* what CUDA enumerates: a partitioned GPU by its instances only
    Amds,         \* AMD GPUs
    ParentOf,     \* MIG instance -> its GPU
    InstanceOf,   \* MIG instance -> its numbers within the GPU
    Gaps,         \* bound: the ways in which evidence may be incomplete
    None          \* a missing optional

Elements(s) == {s[i] : i \in DOMAIN s}
Gpu == Elements(Gpus)
Mig == Elements(Migs)
Physical == Gpu \cup Elements(Amds)
Ordinal(g) == (CHOOSE i \in DOMAIN Gpus : Gpus[i] = g) - 1

\* Devices are told apart, an instance by its numbers within its GPU; CUDA does not
\* enumerate a partitioned GPU itself.
ASSUME InventoryAssumption ==
    /\ \A s \in {Gpus, Migs, Listing, Computing, Amds} : s \in Seq(Elements(s))
    /\ Gpu \cap Mig = {} /\ Elements(Amds) \cap (Gpu \cup Mig) = {} /\ None \notin Physical \cup Mig
    /\ Elements(Listing) \subseteq Gpu \cup Mig
    /\ Elements(Computing) \subseteq Mig \cup (Gpu \ {ParentOf[m] : m \in Mig})
    /\ \A m \in Mig : ParentOf[m] \in Gpu /\ InstanceOf[m] # None
    /\ \A m, n \in Mig : ParentOf[m] = ParentOf[n] /\ InstanceOf[m] = InstanceOf[n] => m = n

VARIABLES
    gaps,      \* rows, and fields <<backend, field>>, that backends may fail to report
    step,      \* the next row of evidence
    devices,   \* AcceleratorInventory::devices_, in order
    stable,    \* GPUs whose UUID NVML reported
    parent,    \* the GPU line the MIG list is at
    numbered   \* GPUs some backend has reported with their ordinal

vars == <<gaps, step, devices, stable, parent, numbered>>

\* The rows in the order of the decoders: a backend and what it reports.
Rows(backend, s) == [i \in DOMAIN s |-> [backend |-> backend, device |-> s[i]]]

Evidence ==
    Rows("nvml", Gpus) \o Rows("nvml", Migs) \o Rows("smi", Gpus) \o Rows("list", Listing)
      \o Rows("cuda", Computing) \o Rows("hip", Amds) \o Rows("drm", Gpus \o Amds)

Vendor(x) == IF x \in Gpu \cup Mig THEN "NVIDIA" ELSE "AMD"
Place(x) == IF x \in Mig THEN ParentOf[x] ELSE x

\* An optional field: present unless the backend may lack it.
Maybe(backend, field, value) ==
    {value} \cup (IF <<backend, field>> \in gaps.fields THEN {None} ELSE {})

Device(id, vendor, uuid, of, instance, pci) ==
    [id |-> id, vendor |-> vendor, uuid |-> uuid, parent |-> of, instance |-> instance, pci |-> pci]

Ids(list) == {list[i].id : i \in DOMAIN list}

\* next_id: the least number no device has.
NextId(list) == CHOOSE n \in 0 .. Len(list) : n \notin Ids(list) /\ 0 .. n - 1 \subseteq Ids(list)

\* Identity: UUID, then the place within the parent or on the bus, then the ordinal.
SameDevice(a, b) ==
    /\ a.vendor = b.vendor /\ a.parent = b.parent
    /\ IF a.uuid # None /\ b.uuid # None THEN a.uuid = b.uuid
       ELSE IF a.parent # None THEN a.instance # None /\ a.instance = b.instance
       ELSE IF a.pci # None /\ b.pci # None THEN a.pci = b.pci
       ELSE a.id = b.id

Or(optional, source) == IF optional # None THEN optional ELSE source

\* Mutant of Fill: the number is taken over as well.
FillId(a, b) == [a EXCEPT !.id = b.id, !.uuid = Or(@, b.uuid), !.pci = Or(@, b.pci), !.instance = Or(@, b.instance)]

Fill(a, b) == [a EXCEPT !.uuid = Or(@, b.uuid), !.pci = Or(@, b.pci), !.instance = Or(@, b.instance)]

\* Mutant of Renumbered: nobody gives way.
RenumberedNever(list, device) == list

\* A physical device claims its ordinal from the instance that holds it, if any.
Renumbered(list, device) ==
    [i \in DOMAIN list |->
        IF device.parent = None /\ list[i].parent # None /\ list[i].id = device.id
        THEN [list[i] EXCEPT !.id = NextId(list)] ELSE list[i]]

\* Mutant of Admitted: a duplicate ordinal is kept.
AdmittedAsIs(list, device) == Append(list, device)

\* A new device gets a number of its own unless its ordinal is free.
Admitted(list, device) ==
    Append(list, IF device.parent # None \/ device.id \in Ids(list)
                 THEN [device EXCEPT !.id = NextId(list)] ELSE device)

Matches(list, device) == {i \in DOMAIN list : SameDevice(list[i], device)}
First(S) == CHOOSE i \in S : \A j \in S : i <= j
Last(S) == CHOOSE i \in S : \A j \in S : j <= i

\* AcceleratorInventory::add.
Add(list, device) ==
    IF Matches(list, device) # {}
    THEN [list EXCEPT ![First(Matches(list, device))] = Fill(@, device)]
    ELSE Admitted(Renumbered(list, device), device)

Init ==
    /\ gaps \in Gaps
    /\ step = 1
    /\ devices = <<>>
    /\ stable = {}
    /\ parent = None
    /\ numbered = {}

Row(backend) ==
    /\ step <= Len(Evidence)
    /\ Evidence[step].backend = backend
    /\ step' = step + 1

Subject == Evidence[step].device

\* The backend is not there, or says nothing of this device; nvidia-smi -L lists no
\* instance but under the line of its GPU.
Silent ==
    /\ step <= Len(Evidence)
    /\ \/ Evidence[step] \in gaps.rows
       \/ Evidence[step].backend = "list" /\ Subject \in Mig /\ parent # ParentOf[Subject]
    /\ step' = step + 1
    /\ UNCHANGED <<gaps, devices, stable, parent, numbered>>

\* read_nvml asks a GPU without a UUID for no instances.
NoParent ==
    /\ Row("nvml")
    /\ Subject \in Mig
    /\ ParentOf[Subject] \notin stable
    /\ UNCHANGED <<gaps, devices, stable, parent, numbered>>

\* decode_nvml, a physical device: index always, UUID and PCI address if they can be had.
NvmlGpu ==
    /\ Row("nvml")
    /\ Subject \in Gpu
    /\ \E uuid \in Maybe("nvml", "uuid", Subject), pci \in Maybe("nvml", "pci", Subject) :
         /\ devices' = Add(devices, Device(Ordinal(Subject), "NVIDIA", uuid, None, None, pci))
         /\ stable' = IF uuid = None THEN stable ELSE stable \cup {Subject}
    /\ numbered' = numbered \cup {Subject}
    /\ UNCHANGED <<gaps, parent>>

\* decode_nvml, an instance: reported only under a parent with a UUID.
NvmlMig ==
    /\ Row("nvml")
    /\ Subject \in Mig
    /\ ParentOf[Subject] \in stable
    /\ \E uuid \in Maybe("nvml", "mig uuid", Subject), pci \in Maybe("nvml", "pci", Place(Subject)),
          instance \in Maybe("nvml", "instance", InstanceOf[Subject]) :
         devices' = Add(devices, Device(Ordinal(Place(Subject)), "NVIDIA", uuid, Place(Subject), instance, pci))
    /\ UNCHANGED <<gaps, stable, parent, numbered>>

\* decode_nvidia_smi: a row needs its index.
NvidiaSmi ==
    /\ Row("smi")
    /\ \E uuid \in Maybe("smi", "uuid", Subject), pci \in Maybe("smi", "pci", Subject) :
         devices' = Add(devices, Device(Ordinal(Subject), "NVIDIA", uuid, None, None, pci))
    /\ numbered' = numbered \cup {Subject}
    /\ UNCHANGED <<gaps, stable, parent>>

\* decode_mig_list, a GPU line: the UUID is written to the device of that ordinal.
ListGpu ==
    /\ Row("list")
    /\ Subject \in Gpu
    /\ parent' = Subject
    /\ devices' = [i \in DOMAIN devices |->
          IF devices[i].parent = None /\ devices[i].vendor = "NVIDIA" /\ devices[i].id = Ordinal(Subject)
          THEN [devices[i] EXCEPT !.uuid = Subject] ELSE devices[i]]
    /\ UNCHANGED <<gaps, stable, numbered>>

\* decode_mig_list, an instance of the last GPU line, at the address of that GPU.
ListMig ==
    /\ Row("list")
    /\ Subject \in Mig
    /\ parent = ParentOf[Subject]
    /\ LET gpu == {i \in DOMAIN devices : devices[i].uuid = parent}
           pci == IF gpu = {} THEN None ELSE devices[Last(gpu)].pci
       IN  devices' = Add(devices, Device(0, "NVIDIA", Subject, parent, None, pci))
    /\ UNCHANGED <<gaps, stable, parent, numbered>>

\* Mutant of HostsOf: an instance is taken for the parent of the next one.
HostsOfAny(list, x) ==
    {i \in DOMAIN list : list[i].pci = Place(x) /\ list[i].uuid \notin {None, x}}

\* Physical devices at the address of x that have another UUID.
HostsOf(list, x) ==
    {i \in DOMAIN list : list[i].parent = None /\ list[i].pci = Place(x) /\ list[i].uuid \notin {None, x}}

\* decode_runtime_inventory, CUDA: a device with another UUID at the address of a
\* physical device is an instance of it; a known UUID is skipped.
Cuda ==
    /\ Row("cuda")
    /\ LET at == HostsOf(devices, Subject)
           of == IF at = {} THEN None ELSE devices[Last(at)].uuid
       IN  devices' = IF \E i \in DOMAIN devices : devices[i].uuid = Subject THEN devices
                      ELSE Add(devices, Device(NextId(devices), "NVIDIA", Subject, of, None, Place(Subject)))
    /\ UNCHANGED <<gaps, stable, parent, numbered>>

\* decode_runtime_inventory, HIP: the address only.
Hip ==
    /\ Row("hip")
    /\ devices' = Add(devices, Device(NextId(devices), "AMD", None, None, None, Subject))
    /\ UNCHANGED <<gaps, stable, parent, numbered>>

\* decode_drm: the address, and a unique id for AMD.
Drm ==
    /\ Row("drm")
    /\ \E uuid \in IF Subject \in Gpu THEN {None} ELSE {None, Subject} :
         devices' = Add(devices, Device(NextId(devices), Vendor(Subject), uuid, None, None, Subject))
    /\ UNCHANGED <<gaps, stable, parent, numbered>>

Done ==
    /\ step > Len(Evidence)
    /\ UNCHANGED vars

Next ==
    \/ Silent \/ NoParent \/ NvmlGpu \/ NvmlMig \/ NvidiaSmi
    \/ ListGpu \/ ListMig \/ Cuda \/ Hip \/ Drm \/ Done

Spec == Init /\ [][Next]_vars
-----------------------------------------------------------------------------
\* Two devices of a snapshot never have the same id.
UniqueIds == \A i, j \in DOMAIN devices : devices[i].id = devices[j].id => i = j

\* The id of a physical device never changes once it is known; instances give way.
IdKept ==
    [][\A i \in DOMAIN devices : devices[i].parent = None => devices'[i].id = devices[i].id]_vars

\* NVML reports every partitioned GPU with its UUID and its address.
PartitionsSeen ==
    /\ \A m \in Mig : [backend |-> "nvml", device |-> ParentOf[m]] \notin gaps.rows
    /\ {<<"nvml", "uuid">>, <<"nvml", "pci">>} \cap gaps.fields = {}

\* CUDA_VISIBLE_DEVICES=k means the device with id k: a GPU that a backend reported
\* under its ordinal has that id, and the entry with that id is no other device.
OrdinalNames ==
    PartitionsSeen =>
    \A g \in numbered : \E i \in DOMAIN devices :
        /\ devices[i].id = Ordinal(g) /\ devices[i].vendor = "NVIDIA" /\ devices[i].parent = None
        /\ devices[i].uuid \in {None, g} /\ devices[i].pci \in {None, g}

\* reader/linux/accelerator.cpp:132: an instance without a stable parent must not
\* become a physical device.
InstanceIsNotPhysical ==
    \A i \in DOMAIN devices : devices[i].parent = None => devices[i].uuid \notin Mig

\* The devices an entry can be taken for.
Names(d) ==
    IF d.parent = None THEN {d.uuid, d.pci} \ {None}
    ELSE {m \in Mig : d.uuid = m \/ (ParentOf[m] = d.parent /\ InstanceOf[m] = d.instance)}

\* UUID, address and parent of an entry are those of one device.
OneDevice(d) ==
    IF d.parent = None
    THEN d.uuid \in Physical \cup {None} /\ (d.pci # None /\ d.uuid # None => d.pci = d.uuid)
    ELSE d.uuid \in {None} \cup {m \in Mig : ParentOf[m] = d.parent} /\ d.pci \in {None, d.parent}

\* Entries and devices correspond. Where NVML sees the partitioned GPU no entry mixes two
\* devices, and a device whose address every backend reports is listed once, whichever
\* backends see it and whether or not they know its UUID.
OneToOne ==
    /\ PartitionsSeen => \A i \in DOMAIN devices : OneDevice(devices[i])
    /\ gaps.fields \subseteq {"nvml", "smi"} \X {"uuid"} =>
         \A i, j \in DOMAIN devices : i # j => Names(devices[i]) \cap Names(devices[j]) = {}
=============================================================================
