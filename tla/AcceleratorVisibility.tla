----------------------- MODULE AcceleratorVisibility -----------------------
(***************************************************************************)
(* resolve_accelerator_visibility: which of the listed accelerators the    *)
(* current process can use, decided per vendor from what its runtime       *)
(* enumerated or, without that, from the selection variables of the        *)
(* process environment.                                                    *)
(*                                                                         *)
(* A selector token is a record: an ordinal, a UUID with the devices whose *)
(* UUID it is a prefix of, or anything else (the end markers included).    *)
(* A list of devices that is sorted, or gathered token by token, is given  *)
(* as the set of its devices and the order among them.                     *)
(***************************************************************************)
EXTENDS Integers, Sequences, FiniteSets

CONSTANTS
    Subdevices,     \* a ZE_AFFINITY_MASK that names subdevices
    Malformed,      \* an ONEAPI_DEVICE_SELECTOR outside the supported grammar
    None            \* a missing optional

Vendors == <<"NVIDIA", "AMD", "Intel">>

VARIABLES
    devices,      \* Accelerators::devices, as parse_accelerator returns them
    environment,  \* the variables, None when unset
    runtime,      \* vendor -> what its runtime enumerated, None without one
    observed,     \* vendor -> device indices in the order of the runtime, None
    todo,         \* vendors left to resolve, None before the baseline
    visible,      \* indices with visible_to_current_process
    restricted,   \* ExecutionContext::accelerator_visibility_restricted
    index         \* ExecutionContext::visible_accelerator_ids, None until published

vars == <<devices, environment, runtime, observed, todo, visible, restricted, index>>

Elements(s) == {s[k] : k \in DOMAIN s}

\* The elements of S in the order of the relation R: the n-th has n - 1 before it.
Sorted(S, R) == [n \in 1 .. Cardinality(S) |-> CHOOSE q \in S : Cardinality({r \in S : <<r, q>> \in R}) = n - 1]

Indices == DOMAIN devices
Own(vendor) == {i \in Indices : devices[i].vendor = vendor}
Ascending(S) == Sorted(S, {p \in S \X S : p[1] < p[2]})
ById(S) == Sorted(S, {p \in S \X S : devices[p[1]].id < devices[p[2]].id})

\* The devices of one vendor in the order of their ids.
Candidates(vendor) == ById(Own(vendor))

Instances(i) == {j \in Indices : devices[i].uuid # None /\ devices[j].parent = devices[i].uuid}

\* Mutant of Identified: a CUDA device is identified by its address.
IdentifiedByAddress(vendor, entry) ==
    {i \in Indices : devices[i].vendor = vendor /\ devices[i].pci = entry.pci}

\* The devices that an entry of a runtime enumeration is.
Identified(vendor, entry) ==
    {i \in Indices : /\ devices[i].vendor = vendor
                     /\ IF vendor = "NVIDIA" THEN devices[i].uuid # None /\ devices[i].uuid = entry.uuid
                        ELSE devices[i].pci = entry.pci}

\* parse_accelerator_runtime_visibility: an enumeration counts only as a whole.
Association(vendor, enumeration) ==
    IF enumeration = None \/ \E k \in DOMAIN enumeration : Identified(vendor, enumeration[k]) = {}
    THEN None
    ELSE LET found == {p \in (DOMAIN enumeration) \X Indices : p[2] \in Identified(vendor, enumeration[p[1]])}
             before == {w \in found \X found : w[1][1] < w[2][1] \/ (w[1][1] = w[2][1] /\ w[1][2] < w[2][2])}
         IN  [n \in 1 .. Cardinality(found) |-> Sorted(found, before)[n][2]]

Variables == {"cuda", "rocr", "hip", "mask", "oneapi"}

\* has_selection_environment
HasSelection == \E name \in Variables : environment[name] # None

\* The ordinals of CUDA_VISIBLE_DEVICES, as parse_environment keeps them.
LegacyIds ==
    IF environment.cuda = None THEN {}
    ELSE {token.n : token \in {t \in Elements(environment.cuda) : t.kind = "ordinal"}}

\* matches_uuid
MatchesUuid(device, token) ==
    \/ device.uuid # None /\ device.uuid \in token.prefixOf
    \/ device.parent # None /\ device.instance # None /\ token.legacy = <<device.parent, device.instance>>

\* The devices a token of a comma-separated selector names.
Named(token, pool, uuidPool, byId) ==
    CASE token.kind = "ordinal" /\ byId -> {i \in Elements(pool) : devices[i].id = token.n}
      [] token.kind = "ordinal" /\ ~byId -> IF token.n < Len(pool) THEN {pool[token.n + 1]} ELSE {}
      [] token.kind = "uuid" -> {i \in Elements(uuidPool) : MatchesUuid(devices[i], token)}
      [] OTHER -> {}

Valid(token, matches) == matches # {} /\ (token.kind = "uuid" => Cardinality(matches) = 1)

\* append_unique: the devices that the kept tokens name, each where it is named first.
Gathered(kept, named) ==
    LET found == UNION {named[k] : k \in kept}
        first(i) == CHOOSE k \in kept : i \in named[k] /\ \A j \in kept : j < k => i \notin named[j]
    IN  Sorted(found, {p \in found \X found : first(p[1]) < first(p[2])})

\* Mutant of SelectCsv: an invalid token is skipped.
SelectCsvSkipping(value, pool, uuidPool, byId) ==
    LET named == [k \in DOMAIN value |-> Named(value[k], pool, uuidPool, byId)]
    IN  Gathered({k \in DOMAIN value : Valid(value[k], named[k])}, named)

\* select_csv: the first token that is not valid ends the list.
SelectCsv(value, pool, uuidPool, byId) ==
    LET named == [k \in DOMAIN value |-> Named(value[k], pool, uuidPool, byId)]
    IN  Gathered({k \in DOMAIN value : \A j \in 1 .. k : Valid(value[j], named[j])}, named)

\* CUDA_DEVICE_ORDER=PCI_BUS_ID
ByAddress(S) ==
    Sorted(S, {p \in S \X S :
        IF devices[p[1]].pci = None \/ devices[p[2]].pci = None
        THEN devices[p[2]].pci = None /\ (devices[p[1]].pci # None \/ p[1] < p[2])
        ELSE devices[p[1]].pci < devices[p[2]].pci})

\* select_accelerator_environment, NVIDIA: used only without an enumeration.
SelectNvidia(candidates, known) ==
    IF environment.cuda = None \/ known THEN None
    ELSE LET physical == {i \in Elements(candidates) : devices[i].parent = None}
             ordered == IF environment.pciOrder THEN ByAddress(physical) ELSE ById(physical)
         IN  Elements(SelectCsv(environment.cuda, ordered, candidates, ~environment.pciOrder))

Narrowed(selected, value) ==
    IF value = None THEN selected ELSE SelectCsv(value, selected, selected, FALSE)

\* AMD: HIP_VISIBLE_DEVICES selects from what ROCR_VISIBLE_DEVICES leaves.
SelectAmd(candidates, known) ==
    IF known \/ (environment.rocr = None /\ environment.hip = None) THEN None
    ELSE Elements(Narrowed(Narrowed(candidates, environment.rocr), environment.hip))

OfIntel(filter) == filter.backend \in {"any", "level_zero", "opencl"}

Picked(candidates, filter) ==
    (IF filter.all THEN Elements(candidates) ELSE {})
      \cup {candidates[n + 1] : n \in {m \in filter.ordinals : m < Len(candidates)}}

\* Mutant of Readable: ordinals are trusted without an enumeration.
ReadableAlways(filters, known) ==
    /\ filters # Malformed
    /\ \A j, k \in DOMAIN filters : j < k /\ filters[j].exclude => filters[k].exclude

\* parse_sycl and the early return of select_sycl: no accept after a discard, and
\* root ordinals only of an enumerated Level Zero.
Readable(filters, known) ==
    /\ filters # Malformed
    /\ \A j, k \in DOMAIN filters : j < k /\ filters[j].exclude => filters[k].exclude
    /\ \A k \in DOMAIN filters :
         OfIntel(filters[k]) /\ filters[k].ordinals # {} => filters[k].backend = "level_zero" /\ known

\* select_sycl, the devices selected: accepted by a filter, or by there being none, and not discarded.
SelectSycl(candidates, filters, known) ==
    IF filters = <<>> THEN {}
    ELSE IF ~Readable(filters, known) THEN Elements(candidates)
    ELSE LET matching(exclude) ==
                 UNION {Picked(candidates, filters[k]) :
                        k \in {j \in DOMAIN filters : OfIntel(filters[j]) /\ filters[j].exclude = exclude}}
             accepted == IF \A k \in DOMAIN filters : filters[k].exclude THEN Elements(candidates)
                         ELSE matching(FALSE)
         IN  accepted \ matching(TRUE)

\* Intel: the mask, unless an enumeration has applied it already, then the selector.
SelectIntel(candidates, known) ==
    LET mask == IF known \/ environment.mask = Subdevices THEN None ELSE environment.mask
        masked == Narrowed(candidates, mask)
    IN  IF environment.oneapi # None THEN SelectSycl(masked, environment.oneapi, known)
        ELSE IF mask # None THEN Elements(masked) ELSE None

\* The devices the environment selects, None if it says nothing.
Selection(vendor, candidates, known) ==
    CASE vendor = "NVIDIA" -> SelectNvidia(candidates, known)
      [] vendor = "AMD" -> SelectAmd(candidates, known)
      [] vendor = "Intel" -> SelectIntel(candidates, known)

\* apply_selection: a partitioned GPU is not usable itself, its instances are.
Applied(candidates, selected) ==
    {i \in candidates : (i \in selected \/ \E p \in selected : i \in Instances(p)) /\ Instances(i) = {}}

Start ==
    /\ observed = [vendor \in Elements(Vendors) |-> None]
    /\ todo = None
    /\ visible = {}
    /\ restricted = FALSE
    /\ index = None

\* Mutant of Usable: the ordinals of CUDA_VISIBLE_DEVICES are taken for ids of any vendor.
UsableByLegacy(i) == Instances(i) = {} /\ (LegacyIds = {} \/ devices[i].id \in LegacyIds)

Usable(i) == Instances(i) = {} /\ (HasSelection \/ LegacyIds = {} \/ devices[i].id \in LegacyIds)

\* parse_accelerator_runtime_visibility, and everything usable to begin with.
Baseline ==
    /\ todo = None
    /\ observed' = [vendor \in Elements(Vendors) |-> Association(vendor, runtime[vendor])]
    /\ visible' = {i \in Indices : Usable(i)}
    /\ restricted' = (HasSelection \/ LegacyIds # {})
    /\ todo' = Vendors
    /\ UNCHANGED <<devices, environment, runtime, index>>

\* What decides about a vendor: the selection of the environment, or else its
\* enumeration; None without either.
Decisive(vendor) ==
    LET known == observed[vendor] # None
        selection == Selection(vendor, IF known THEN observed[vendor] ELSE Candidates(vendor), known)
    IN  IF selection # None THEN selection
        ELSE IF known THEN Elements(observed[vendor]) ELSE None

\* The next vendor: what decides about it replaces its part.
Resolve ==
    /\ todo \notin {None, <<>>}
    /\ LET vendor == Head(todo)
       IN  visible' = IF Decisive(vendor) = None THEN visible
                      ELSE (visible \ Own(vendor)) \cup Applied(Own(vendor), Decisive(vendor))
    /\ todo' = Tail(todo)
    /\ UNCHANGED <<devices, environment, runtime, observed, restricted, index>>

\* The index of visible ids is generated again from the devices.
Publish ==
    /\ todo = <<>>
    /\ index = None
    /\ index' = [k \in 1 .. Cardinality(visible) |-> devices[Ascending(visible)[k]].id]
    /\ UNCHANGED <<devices, environment, runtime, observed, todo, visible, restricted>>

Next == Baseline \/ Resolve \/ Publish
-----------------------------------------------------------------------------
Resolved == todo = <<>>
VariablesOf(vendor) ==
    CASE vendor = "NVIDIA" -> {"cuda"} [] vendor = "AMD" -> {"rocr", "hip"} [] vendor = "Intel" -> {"mask", "oneapi"}
Unset(vendor) == \A name \in VariablesOf(vendor) : environment[name] = None

\* What the runtime of its vendor says of a device: CUDA by UUID, the others by address.
Entries(vendor) == IF runtime[vendor] = None THEN {} ELSE Elements(runtime[vendor])
Is(i, entry) ==
    IF devices[i].vendor = "NVIDIA" THEN devices[i].uuid = entry.uuid ELSE devices[i].pci = entry.pci
Reported(i) == \E entry \in Entries(devices[i].vendor) : Is(i, entry)
ReportedOrWithin(i) == \E p \in Own(devices[i].vendor) : Reported(p) /\ (p = i \/ i \in Instances(p))
Complete(vendor) ==
    runtime[vendor] # None /\ \A entry \in Entries(vendor) : \E i \in Own(vendor) : Is(i, entry)

\* A device is hidden for a reason of its own vendor: its variables, a complete
\* enumeration without it, or its instances being listed in its place.  A partial
\* enumeration or another vendor's variable hides nothing.
HiddenForReason ==
    Resolved => \A i \in Indices \ visible :
        \/ Instances(i) # {}
        \/ ~Unset(devices[i].vendor)
        \/ Complete(devices[i].vendor) /\ ~ReportedOrWithin(i)

\* What a complete enumeration of CUDA or HIP reports is what is visible, whatever the
\* variables say; Level Zero bounds it, and decides it without ONEAPI_DEVICE_SELECTOR.
RuntimeDecides ==
    Resolved => \A vendor \in Elements(Vendors) : Complete(vendor) =>
        \A i \in Own(vendor) : Instances(i) = {} =>
            /\ i \in visible => ReportedOrWithin(i)
            /\ vendor # "Intel" \/ environment.oneapi = None => (ReportedOrWithin(i) => i \in visible)

Addressed == {i \in Own("NVIDIA") : devices[i].parent = None /\ devices[i].pci # None}
Rank(i) == Cardinality({j \in Addressed : devices[j].pci < devices[i].pci})
Chosen(token, i) ==
    CASE token.kind = "ordinal" -> i \in Addressed /\ Rank(i) = token.n
      [] token.kind = "uuid" -> {j \in Own("NVIDIA") : MatchesUuid(devices[j], token)} = {i}
      [] OTHER -> FALSE

\* Under CUDA_DEVICE_ORDER=PCI_BUS_ID and without an enumeration, ordinal n of
\* CUDA_VISIBLE_DEVICES is the GPU with n GPUs at lower addresses, up to the first token
\* that names no device or no single one; a partitioned GPU is its instances.  Setting
\* HIP_VISIBLE_DEVICES as well never shows a device that ROCR_VISIBLE_DEVICES hides.
SelectionInOrder ==
    /\ Resolved /\ environment.pciOrder /\ environment.cuda # None /\ ~Complete("NVIDIA")
                /\ (\A i \in Own("NVIDIA") : devices[i].parent = None => devices[i].pci # None) =>
         \A i \in Own("NVIDIA") : Instances(i) = {} =>
             (i \in visible <=> \E k \in DOMAIN environment.cuda :
                 /\ \A j \in 1 .. k : \E g \in Own("NVIDIA") : Chosen(environment.cuda[j], g)
                 /\ \E g \in Own("NVIDIA") : Chosen(environment.cuda[k], g) /\ (g = i \/ i \in Instances(g)))
    /\ Resolved /\ environment.rocr # None /\ ~Complete("AMD") =>
         Own("AMD") \cap visible
           \subseteq Elements(SelectCsv(environment.rocr, Candidates("AMD"), Candidates("AMD"), FALSE))

\* docs/design/architecture/backend_strategy.md:36: an Intel selector that cannot be
\* interpreted, or that counts devices nobody enumerated, leaves the Intel view as it is.
UnreadableHidesNothing ==
    Resolved /\ environment.mask \in {None, Subdevices} /\ environment.oneapi # None =>
        LET filters == environment.oneapi
            view == IF Complete("Intel") THEN {i \in Own("Intel") : Reported(i)} ELSE Own("Intel")
            unreadable == \/ filters = Malformed
                          \/ \E k \in DOMAIN filters : /\ filters[k].ordinals # {} /\ OfIntel(filters[k])
                                                       /\ filters[k].backend # "level_zero" \/ ~Complete("Intel")
        IN  unreadable => Own("Intel") \cap visible = view
=============================================================================
