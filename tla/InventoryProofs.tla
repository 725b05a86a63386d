--------------------------- MODULE InventoryProofs ---------------------------
(***************************************************************************)
(* That the merged list of accelerators of AcceleratorInventory is right   *)
(* for any number of GPUs, instances and backends, and any gaps.           *)
(*                                                                         *)
(* TypeInv makes the list one of entries with an id each; it gives         *)
(* UniqueIds and IdKept.  Seen says of what device each entry is, where    *)
(* NVML sees the partitioned GPUs: while the decoders that number GPUs run *)
(* an entry has the ordinal of its GPU, so two reports of a GPU meet by    *)
(* UUID, by address or by ordinal; afterwards a report has a number nobody *)
(* has and meets an entry by UUID or address only.  It gives OrdinalNames  *)
(* and the first part of OneToOne.  Known says, where every backend        *)
(* reports addresses, that no two entries share a UUID or an address; it   *)
(* gives the second part.                                                  *)
(***************************************************************************)
EXTENDS AcceleratorInventory, FiniteSetTheorems, SequenceTheorems, WellFoundedInduction, TLAPS

Amd == Elements(Amds)
Optional(S) == S \cup {None}
Uuid == Optional(Physical \cup Mig)
Entry == [id : Nat, vendor : {"NVIDIA", "AMD"}, uuid : Uuid, parent : Uuid,
          instance : Optional({InstanceOf[m] : m \in Mig}), pci : Uuid]

\* A device is in the list once under each id.
IdsApart(list) == \A i, j \in DOMAIN list : list[i].id = list[j].id => i = j

\* The same but for the id.
Alike(a, b) ==
    a.vendor = b.vendor /\ a.parent = b.parent /\ a.uuid = b.uuid /\ a.instance = b.instance /\ a.pci = b.pci

-----------------------------------------------------------------------------
(* Numbers.                                                                *)

\* A set of numbers has a least one.
LEMMA LeastOf == ASSUME NEW S, S \subseteq Nat, S # {} PROVE \E m \in S : \A j \in S : m <= j
<1> DEFINE R == {p \in Nat \X Nat : p[1] < p[2]}
<1>1. IsWellFoundedOn(R, Nat)
  BY ONLY NatLessThanWellFounded DEF OpToRel
<1>2. PICK m \in S : \A j \in S : <<j, m>> \notin R
  <2> HIDE DEF R
  <2> QED BY <1>1, WFMin
<1>3. \A j \in S : ~(j < m)
  BY <1>2
<1> QED
  BY <1>3

\* The first of several devices is there.
LEMMA FirstIs == ASSUME NEW S, S \subseteq Nat, S # {} PROVE First(S) \in S
  BY LeastOf DEF First

\* There is a number that no device of a list has, and next_id finds it.
LEMMA NextIdIs ==
    ASSUME NEW list \in Seq(Entry)
    PROVE  NextId(list) \in Nat /\ NextId(list) \notin Ids(list)
<1> DEFINE n == Len(list)
           free == (0 .. n) \ Ids(list)
<1>1. n \in Nat /\ DOMAIN list = 1 .. n
  OBVIOUS
<1>2. IsFiniteSet(Ids(list)) /\ Cardinality(Ids(list)) <= n
  <2>1. IsFiniteSet(1 .. n) /\ Cardinality(1 .. n) = n
    BY <1>1, FS_Interval
  <2>2. Ids(list) = {list[i].id : i \in 1 .. n}
    BY <1>1 DEF Ids
  <2>3. IsFiniteSet({list[i].id : i \in 1 .. n}) /\ Cardinality({list[i].id : i \in 1 .. n}) <= Cardinality(1 .. n)
    <3> DEFINE f == [i \in 1 .. n |-> list[i].id]
    <3>1. f \in Surjection(1 .. n, {f[i] : i \in 1 .. n})
      BY Zenon DEF Surjection
    <3>2. {f[i] : i \in 1 .. n} = {list[i].id : i \in 1 .. n}
      OBVIOUS
    <3> HIDE DEF f
    <3> QED
      BY <2>1, <3>1, <3>2, FS_Surjection
  <2> QED
    BY <2>1, <2>2, <2>3
<1>3. IsFiniteSet(0 .. n) /\ Cardinality(0 .. n) = n + 1
  BY <1>1, FS_Interval
<1>4. free # {}
  <2> SUFFICES ASSUME 0 .. n \subseteq Ids(list) PROVE FALSE
    OBVIOUS
  <2>1. Cardinality(0 .. n) <= Cardinality(Ids(list))
    BY <1>2, FS_Subset
  <2>2. Cardinality(Ids(list)) \in Nat
    BY <1>2, FS_CardinalityType
  <2> QED
    BY <1>1, <1>2, <1>3, <2>1, <2>2
<1>5. PICK m \in free : \A j \in free : m <= j
  <2>1. free \subseteq Nat
    BY <1>1
  <2> HIDE DEF free
  <2> QED BY <1>4, <2>1, LeastOf
<1>6. m \in 0 .. n /\ m \notin Ids(list) /\ 0 .. m - 1 \subseteq Ids(list)
  <2>1. \A j \in 0 .. m - 1 : j \in 0 .. n /\ ~(m <= j)
    BY <1>1, <1>5
  <2> QED
    BY <1>5, <2>1
<1>7. NextId(list) \in 0 .. n /\ NextId(list) \notin Ids(list)
  BY <1>6 DEF NextId
<1> QED
  BY <1>1, <1>7

-----------------------------------------------------------------------------
(* AcceleratorInventory::add.                                              *)

\* Whether the device is one of the list already.
IsIn(list, device) == \E i \in DOMAIN list : SameDevice(list[i], device)

\* What add returns for a device of the list: the missing fields of one entry are filled.
LEMMA AddKnown ==
    ASSUME NEW list \in Seq(Entry), NEW device \in Entry, IsIn(list, device)
    PROVE  \E i \in DOMAIN list :
             /\ SameDevice(list[i], device)
             /\ Add(list, device) = [list EXCEPT ![i] = Fill(list[i], device)]
             /\ Add(list, device) \in Seq(Entry) /\ Len(Add(list, device)) = Len(list)
<1> DEFINE i == First(Matches(list, device))
<1>1. Matches(list, device) # {} /\ Matches(list, device) \subseteq Nat
  BY DEF IsIn, Matches
<1>2. i \in DOMAIN list /\ SameDevice(list[i], device)
  BY <1>1, FirstIs DEF Matches
<1>3. Add(list, device) = [list EXCEPT ![i] = Fill(list[i], device)]
  BY <1>1 DEF Add
<1>4. Fill(list[i], device) \in Entry
  <2>1. list[i] \in Entry
    BY <1>2
  <2> HIDE DEF i
  <2> QED BY <2>1 DEF Fill, Or, Entry
<1> HIDE DEF i
<1>5. [list EXCEPT ![i] = Fill(list[i], device)] \in Seq(Entry)
  BY <1>2, <1>4
<1>6. Len([list EXCEPT ![i] = Fill(list[i], device)]) = Len(list)
  BY <1>2
<1> QED
  BY <1>2, <1>3, <1>5, <1>6

\* What add returns for a new device: it comes last, with a number of its own; the others
\* are as they were, instances may have given way.
LEMMA AddNew ==
    ASSUME NEW list \in Seq(Entry), IdsApart(list), NEW device \in Entry, ~IsIn(list, device)
    PROVE  LET new == Add(list, device)
           IN  /\ new \in Seq(Entry) /\ Len(new) = Len(list) + 1 /\ IdsApart(new)
               /\ \A i \in DOMAIN list :
                    Alike(new[i], list[i]) /\ (list[i].parent = None => new[i].id = list[i].id)
               /\ Alike(new[Len(list) + 1], device)
               /\ device.parent = None /\ (\A i \in DOMAIN list : list[i].parent = None => list[i].id # device.id)
                    => new[Len(list) + 1].id = device.id
<1> DEFINE n == Len(list)
           ren == Renumbered(list, device)
           next == NextId(list)
           gives(i) == device.parent = None /\ list[i].parent # None /\ list[i].id = device.id
           last == IF device.parent # None \/ device.id \in Ids(ren) THEN [device EXCEPT !.id = NextId(ren)] ELSE device
<1>1. n \in Nat /\ DOMAIN list = 1 .. n /\ \A i \in 1 .. n : list[i] \in Entry
  OBVIOUS
<1>2. next \in Nat /\ \A i \in 1 .. n : list[i].id # next
  BY <1>1, NextIdIs DEF Ids
<1>3. ren = [i \in 1 .. n |-> IF gives(i) THEN [list[i] EXCEPT !.id = next] ELSE list[i]]
  BY <1>1 DEF Renumbered
<1>4. \A i \in 1 .. n : /\ ren[i] \in Entry /\ Alike(ren[i], list[i])
                        /\ ren[i].id = IF gives(i) THEN next ELSE list[i].id
  <2> SUFFICES ASSUME NEW i \in 1 .. n
               PROVE /\ ren[i] \in Entry /\ Alike(ren[i], list[i])
                     /\ ren[i].id = IF gives(i) THEN next ELSE list[i].id
    OBVIOUS
  <2>1. ren[i] = IF gives(i) THEN [list[i] EXCEPT !.id = next] ELSE list[i]
    BY <1>3
  <2>2. list[i] \in Entry
    BY <1>1
  <2> HIDE DEF ren, gives, next
  <2> QED BY <1>2, <2>1, <2>2 DEF Entry, Alike
<1>5. ren \in Seq(Entry) /\ Len(ren) = n
  <2> HIDE DEF ren, gives, next
  <2> QED BY <1>1, <1>3, <1>4
<1>6. IdsApart(ren)
  <2>1. \A i, j \in 1 .. n : list[i].id = list[j].id => i = j
    BY <1>1 DEF IdsApart
  <2>2. \A i, j \in 1 .. n : gives(i) /\ gives(j) => i = j
    BY <2>1
  <2>3. DOMAIN ren = 1 .. n
    BY <1>1, <1>5
  <2> HIDE DEF ren, gives, next
  <2>4. ASSUME NEW i \in 1 .. n, NEW j \in 1 .. n, ren[i].id = ren[j].id PROVE i = j
    BY <1>2, <1>4, <2>1, <2>2, <2>4
  <2> QED
    BY <2>3, <2>4 DEF IdsApart
<1>7. last \in Entry /\ Alike(last, device) /\ \A i \in 1 .. n : ren[i].id # last.id
  <2>1. NextId(ren) \in Nat /\ \A i \in 1 .. n : ren[i].id # NextId(ren)
    BY <1>1, <1>5, NextIdIs DEF Ids
  <2>2. \A i \in 1 .. n : ren[i].id \in Ids(ren)
    BY <1>1, <1>5 DEF Ids
  <2> HIDE DEF ren
  <2>3. CASE device.parent # None \/ device.id \in Ids(ren)
    <3>1. last = [device EXCEPT !.id = NextId(ren)]
      BY <2>3
    <3> HIDE DEF last
    <3> QED BY <2>1, <3>1 DEF Entry, Alike
  <2>4. CASE ~(device.parent # None \/ device.id \in Ids(ren))
    <3>1. last = device
      BY <2>4
    <3> HIDE DEF last
    <3> QED BY <2>2, <2>4, <3>1 DEF Entry, Alike
  <2> QED BY <2>3, <2>4
<1>8. Add(list, device) = Append(ren, last)
  <2>1. Matches(list, device) = {}
    BY DEF IsIn, Matches
  <2> QED
    BY <2>1 DEF Add, Admitted
<1> DEFINE new == Append(ren, last)
<1>9. /\ new \in Seq(Entry) /\ Len(new) = n + 1 /\ new[n + 1] = last
      /\ \A i \in 1 .. n : new[i] = ren[i]
  <2> HIDE DEF ren, last
  <2> QED BY <1>1, <1>5, <1>7
<1>10. IdsApart(new)
  <2>1. \A i, j \in 1 .. n : ren[i].id = ren[j].id => i = j
    BY <1>1, <1>5, <1>6 DEF IdsApart
  <2>2. DOMAIN new = 1 .. n + 1
    <3> HIDE DEF new
    <3> QED BY <1>1, <1>9
  <2> HIDE DEF ren, last, new
  <2>3. ASSUME NEW i \in 1 .. n + 1, NEW j \in 1 .. n + 1, new[i].id = new[j].id PROVE i = j
    <3>1. CASE i \in 1 .. n /\ j \in 1 .. n
      BY <1>9, <2>1, <2>3, <3>1
    <3>2. CASE i = n + 1 /\ j \in 1 .. n
      BY <1>7, <1>9, <2>3, <3>2
    <3>3. CASE i \in 1 .. n /\ j = n + 1
      BY <1>7, <1>9, <2>3, <3>3
    <3> QED
      BY <1>1, <3>1, <3>2, <3>3
  <2> QED
    BY <2>2, <2>3 DEF IdsApart
<1>11. ASSUME device.parent = None, \A i \in 1 .. n : list[i].parent = None => list[i].id # device.id
       PROVE  last.id = device.id
  <2>1. \A i \in 1 .. n : ren[i].id # device.id
    <3> SUFFICES ASSUME NEW i \in 1 .. n PROVE ren[i].id # device.id
      OBVIOUS
    <3>1. CASE gives(i)
      <4>1. ren[i].id = next /\ list[i].id = device.id
        BY <1>4, <3>1
      <4> HIDE DEF ren, next
      <4> QED BY <1>2, <4>1
    <3>2. CASE ~gives(i)
      <4>1. ren[i].id = list[i].id
        BY <1>4, <3>2
      <4> HIDE DEF ren
      <4> QED BY <1>11, <3>2, <4>1
    <3> QED BY <3>1, <3>2
  <2>2. device.id \notin Ids(ren)
    <3>1. DOMAIN ren = 1 .. n
      BY <1>1, <1>5
    <3> HIDE DEF ren
    <3> QED BY <2>1, <3>1 DEF Ids
  <2> HIDE DEF ren
  <2> QED
    BY <1>11, <2>2
<1>12. \A i \in 1 .. n : Alike(new[i], list[i]) /\ (list[i].parent = None => new[i].id = list[i].id)
  <2> HIDE DEF ren, last, new, next
  <2> QED BY <1>4, <1>9
<1> HIDE DEF ren, last, new
<1> QED
  BY <1>1, <1>7, <1>8, <1>9, <1>10, <1>11, <1>12 DEF new

\* What add returns is a list of devices each under an id of its own, and the physical
\* devices keep theirs.
LEMMA AddIs ==
    ASSUME NEW list \in Seq(Entry), IdsApart(list), NEW device \in Entry
    PROVE  LET new == Add(list, device)
           IN  /\ new \in Seq(Entry) /\ IdsApart(new) /\ DOMAIN list \subseteq DOMAIN new
               /\ \A i \in DOMAIN list : list[i].parent = None => new[i].id = list[i].id
<1>1. CASE IsIn(list, device)
  <2>1. PICK k \in DOMAIN list :
          /\ Add(list, device) = [list EXCEPT ![k] = Fill(list[k], device)]
          /\ Add(list, device) \in Seq(Entry) /\ Len(Add(list, device)) = Len(list)
    BY <1>1, AddKnown
  <2>2. Fill(list[k], device).id = list[k].id
    <3>1. list[k] \in Entry
      OBVIOUS
    <3> QED BY <3>1 DEF Fill, Entry
  <2>3. \A i \in DOMAIN list : Add(list, device)[i].id = list[i].id
    BY <2>1, <2>2
  <2>4. DOMAIN Add(list, device) = DOMAIN list
    BY <2>1
  <2>5. IdsApart(Add(list, device))
    BY <2>3, <2>4 DEF IdsApart
  <2> QED
    BY <2>1, <2>3, <2>4, <2>5
<1>2. CASE ~IsIn(list, device)
  BY <1>2, AddNew
<1> QED
  BY <1>1, <1>2

-----------------------------------------------------------------------------
(* The evidence.                                                           *)

\* The rows of the decoders that number GPUs, and those of the others.
OrdinalRow ==
    [backend : {"nvml"}, device : Gpu \cup Mig] \cup [backend : {"smi"}, device : Gpu]
      \cup [backend : {"list"}, device : Gpu \cup Mig]
Unpartitioned == Gpu \ {ParentOf[m] : m \in Mig}
RuntimeRow ==
    [backend : {"cuda"}, device : Mig \cup Unpartitioned] \cup [backend : {"hip"}, device : Amd]
      \cup [backend : {"drm"}, device : Physical]

Numbering == Rows("nvml", Gpus) \o Rows("nvml", Migs) \o Rows("smi", Gpus) \o Rows("list", Listing)

\* The rows of a backend.
LEMMA RowsAre ==
    ASSUME NEW S, NEW s \in Seq(S), NEW b, NEW T, [backend : {b}, device : S] \subseteq T
    PROVE  Rows(b, s) \in Seq(T)
  BY DEF Rows

\* Rows one after the other.
LEMMA Joined ==
    ASSUME NEW S, NEW s \in Seq(S), NEW T, NEW t \in Seq(T)
    PROVE  /\ s \o t \in Seq(S \cup T) /\ Len(s \o t) = Len(s) + Len(t) /\ Len(s) \in Nat /\ Len(t) \in Nat
           /\ \A i \in 1 .. Len(s \o t) : (s \o t)[i] = IF i <= Len(s) THEN s[i] ELSE t[i - Len(s)]
<1>1. s \in Seq(S \cup T) /\ t \in Seq(S \cup T)
  OBVIOUS
<1> QED
  BY <1>1

\* Rows of one kind after another are of that kind, and begin with the first ones.
LEMMA JoinedAlike ==
    ASSUME NEW S, NEW s \in Seq(S), NEW t \in Seq(S)
    PROVE  s \o t \in Seq(S) /\ Len(s) <= Len(s \o t) /\ \A k \in 1 .. Len(s) : (s \o t)[k] = s[k]
<1>1. Len(s) \in Nat /\ Len(t) \in Nat /\ Len(s \o t) = Len(s) + Len(t)
  BY Joined
<1>2. \A i \in 1 .. Len(s \o t) : (s \o t)[i] = IF i <= Len(s) THEN s[i] ELSE t[i - Len(s)]
  BY Joined
<1>3. s \o t \in Seq(S)
  OBVIOUS
<1> QED
  BY <1>1, <1>2, <1>3

\* The rows after those of another kind keep to their kind.
LEMMA JoinedTo ==
    ASSUME NEW S, NEW T, NEW n \in Nat, NEW s \in Seq(S \cup T), n <= Len(s),
           \A k \in 1 .. Len(s) : s[k] \in IF k <= n THEN S ELSE T, NEW t \in Seq(T)
    PROVE  /\ s \o t \in Seq(S \cup T) /\ n <= Len(s \o t)
           /\ \A k \in 1 .. Len(s \o t) : (s \o t)[k] \in IF k <= n THEN S ELSE T
           /\ \A k \in 1 .. n : (s \o t)[k] = s[k]
<1>1. /\ Len(s) \in Nat /\ Len(t) \in Nat /\ Len(s \o t) = Len(s) + Len(t)
      /\ \A i \in 1 .. Len(s \o t) : (s \o t)[i] = IF i <= Len(s) THEN s[i] ELSE t[i - Len(s)]
  BY Joined
<1>2. s \o t \in Seq(S \cup T)
  <2>1. t \in Seq(S \cup T)
    OBVIOUS
  <2> QED BY <2>1
<1>3. ASSUME NEW k \in 1 .. Len(s \o t) PROVE (s \o t)[k] \in IF k <= n THEN S ELSE T
  <2>1. CASE k <= Len(s)
    <3>1. k \in 1 .. Len(s) /\ (s \o t)[k] = s[k]
      BY <1>1, <2>1
    <3> QED BY <3>1
  <2>2. CASE ~(k <= Len(s))
    <3>1. k - Len(s) \in 1 .. Len(t) /\ (s \o t)[k] = t[k - Len(s)] /\ ~(k <= n)
      BY <1>1, <2>2
    <3>2. t[k - Len(s)] \in T
      BY <3>1
    <3> QED BY <3>1, <3>2
  <2> QED BY <2>1, <2>2
<1>4. ASSUME NEW k \in 1 .. n PROVE (s \o t)[k] = s[k]
  BY <1>1
<1>5. n <= Len(s \o t)
  BY <1>1
<1> QED
  BY <1>2, <1>3, <1>4, <1>5

\* GPUs come first in the order of NVML, and the decoders that number them before the others.
LEMMA EvidenceIs ==
    /\ Len(Numbering) \in Nat /\ Len(Gpus) \in Nat
    /\ Evidence \in Seq(OrdinalRow \cup RuntimeRow)
    /\ \A k \in 1 .. Len(Evidence) : Evidence[k] \in IF k <= Len(Numbering) THEN OrdinalRow ELSE RuntimeRow
    /\ \A k \in 1 .. Len(Gpus) : /\ k <= Len(Evidence) /\ k <= Len(Numbering)
                                 /\ Evidence[k] = [backend |-> "nvml", device |-> Gpus[k]]
<1>1. Gpus \in Seq(Gpu) /\ Migs \in Seq(Mig) /\ Amds \in Seq(Amd)
  BY InventoryAssumption DEF Gpu, Mig, Amd
<1>2. Listing \in Seq(Gpu \cup Mig)
  <2>1. Listing \in Seq(Elements(Listing)) /\ Elements(Listing) \subseteq Gpu \cup Mig
    BY InventoryAssumption
  <2> QED BY <2>1
<1>3. Computing \in Seq(Mig \cup Unpartitioned)
  <2>1. Computing \in Seq(Elements(Computing)) /\ Elements(Computing) \subseteq Mig \cup Unpartitioned
    BY InventoryAssumption DEF Unpartitioned
  <2> QED BY <2>1
<1>4. Gpus \o Amds \in Seq(Physical)
  <2>1. Gpus \o Amds \in Seq(Gpu \cup Amd)
    BY <1>1, Joined
  <2> QED BY <2>1 DEF Physical, Amd
<1>5. Rows("nvml", Gpus) \in Seq(OrdinalRow)
  BY <1>1, RowsAre DEF OrdinalRow
<1>6. Rows("nvml", Migs) \in Seq(OrdinalRow)
  BY <1>1, RowsAre DEF OrdinalRow
<1>7. Rows("smi", Gpus) \in Seq(OrdinalRow)
  BY <1>1, RowsAre DEF OrdinalRow
<1>8. Rows("list", Listing) \in Seq(OrdinalRow)
  BY <1>2, RowsAre DEF OrdinalRow
<1>9. Rows("cuda", Computing) \in Seq(RuntimeRow)
  BY <1>3, RowsAre DEF RuntimeRow
<1>10. Rows("hip", Amds) \in Seq(RuntimeRow)
  BY <1>1, RowsAre DEF RuntimeRow
<1>11. Rows("drm", Gpus \o Amds) \in Seq(RuntimeRow)
  BY <1>4, RowsAre DEF RuntimeRow
<1> DEFINE a == Rows("nvml", Gpus)
           b == Rows("nvml", Migs)
           c == Rows("smi", Gpus)
           d == Rows("list", Listing)
           e == Rows("cuda", Computing)
           f == Rows("hip", Amds)
           g == Rows("drm", Gpus \o Amds)
<1>12. Numbering = a \o b \o c \o d /\ Evidence = a \o b \o c \o d \o e \o f \o g
  BY DEF Evidence, Numbering
<1>13. Len(a) = Len(Gpus) /\ Len(Gpus) \in Nat
  BY <1>1 DEF Rows
<1>14. \A k \in 1 .. Len(Gpus) : a[k] = [backend |-> "nvml", device |-> Gpus[k]]
  <2>1. DOMAIN Gpus = 1 .. Len(Gpus)
    BY <1>1
  <2> QED BY <2>1 DEF Rows
<1> DEFINE R == OrdinalRow
           T == RuntimeRow
<1>15. /\ a \in Seq(R) /\ b \in Seq(R) /\ c \in Seq(R) /\ d \in Seq(R)
       /\ e \in Seq(T) /\ f \in Seq(T) /\ g \in Seq(T)
  BY <1>5, <1>6, <1>7, <1>8, <1>9, <1>10, <1>11
<1> HIDE DEF a, b, c, d, e, f, g, R, T
<1> DEFINE first == a \o b \o c \o d
           n == Len(first)
           s1 == first \o e
           s2 == s1 \o f
           s3 == s2 \o g
<1>16. a \o b \in Seq(R) /\ Len(a) <= Len(a \o b) /\ \A k \in 1 .. Len(a) : (a \o b)[k] = a[k]
  BY <1>15, JoinedAlike
<1>17. /\ a \o b \o c \in Seq(R) /\ Len(a \o b) <= Len(a \o b \o c)
       /\ \A k \in 1 .. Len(a \o b) : (a \o b \o c)[k] = (a \o b)[k]
  BY <1>15, <1>16, JoinedAlike
<1>18. /\ first \in Seq(R) /\ Len(a \o b \o c) <= n
       /\ \A k \in 1 .. Len(a \o b \o c) : first[k] = (a \o b \o c)[k]
  BY <1>15, <1>17, JoinedAlike
<1>19. Len(a) \in Nat /\ Len(a \o b) \in Nat /\ Len(a \o b \o c) \in Nat /\ n \in Nat
  BY <1>16, <1>17, <1>18
<1>20. Len(a) <= n /\ \A k \in 1 .. Len(a) : first[k] = a[k]
  BY <1>16, <1>17, <1>18, <1>19
<1> HIDE DEF first
<1>21. first \in Seq(R \cup T) /\ \A k \in 1 .. Len(first) : first[k] \in IF k <= n THEN R ELSE T
  BY <1>18, <1>19
<1>22. /\ s1 \in Seq(R \cup T) /\ n <= Len(s1)
       /\ \A k \in 1 .. Len(s1) : s1[k] \in IF k <= n THEN R ELSE T
       /\ \A k \in 1 .. n : s1[k] = first[k]
  BY <1>19, <1>21, <1>15, JoinedTo
<1> HIDE DEF n, s1
<1>23. /\ s2 \in Seq(R \cup T) /\ n <= Len(s2)
       /\ \A k \in 1 .. Len(s2) : s2[k] \in IF k <= n THEN R ELSE T
       /\ \A k \in 1 .. n : s2[k] = s1[k]
  BY <1>19, <1>22, <1>15, JoinedTo
<1> HIDE DEF s2
<1>24. /\ s3 \in Seq(R \cup T) /\ n <= Len(s3)
       /\ \A k \in 1 .. Len(s3) : s3[k] \in IF k <= n THEN R ELSE T
       /\ \A k \in 1 .. n : s3[k] = s2[k]
  BY <1>19, <1>23, <1>15, JoinedTo
<1> HIDE DEF s3
<1>25. Len(s3) \in Nat
  BY <1>24
<1>26. \A k \in 1 .. Len(a) : k <= n /\ k <= Len(s3) /\ s3[k] = a[k]
  BY <1>19, <1>20, <1>22, <1>23, <1>24, <1>25
<1>27. n = Len(Numbering) /\ s3 = Evidence
  BY <1>12 DEF n, s1, s2, s3, first
<1> QED
  BY <1>13, <1>14, <1>19, <1>24, <1>26, <1>27 DEF R, T

\* GPUs are numbered from 0, each with its own number.
LEMMA OrdinalIs ==
    /\ \A g \in Gpu : Ordinal(g) \in Nat
    /\ \A g, h \in Gpu : Ordinal(g) = Ordinal(h) => g = h
<1> DEFINE at(g) == CHOOSE i \in DOMAIN Gpus : Gpus[i] = g
<1>1. \A g \in Gpu : at(g) \in DOMAIN Gpus /\ Gpus[at(g)] = g
  BY DEF Gpu, Elements
<1>2. DOMAIN Gpus = 1 .. Len(Gpus) /\ Len(Gpus) \in Nat
  BY InventoryAssumption DEF Gpu
<1>3. \A g \in Gpu : at(g) \in Nat \ {0}
  <2> HIDE DEF at
  <2> QED BY <1>1, <1>2
<1>4. \A g : Ordinal(g) = at(g) - 1
  BY DEF Ordinal
<1> HIDE DEF at
<1> QED
  BY <1>1, <1>3, <1>4

\* A field is what it is, or missing.
LEMMA MaybeIs == ASSUME NEW b, NEW f, NEW value, NEW x \in Maybe(b, f, value) PROVE x \in {value, None}
  BY DEF Maybe

\* What a decoder makes of a row is an entry.
LEMMA DeviceIs ==
    ASSUME NEW id \in Nat, NEW v \in {"NVIDIA", "AMD"}, NEW uuid \in Uuid, NEW of \in Uuid,
           NEW instance \in Optional({InstanceOf[m] : m \in Mig}), NEW pci \in Uuid
    PROVE  Device(id, v, uuid, of, instance, pci) \in Entry
  BY DEF Device, Entry

\* All rows so far are of the decoders that number GPUs.
Early == step <= Len(Numbering) + 1

TypeInv ==
    /\ devices \in Seq(Entry) /\ IdsApart(devices)
    /\ step \in Nat \ {0}
    /\ stable \subseteq Gpu /\ numbered \subseteq Gpu
    /\ parent \in Optional(Gpu)

\* What the fields of an entry are.
LEMMA EntryOf ==
    ASSUME NEW list \in Seq(Entry), NEW i \in DOMAIN list
    PROVE  /\ list[i] \in Entry /\ list[i].id \in Nat /\ list[i].vendor \in {"NVIDIA", "AMD"}
           /\ list[i].uuid \in Uuid /\ list[i].parent \in Uuid /\ list[i].pci \in Uuid
           /\ list[i].instance \in Optional({InstanceOf[m] : m \in Mig})
<1>1. list[i] \in Entry
  OBVIOUS
<1> QED
  BY <1>1 DEF Entry

-----------------------------------------------------------------------------
(* What each step does.                                                    *)

\* A row of a numbering decoder is about a GPU or an instance and comes early; one of the
\* others comes later and is about a device it can see.
LEMMA RowIs ==
    ASSUME TypeInv, NEW b, Row(b)
    PROVE  /\ step \in 1 .. Len(Evidence) /\ step' \in Nat \ {0} /\ Len(Numbering) \in Nat
           /\ b \in {"nvml", "smi", "list"} => Early /\ Early' /\ Subject \in Gpu \cup Mig
           /\ b = "smi" => Subject \in Gpu
           /\ b \in {"cuda", "hip", "drm"} => ~Early' /\ Subject \in Physical \cup Mig
           /\ b = "cuda" => Subject \in Mig \cup Unpartitioned
           /\ b = "hip" => Subject \in Amd
           /\ b = "drm" => Subject \in Physical
<1>1. Evidence \in Seq(OrdinalRow \cup RuntimeRow) /\ Len(Numbering) \in Nat
  BY EvidenceIs
<1>2. Len(Evidence) \in Nat
  <2> HIDE DEF Evidence
  <2> QED BY <1>1
<1>3. step \in 1 .. Len(Evidence) /\ step' = step + 1 /\ Evidence[step].backend = b
  BY <1>2 DEF TypeInv, Row
<1>4. Evidence[step] \in IF step <= Len(Numbering) THEN OrdinalRow ELSE RuntimeRow
  BY <1>3, EvidenceIs
<1> HIDE DEF Evidence, Numbering
<1>5. CASE step <= Len(Numbering)
  <2>1. Evidence[step] \in OrdinalRow
    BY <1>4, <1>5
  <2>2. Early /\ Early'
    BY <1>1, <1>3, <1>5 DEF Early, Numbering, Rows
  <2> QED
    BY <1>1, <1>3, <2>1, <2>2 DEF OrdinalRow, Subject
<1>6. CASE ~(step <= Len(Numbering))
  <2>1. Evidence[step] \in RuntimeRow
    BY <1>4, <1>6
  <2>2. ~Early'
    BY <1>1, <1>3, <1>6 DEF Early, Numbering, Rows
  <2> QED
    BY <1>1, <1>3, <2>1, <2>2 DEF RuntimeRow, Subject, Unpartitioned, Physical, Amd
<1> QED
  BY <1>5, <1>6

\* NVML and nvidia-smi report a GPU by its ordinal, NVML with all its fields if none is missing.
LEMMA GpuRow ==
    ASSUME TypeInv, NvmlGpu \/ NvidiaSmi
    PROVE  /\ Subject \in Gpu /\ Early /\ Early' /\ step \in 1 .. Len(Evidence) /\ step' = step + 1
           /\ numbered' = numbered \cup {Subject} /\ gaps' = gaps /\ parent' = parent /\ stable' \subseteq Gpu
           /\ \E uuid \in {None, Subject}, pci \in {None, Subject} :
                /\ Device(Ordinal(Subject), "NVIDIA", uuid, None, None, pci) \in Entry
                /\ devices' = Add(devices, Device(Ordinal(Subject), "NVIDIA", uuid, None, None, pci))
                /\ NvmlGpu /\ <<"nvml", "uuid">> \notin gaps.fields => uuid = Subject
                /\ <<"nvml", "pci">> \notin gaps.fields /\ <<"smi", "pci">> \notin gaps.fields => pci = Subject
                /\ NvmlGpu /\ <<"nvml", "pci">> \notin gaps.fields => pci = Subject
<1>1. \E b \in {"nvml", "smi"} :
        /\ Row(b) /\ Subject \in Gpu
        /\ NvmlGpu => b = "nvml"
        /\ \E uuid \in Maybe(b, "uuid", Subject), pci \in Maybe(b, "pci", Subject) :
             devices' = Add(devices, Device(Ordinal(Subject), "NVIDIA", uuid, None, None, pci))
  <2>1. CASE NvmlGpu
    BY <2>1 DEF NvmlGpu
  <2>2. CASE NvidiaSmi /\ ~NvmlGpu
    <3>1. Row("smi")
      BY <2>2 DEF NvidiaSmi
    <3>2. Subject \in Gpu
      BY <3>1, RowIs
    <3> QED BY <2>2, <3>1, <3>2 DEF NvidiaSmi
  <2> QED BY <2>1, <2>2
<1>2. PICK b \in {"nvml", "smi"} :
        /\ Row(b) /\ Subject \in Gpu
        /\ NvmlGpu => b = "nvml"
        /\ \E uuid \in Maybe(b, "uuid", Subject), pci \in Maybe(b, "pci", Subject) :
             devices' = Add(devices, Device(Ordinal(Subject), "NVIDIA", uuid, None, None, pci))
  BY <1>1
<1>3. PICK uuid \in Maybe(b, "uuid", Subject), pci \in Maybe(b, "pci", Subject) :
        devices' = Add(devices, Device(Ordinal(Subject), "NVIDIA", uuid, None, None, pci))
  BY <1>2
<1>4. /\ uuid \in {None, Subject} /\ pci \in {None, Subject}
      /\ <<b, "uuid">> \notin gaps.fields => uuid = Subject
      /\ <<b, "pci">> \notin gaps.fields => pci = Subject
  BY DEF Maybe
<1>5. Early /\ Early' /\ step \in 1 .. Len(Evidence) /\ step' = step + 1
  BY <1>2, RowIs DEF Row
<1>6. Device(Ordinal(Subject), "NVIDIA", uuid, None, None, pci) \in Entry
  BY <1>2, <1>4, OrdinalIs, DeviceIs DEF Uuid, Optional, Physical
<1>7. numbered' = numbered \cup {Subject} /\ gaps' = gaps /\ parent' = parent
  BY DEF NvmlGpu, NvidiaSmi
<1>8. stable' \subseteq Gpu
  <2>1. stable' \in {stable, stable \cup {Subject}}
    BY DEF NvmlGpu, NvidiaSmi
  <2> QED BY <1>2, <2>1 DEF TypeInv
<1> QED
  BY <1>2, <1>3, <1>4, <1>5, <1>6, <1>7, <1>8

\* The last of several places of a list is there.
LEMMA LastIs == ASSUME NEW list \in Seq(Entry), NEW S, S \subseteq DOMAIN list, S # {} PROVE Last(S) \in S
<1> DEFINE n == Len(list)
           T == {n - i : i \in S}
<1>1. n \in Nat /\ \A i \in S : i \in Nat /\ i <= n
  BY SMT
<1>2. PICK m \in T : \A j \in T : m <= j
  <2>1. T \subseteq Nat /\ T # {}
    BY <1>1
  <2> HIDE DEF T
  <2> QED BY <2>1, LeastOf
<1>3. PICK i \in S : m = n - i
  BY <1>2
<1>4. \A j \in S : j <= i
  <2> SUFFICES ASSUME NEW j \in S PROVE j <= i
    OBVIOUS
  <2>1. n - i <= n - j
    BY <1>2, <1>3
  <2> HIDE DEF n
  <2> QED BY <1>1, <2>1
<1> QED
  BY <1>3, <1>4 DEF Last

\* NVML reports an instance under its GPU.
LEMMA NvmlMigIs ==
    ASSUME TypeInv, NvmlMig
    PROVE  /\ Subject \in Mig /\ Early /\ Early' /\ step' \in Nat \ {0} /\ step' = step + 1 /\ ParentOf[Subject] \in stable
           /\ UNCHANGED <<gaps, stable, parent, numbered>>
           /\ \E id \in Nat, uuid \in {None, Subject}, pci \in {None, ParentOf[Subject]}, i \in {None, InstanceOf[Subject]} :
                /\ Device(id, "NVIDIA", uuid, ParentOf[Subject], i, pci) \in Entry
                /\ devices' = Add(devices, Device(id, "NVIDIA", uuid, ParentOf[Subject], i, pci))
                /\ <<"nvml", "mig uuid">> \notin gaps.fields => uuid = Subject
                /\ <<"nvml", "instance">> \notin gaps.fields => i = InstanceOf[Subject]
<1>1. Subject \in Mig /\ Early /\ Early' /\ step' \in Nat \ {0} /\ step' = step + 1
  BY RowIs DEF NvmlMig, Row
<1>2. Place(Subject) = ParentOf[Subject] /\ ParentOf[Subject] \in Gpu /\ Ordinal(ParentOf[Subject]) \in Nat
  BY <1>1, InventoryAssumption, OrdinalIs DEF Place
<1>3. PICK uuid \in Maybe("nvml", "mig uuid", Subject), pci \in Maybe("nvml", "pci", ParentOf[Subject]),
           i \in Maybe("nvml", "instance", InstanceOf[Subject]) :
        devices' = Add(devices, Device(Ordinal(ParentOf[Subject]), "NVIDIA", uuid, ParentOf[Subject], i, pci))
  BY <1>2 DEF NvmlMig
<1>4. /\ uuid \in {None, Subject} /\ pci \in {None, ParentOf[Subject]} /\ i \in {None, InstanceOf[Subject]}
      /\ <<"nvml", "mig uuid">> \notin gaps.fields => uuid = Subject
      /\ <<"nvml", "instance">> \notin gaps.fields => i = InstanceOf[Subject]
  BY DEF Maybe
<1>5. Device(Ordinal(ParentOf[Subject]), "NVIDIA", uuid, ParentOf[Subject], i, pci) \in Entry
  <2>1. /\ uuid \in Uuid /\ ParentOf[Subject] \in Uuid /\ pci \in Uuid
        /\ i \in Optional({InstanceOf[m] : m \in Mig})
    BY <1>1, <1>2, <1>4 DEF Uuid, Optional, Physical
  <2> QED BY <1>2, <2>1, DeviceIs
<1>6. ParentOf[Subject] \in stable /\ UNCHANGED <<gaps, stable, parent, numbered>>
  BY DEF NvmlMig
<1> QED
  BY <1>1, <1>2, <1>3, <1>4, <1>5, <1>6

\* The MIG list reports an instance under the GPU of the line, at its address if it is known.
LEMMA ListMigIs ==
    ASSUME TypeInv, ListMig
    PROVE  /\ Subject \in Mig /\ Early /\ Early' /\ step' \in Nat \ {0} /\ step' = step + 1
           /\ UNCHANGED <<gaps, stable, parent, numbered>>
           /\ \E pci \in Uuid :
                /\ pci = None \/ \E i \in DOMAIN devices : devices[i].uuid = ParentOf[Subject] /\ pci = devices[i].pci
                /\ Device(0, "NVIDIA", Subject, ParentOf[Subject], None, pci) \in Entry
                /\ devices' = Add(devices, Device(0, "NVIDIA", Subject, ParentOf[Subject], None, pci))
<1>1. Subject \in Mig /\ Early /\ Early' /\ step' \in Nat \ {0} /\ step' = step + 1
  BY RowIs DEF ListMig, Row
<1> DEFINE gpu == {i \in DOMAIN devices : devices[i].uuid = ParentOf[Subject]}
           pci == IF gpu = {} THEN None ELSE devices[Last(gpu)].pci
<1>2. devices' = Add(devices, Device(0, "NVIDIA", Subject, ParentOf[Subject], None, pci))
  BY DEF ListMig
<1>3. pci = None \/ \E i \in DOMAIN devices : devices[i].uuid = ParentOf[Subject] /\ pci = devices[i].pci
  <2>1. CASE gpu # {}
    <3>1. Last(gpu) \in gpu
      BY <2>1, LastIs DEF TypeInv
    <3> QED BY <2>1, <3>1
  <2> QED BY <2>1
<1> HIDE DEF gpu, pci
<1>4. pci \in Uuid
  <2>1. \A i \in DOMAIN devices : devices[i].pci \in Uuid
    BY EntryOf DEF TypeInv
  <2> QED BY <1>3, <2>1 DEF Uuid, Optional
<1>5. Device(0, "NVIDIA", Subject, ParentOf[Subject], None, pci) \in Entry
  <2>1. Subject \in Uuid /\ ParentOf[Subject] \in Uuid /\ None \in Optional({InstanceOf[m] : m \in Mig})
    BY <1>1, InventoryAssumption DEF Uuid, Optional, Physical
  <2> QED BY <1>4, <2>1, DeviceIs
<1>6. UNCHANGED <<gaps, stable, parent, numbered>>
  BY DEF ListMig
<1> QED
  BY <1>1, <1>2, <1>3, <1>4, <1>5, <1>6

\* CUDA adds a device no entry has the UUID of, under the physical device at its address.
LEMMA CudaIs ==
    ASSUME TypeInv, Cuda
    PROVE  /\ Subject \in Mig \cup Unpartitioned /\ ~Early' /\ step' \in Nat \ {0} /\ step' = step + 1
           /\ UNCHANGED <<gaps, stable, parent, numbered>>
           /\ \/ devices' = devices /\ \E i \in DOMAIN devices : devices[i].uuid = Subject
              \/ /\ \A i \in DOMAIN devices : devices[i].uuid # Subject
                 /\ \E of \in Uuid :
                      /\ IF HostsOf(devices, Subject) = {} THEN of = None
                         ELSE \E i \in HostsOf(devices, Subject) : of = devices[i].uuid
                      /\ Device(NextId(devices), "NVIDIA", Subject, of, None, Place(Subject)) \in Entry
                      /\ devices' = Add(devices, Device(NextId(devices), "NVIDIA", Subject, of, None, Place(Subject)))
<1>1. Subject \in Mig \cup Unpartitioned /\ ~Early' /\ step' \in Nat \ {0} /\ step' = step + 1
  BY RowIs DEF Cuda, Row
<1> DEFINE at == HostsOf(devices, Subject)
           of == IF at = {} THEN None ELSE devices[Last(at)].uuid
<1>2. IF at = {} THEN of = None ELSE \E i \in at : of = devices[i].uuid
  <2>1. CASE at # {}
    <3>1. Last(at) \in at
      <4>1. at \subseteq DOMAIN devices
        BY DEF HostsOf
      <4> HIDE DEF at
      <4> QED BY <2>1, <4>1, LastIs DEF TypeInv
    <3> QED BY <2>1, <3>1
  <2> QED BY <2>1
<1>3. devices' = IF \E i \in DOMAIN devices : devices[i].uuid = Subject THEN devices
                 ELSE Add(devices, Device(NextId(devices), "NVIDIA", Subject, of, None, Place(Subject)))
  BY DEF Cuda
<1>4. at \subseteq DOMAIN devices
  BY DEF HostsOf
<1> HIDE DEF at, of
<1>5. of \in Uuid
  <2>1. \A i \in DOMAIN devices : devices[i].uuid \in Uuid
    BY EntryOf DEF TypeInv
  <2> QED BY <1>2, <1>4, <2>1 DEF Uuid, Optional
<1>6. Device(NextId(devices), "NVIDIA", Subject, of, None, Place(Subject)) \in Entry
  <2>1. NextId(devices) \in Nat
    BY NextIdIs DEF TypeInv
  <2>2. Subject \in Uuid /\ Place(Subject) \in Uuid /\ None \in Optional({InstanceOf[m] : m \in Mig})
    BY <1>1, InventoryAssumption DEF Uuid, Optional, Physical, Place, Unpartitioned
  <2> QED BY <1>5, <2>1, <2>2, DeviceIs
<1>7. UNCHANGED <<gaps, stable, parent, numbered>>
  BY DEF Cuda
<1> QED
  BY <1>1, <1>2, <1>3, <1>5, <1>6, <1>7 DEF at

\* HIP and DRM know a physical device by its address.
LEMMA AddressIs ==
    ASSUME TypeInv, Hip \/ Drm
    PROVE  /\ Subject \in Physical /\ ~Early' /\ step' \in Nat \ {0} /\ step' = step + 1
           /\ UNCHANGED <<gaps, stable, parent, numbered>>
           /\ \E uuid \in {None, Subject} :
                /\ Subject \in Gpu => uuid = None
                /\ Device(NextId(devices), Vendor(Subject), uuid, None, None, Subject) \in Entry
                /\ devices' = Add(devices, Device(NextId(devices), Vendor(Subject), uuid, None, None, Subject))
<1>1. Subject \in Physical /\ ~Early' /\ step' \in Nat \ {0} /\ step' = step + 1
  BY RowIs DEF Hip, Drm, Row, Physical, Amd
<1>2. Hip => Subject \in Amd
  BY RowIs DEF Hip
<1>3. NextId(devices) \in Nat
  BY NextIdIs DEF TypeInv
<1>4. PICK uuid \in {None, Subject} :
        /\ Subject \in Gpu => uuid = None
        /\ devices' = Add(devices, Device(NextId(devices), Vendor(Subject), uuid, None, None, Subject))
  <2>1. CASE Hip
    <3>1. Vendor(Subject) = "AMD"
      BY <1>2, <2>1, InventoryAssumption DEF Vendor, Amd
    <3> QED BY <2>1, <3>1 DEF Hip
  <2>2. CASE Drm
    BY <2>2 DEF Drm
  <2> QED BY <2>1, <2>2
<1>5. Device(NextId(devices), Vendor(Subject), uuid, None, None, Subject) \in Entry
  <2>1. /\ Subject \in Uuid /\ uuid \in Uuid /\ None \in Uuid /\ None \in Optional({InstanceOf[m] : m \in Mig})
        /\ Vendor(Subject) \in {"NVIDIA", "AMD"}
    BY <1>1 DEF Uuid, Optional, Vendor
  <2> QED BY <1>3, <2>1, DeviceIs
<1>6. UNCHANGED <<gaps, stable, parent, numbered>>
  BY DEF Hip, Drm
<1> QED
  BY <1>1, <1>4, <1>5, <1>6

-----------------------------------------------------------------------------
(* The ids.                                                                *)

\* A line of a GPU in the MIG list writes its UUID over that of the device with its ordinal.
LEMMA ListGpuIs ==
    ASSUME TypeInv, ListGpu
    PROVE  /\ Subject \in Gpu /\ Early /\ Early' /\ step' \in Nat \ {0} /\ step' = step + 1 /\ parent' = Subject
           /\ UNCHANGED <<gaps, stable, numbered>>
           /\ devices' \in Seq(Entry) /\ DOMAIN devices' = DOMAIN devices
           /\ \A i \in DOMAIN devices :
                devices'[i] = IF devices[i].parent = None /\ devices[i].vendor = "NVIDIA" /\ devices[i].id = Ordinal(Subject)
                              THEN [devices[i] EXCEPT !.uuid = Subject] ELSE devices[i]
           /\ \A i \in DOMAIN devices :
                /\ devices'[i].id = devices[i].id /\ devices'[i].vendor = devices[i].vendor
                /\ devices'[i].parent = devices[i].parent /\ devices'[i].instance = devices[i].instance
                /\ devices'[i].pci = devices[i].pci
                /\ devices'[i].uuid = IF devices[i].parent = None /\ devices[i].vendor = "NVIDIA" /\ devices[i].id = Ordinal(Subject)
                                      THEN Subject ELSE devices[i].uuid
<1>1. Subject \in Gpu /\ Early /\ Early' /\ step' \in Nat \ {0} /\ step' = step + 1
  BY RowIs DEF ListGpu, Row
<1>2. parent' = Subject /\ UNCHANGED <<gaps, stable, numbered>>
  BY DEF ListGpu
<1> DEFINE written(i) ==
      IF devices[i].parent = None /\ devices[i].vendor = "NVIDIA" /\ devices[i].id = Ordinal(Subject)
      THEN [devices[i] EXCEPT !.uuid = Subject] ELSE devices[i]
<1>3. devices' = [i \in DOMAIN devices |-> written(i)]
  BY DEF ListGpu
<1>4. \A i \in DOMAIN devices : devices'[i] = written(i)
  <2> HIDE DEF written
  <2> QED BY <1>3
<1>5. ASSUME NEW i \in DOMAIN devices
      PROVE  /\ written(i) \in Entry
             /\ written(i).id = devices[i].id /\ written(i).vendor = devices[i].vendor
             /\ written(i).parent = devices[i].parent /\ written(i).instance = devices[i].instance
             /\ written(i).pci = devices[i].pci
             /\ written(i).uuid = IF devices[i].parent = None /\ devices[i].vendor = "NVIDIA" /\ devices[i].id = Ordinal(Subject)
                                  THEN Subject ELSE devices[i].uuid
  <2>1. devices[i] \in Entry
    BY EntryOf DEF TypeInv
  <2>2. Subject \in Uuid
    BY <1>1 DEF Uuid, Optional, Physical
  <2> QED BY <2>1, <2>2 DEF Entry
<1>6. devices' \in Seq(Entry) /\ DOMAIN devices' = DOMAIN devices
  <2>1. DOMAIN devices = 1 .. Len(devices) /\ Len(devices) \in Nat
    BY DEF TypeInv
  <2> HIDE DEF written
  <2> QED BY <1>3, <1>5, <2>1
<1> QED
  BY <1>1, <1>2, <1>4, <1>5, <1>6

\* Physical devices have the ids they had.
KeepsIds == \A i \in DOMAIN devices : devices[i].parent = None => devices'[i].id = devices[i].id

\* A step that adds one device keeps the list in order.
LEMMA AddsOne ==
    ASSUME TypeInv, NEW d \in Entry, devices' = Add(devices, d)
    PROVE  devices' \in Seq(Entry) /\ IdsApart(devices') /\ KeepsIds
  BY AddIs DEF TypeInv, KeepsIds

\* Every step keeps the list in order: its entries have an id each, and those of physical
\* devices stay.
LEMMA TypeNext == ASSUME TypeInv, [Next]_vars PROVE TypeInv' /\ KeepsIds
<1>1. CASE Silent
  <2>1. step' \in Nat \ {0}
    BY <1>1 DEF Silent, TypeInv
  <2> QED BY <1>1, <2>1 DEF Silent, TypeInv, KeepsIds, IdsApart
<1>2. CASE NoParent
  <2>1. step' \in Nat \ {0}
    BY <1>2, RowIs DEF NoParent
  <2> QED BY <1>2, <2>1 DEF NoParent, TypeInv, KeepsIds, IdsApart
<1>3. CASE NvmlGpu \/ NvidiaSmi
  <2>1. step' \in Nat \ {0} /\ numbered' \subseteq Gpu /\ stable' \subseteq Gpu /\ parent' = parent
    BY <1>3, GpuRow DEF TypeInv
  <2>2. \E d \in Entry : devices' = Add(devices, d)
    BY <1>3, GpuRow
  <2>3. devices' \in Seq(Entry) /\ IdsApart(devices') /\ KeepsIds
    BY <2>2, AddsOne
  <2> QED BY <2>1, <2>3 DEF TypeInv, IdsApart
<1>4. CASE NvmlMig \/ ListMig
  <2>1. step' \in Nat \ {0} /\ UNCHANGED <<stable, parent, numbered>>
    BY <1>4, NvmlMigIs, ListMigIs
  <2>2. \E d \in Entry : devices' = Add(devices, d)
    BY <1>4, NvmlMigIs, ListMigIs
  <2>3. devices' \in Seq(Entry) /\ IdsApart(devices') /\ KeepsIds
    BY <2>2, AddsOne
  <2> QED BY <2>1, <2>3 DEF TypeInv, IdsApart
<1>5. CASE ListGpu
  <2>1. /\ step' \in Nat \ {0} /\ UNCHANGED <<stable, numbered>> /\ parent' \in Optional(Gpu)
        /\ devices' \in Seq(Entry) /\ DOMAIN devices' = DOMAIN devices
        /\ \A i \in DOMAIN devices : devices'[i].id = devices[i].id
    BY <1>5, ListGpuIs DEF Optional
  <2> QED BY <2>1 DEF TypeInv, IdsApart, KeepsIds
<1>6. CASE Cuda
  <2>1. step' \in Nat \ {0} /\ UNCHANGED <<stable, parent, numbered>>
    BY <1>6, CudaIs
  <2>2. devices' = devices \/ \E d \in Entry : devices' = Add(devices, d)
    BY <1>6, CudaIs
  <2>3. devices' \in Seq(Entry) /\ IdsApart(devices') /\ KeepsIds
    BY <2>2, AddsOne DEF TypeInv, KeepsIds
  <2> QED BY <2>1, <2>3 DEF TypeInv, IdsApart
<1>7. CASE Hip \/ Drm
  <2>1. step' \in Nat \ {0} /\ UNCHANGED <<stable, parent, numbered>>
    BY <1>7, AddressIs
  <2>2. \E d \in Entry : devices' = Add(devices, d)
    BY <1>7, AddressIs
  <2>3. devices' \in Seq(Entry) /\ IdsApart(devices') /\ KeepsIds
    BY <2>2, AddsOne
  <2> QED BY <2>1, <2>3 DEF TypeInv, IdsApart
<1>8. CASE Done \/ UNCHANGED vars
  BY <1>8 DEF Done, vars, TypeInv, KeepsIds, IdsApart
<1> QED
  BY <1>1, <1>2, <1>3, <1>4, <1>5, <1>6, <1>7, <1>8 DEF Next

\* The list is empty at first.
LEMMA TypeInit == Init => TypeInv
  BY DEF Init, TypeInv, IdsApart, Optional

\* Two devices of a snapshot never have the same id, whatever the decoders report.
THEOREM UniqueIdsAlways == Spec => []UniqueIds
<1>1. TypeInv => UniqueIds
  BY DEF TypeInv, IdsApart, UniqueIds
<1> QED
  BY <1>1, TypeInit, TypeNext, PTL DEF Spec

\* The id of a physical device never changes, whatever is reported after it.
THEOREM IdKeptAlways == Spec => IdKept
<1>1. KeepsIds => [\A i \in DOMAIN devices : devices[i].parent = None => devices'[i].id = devices[i].id]_vars
  BY DEF KeepsIds
<1> QED
  BY <1>1, TypeInit, TypeNext, PTL DEF Spec, IdKept

-----------------------------------------------------------------------------
(* Of what device an entry is.                                             *)

\* UUID and address are those of a GPU, as far as they are known.
Bears(d, g) == d.uuid \in {None, g} /\ d.pci \in {None, g}

\* A physical device has the fields of one device; while only the numbering decoders have
\* reported, its id is the ordinal of that GPU.
PhysicalSeen(early, d) ==
    IF d.vendor = "NVIDIA" THEN \E g \in Gpu : Bears(d, g) /\ (early => d.id = Ordinal(g))
    ELSE ~early /\ d.pci \in Amd /\ d.uuid \in {None, d.pci}

\* An instance has the UUID of one of the GPU it is under, and its address.
InstanceSeen(d) ==
    /\ d.vendor = "NVIDIA" /\ d.parent \in Gpu
    /\ d.uuid \in Optional({m \in Mig : ParentOf[m] = d.parent}) /\ d.pci \in {None, d.parent}

EntrySeen(early, d) == IF d.parent = None THEN PhysicalSeen(early, d) ELSE InstanceSeen(d)

\* What a decoder reports: a GPU under its ordinal, or under a number nobody has.
Reports(early, list, d) ==
    /\ EntrySeen(early, d)
    /\ ~early /\ d.parent = None => d.id \notin Ids(list)

-----------------------------------------------------------------------------
\* Two reports of one GPU, one of them under no number of the other, are about that GPU.
LEMMA SameGpu ==
    ASSUME NEW a \in Entry, NEW d \in Entry, a.parent = None, SameDevice(a, d),
           NEW g \in Gpu, NEW x \in Gpu, Bears(a, g), Bears(d, x), a.id = d.id => g = x
    PROVE  g = x
<1>1. d.parent = None
  BY DEF SameDevice
<1>2. CASE a.uuid # None /\ d.uuid # None
  BY <1>2 DEF SameDevice, Bears
<1>3. CASE ~(a.uuid # None /\ d.uuid # None) /\ a.pci # None /\ d.pci # None
  BY <1>3 DEF SameDevice, Bears
<1>4. CASE ~(a.uuid # None /\ d.uuid # None) /\ ~(a.pci # None /\ d.pci # None)
  BY <1>4 DEF SameDevice
<1> QED
  BY <1>2, <1>3, <1>4

\* The fields of an entry that was filled.
LEMMA FillIs ==
    ASSUME NEW a \in Entry, NEW d \in Entry
    PROVE  /\ Fill(a, d).id = a.id /\ Fill(a, d).vendor = a.vendor /\ Fill(a, d).parent = a.parent
           /\ Fill(a, d).uuid = IF a.uuid # None THEN a.uuid ELSE d.uuid
           /\ Fill(a, d).pci = IF a.pci # None THEN a.pci ELSE d.pci
           /\ Fill(a, d).instance = IF a.instance # None THEN a.instance ELSE d.instance
  BY DEF Fill, Or, Entry

\* Filling an entry with a report of the same device leaves one device in it.
LEMMA FillSeen ==
    ASSUME NEW a \in Entry, NEW d \in Entry, NEW early \in BOOLEAN, EntrySeen(early, a), EntrySeen(early, d),
           ~early /\ d.parent = None => d.id # a.id, SameDevice(a, d)
    PROVE  /\ EntrySeen(early, Fill(a, d))
           /\ \A g \in Gpu : a.parent = None /\ a.vendor = "NVIDIA" /\ Bears(a, g) /\ a.id = Ordinal(g)
                              => Bears(Fill(a, d), g)
<1> DEFINE new == Fill(a, d)
<1>1. a.vendor = d.vendor /\ a.parent = d.parent
  BY DEF SameDevice
<1>2. /\ new.id = a.id /\ new.vendor = a.vendor /\ new.parent = a.parent
      /\ new.uuid = IF a.uuid # None THEN a.uuid ELSE d.uuid
      /\ new.pci = IF a.pci # None THEN a.pci ELSE d.pci
  BY FillIs
<1> HIDE DEF new
<1>3. CASE a.parent # None
  <2>1. InstanceSeen(new)
    BY <1>1, <1>2, <1>3 DEF EntrySeen, InstanceSeen
  <2> QED BY <1>2, <1>3, <2>1 DEF EntrySeen, new
<1>4. CASE a.parent = None /\ a.vendor = "NVIDIA"
  <2>1. PICK x \in Gpu : Bears(d, x) /\ (early => d.id = Ordinal(x))
    BY <1>1, <1>4 DEF EntrySeen, PhysicalSeen
  <2>2. ASSUME NEW g \in Gpu, Bears(a, g), early => a.id = Ordinal(g)
        PROVE  Bears(new, g)
    <3>1. a.id = d.id => g = x
      BY <1>1, <1>4, <2>1, <2>2, OrdinalIs
    <3>2. g = x
      BY <1>4, <2>1, <2>2, <3>1, SameGpu
    <3> QED BY <1>2, <2>1, <2>2, <3>2 DEF Bears
  <2>3. PICK g \in Gpu : Bears(a, g) /\ (early => a.id = Ordinal(g))
    BY <1>4 DEF EntrySeen, PhysicalSeen
  <2>4. EntrySeen(early, new)
    BY <1>2, <1>4, <2>2, <2>3 DEF EntrySeen, PhysicalSeen
  <2> QED BY <2>2, <2>4 DEF new
<1>5. CASE a.parent = None /\ a.vendor # "NVIDIA"
  <2>1. ~early /\ a.pci \in Amd /\ a.uuid \in {None, a.pci} /\ d.pci \in Amd /\ d.uuid \in {None, d.pci}
    BY <1>1, <1>5 DEF EntrySeen, PhysicalSeen
  <2>2. None \notin Amd
    BY InventoryAssumption DEF Physical, Amd
  <2>3. a.pci = d.pci
    BY <1>5, <2>1, <2>2 DEF SameDevice
  <2>4. EntrySeen(early, new)
    BY <1>2, <1>5, <2>1, <2>2, <2>3 DEF EntrySeen, PhysicalSeen
  <2> QED BY <1>5, <2>4 DEF new
<1> QED
  BY <1>3, <1>4, <1>5

\* Each entry is of one device.
AllSeen(early, list) == \A i \in DOMAIN list : EntrySeen(early, list[i])

\* What becomes of a physical device of the list in a step.
Stays(old, new, i) ==
    /\ new[i].parent = old[i].parent /\ new[i].vendor = old[i].vendor /\ new[i].id = old[i].id
    /\ old[i].uuid # None => new[i].uuid = old[i].uuid
    /\ old[i].pci # None => new[i].pci = old[i].pci
    /\ \A g \in Gpu : old[i].vendor = "NVIDIA" /\ Bears(old[i], g) /\ old[i].id = Ordinal(g) => Bears(new[i], g)

\* An entry that differs in its id is of one device if the id does not matter.
LEMMA AlikeSeen ==
    ASSUME NEW a, NEW b, Alike(b, a), NEW early \in BOOLEAN, EntrySeen(early, a),
           early /\ a.parent = None => b.id = a.id
    PROVE  EntrySeen(early, b)
  BY DEF Alike, EntrySeen, PhysicalSeen, InstanceSeen, Bears

\* Two reports of a GPU by its ordinal are taken for one device.
LEMMA OrdinalMatches ==
    ASSUME NEW a \in Entry, NEW d \in Entry, EntrySeen(TRUE, a), EntrySeen(TRUE, d),
           a.parent = None, d.parent = None, a.id = d.id
    PROVE  SameDevice(a, d)
<1>1. PICK g \in Gpu : Bears(a, g) /\ a.id = Ordinal(g)
  BY DEF EntrySeen, PhysicalSeen
<1>2. PICK x \in Gpu : Bears(d, x) /\ d.id = Ordinal(x)
  BY DEF EntrySeen, PhysicalSeen
<1>3. g = x
  BY <1>1, <1>2, OrdinalIs
<1>4. a.vendor = "NVIDIA" /\ d.vendor = "NVIDIA"
  BY DEF EntrySeen, PhysicalSeen
<1> QED
  BY <1>1, <1>2, <1>3, <1>4 DEF SameDevice, Bears

\* Adding what a decoder reports keeps every entry with one device, and the physical devices.
LEMMA SeenAdd ==
    ASSUME NEW list \in Seq(Entry), IdsApart(list), NEW d \in Entry, NEW early \in BOOLEAN,
           AllSeen(early, list), Reports(early, list, d)
    PROVE  /\ AllSeen(early, Add(list, d)) /\ DOMAIN list \subseteq DOMAIN Add(list, d)
           /\ \A i \in DOMAIN list : list[i].parent = None => Stays(list, Add(list, d), i)
<1> DEFINE new == Add(list, d)
<1>1. CASE IsIn(list, d)
  <2>1. PICK k \in DOMAIN list :
          /\ SameDevice(list[k], d) /\ new = [list EXCEPT ![k] = Fill(list[k], d)]
          /\ new \in Seq(Entry) /\ Len(new) = Len(list)
    BY <1>1, AddKnown
  <2>2. DOMAIN new = DOMAIN list /\ new[k] = Fill(list[k], d) /\ \A i \in DOMAIN list : i # k => new[i] = list[i]
    BY <2>1
  <2> HIDE DEF new
  <2>3. /\ EntrySeen(early, new[k])
        /\ \A g \in Gpu :
             list[k].parent = None /\ list[k].vendor = "NVIDIA" /\ Bears(list[k], g) /\ list[k].id = Ordinal(g)
               => Bears(new[k], g)
    <3>1. list[k] \in Entry /\ list[k].id \in Ids(list)
      BY EntryOf DEF Ids
    <3>2. EntrySeen(early, list[k]) /\ EntrySeen(early, d) /\ (~early /\ d.parent = None => d.id # list[k].id)
      BY <3>1 DEF AllSeen, Reports
    <3> QED BY <2>1, <2>2, <3>1, <3>2, FillSeen
  <2>4. AllSeen(early, new)
    BY <2>2, <2>3 DEF AllSeen
  <2>5. list[k].parent = None => Stays(list, new, k)
    <3>1. list[k] \in Entry
      BY EntryOf
    <3> QED BY <2>2, <2>3, <3>1, FillIs DEF Stays
  <2>6. \A i \in DOMAIN list : i # k => Stays(list, new, i)
    BY <2>2 DEF Stays
  <2> QED BY <2>2, <2>4, <2>5, <2>6 DEF new
<1>2. CASE ~IsIn(list, d)
  <2>1. /\ new \in Seq(Entry) /\ Len(new) = Len(list) + 1
        /\ \A i \in DOMAIN list : Alike(new[i], list[i]) /\ (list[i].parent = None => new[i].id = list[i].id)
        /\ Alike(new[Len(list) + 1], d)
        /\ d.parent = None /\ (\A i \in DOMAIN list : list[i].parent = None => list[i].id # d.id)
             => new[Len(list) + 1].id = d.id
    BY <1>2, AddNew
  <2> HIDE DEF new
  <2>2. Len(list) \in Nat /\ DOMAIN list = 1 .. Len(list) /\ DOMAIN new = 1 .. Len(list) + 1
    BY <2>1
  <2>3. \A i \in DOMAIN list : EntrySeen(early, new[i])
    BY <2>1, AlikeSeen DEF AllSeen
  <2>4. early /\ d.parent = None => new[Len(list) + 1].id = d.id
    <3> SUFFICES ASSUME early, d.parent = None, NEW i \in DOMAIN list, list[i].parent = None, list[i].id = d.id
                 PROVE  FALSE
      BY <2>1
    <3>1. SameDevice(list[i], d)
      BY EntryOf, OrdinalMatches DEF AllSeen, Reports
    <3> QED BY <1>2, <3>1 DEF IsIn
  <2>5. EntrySeen(early, new[Len(list) + 1])
    BY <2>1, <2>4, AlikeSeen DEF Reports
  <2>6. AllSeen(early, new)
    <3> SUFFICES ASSUME NEW i \in DOMAIN new PROVE EntrySeen(early, new[i])
      BY DEF AllSeen
    <3> QED BY <2>2, <2>3, <2>5
  <2>7. \A i \in DOMAIN list : list[i].parent = None => Stays(list, new, i)
    BY <2>1 DEF Alike, Stays, Bears
  <2> QED BY <2>2, <2>6, <2>7 DEF new
<1> QED
  BY <1>1, <1>2

\* A GPU that is reported by its ordinal is in the list under that ordinal, with the fields
\* that were reported.
LEMMA SeenNumbered ==
    ASSUME NEW list \in Seq(Entry), IdsApart(list), NEW d \in Entry, AllSeen(TRUE, list),
           NEW x \in Gpu, d.vendor = "NVIDIA", d.parent = None, d.id = Ordinal(x), Bears(d, x)
    PROVE  \E j \in DOMAIN Add(list, d) :
             LET e == Add(list, d)[j]
             IN  /\ e.id = Ordinal(x) /\ e.vendor = "NVIDIA" /\ e.parent = None /\ Bears(e, x)
                 /\ d.uuid # None => e.uuid = x
                 /\ d.pci # None => e.pci = x
<1> DEFINE new == Add(list, d)
<1>0. EntrySeen(TRUE, d)
  BY DEF EntrySeen, PhysicalSeen
<1>1. CASE IsIn(list, d)
  <2>1. PICK k \in DOMAIN list :
          /\ SameDevice(list[k], d) /\ new = [list EXCEPT ![k] = Fill(list[k], d)]
          /\ new \in Seq(Entry) /\ Len(new) = Len(list)
    BY <1>1, AddKnown
  <2>2. k \in DOMAIN new /\ new[k] = Fill(list[k], d)
    BY <2>1
  <2> HIDE DEF new
  <2>3. list[k] \in Entry /\ list[k].parent = None /\ list[k].vendor = "NVIDIA" /\ EntrySeen(TRUE, list[k])
    BY <2>1, EntryOf DEF SameDevice, AllSeen
  <2>4. PICK g \in Gpu : Bears(list[k], g) /\ list[k].id = Ordinal(g)
    BY <2>3 DEF EntrySeen, PhysicalSeen
  <2>5. g = x
    <3>1. list[k].id = d.id => g = x
      BY <2>4, OrdinalIs
    <3> QED BY <2>1, <2>3, <2>4, <3>1, SameGpu
  <2>6. /\ new[k].id = Ordinal(x) /\ new[k].vendor = "NVIDIA" /\ new[k].parent = None /\ Bears(new[k], x)
        /\ d.uuid # None => new[k].uuid = x
        /\ d.pci # None => new[k].pci = x
    BY <2>2, <2>3, <2>4, <2>5, FillIs DEF Bears
  <2> QED BY <2>2, <2>6 DEF new
<1>2. CASE ~IsIn(list, d)
  <2>1. /\ new \in Seq(Entry) /\ Len(new) = Len(list) + 1 /\ Alike(new[Len(list) + 1], d)
        /\ (\A i \in DOMAIN list : list[i].parent = None => list[i].id # d.id) => new[Len(list) + 1].id = d.id
    BY <1>2, AddNew
  <2> HIDE DEF new
  <2>2. Len(list) + 1 \in DOMAIN new
    BY <2>1
  <2>3. new[Len(list) + 1].id = d.id
    <3> SUFFICES ASSUME NEW i \in DOMAIN list, list[i].parent = None, list[i].id = d.id PROVE FALSE
      BY <2>1
    <3>1. SameDevice(list[i], d)
      BY <1>0, EntryOf, OrdinalMatches DEF AllSeen
    <3> QED BY <1>2, <3>1 DEF IsIn
  <2> QED BY <2>1, <2>2, <2>3 DEF new, Alike, Bears
<1> QED
  BY <1>1, <1>2

\* The partitioned GPUs among the first rows of NVML are in the list with UUID and address.
ReportedTo(n, list) ==
    \A k \in DOMAIN Gpus : k < n /\ Gpus[k] \notin Unpartitioned =>
        \E i \in DOMAIN list :
            /\ list[i].parent = None /\ list[i].vendor = "NVIDIA"
            /\ list[i].uuid = Gpus[k] /\ list[i].pci = Gpus[k]

\* GPUs that are in the list under their ordinal.
NumberedIn(S, list) ==
    \A g \in S : \E i \in DOMAIN list :
        list[i].id = Ordinal(g) /\ list[i].vendor = "NVIDIA" /\ list[i].parent = None /\ Bears(list[i], g)

\* Where NVML sees the partitioned GPUs: entries and devices in step, as far as the rows go.
InStep == AllSeen(Early, devices) /\ ReportedTo(step, devices) /\ NumberedIn(numbered, devices)
Seen == PartitionsSeen => InStep

-----------------------------------------------------------------------------
\* A GPU row of NVML is the one of its number, and no other decoder comes before.
LEMMA NotFirst ==
    ASSUME TypeInv, NEW b, Row(b), b # "nvml" \/ Subject \in Mig
    PROVE  step \notin DOMAIN Gpus
<1>1. DOMAIN Gpus = 1 .. Len(Gpus)
  BY InventoryAssumption
<1>2. \A k \in DOMAIN Gpus : Evidence[k].backend = "nvml" /\ Evidence[k].device \in Gpu
  <2> SUFFICES ASSUME NEW k \in DOMAIN Gpus PROVE Evidence[k].backend = "nvml" /\ Evidence[k].device \in Gpu
    OBVIOUS
  <2>1. Evidence[k] = [backend |-> "nvml", device |-> Gpus[k]]
    BY <1>1, EvidenceIs
  <2>2. Gpus[k] \in Gpu
    BY DEF Gpu, Elements
  <2> QED BY <2>1, <2>2
<1> QED
  BY <1>2, InventoryAssumption DEF Row, Subject

\* After a row that is not of a GPU no more GPUs need to be in the list.
LEMMA ReportedNext ==
    ASSUME TypeInv, NEW list, ReportedTo(step, list), step \notin DOMAIN Gpus, step' = step + 1
    PROVE  ReportedTo(step', list)
<1>1. \A k \in DOMAIN Gpus : k \in Nat
  BY InventoryAssumption
<1>2. \A k \in DOMAIN Gpus : k < step' => k < step
  BY <1>1 DEF TypeInv
<1> QED
  BY <1>2 DEF ReportedTo

\* While the physical devices stay, the list loses none of the GPUs.
LEMMA GpusStay ==
    ASSUME NEW old, NEW new, DOMAIN old \subseteq DOMAIN new,
           \A i \in DOMAIN old : old[i].parent = None => Stays(old, new, i)
    PROVE  /\ \A n : ReportedTo(n, old) => ReportedTo(n, new)
           /\ \A S \in SUBSET Gpu : NumberedIn(S, old) => NumberedIn(S, new)
<1>1. ASSUME NEW n, ReportedTo(n, old), NEW k \in DOMAIN Gpus, k < n, Gpus[k] \notin Unpartitioned
      PROVE  \E i \in DOMAIN new :
               /\ new[i].parent = None /\ new[i].vendor = "NVIDIA"
               /\ new[i].uuid = Gpus[k] /\ new[i].pci = Gpus[k]
  <2>1. PICK i \in DOMAIN old :
          old[i].parent = None /\ old[i].vendor = "NVIDIA" /\ old[i].uuid = Gpus[k] /\ old[i].pci = Gpus[k]
    BY <1>1 DEF ReportedTo
  <2>2. Gpus[k] # None
    BY InventoryAssumption DEF Physical, Gpu, Elements
  <2>3. i \in DOMAIN new /\ Stays(old, new, i)
    BY <2>1
  <2> QED BY <2>1, <2>2, <2>3 DEF Stays
<1>2. ASSUME NEW S \in SUBSET Gpu, NumberedIn(S, old), NEW g \in S
      PROVE  \E i \in DOMAIN new :
               new[i].id = Ordinal(g) /\ new[i].vendor = "NVIDIA" /\ new[i].parent = None /\ Bears(new[i], g)
  <2>1. PICK i \in DOMAIN old :
          old[i].id = Ordinal(g) /\ old[i].vendor = "NVIDIA" /\ old[i].parent = None /\ Bears(old[i], g)
    BY <1>2 DEF NumberedIn
  <2>2. i \in DOMAIN new /\ Stays(old, new, i) /\ g \in Gpu
    BY <2>1
  <2> QED BY <2>1, <2>2 DEF Stays
<1>3. \A n : ReportedTo(n, old) => ReportedTo(n, new)
  BY <1>1 DEF ReportedTo
<1>4. \A S \in SUBSET Gpu : NumberedIn(S, old) => NumberedIn(S, new)
  BY <1>2 DEF NumberedIn
<1> QED
  BY <1>3, <1>4

\* A step that adds what a decoder reports, of a row that is not NVML's of a GPU.
LEMMA SeenAdds ==
    ASSUME TypeInv, NEW d \in Entry, devices' = Add(devices, d), step' = step + 1,
           AllSeen(Early', devices), ReportedTo(step, devices), NumberedIn(numbered, devices),
           Reports(Early', devices, d)
    PROVE  /\ AllSeen(Early', devices') /\ NumberedIn(numbered, devices')
           /\ ReportedTo(step, devices')
           /\ step \notin DOMAIN Gpus => ReportedTo(step', devices')
<1>1. Early' \in BOOLEAN
  BY DEF Early
<1>2. /\ AllSeen(Early', devices') /\ DOMAIN devices \subseteq DOMAIN devices'
      /\ \A i \in DOMAIN devices : devices[i].parent = None => Stays(devices, devices', i)
  <2> DEFINE early == Early'
  <2>1. early \in BOOLEAN /\ AllSeen(early, devices) /\ Reports(early, devices, d)
    BY <1>1
  <2> HIDE DEF early
  <2>2. /\ AllSeen(early, Add(devices, d)) /\ DOMAIN devices \subseteq DOMAIN Add(devices, d)
        /\ \A i \in DOMAIN devices : devices[i].parent = None => Stays(devices, Add(devices, d), i)
    BY <2>1, SeenAdd DEF TypeInv
  <2> QED BY <2>2 DEF early
<1>3. ReportedTo(step, devices') /\ NumberedIn(numbered, devices')
  BY <1>2, GpusStay DEF TypeInv
<1> QED
  BY <1>2, <1>3, ReportedNext

\* What is of one device remains so when ids no longer matter.
LEMMA SeenLater ==
    ASSUME NEW list, NEW e \in BOOLEAN, NEW f \in BOOLEAN, f => e, AllSeen(e, list)
    PROVE  AllSeen(f, list)
  BY DEF AllSeen, EntrySeen, PhysicalSeen

\* A GPU row of NVML or nvidia-smi.
LEMMA SeenGpuRow ==
    ASSUME TypeInv, PartitionsSeen, InStep, NvmlGpu \/ NvidiaSmi
    PROVE  InStep'
<1>1. /\ Subject \in Gpu /\ Early /\ Early' /\ step \in 1 .. Len(Evidence) /\ step' = step + 1
      /\ numbered' = numbered \cup {Subject}
  BY GpuRow
<1>2. PICK uuid \in {None, Subject}, pci \in {None, Subject} :
        /\ Device(Ordinal(Subject), "NVIDIA", uuid, None, None, pci) \in Entry
        /\ devices' = Add(devices, Device(Ordinal(Subject), "NVIDIA", uuid, None, None, pci))
        /\ NvmlGpu => uuid = Subject /\ pci = Subject
  <2>1. <<"nvml", "uuid">> \notin gaps.fields /\ <<"nvml", "pci">> \notin gaps.fields
    BY DEF PartitionsSeen
  <2> QED BY <2>1, GpuRow
<1> DEFINE d == Device(Ordinal(Subject), "NVIDIA", uuid, None, None, pci)
<1>3. /\ d.id = Ordinal(Subject) /\ d.vendor = "NVIDIA" /\ d.uuid = uuid /\ d.parent = None /\ d.pci = pci
      /\ Bears(d, Subject)
  BY <1>2 DEF Device, Bears
<1>4. d \in Entry /\ devices' = Add(devices, d)
  BY <1>2
<1> HIDE DEF d
<1>5. AllSeen(Early', devices) /\ Reports(Early', devices, d) /\ AllSeen(TRUE, devices)
  <2>1. AllSeen(TRUE, devices)
    BY <1>1 DEF InStep, AllSeen, EntrySeen, PhysicalSeen
  <2>2. EntrySeen(TRUE, d)
    BY <1>1, <1>3 DEF EntrySeen, PhysicalSeen
  <2> QED BY <1>1, <2>1, <2>2 DEF AllSeen, EntrySeen, PhysicalSeen, Reports
<1>6. /\ AllSeen(Early', devices') /\ NumberedIn(numbered, devices') /\ ReportedTo(step, devices')
      /\ step \notin DOMAIN Gpus => ReportedTo(step', devices')
  BY <1>1, <1>4, <1>5, SeenAdds DEF InStep
<1>7. PICK j \in DOMAIN devices' :
        /\ devices'[j].id = Ordinal(Subject) /\ devices'[j].vendor = "NVIDIA"
        /\ devices'[j].parent = None /\ Bears(devices'[j], Subject)
        /\ d.uuid # None => devices'[j].uuid = Subject
        /\ d.pci # None => devices'[j].pci = Subject
  BY <1>1, <1>3, <1>4, <1>5, SeenNumbered DEF TypeInv
<1>8. NumberedIn(numbered', devices')
  BY <1>1, <1>6, <1>7 DEF NumberedIn
<1>9. ReportedTo(step', devices')
  <2>1. CASE step \notin DOMAIN Gpus
    BY <1>6, <2>1
  <2>2. CASE step \in DOMAIN Gpus
    <3>1. DOMAIN Gpus = 1 .. Len(Gpus)
      BY InventoryAssumption
    <3>2. Evidence[step] = [backend |-> "nvml", device |-> Gpus[step]]
      BY <2>2, <3>1, EvidenceIs
    <3>3. Subject = Gpus[step] /\ NvmlGpu
      BY <3>2 DEF Subject, NvidiaSmi, Row
    <3>4. d.uuid # None /\ d.pci # None
      <4>1. Subject # None
        BY <1>1, InventoryAssumption DEF Physical
      <4> QED BY <1>2, <1>3, <3>3, <4>1
    <3> SUFFICES ASSUME NEW k \in DOMAIN Gpus, k < step', Gpus[k] \notin Unpartitioned
                 PROVE  \E i \in DOMAIN devices' :
                          /\ devices'[i].parent = None /\ devices'[i].vendor = "NVIDIA"
                          /\ devices'[i].uuid = Gpus[k] /\ devices'[i].pci = Gpus[k]
      BY DEF ReportedTo
    <3>5. k < step \/ k = step
      <4>1. k \in Nat /\ step \in Nat
        BY <3>1 DEF TypeInv
      <4> QED BY <1>1, <4>1
    <3>6. CASE k < step
      BY <1>6, <3>6 DEF ReportedTo
    <3>7. CASE k = step
      BY <1>7, <3>3, <3>4, <3>7
    <3> QED BY <3>5, <3>6, <3>7
  <2> QED BY <2>1, <2>2
<1> QED
  BY <1>6, <1>8, <1>9 DEF InStep, AllSeen, ReportedTo, NumberedIn, Bears, EntrySeen, PhysicalSeen, InstanceSeen, Unpartitioned, Early

\* An instance of NVML or of the MIG list.
LEMMA SeenMigRow ==
    ASSUME TypeInv, PartitionsSeen, InStep, NvmlMig \/ ListMig
    PROVE  AllSeen(Early', devices') /\ ReportedTo(step', devices') /\ NumberedIn(numbered', devices')
<1>1. Subject \in Mig /\ Early /\ Early' /\ step' = step + 1 /\ numbered' = numbered
  BY NvmlMigIs, ListMigIs
<1>2. step \notin DOMAIN Gpus
  BY <1>1, NotFirst DEF NvmlMig, ListMig
<1>3. PICK id \in Nat, uuid \in {None, Subject}, pci \in Uuid, i \in {None, InstanceOf[Subject]} :
        /\ pci = None \/ pci = ParentOf[Subject]
             \/ \E k \in DOMAIN devices : devices[k].uuid = ParentOf[Subject] /\ pci = devices[k].pci
        /\ Device(id, "NVIDIA", uuid, ParentOf[Subject], i, pci) \in Entry
        /\ devices' = Add(devices, Device(id, "NVIDIA", uuid, ParentOf[Subject], i, pci))
  <2>1. ParentOf[Subject] \in Uuid /\ None \in Uuid
    BY <1>1, InventoryAssumption DEF Uuid, Optional, Physical
  <2>2. CASE NvmlMig
    BY <2>1, <2>2, NvmlMigIs
  <2>3. CASE ListMig
    <3>1. 0 \in Nat
      OBVIOUS
    <3> QED BY <2>3, <3>1, ListMigIs
  <2> QED BY <2>2, <2>3
<1> DEFINE d == Device(id, "NVIDIA", uuid, ParentOf[Subject], i, pci)
<1>4. /\ d.vendor = "NVIDIA" /\ d.uuid = uuid /\ d.parent = ParentOf[Subject] /\ d.pci = pci
      /\ d \in Entry /\ devices' = Add(devices, d)
  BY <1>3 DEF Device
<1> HIDE DEF d
<1>5. ParentOf[Subject] \in Gpu /\ ParentOf[Subject] # None /\ ParentOf[Subject] \notin Mig
  BY <1>1, InventoryAssumption DEF Physical
<1>6. AllSeen(TRUE, devices)
  BY <1>1 DEF InStep, AllSeen, EntrySeen, PhysicalSeen
<1>7. pci \in {None, ParentOf[Subject]}
  <2> SUFFICES ASSUME NEW k \in DOMAIN devices, devices[k].uuid = ParentOf[Subject]
               PROVE  devices[k].pci \in {None, ParentOf[Subject]}
    BY <1>3
  <2>1. EntrySeen(TRUE, devices[k])
    BY <1>6 DEF AllSeen
  <2>2. devices[k].parent = None
    BY <1>5, <2>1 DEF EntrySeen, InstanceSeen, Optional
  <2> QED BY <1>5, <2>1, <2>2 DEF EntrySeen, PhysicalSeen, Bears
<1>8. EntrySeen(TRUE, d)
  BY <1>1, <1>4, <1>5, <1>7 DEF EntrySeen, InstanceSeen, Optional
<1>9. AllSeen(Early', devices) /\ Reports(Early', devices, d)
  BY <1>1, <1>6, <1>8 DEF AllSeen, EntrySeen, PhysicalSeen, Reports
<1> QED
  BY <1>1, <1>2, <1>4, <1>9, SeenAdds DEF InStep

\* A GPU line of the MIG list.
LEMMA SeenListGpu ==
    ASSUME TypeInv, PartitionsSeen, InStep, ListGpu
    PROVE  AllSeen(Early', devices') /\ ReportedTo(step', devices') /\ NumberedIn(numbered', devices')
<1>1. /\ Subject \in Gpu /\ Early /\ Early' /\ step' = step + 1 /\ numbered' = numbered
      /\ DOMAIN devices' = DOMAIN devices
      /\ \A i \in DOMAIN devices :
           /\ devices'[i].id = devices[i].id /\ devices'[i].vendor = devices[i].vendor
           /\ devices'[i].parent = devices[i].parent /\ devices'[i].instance = devices[i].instance
           /\ devices'[i].pci = devices[i].pci
           /\ devices'[i].uuid = IF devices[i].parent = None /\ devices[i].vendor = "NVIDIA" /\ devices[i].id = Ordinal(Subject)
                                 THEN Subject ELSE devices[i].uuid
  BY ListGpuIs
<1>2. step \notin DOMAIN Gpus
  BY NotFirst DEF ListGpu
<1>3. AllSeen(TRUE, devices)
  BY <1>1 DEF InStep, AllSeen, EntrySeen, PhysicalSeen
<1>4. ASSUME NEW i \in DOMAIN devices
      PROVE  /\ EntrySeen(TRUE, devices'[i])
             /\ devices[i].parent = None => Stays(devices, devices', i)
  <2>1. EntrySeen(TRUE, devices[i])
    BY <1>3 DEF AllSeen
  <2>2. CASE devices[i].parent = None
    <3>1. PICK g \in Gpu : Bears(devices[i], g) /\ devices[i].id = Ordinal(g) /\ devices[i].vendor = "NVIDIA"
      BY <2>1, <2>2 DEF EntrySeen, PhysicalSeen
    <3>2. devices[i].id = Ordinal(Subject) => Subject = g
      BY <1>1, <3>1, OrdinalIs
    <3>3. \A h \in Gpu : devices[i].id = Ordinal(h) => h = g
      BY <3>1, OrdinalIs
    <3>4. Bears(devices'[i], g)
      BY <1>1, <3>1, <3>2 DEF Bears
    <3>5. EntrySeen(TRUE, devices'[i])
      BY <1>1, <2>2, <3>1, <3>4 DEF EntrySeen, PhysicalSeen
    <3>6. devices[i].uuid # None => devices'[i].uuid = devices[i].uuid
      BY <1>1, <3>1, <3>2 DEF Bears
    <3>7. Stays(devices, devices', i)
      BY <1>1, <3>3, <3>4, <3>6 DEF Stays
    <3> QED BY <3>5, <3>7
  <2>3. CASE devices[i].parent # None
    BY <1>1, <2>1, <2>3 DEF EntrySeen, InstanceSeen
  <2> QED BY <2>2, <2>3
<1>5. AllSeen(TRUE, devices')
  BY <1>1, <1>4 DEF AllSeen
<1>6. AllSeen(Early', devices')
  BY <1>1, <1>5 DEF AllSeen, EntrySeen, PhysicalSeen
<1>7. ReportedTo(step, devices') /\ NumberedIn(numbered, devices')
  BY <1>1, <1>4, GpusStay DEF TypeInv, InStep
<1> QED
  BY <1>1, <1>2, <1>6, <1>7, ReportedNext

\* A row that is not reported, or of no consequence.
LEMMA SeenSilent ==
    ASSUME TypeInv, PartitionsSeen, InStep, Silent \/ NoParent
    PROVE  AllSeen(Early', devices') /\ ReportedTo(step', devices') /\ NumberedIn(numbered', devices')
<1>1. devices' = devices /\ numbered' = numbered /\ step' = step + 1
  BY DEF Silent, NoParent, Row
<1>2. Early' => Early
  <2>1. Early' => step + 1 <= Len(Numbering) + 1
    BY <1>1 DEF Early, Numbering, Rows
  <2>2. Early <=> step <= Len(Numbering) + 1
    BY DEF Early
  <2>3. Len(Numbering) \in Nat /\ step \in Nat
    BY EvidenceIs DEF TypeInv
  <2> QED BY <2>1, <2>2, <2>3
<1>3. AllSeen(Early', devices')
  BY <1>1, <1>2 DEF InStep, AllSeen, EntrySeen, PhysicalSeen
<1>4. ReportedTo(step', devices)
  <2>1. CASE step \notin DOMAIN Gpus
    BY <1>1, <2>1, ReportedNext DEF InStep
  <2>2. CASE step \in DOMAIN Gpus
    <3>1. DOMAIN Gpus = 1 .. Len(Gpus)
      BY InventoryAssumption
    <3>2. Evidence[step] = [backend |-> "nvml", device |-> Gpus[step]]
      BY <2>2, <3>1, EvidenceIs
    <3>3. Gpus[step] \in Gpu
      BY <2>2 DEF Gpu, Elements
    <3>4. Evidence[step] \in gaps.rows
      <4>1. ~NoParent
        BY <3>2, <3>3, InventoryAssumption DEF NoParent, Subject
      <4> QED BY <3>2, <4>1 DEF Silent
    <3>5. Gpus[step] \in Unpartitioned
      BY <3>2, <3>3, <3>4 DEF PartitionsSeen, Unpartitioned
    <3>6. \A k \in DOMAIN Gpus : k < step' => k < step \/ k = step
      <4>1. \A k \in DOMAIN Gpus : k \in Nat
        BY <3>1
      <4> QED BY <1>1, <4>1 DEF TypeInv
    <3> QED BY <3>5, <3>6 DEF InStep, ReportedTo
  <2> QED BY <2>1, <2>2
<1> QED
  BY <1>1, <1>3, <1>4 DEF InStep

\* Rows of the compute runtimes and of DRM come after those of all GPUs.
LEMMA AllReported ==
    ASSUME TypeInv, ReportedTo(step, devices), ~Early', step' = step + 1, NEW m \in Mig
    PROVE  \E i \in DOMAIN devices :
             /\ devices[i].parent = None /\ devices[i].vendor = "NVIDIA"
             /\ devices[i].uuid = ParentOf[m] /\ devices[i].pci = ParentOf[m]
<1>1. ParentOf[m] \in Gpu /\ ParentOf[m] \notin Unpartitioned
  BY InventoryAssumption DEF Unpartitioned
<1>2. PICK k \in DOMAIN Gpus : Gpus[k] = ParentOf[m]
  BY <1>1 DEF Gpu, Elements
<1>3. k \in 1 .. Len(Gpus) /\ Len(Gpus) \in Nat /\ Len(Numbering) \in Nat /\ k <= Len(Numbering)
  <2>1. DOMAIN Gpus = 1 .. Len(Gpus)
    BY InventoryAssumption
  <2> QED BY <2>1, EvidenceIs
<1>4. ~(step + 1 <= Len(Numbering) + 1)
  BY DEF Early, Numbering, Rows
<1>5. k < step
  <2> HIDE DEF Numbering
  <2> QED BY <1>3, <1>4 DEF TypeInv
<1> QED
  BY <1>1, <1>2, <1>5 DEF ReportedTo

\* A device of CUDA.
LEMMA SeenCuda ==
    ASSUME TypeInv, PartitionsSeen, InStep, Cuda
    PROVE  AllSeen(Early', devices') /\ ReportedTo(step', devices') /\ NumberedIn(numbered', devices')
<1>1. Subject \in Mig \cup Unpartitioned /\ ~Early' /\ step' = step + 1 /\ numbered' = numbered
  BY CudaIs
<1>2. step \notin DOMAIN Gpus
  BY NotFirst DEF Cuda
<1>3. AllSeen(Early', devices) /\ AllSeen(FALSE, devices)
  BY <1>1 DEF InStep, AllSeen, EntrySeen, PhysicalSeen
<1>4. CASE devices' = devices
  BY <1>1, <1>2, <1>3, <1>4, ReportedNext DEF InStep
<1>5. CASE ~(devices' = devices)
  <2>1. PICK of \in Uuid :
          /\ IF HostsOf(devices, Subject) = {} THEN of = None
             ELSE \E i \in HostsOf(devices, Subject) : of = devices[i].uuid
          /\ Device(NextId(devices), "NVIDIA", Subject, of, None, Place(Subject)) \in Entry
          /\ devices' = Add(devices, Device(NextId(devices), "NVIDIA", Subject, of, None, Place(Subject)))
    BY <1>5, CudaIs
  <2> DEFINE d == Device(NextId(devices), "NVIDIA", Subject, of, None, Place(Subject))
  <2>2. /\ d.id = NextId(devices) /\ d.vendor = "NVIDIA" /\ d.uuid = Subject /\ d.parent = of
        /\ d.pci = Place(Subject) /\ d \in Entry /\ devices' = Add(devices, d)
    BY <2>1 DEF Device
  <2> HIDE DEF d
  <2>3. ASSUME NEW i \in HostsOf(devices, Subject), Place(Subject) \in Gpu
        PROVE  devices[i].uuid = Place(Subject) /\ devices[i].uuid # Subject
    <3>1. /\ i \in DOMAIN devices /\ devices[i].parent = None /\ devices[i].pci = Place(Subject)
          /\ devices[i].uuid \notin {None, Subject}
      BY DEF HostsOf
    <3>2. PhysicalSeen(FALSE, devices[i])
      BY <1>3, <3>1 DEF AllSeen, EntrySeen
    <3>3. Place(Subject) \notin Amd /\ Place(Subject) # None
      BY <2>3, InventoryAssumption DEF Amd, Physical
    <3> QED BY <3>1, <3>2, <3>3 DEF PhysicalSeen, Bears
  <2>4. CASE Subject \in Mig
    <3>1. Place(Subject) = ParentOf[Subject] /\ ParentOf[Subject] \in Gpu /\ ParentOf[Subject] # None /\ ParentOf[Subject] # Subject
      BY <2>4, InventoryAssumption DEF Place, Physical
    <3>2. HostsOf(devices, Subject) # {}
      <4>1. PICK i \in DOMAIN devices :
              devices[i].parent = None /\ devices[i].uuid = ParentOf[Subject] /\ devices[i].pci = ParentOf[Subject]
        BY <1>1, <2>4, AllReported DEF InStep
      <4>2. i \in HostsOf(devices, Subject)
        BY <3>1, <4>1 DEF HostsOf
      <4> QED BY <4>2
    <3>3. of = ParentOf[Subject]
      BY <2>1, <2>3, <3>1, <3>2
    <3>4. EntrySeen(FALSE, d) /\ d.parent # None
      BY <2>2, <2>4, <3>1, <3>3 DEF EntrySeen, InstanceSeen, Optional
    <3>5. Reports(Early', devices, d)
      BY <1>1, <3>4 DEF Reports, EntrySeen, PhysicalSeen
    <3> QED BY <1>1, <1>2, <1>3, <2>2, <3>5, SeenAdds DEF InStep
  <2>5. CASE Subject \notin Mig
    <3>1. Subject \in Gpu /\ Place(Subject) = Subject
      BY <1>1, <2>5 DEF Place, Unpartitioned
    <3>2. HostsOf(devices, Subject) = {}
      BY <2>3, <3>1
    <3>3. of = None
      BY <2>1, <3>2
    <3>4. EntrySeen(FALSE, d)
      BY <2>2, <3>1, <3>3 DEF EntrySeen, PhysicalSeen, Bears
    <3>5. d.id \notin Ids(devices)
      BY <2>2, NextIdIs DEF TypeInv
    <3>6. Reports(Early', devices, d)
      BY <1>1, <3>4, <3>5 DEF Reports, EntrySeen, PhysicalSeen
    <3> QED BY <1>1, <1>2, <1>3, <2>2, <3>6, SeenAdds DEF InStep
  <2> QED BY <2>4, <2>5
<1> QED
  BY <1>4, <1>5

\* A device of HIP or DRM.
LEMMA SeenAddress ==
    ASSUME TypeInv, PartitionsSeen, InStep, Hip \/ Drm
    PROVE  AllSeen(Early', devices') /\ ReportedTo(step', devices') /\ NumberedIn(numbered', devices')
<1>1. Subject \in Physical /\ ~Early' /\ step' = step + 1 /\ numbered' = numbered
  BY AddressIs
<1>2. step \notin DOMAIN Gpus
  BY NotFirst DEF Hip, Drm
<1>3. AllSeen(Early', devices)
  BY <1>1 DEF InStep, AllSeen, EntrySeen, PhysicalSeen
<1>4. PICK uuid \in {None, Subject} :
        /\ Subject \in Gpu => uuid = None
        /\ Device(NextId(devices), Vendor(Subject), uuid, None, None, Subject) \in Entry
        /\ devices' = Add(devices, Device(NextId(devices), Vendor(Subject), uuid, None, None, Subject))
  BY AddressIs
<1> DEFINE d == Device(NextId(devices), Vendor(Subject), uuid, None, None, Subject)
<1>5. /\ d.id = NextId(devices) /\ d.vendor = Vendor(Subject) /\ d.uuid = uuid /\ d.parent = None
      /\ d.pci = Subject /\ d \in Entry /\ devices' = Add(devices, d)
  BY <1>4 DEF Device
<1> HIDE DEF d
<1>6. EntrySeen(FALSE, d)
  <2>1. CASE Subject \in Gpu
    BY <1>4, <1>5, <2>1 DEF EntrySeen, PhysicalSeen, Bears, Vendor
  <2>2. CASE Subject \notin Gpu
    <3>1. Subject \in Amd /\ Vendor(Subject) = "AMD"
      BY <1>1, <2>2, InventoryAssumption DEF Vendor, Physical, Amd
    <3> QED BY <1>4, <1>5, <3>1 DEF EntrySeen, PhysicalSeen
  <2> QED BY <2>1, <2>2
<1>7. Reports(Early', devices, d)
  <2>1. d.id \notin Ids(devices)
    BY <1>5, NextIdIs DEF TypeInv
  <2> QED BY <1>1, <1>6, <2>1 DEF Reports, EntrySeen, PhysicalSeen
<1> QED
  BY <1>1, <1>2, <1>3, <1>5, <1>7, SeenAdds DEF InStep

\* Every step keeps entries and devices in step.
LEMMA SeenNext == ASSUME TypeInv, Seen, [Next]_vars PROVE Seen'
<1>1. CASE UNCHANGED vars
  BY <1>1 DEF vars, Seen, InStep, PartitionsSeen, Early, AllSeen, ReportedTo, NumberedIn, EntrySeen, PhysicalSeen,
              InstanceSeen, Bears, Numbering, Rows
<1>2. CASE Next /\ ~UNCHANGED vars
  <2> SUFFICES ASSUME PartitionsSeen' PROVE InStep'
    BY DEF Seen
  <2>1. gaps' = gaps
    BY <1>2 DEF Next, Silent, NoParent, NvmlGpu, NvmlMig, NvidiaSmi, ListGpu, ListMig, Cuda, Hip, Drm, Done
  <2>2. PartitionsSeen
    BY <2>1 DEF PartitionsSeen
  <2>3. InStep
    BY <2>2 DEF Seen
  <2>4. AllSeen(Early', devices') /\ ReportedTo(step', devices') /\ NumberedIn(numbered', devices') => InStep'
    BY DEF InStep, AllSeen, ReportedTo, NumberedIn, Bears, EntrySeen, PhysicalSeen, InstanceSeen
  <2>5. CASE NvmlGpu \/ NvidiaSmi
    BY <2>2, <2>3, <2>5, SeenGpuRow
  <2>6. CASE Silent \/ NoParent
    BY <2>2, <2>3, <2>4, <2>6, SeenSilent
  <2>7. CASE NvmlMig \/ ListMig
    BY <2>2, <2>3, <2>4, <2>7, SeenMigRow
  <2>8. CASE ListGpu
    BY <2>2, <2>3, <2>4, <2>8, SeenListGpu
  <2>9. CASE Cuda
    BY <2>2, <2>3, <2>4, <2>9, SeenCuda
  <2>10. CASE Hip \/ Drm
    BY <2>2, <2>3, <2>4, <2>10, SeenAddress
  <2> QED
    BY <1>2, <2>5, <2>6, <2>7, <2>8, <2>9, <2>10 DEF Next, Done
<1> QED
  BY <1>1, <1>2

\* There is nothing to see at first.
LEMMA SeenInit == Init => Seen
<1> SUFFICES ASSUME Init PROVE InStep
  BY DEF Seen
<1>1. devices = <<>> /\ numbered = {} /\ step = 1
  BY DEF Init
<1>2. \A k \in DOMAIN Gpus : ~(k < step)
  <2>1. DOMAIN Gpus = 1 .. Len(Gpus)
    BY InventoryAssumption
  <2> QED BY <1>1, <2>1
<1>3. DOMAIN devices = {}
  BY <1>1
<1> QED
  BY <1>1, <1>2, <1>3 DEF InStep, AllSeen, ReportedTo, NumberedIn

\* Where NVML sees the partitioned GPUs, the id under which a GPU was reported names that GPU
\* and no other device, until the end of the parse.
THEOREM OrdinalNamesAlways == Spec => []OrdinalNames
<1>1. Seen => OrdinalNames
  BY DEF Seen, InStep, NumberedIn, Bears, OrdinalNames
<1> QED
  BY <1>1, TypeInit, TypeNext, SeenInit, SeenNext, PTL DEF Spec

-----------------------------------------------------------------------------
(* No device twice.                                                        *)

\* Every backend reports the address of every device and the fields of every instance.
FieldsSeen == gaps.fields \subseteq {"nvml", "smi"} \X {"uuid"}

\* A physical device has the address of its device; its UUID may be that of an instance of it
\* once a runtime has reported one.
PhysicalKnown(early, d) ==
    /\ d.pci \in Physical /\ d.vendor = Vendor(d.pci)
    /\ d.uuid \in {None, d.pci} \cup {m \in Mig : ParentOf[m] = d.pci}
    /\ early => d.uuid \in {None, d.pci} /\ d.pci \in Gpu /\ d.id = Ordinal(d.pci)

\* An instance has its UUID, and numbers only under its GPU.
InstanceKnown(early, d) ==
    /\ d.vendor = "NVIDIA" /\ d.uuid \in Mig
    /\ d.instance # None => d.instance = InstanceOf[d.uuid] /\ d.parent = ParentOf[d.uuid]
    /\ early => d.parent = ParentOf[d.uuid]

EntryKnown(early, d) == IF d.parent = None THEN PhysicalKnown(early, d) ELSE InstanceKnown(early, d)

\* Two entries have neither a UUID nor, if they are physical, an address in common.
Apart(a, b) ==
    /\ a.uuid = None \/ a.uuid # b.uuid
    /\ a.parent = None /\ b.parent = None => a.pci # b.pci

AllKnown(early, list) == \A i \in DOMAIN list : EntryKnown(early, list[i])
AllApart(list) == \A i, j \in DOMAIN list : i # j => Apart(list[i], list[j])

\* No entry has the UUID of the device.
Fresh(list, d) == \A i \in DOMAIN list : list[i].uuid # d.uuid

\* What a decoder reports of a device whose address it knows: a physical device with its own
\* UUID or a new one, and no other UUID is known at its address; after the numbering
\* decoders only new instances.
Knows(early, list, d) ==
    /\ EntryKnown(early, d)
    /\ d.parent = None => /\ d.uuid \in {None, d.pci} \/ Fresh(list, d)
                          /\ \A i \in DOMAIN list : list[i].parent = None /\ list[i].pci = d.pci /\ d.uuid # None
                               => list[i].uuid \in {None, d.uuid}
    /\ d.parent # None => early \/ Fresh(list, d)

-----------------------------------------------------------------------------
\* Addresses and UUIDs of instances are told apart from each other and from a missing one.
LEMMA KindsApart ==
    /\ \A x \in Physical : x # None /\ x \notin Mig
    /\ \A m \in Mig : m # None /\ ParentOf[m] \in Gpu /\ ParentOf[m] \in Physical
    /\ \A g \in Gpu : g \in Physical /\ g \notin Amd /\ Vendor(g) = "NVIDIA"
  BY InventoryAssumption DEF Physical, Amd, Vendor

\* Filling an entry keeps it known, and its UUID is its own or that of the report of its address.
LEMMA FillKnown ==
    ASSUME NEW a \in Entry, NEW d \in Entry, NEW early \in BOOLEAN, EntryKnown(early, a), EntryKnown(early, d),
           SameDevice(a, d)
    PROVE  /\ EntryKnown(early, Fill(a, d))
           /\ Fill(a, d).parent = a.parent
           /\ a.parent = None => Fill(a, d).pci = a.pci
           /\ \/ Fill(a, d).uuid = a.uuid
              \/ a.parent = None /\ d.parent = None /\ a.pci = d.pci /\ Fill(a, d).uuid = d.uuid /\ a.uuid = None
<1> DEFINE new == Fill(a, d)
<1>1. a.vendor = d.vendor /\ a.parent = d.parent
  BY DEF SameDevice
<1>2. /\ new.id = a.id /\ new.vendor = a.vendor /\ new.parent = a.parent
      /\ new.uuid = IF a.uuid # None THEN a.uuid ELSE d.uuid
      /\ new.pci = IF a.pci # None THEN a.pci ELSE d.pci
      /\ new.instance = IF a.instance # None THEN a.instance ELSE d.instance
  BY FillIs
<1> HIDE DEF new
<1>3. CASE a.parent # None
  <2>1. InstanceKnown(early, a) /\ InstanceKnown(early, d)
    BY <1>1, <1>3 DEF EntryKnown
  <2>2. a.uuid # None /\ d.uuid # None
    BY <2>1, KindsApart DEF InstanceKnown
  <2>3. a.uuid = d.uuid
    BY <2>2 DEF SameDevice
  <2>4. InstanceKnown(early, new)
    BY <1>1, <1>2, <2>1, <2>2, <2>3 DEF InstanceKnown
  <2> QED BY <1>2, <1>3, <2>2, <2>4 DEF EntryKnown, new
<1>4. CASE a.parent = None
  <2>1. PhysicalKnown(early, a) /\ PhysicalKnown(early, d)
    BY <1>1, <1>4 DEF EntryKnown
  <2>2. a.pci # None /\ d.pci # None /\ new.pci = a.pci
    BY <1>2, <2>1, KindsApart DEF PhysicalKnown
  <2>3. CASE a.uuid # None
    <3>1. new.uuid = a.uuid
      BY <1>2, <2>3
    <3>2. PhysicalKnown(early, new)
      BY <1>2, <2>1, <2>2, <3>1 DEF PhysicalKnown
    <3> QED BY <1>2, <1>4, <2>2, <3>1, <3>2 DEF EntryKnown, new
  <2>4. CASE a.uuid = None
    <3>1. a.pci = d.pci /\ new.uuid = d.uuid
      BY <1>2, <1>4, <2>2, <2>4 DEF SameDevice
    <3>2. PhysicalKnown(early, new)
      BY <1>2, <2>1, <2>2, <3>1 DEF PhysicalKnown
    <3> QED BY <1>1, <1>2, <1>4, <2>2, <2>4, <3>1, <3>2 DEF EntryKnown, new
  <2> QED BY <2>3, <2>4
<1> QED
  BY <1>3, <1>4

\* A device that is in no entry has no UUID and no address of any.
LEMMA NewApart ==
    ASSUME NEW list \in Seq(Entry), NEW d \in Entry, NEW early \in BOOLEAN, AllKnown(early, list),
           Knows(early, list, d), NEW i \in DOMAIN list, ~SameDevice(list[i], d)
    PROVE  Apart(list[i], d) /\ Apart(d, list[i])
<1> DEFINE a == list[i]
<1>1. EntryKnown(early, a) /\ EntryKnown(early, d) /\ ~SameDevice(a, d)
  BY DEF AllKnown, Knows
<1>2. Fresh(list, d) => a.uuid # d.uuid
  BY DEF Fresh
<1>3. d.parent = None /\ a.parent = None /\ a.pci = d.pci /\ d.uuid # None => a.uuid \in {None, d.uuid}
  BY DEF Knows
<1>4. (d.parent = None => d.uuid \in {None, d.pci} \/ Fresh(list, d)) /\ (d.parent # None => early \/ Fresh(list, d))
  BY DEF Knows
<1>5. Apart(a, d) <=> Apart(d, a)
  BY DEF Apart
<1> HIDE DEF a
<1>6. CASE d.parent = None
  <2>1. PhysicalKnown(early, d)
    BY <1>1, <1>6 DEF EntryKnown
  <2>2. CASE a.parent = None
    <3>1. PhysicalKnown(early, a)
      BY <1>1, <2>2 DEF EntryKnown
    <3>2. a.pci # d.pci
      <4> SUFFICES ASSUME a.pci = d.pci PROVE FALSE
        OBVIOUS
      <4>1. a.vendor = d.vendor /\ a.pci # None
        BY <2>1, <3>1, KindsApart DEF PhysicalKnown
      <4> QED BY <1>1, <1>3, <1>6, <2>2, <4>1 DEF SameDevice
    <3>3. a.uuid = None \/ a.uuid # d.uuid
      <4> SUFFICES ASSUME a.uuid = d.uuid, a.uuid # None PROVE FALSE
        OBVIOUS
      <4>1. d.uuid = d.pci
        BY <1>2, <1>4, <1>6
      <4>2. a.uuid = a.pci
        BY <2>1, <3>1, <4>1, KindsApart DEF PhysicalKnown
      <4> QED BY <3>2, <4>1, <4>2
    <3> QED BY <1>5, <3>2, <3>3 DEF Apart, a
  <2>3. CASE a.parent # None
    <3>1. a.uuid \in Mig
      BY <1>1, <2>3 DEF EntryKnown, InstanceKnown
    <3>2. a.uuid # d.uuid
      <4>1. d.pci \notin Mig /\ a.uuid # None
        BY <2>1, <3>1, KindsApart DEF PhysicalKnown
      <4> QED BY <1>2, <1>4, <1>6, <3>1, <4>1
    <3> QED BY <1>5, <2>3, <3>2 DEF Apart, a
  <2> QED BY <2>2, <2>3
<1>7. CASE d.parent # None
  <2>1. InstanceKnown(early, d) /\ d.uuid \in Mig /\ d.uuid # None
    BY <1>1, <1>7, KindsApart DEF EntryKnown, InstanceKnown
  <2>2. a.uuid # d.uuid
    <3>1. CASE Fresh(list, d)
      BY <1>2, <3>1
    <3>2. CASE early
      <4>1. CASE a.parent = None
        <5>1. a.uuid \in {None, a.pci} /\ a.pci \in Physical
          BY <1>1, <3>2, <4>1 DEF EntryKnown, PhysicalKnown
        <5> QED BY <2>1, <5>1, KindsApart
      <4>2. CASE a.parent # None
        <5>1. a.vendor = "NVIDIA" /\ a.parent = ParentOf[a.uuid] /\ d.vendor = "NVIDIA" /\ d.parent = ParentOf[d.uuid]
          BY <1>1, <2>1, <3>2, <4>2 DEF EntryKnown, InstanceKnown
        <5> QED BY <1>1, <2>1, <5>1 DEF SameDevice
      <4> QED BY <4>1, <4>2
    <3> QED BY <1>4, <1>7, <3>1, <3>2
  <2> QED BY <1>5, <1>7, <2>2 DEF Apart, a
<1> QED
  BY <1>6, <1>7

\* A filled entry stays apart from the others.
LEMMA FilledApart ==
    ASSUME NEW list \in Seq(Entry), NEW d \in Entry, NEW early \in BOOLEAN, AllKnown(early, list), AllApart(list),
           Knows(early, list, d), NEW k \in DOMAIN list, SameDevice(list[k], d),
           NEW i \in DOMAIN list, i # k
    PROVE  Apart(list[i], Fill(list[k], d)) /\ Apart(Fill(list[k], d), list[i])
<1> DEFINE a == list[k]
           b == list[i]
           new == Fill(a, d)
<1>1. EntryKnown(early, a) /\ EntryKnown(early, b) /\ EntryKnown(early, d) /\ SameDevice(a, d)
  BY DEF AllKnown, Knows
<1>2. Apart(a, b) /\ Apart(b, a)
  BY DEF AllApart
<1>3. a \in Entry
  BY EntryOf
<1>4. Fresh(list, d) => b.uuid # d.uuid
  BY DEF Fresh
<1>5. d.parent = None => d.uuid \in {None, d.pci} \/ Fresh(list, d)
  BY DEF Knows
<1> HIDE DEF a, b, new
<1>6. /\ new.parent = a.parent
      /\ a.parent = None => new.pci = a.pci
      /\ \/ new.uuid = a.uuid
         \/ a.parent = None /\ d.parent = None /\ a.pci = d.pci /\ new.uuid = d.uuid /\ a.uuid = None
  BY <1>1, <1>3, FillKnown DEF new
<1>7. CASE new.uuid = a.uuid
  BY <1>2, <1>6, <1>7 DEF Apart, a, b, new
<1>8. CASE a.parent = None /\ d.parent = None /\ a.pci = d.pci /\ new.uuid = d.uuid
  <2>1. d.uuid = None \/ d.uuid # b.uuid
    <3> SUFFICES ASSUME d.uuid = b.uuid, d.uuid # None PROVE FALSE
      OBVIOUS
    <3>1. d.uuid = d.pci /\ d.pci \in Physical
      BY <1>1, <1>4, <1>5, <1>8 DEF EntryKnown, PhysicalKnown
    <3>2. b.parent = None
      BY <1>1, <3>1, KindsApart DEF EntryKnown, InstanceKnown
    <3>3. b.pci = b.uuid
      BY <1>1, <3>1, <3>2, KindsApart DEF EntryKnown, PhysicalKnown
    <3> QED BY <1>2, <1>8, <3>1, <3>2, <3>3 DEF Apart
  <2> QED BY <1>2, <1>6, <1>8, <2>1 DEF Apart, a, b, new
<1> QED
  BY <1>6, <1>7, <1>8

\* An entry that differs in its id is known if the id does not matter.
LEMMA AlikeKnown ==
    ASSUME NEW a, NEW b, Alike(b, a), NEW early \in BOOLEAN, EntryKnown(early, a),
           early /\ a.parent = None => b.id = a.id
    PROVE  EntryKnown(early, b)
  BY DEF Alike, EntryKnown, PhysicalKnown, InstanceKnown

\* Adding what a decoder reports keeps the entries known and apart.
LEMMA KnownAdd ==
    ASSUME NEW list \in Seq(Entry), IdsApart(list), NEW d \in Entry, NEW early \in BOOLEAN,
           AllKnown(early, list), AllApart(list), Knows(early, list, d)
    PROVE  AllKnown(early, Add(list, d)) /\ AllApart(Add(list, d))
<1> DEFINE new == Add(list, d)
<1>1. CASE IsIn(list, d)
  <2>1. PICK k \in DOMAIN list :
          /\ SameDevice(list[k], d) /\ new = [list EXCEPT ![k] = Fill(list[k], d)]
          /\ new \in Seq(Entry) /\ Len(new) = Len(list)
    BY <1>1, AddKnown
  <2>2. DOMAIN new = DOMAIN list /\ new[k] = Fill(list[k], d) /\ \A i \in DOMAIN list : i # k => new[i] = list[i]
    BY <2>1
  <2> HIDE DEF new
  <2>3. EntryKnown(early, new[k])
    <3>1. list[k] \in Entry /\ EntryKnown(early, list[k]) /\ EntryKnown(early, d)
      BY EntryOf DEF AllKnown, Knows
    <3> QED BY <2>1, <2>2, <3>1, FillKnown
  <2>4. AllKnown(early, new)
    BY <2>2, <2>3 DEF AllKnown
  <2>5. \A i \in DOMAIN list : i # k => Apart(new[i], new[k]) /\ Apart(new[k], new[i])
    BY <2>1, <2>2, FilledApart
  <2>6. AllApart(new)
    BY <2>2, <2>5 DEF AllApart
  <2> QED BY <2>4, <2>6 DEF new
<1>2. CASE ~IsIn(list, d)
  <2>1. /\ new \in Seq(Entry) /\ Len(new) = Len(list) + 1
        /\ \A i \in DOMAIN list : Alike(new[i], list[i]) /\ (list[i].parent = None => new[i].id = list[i].id)
        /\ Alike(new[Len(list) + 1], d)
        /\ d.parent = None /\ (\A i \in DOMAIN list : list[i].parent = None => list[i].id # d.id)
             => new[Len(list) + 1].id = d.id
    BY <1>2, AddNew
  <2> HIDE DEF new
  <2> DEFINE n == Len(list) + 1
  <2>2. DOMAIN list = 1 .. Len(list) /\ Len(list) \in Nat /\ \A i \in DOMAIN new : i \in DOMAIN list \/ i = n
    BY <2>1
  <2>3. \A i \in DOMAIN list : Apart(list[i], d) /\ Apart(d, list[i])
    BY <1>2, NewApart DEF IsIn
  <2>4. \A i \in DOMAIN list : EntryKnown(early, new[i])
    BY <2>1, AlikeKnown DEF AllKnown
  <2>5. early /\ d.parent = None => new[n].id = d.id
    <3> SUFFICES ASSUME early, d.parent = None, NEW i \in DOMAIN list, list[i].parent = None, list[i].id = d.id
                 PROVE  FALSE
      BY <2>1
    <3>1. PhysicalKnown(early, list[i]) /\ PhysicalKnown(early, d)
      BY DEF AllKnown, EntryKnown, Knows
    <3>2. list[i].pci = d.pci
      BY <3>1, OrdinalIs DEF PhysicalKnown
    <3> QED BY <2>3, <3>2 DEF Apart
  <2>6. EntryKnown(early, new[n])
    BY <2>1, <2>5, AlikeKnown DEF Knows
  <2>7. AllKnown(early, new)
    BY <2>2, <2>4, <2>6 DEF AllKnown
  <2>8. \A i \in DOMAIN list : Alike(new[i], list[i]) /\ Alike(new[n], d)
    BY <2>1
  <2> HIDE DEF n
  <2>9. AllApart(new)
    <3> SUFFICES ASSUME NEW i \in DOMAIN new, NEW j \in DOMAIN new, i # j PROVE Apart(new[i], new[j])
      BY DEF AllApart
    <3>1. CASE i \in DOMAIN list /\ j \in DOMAIN list
      BY <2>8, <3>1 DEF AllApart, Apart, Alike
    <3>2. CASE i \in DOMAIN list /\ j = n
      BY <2>3, <2>8, <3>2 DEF Apart, Alike
    <3>3. CASE i = n /\ j \in DOMAIN list
      BY <2>3, <2>8, <3>3 DEF Apart, Alike
    <3> QED BY <2>2, <3>1, <3>2, <3>3
  <2> QED BY <2>7, <2>9 DEF new
<1> QED
  BY <1>1, <1>2

\* Where every backend reports addresses and the fields of instances: entries known and apart.
InPlace == AllKnown(Early, devices) /\ AllApart(devices)
Known == FieldsSeen => InPlace

\* A step that adds what a decoder reports.
LEMMA KnownAdds ==
    ASSUME TypeInv, NEW d \in Entry, devices' = Add(devices, d),
           AllKnown(Early', devices), AllApart(devices), Knows(Early', devices, d)
    PROVE  AllKnown(Early', devices') /\ AllApart(devices')
<1> DEFINE early == Early'
<1>1. early \in BOOLEAN /\ AllKnown(early, devices) /\ Knows(early, devices, d)
  BY DEF Early
<1> HIDE DEF early
<1>2. AllKnown(early, Add(devices, d)) /\ AllApart(Add(devices, d))
  BY <1>1, KnownAdd DEF TypeInv
<1> QED
  BY <1>2 DEF early

\* A GPU row of NVML or nvidia-smi.
LEMMA KnownGpuRow ==
    ASSUME TypeInv, FieldsSeen, InPlace, NvmlGpu \/ NvidiaSmi
    PROVE  AllKnown(Early', devices') /\ AllApart(devices')
<1>1. Subject \in Gpu /\ Early /\ Early'
  BY GpuRow
<1>2. PICK uuid \in {None, Subject} :
        /\ Device(Ordinal(Subject), "NVIDIA", uuid, None, None, Subject) \in Entry
        /\ devices' = Add(devices, Device(Ordinal(Subject), "NVIDIA", uuid, None, None, Subject))
  <2>1. <<"nvml", "pci">> \notin gaps.fields /\ <<"smi", "pci">> \notin gaps.fields
    BY DEF FieldsSeen
  <2> QED BY <2>1, GpuRow
<1> DEFINE d == Device(Ordinal(Subject), "NVIDIA", uuid, None, None, Subject)
<1>3. /\ d.id = Ordinal(Subject) /\ d.vendor = "NVIDIA" /\ d.uuid = uuid /\ d.parent = None /\ d.pci = Subject
      /\ d \in Entry /\ devices' = Add(devices, d)
  BY <1>2 DEF Device
<1> HIDE DEF d
<1>4. AllKnown(TRUE, devices) /\ AllKnown(Early', devices) /\ AllApart(devices)
  BY <1>1 DEF InPlace, AllKnown, EntryKnown, PhysicalKnown, InstanceKnown
<1>5. EntryKnown(TRUE, d)
  BY <1>1, <1>3, KindsApart DEF EntryKnown, PhysicalKnown
<1>6. ASSUME NEW i \in DOMAIN devices, devices[i].parent = None, devices[i].pci = d.pci, d.uuid # None
      PROVE  devices[i].uuid \in {None, d.uuid}
  BY <1>3, <1>4, <1>6 DEF AllKnown, EntryKnown, PhysicalKnown
<1>7. Knows(Early', devices, d)
  BY <1>1, <1>3, <1>5, <1>6 DEF Knows, EntryKnown, PhysicalKnown, InstanceKnown
<1> QED
  BY <1>3, <1>4, <1>7, KnownAdds

\* An instance of NVML or of the MIG list.
LEMMA KnownMigRow ==
    ASSUME TypeInv, FieldsSeen, InPlace, NvmlMig \/ ListMig
    PROVE  AllKnown(Early', devices') /\ AllApart(devices')
<1>1. Subject \in Mig /\ Early /\ Early'
  BY NvmlMigIs, ListMigIs
<1>2. PICK id \in Nat, pci \in Uuid, i \in {None, InstanceOf[Subject]} :
        /\ Device(id, "NVIDIA", Subject, ParentOf[Subject], i, pci) \in Entry
        /\ devices' = Add(devices, Device(id, "NVIDIA", Subject, ParentOf[Subject], i, pci))
  <2>1. <<"nvml", "mig uuid">> \notin gaps.fields
    BY DEF FieldsSeen
  <2>2. ParentOf[Subject] \in Uuid /\ None \in Uuid /\ 0 \in Nat
    BY <1>1, KindsApart DEF Uuid, Optional
  <2>3. CASE NvmlMig
    BY <2>1, <2>2, <2>3, NvmlMigIs
  <2>4. CASE ListMig
    BY <2>2, <2>4, ListMigIs
  <2> QED BY <2>3, <2>4
<1> DEFINE d == Device(id, "NVIDIA", Subject, ParentOf[Subject], i, pci)
<1>3. /\ d.vendor = "NVIDIA" /\ d.uuid = Subject /\ d.parent = ParentOf[Subject] /\ d.instance = i
      /\ d \in Entry /\ devices' = Add(devices, d)
  BY <1>2 DEF Device
<1> HIDE DEF d
<1>4. AllKnown(Early', devices) /\ AllApart(devices)
  BY <1>1 DEF InPlace, AllKnown, EntryKnown, PhysicalKnown, InstanceKnown
<1>5. d.parent # None
  BY <1>1, <1>3, KindsApart
<1>6. InstanceKnown(TRUE, d)
  BY <1>1, <1>2, <1>3 DEF InstanceKnown
<1>7. Knows(Early', devices, d)
  BY <1>1, <1>5, <1>6 DEF Knows, EntryKnown, InstanceKnown
<1> QED
  BY <1>3, <1>4, <1>7, KnownAdds

\* A GPU line of the MIG list.
LEMMA KnownListGpu ==
    ASSUME TypeInv, FieldsSeen, InPlace, ListGpu
    PROVE  AllKnown(Early', devices') /\ AllApart(devices')
<1>1. /\ Subject \in Gpu /\ Early /\ Early'
      /\ DOMAIN devices' = DOMAIN devices
      /\ \A i \in DOMAIN devices :
           /\ devices'[i].id = devices[i].id /\ devices'[i].vendor = devices[i].vendor
           /\ devices'[i].parent = devices[i].parent /\ devices'[i].instance = devices[i].instance
           /\ devices'[i].pci = devices[i].pci
           /\ devices'[i].uuid = IF devices[i].parent = None /\ devices[i].vendor = "NVIDIA" /\ devices[i].id = Ordinal(Subject)
                                 THEN Subject ELSE devices[i].uuid
  BY ListGpuIs
<1>2. AllKnown(TRUE, devices) /\ AllApart(devices)
  BY <1>1 DEF InPlace, AllKnown, EntryKnown, PhysicalKnown, InstanceKnown
<1>3. ASSUME NEW i \in DOMAIN devices
      PROVE  \/ devices'[i].uuid = devices[i].uuid
             \/ devices[i].parent = None /\ devices[i].pci = Subject /\ devices'[i].uuid = Subject
  <2> SUFFICES ASSUME devices[i].parent = None, devices[i].id = Ordinal(Subject) PROVE devices[i].pci = Subject
    BY <1>1
  <2>1. PhysicalKnown(TRUE, devices[i])
    BY <1>2 DEF AllKnown, EntryKnown
  <2> QED BY <1>1, <2>1, OrdinalIs DEF PhysicalKnown
<1>4. AllKnown(TRUE, devices')
  <2> SUFFICES ASSUME NEW i \in DOMAIN devices PROVE EntryKnown(TRUE, devices'[i])
    BY <1>1 DEF AllKnown
  <2>1. EntryKnown(TRUE, devices[i])
    BY <1>2 DEF AllKnown
  <2> QED BY <1>1, <1>3, <2>1, KindsApart DEF EntryKnown, PhysicalKnown, InstanceKnown
<1>5. ASSUME NEW i \in DOMAIN devices, NEW j \in DOMAIN devices, i # j PROVE Apart(devices'[i], devices'[j])
  <2>1. Apart(devices[i], devices[j]) /\ Apart(devices[j], devices[i])
    BY <1>2, <1>5 DEF AllApart
  <2>2. ASSUME NEW k \in DOMAIN devices, devices[k].uuid = Subject
        PROVE  devices[k].parent = None /\ devices[k].pci = Subject
    <3>1. EntryKnown(TRUE, devices[k])
      BY <1>2 DEF AllKnown
    <3> QED BY <1>1, <2>2, <3>1, KindsApart DEF EntryKnown, PhysicalKnown, InstanceKnown
  <2> QED BY <1>1, <1>3, <2>1, <2>2 DEF Apart
<1>6. AllApart(devices')
  BY <1>1, <1>5 DEF AllApart
<1> QED
  BY <1>1, <1>4, <1>6 DEF AllKnown, EntryKnown, PhysicalKnown, InstanceKnown

\* A device of CUDA: at its address no other UUID is known, or it becomes an instance.
LEMMA KnownCuda ==
    ASSUME TypeInv, FieldsSeen, InPlace, Cuda
    PROVE  AllKnown(Early', devices') /\ AllApart(devices')
<1>1. Subject \in Mig \cup Unpartitioned /\ ~Early'
  BY CudaIs
<1>2. AllKnown(Early', devices) /\ AllKnown(FALSE, devices) /\ AllApart(devices)
  BY <1>1 DEF InPlace, AllKnown, EntryKnown, PhysicalKnown, InstanceKnown
<1>3. CASE devices' = devices
  BY <1>1, <1>2, <1>3
<1>4. CASE ~(devices' = devices)
  <2>1. PICK of \in Uuid :
          /\ IF HostsOf(devices, Subject) = {} THEN of = None
             ELSE \E i \in HostsOf(devices, Subject) : of = devices[i].uuid
          /\ Device(NextId(devices), "NVIDIA", Subject, of, None, Place(Subject)) \in Entry
          /\ devices' = Add(devices, Device(NextId(devices), "NVIDIA", Subject, of, None, Place(Subject)))
    BY <1>4, CudaIs
  <2>2. \A i \in DOMAIN devices : devices[i].uuid # Subject
    BY <1>4, CudaIs
  <2> DEFINE d == Device(NextId(devices), "NVIDIA", Subject, of, None, Place(Subject))
  <2>3. /\ d.vendor = "NVIDIA" /\ d.uuid = Subject /\ d.parent = of /\ d.instance = None
        /\ d.pci = Place(Subject) /\ d \in Entry /\ devices' = Add(devices, d)
    BY <2>1 DEF Device
  <2> HIDE DEF d
  <2>4. Fresh(devices, d)
    BY <2>2, <2>3 DEF Fresh
  <2>5. CASE HostsOf(devices, Subject) = {}
    <3>1. d.parent = None
      BY <2>1, <2>3, <2>5
    <3>2. d.pci \in Gpu /\ (d.uuid = d.pci \/ (d.uuid \in Mig /\ ParentOf[d.uuid] = d.pci))
      BY <1>1, <2>3, KindsApart DEF Place, Unpartitioned
    <3>3. EntryKnown(FALSE, d)
      BY <2>3, <3>1, <3>2, KindsApart DEF EntryKnown, PhysicalKnown
    <3>4. ASSUME NEW i \in DOMAIN devices, devices[i].parent = None, devices[i].pci = d.pci
          PROVE  devices[i].uuid \in {None, d.uuid}
      <4>1. i \notin HostsOf(devices, Subject)
        BY <2>5
      <4> QED BY <2>3, <3>4, <4>1 DEF HostsOf
    <3>5. Knows(Early', devices, d)
      BY <1>1, <2>4, <3>1, <3>3, <3>4 DEF Knows, EntryKnown, PhysicalKnown, InstanceKnown
    <3> QED BY <1>2, <2>3, <3>5, KnownAdds
  <2>6. CASE HostsOf(devices, Subject) # {}
    <3>1. PICK i \in HostsOf(devices, Subject) : of = devices[i].uuid
      BY <2>1, <2>6
    <3>2. /\ i \in DOMAIN devices /\ devices[i].parent = None /\ devices[i].pci = Place(Subject)
          /\ devices[i].uuid \notin {None, Subject}
      BY DEF HostsOf
    <3>3. PhysicalKnown(FALSE, devices[i])
      BY <1>2, <3>2 DEF AllKnown, EntryKnown
    <3>4. Subject \in Mig
      <4> SUFFICES ASSUME Subject \notin Mig PROVE FALSE
        OBVIOUS
      <4>1. Place(Subject) = Subject /\ \A m \in Mig : ParentOf[m] # Subject
        BY <1>1 DEF Place, Unpartitioned
      <4> QED BY <3>2, <3>3, <4>1 DEF PhysicalKnown
    <3>5. d.parent # None
      BY <2>3, <3>1, <3>2
    <3>6. EntryKnown(FALSE, d)
      BY <2>3, <3>4, <3>5 DEF EntryKnown, InstanceKnown
    <3>7. Knows(Early', devices, d)
      BY <1>1, <2>4, <3>5, <3>6 DEF Knows, EntryKnown, InstanceKnown
    <3> QED BY <1>2, <2>3, <3>7, KnownAdds
  <2> QED BY <2>5, <2>6
<1> QED
  BY <1>3, <1>4

\* A device of HIP or DRM.
LEMMA KnownAddress ==
    ASSUME TypeInv, FieldsSeen, InPlace, Hip \/ Drm
    PROVE  AllKnown(Early', devices') /\ AllApart(devices')
<1>1. Subject \in Physical /\ ~Early'
  BY AddressIs
<1>2. AllKnown(Early', devices) /\ AllKnown(FALSE, devices) /\ AllApart(devices)
  BY <1>1 DEF InPlace, AllKnown, EntryKnown, PhysicalKnown, InstanceKnown
<1>3. PICK uuid \in {None, Subject} :
        /\ Subject \in Gpu => uuid = None
        /\ Device(NextId(devices), Vendor(Subject), uuid, None, None, Subject) \in Entry
        /\ devices' = Add(devices, Device(NextId(devices), Vendor(Subject), uuid, None, None, Subject))
  BY AddressIs
<1> DEFINE d == Device(NextId(devices), Vendor(Subject), uuid, None, None, Subject)
<1>4. /\ d.vendor = Vendor(Subject) /\ d.uuid = uuid /\ d.parent = None
      /\ d.pci = Subject /\ d \in Entry /\ devices' = Add(devices, d)
  BY <1>3 DEF Device
<1> HIDE DEF d
<1>5. EntryKnown(FALSE, d)
  BY <1>1, <1>4 DEF EntryKnown, PhysicalKnown
<1>6. ASSUME NEW i \in DOMAIN devices, devices[i].parent = None, devices[i].pci = d.pci, d.uuid # None
      PROVE  devices[i].uuid \in {None, d.uuid}
  <2>1. PhysicalKnown(FALSE, devices[i])
    BY <1>2, <1>6 DEF AllKnown, EntryKnown
  <2>2. d.uuid = Subject /\ Subject \notin Gpu
    BY <1>3, <1>4, <1>6
  <2> QED BY <1>4, <1>6, <2>1, <2>2, KindsApart DEF PhysicalKnown
<1>7. Knows(Early', devices, d)
  BY <1>1, <1>4, <1>5, <1>6 DEF Knows, EntryKnown, PhysicalKnown, InstanceKnown
<1> QED
  BY <1>2, <1>4, <1>7, KnownAdds

\* Every step keeps the entries known and apart.
LEMMA KnownNext == ASSUME TypeInv, Known, [Next]_vars PROVE Known'
<1>1. CASE UNCHANGED vars
  BY <1>1 DEF vars, Known, InPlace, FieldsSeen, Early, AllKnown, AllApart, EntryKnown, PhysicalKnown,
              InstanceKnown, Apart, Numbering, Rows
<1>2. CASE Next /\ ~UNCHANGED vars
  <2> SUFFICES ASSUME FieldsSeen' PROVE InPlace'
    BY DEF Known
  <2>1. gaps' = gaps
    BY <1>2 DEF Next, Silent, NoParent, NvmlGpu, NvmlMig, NvidiaSmi, ListGpu, ListMig, Cuda, Hip, Drm, Done
  <2>2. FieldsSeen /\ InPlace
    BY <2>1 DEF FieldsSeen, Known
  <2>3. AllKnown(Early', devices') /\ AllApart(devices') => InPlace'
    BY DEF InPlace, AllKnown, AllApart, EntryKnown, PhysicalKnown, InstanceKnown, Apart
  <2>4. CASE Silent \/ NoParent
    <3>1. devices' = devices /\ step' = step + 1
      BY <2>4 DEF Silent, NoParent, Row
    <3>2. Early' => Early
      <4>1. Early' => step + 1 <= Len(Numbering) + 1
        BY <3>1 DEF Early, Numbering, Rows
      <4>2. Early <=> step <= Len(Numbering) + 1
        BY DEF Early
      <4>3. Len(Numbering) \in Nat /\ step \in Nat
        BY EvidenceIs DEF TypeInv
      <4> QED BY <4>1, <4>2, <4>3
    <3> QED BY <2>2, <2>3, <3>1, <3>2 DEF InPlace, AllKnown, EntryKnown, PhysicalKnown, InstanceKnown
  <2>5. CASE NvmlGpu \/ NvidiaSmi
    BY <2>2, <2>3, <2>5, KnownGpuRow
  <2>6. CASE NvmlMig \/ ListMig
    BY <2>2, <2>3, <2>6, KnownMigRow
  <2>7. CASE ListGpu
    BY <2>2, <2>3, <2>7, KnownListGpu
  <2>8. CASE Cuda
    BY <2>2, <2>3, <2>8, KnownCuda
  <2>9. CASE Hip \/ Drm
    BY <2>2, <2>3, <2>9, KnownAddress
  <2> QED
    BY <1>2, <2>4, <2>5, <2>6, <2>7, <2>8, <2>9 DEF Next, Done
<1> QED
  BY <1>1, <1>2

\* Nor to know.
LEMMA KnownInit == Init => Known
<1>1. Init => DOMAIN devices = {}
  BY DEF Init
<1> QED
  BY <1>1 DEF Known, InPlace, AllKnown, AllApart

\* An entry of the list is of one device.
LEMMA SeenOne ==
    ASSUME TypeInv, NEW i \in DOMAIN devices, NEW early \in BOOLEAN, EntrySeen(early, devices[i])
    PROVE  OneDevice(devices[i])
<1> DEFINE d == devices[i]
<1>1. d.vendor \in {"NVIDIA", "AMD"} /\ EntrySeen(early, d)
  BY EntryOf DEF TypeInv
<1> HIDE DEF d
<1>2. CASE d.parent # None
  BY <1>1, <1>2 DEF EntrySeen, InstanceSeen, OneDevice, Optional, d
<1>3. CASE d.parent = None
  <2>1. d.uuid \in Physical \cup {None} /\ (d.pci # None /\ d.uuid # None => d.pci = d.uuid)
    BY <1>1, <1>3, KindsApart DEF EntrySeen, PhysicalSeen, Bears, Physical, Amd
  <2> QED BY <1>3, <2>1 DEF OneDevice, d
<1> QED
  BY <1>2, <1>3

\* Two entries that are known and apart name no device in common.
LEMMA KnownNames ==
    ASSUME NEW a, NEW b, NEW early \in BOOLEAN, EntryKnown(early, a), EntryKnown(early, b), Apart(a, b), Apart(b, a)
    PROVE  Names(a) \cap Names(b) = {}
<1>1. ASSUME NEW d, EntryKnown(early, d), d.parent # None PROVE Names(d) = {d.uuid} /\ d.uuid \in Mig
  <2>1. /\ d.uuid \in Mig
        /\ d.instance # None => d.instance = InstanceOf[d.uuid] /\ d.parent = ParentOf[d.uuid]
    BY <1>1 DEF EntryKnown, InstanceKnown
  <2>2. ASSUME NEW m \in Mig, ParentOf[m] = d.parent, InstanceOf[m] = d.instance PROVE m = d.uuid
    BY <2>1, <2>2, InventoryAssumption
  <2> QED BY <1>1, <2>1, <2>2 DEF Names
<1>2. ASSUME NEW d, EntryKnown(early, d), d.parent = None
      PROVE  /\ Names(d) \subseteq {d.uuid, d.pci} /\ d.pci \in Physical /\ None \notin Names(d)
             /\ d.uuid \in {None, d.pci} \cup Mig
  BY <1>2 DEF EntryKnown, PhysicalKnown, Names
<1>3. CASE a.parent # None /\ b.parent # None
  BY <1>1, <1>3, KindsApart DEF Apart
<1>4. CASE a.parent # None /\ b.parent = None
  BY <1>1, <1>2, <1>4, KindsApart DEF Apart
<1>5. CASE a.parent = None /\ b.parent # None
  BY <1>1, <1>2, <1>5, KindsApart DEF Apart
<1>6. CASE a.parent = None /\ b.parent = None
  <2> SUFFICES ASSUME NEW x \in Names(a), x \in Names(b) PROVE FALSE
    OBVIOUS
  <2>1. x \in {a.uuid, a.pci} /\ x \in {b.uuid, b.pci} /\ x # None /\ a.pci # b.pci
    BY <1>2, <1>6 DEF Apart
  <2> QED BY <1>2, <1>6, <2>1, KindsApart DEF Apart
<1> QED
  BY <1>3, <1>4, <1>5, <1>6

\* Entries and devices correspond: no entry mixes two devices where NVML sees the partitioned
\* GPUs, and no device is listed twice where every backend reports the addresses.
THEOREM OneToOneAlways == Spec => []OneToOne
<1>1. TypeInv /\ Seen /\ PartitionsSeen => \A i \in DOMAIN devices : OneDevice(devices[i])
  <2>1. Early \in BOOLEAN
    BY DEF Early
  <2> QED BY <2>1, SeenOne DEF Seen, InStep, AllSeen
<1>2. Known /\ FieldsSeen => \A i, j \in DOMAIN devices : i # j => Names(devices[i]) \cap Names(devices[j]) = {}
  <2> SUFFICES ASSUME Known, FieldsSeen, NEW i \in DOMAIN devices, NEW j \in DOMAIN devices, i # j
               PROVE  Names(devices[i]) \cap Names(devices[j]) = {}
    OBVIOUS
  <2>1. /\ Early \in BOOLEAN /\ EntryKnown(Early, devices[i]) /\ EntryKnown(Early, devices[j])
        /\ Apart(devices[i], devices[j]) /\ Apart(devices[j], devices[i])
    BY DEF Known, InPlace, AllKnown, AllApart, Early
  <2> QED BY <2>1, KnownNames
<1>3. TypeInv /\ Seen /\ Known => OneToOne
  BY <1>1, <1>2 DEF OneToOne, FieldsSeen
<1> QED
  BY <1>3, TypeInit, TypeNext, SeenInit, SeenNext, KnownInit, KnownNext, PTL DEF Spec
=============================================================================
