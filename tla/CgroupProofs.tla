---------------------------- MODULE CgroupProofs ----------------------------
(***************************************************************************)
(* Proofs about CgroupLimits: the limit reported is an upper bound         *)
(* whatever happens during the walk, and was in force at one moment of it  *)
(* if at most one thing happened.                                          *)
(***************************************************************************)
EXTENDS CgroupLimits, FiniteSetTheorems, WellFoundedInduction, TLAPS

RecordType ==
    [group : Levels \cup {NoLevel}, status : {"Success", "NotCollected", "Failed"}, limit : Writable]

Walking == pc \in {"walk", "period"}

\* Record i holds a limit that was read; the period of the last one may be to come.
Read(i) == records[i].status = "Success"
Whole(i) == pc = "period" => i # Len(records)

\* Types, and where the walk is: the pair of v1 files is the only one read in two steps.
Types ==
    /\ kind \in Kinds
    /\ place \in [process : Levels, mount : Levels, namespace : Levels]
    /\ place.namespace <= place.process
    /\ limits \in [Levels -> Writable]
    /\ held \in [Levels -> SUBSET Writable] /\ \A k \in Levels : limits[k] \in held[k]
    /\ offset \in Nat /\ slash \in BOOLEAN
    /\ pc \in {"find", "walk", "period", "parse", "done"}
    /\ records \in Seq(RecordType)
    /\ summary \in [state : {"Unknown", "Unlimited", "Finite", "Incomplete"}, value : Writable]
    /\ parsed \in 0 .. Len(records)
    /\ changes \in Nat
    /\ moved \in BOOLEAN
    /\ pc = "find" => records = <<>> /\ offset = 0
    /\ Open => parsed = 0
    /\ pc = "done" => parsed = Len(records)
    /\ pc = "period" => records # <<>> /\ kind = "cpu.cfs_quota_us"
    /\ Walking => Group \in Levels \cup {NoLevel}
    /\ changes = 0 => ~moved

\* A path with a slash at its end is the mount's, before its first reading is over.
Slashed ==
    /\ slash => Walking /\ offset = 0
    /\ pc = "walk" => (slash <=> Current /\ offset = 0)
    /\ pc = "period" /\ slash => Len(records) = 1

\* The walk is of the mount alone, which is read twice.
Twice == slash \/ (records # <<>> /\ records[1].group = place.mount)

\* Otherwise the groups of the records are apart, and above the level the walk is at.
Descending ==
    Placed /\ ~Twice =>
        /\ Walking => \A i \in DOMAIN records :
                        IF Whole(i) THEN records[i].group > Group ELSE records[i].group = Group
        /\ \A i, j \in DOMAIN records : records[i].group = records[j].group => i = j

MountTwice ==
    Placed /\ Twice =>
        /\ \A i \in DOMAIN records : records[i].group = place.mount
        /\ Walking => offset = 0
        /\ ~moved => place.process = place.mount

\* The process's own group is never taken for a root without files.
FirstRead == records # <<>> => records[1].status # "NotCollected"

\* What the parser has made of the records it has taken.
Summed ==
    /\ summary.value.quota # Unlimited =>
        \E i \in 1 .. parsed : Read(i) /\ Paired(i).limit = summary.value
    /\ \A i \in 1 .. parsed : Read(i) => ~Stricter(Paired(i).limit, summary.value)
    /\ \A i \in 1 .. parsed : records[i].status = "Failed" => summary.state = "Incomplete"
-----------------------------------------------------------------------------
\* What was read of a group stood in its files, though not always together.
Stood ==
    \A i \in DOMAIN records : Read(i) =>
        /\ records[i].group \in Levels /\ Exists(records[i].group)
        /\ \E l \in held[records[i].group] : l.quota = records[i].limit.quota
        /\ \E l \in held[records[i].group] : l.period = records[i].limit.period
        /\ kind # "cpu.cfs_quota_us" => records[i].limit \in held[records[i].group]

\* A file held what it holds, unless it was written; one write changes one file of a pair.
Written ==
    /\ changes = 0 \/ (moved /\ changes <= 1) => \A k \in Levels : held[k] = {limits[k]}
    /\ ~moved => \A k \in Levels \ Matters : held[k] = {limits[k]}
    /\ kind = "cpu.cfs_quota_us" /\ changes <= 1 =>
        \A k \in Levels : \A a, b \in held[k] : Limit(a.quota, b.period) \in held[k]

Past == Stood /\ Written
-----------------------------------------------------------------------------
\* A limit is covered when it is no stricter than some limit that was in force.
Covered(l) == \E a \in attained : ~Stricter(l, a)

\* The process is below a mount whose own limit holds for it, where the reader finds it.
Due == place.mount <= place.process /\ (Placed \/ Binds(place.mount))

\* Levels the walk has still to read.
Ahead ==
    IF pc = "walk" \/ (pc = "period" /\ slash) THEN place.mount .. Group
    ELSE IF pc = "period" THEN place.mount .. Group - 1 ELSE {}

\* Levels the walk has read.
Behind == {records[i].group : i \in {i \in DOMAIN records : Read(i)}}

\* Until the process is moved, the walk is on its way up from it.
OnTheWay ==
    /\ Placed /\ ~moved /\ Walking => Group <= place.process /\ (Current => Group = place.process)
    /\ Due /\ (~moved \/ ~Placed) => \A k \in Behind : k \in place.mount .. place.process

\* The limit in force now was in force.
Witnessed == InForce(limits, place.process) \in attained

\* What the walk is about to read is covered.
AheadCovered ==
    Due => \A k \in Ahead : Exists(k) /\ (Binds(k) \/ (Current /\ k = Group)) => Covered(limits[k])

\* What was read in one file is covered.
BehindCovered ==
    Due /\ kind # "cpu.cfs_quota_us" => \A i \in DOMAIN records : Read(i) => Covered(records[i].limit)

\* So is every budget that a v1 group held while the process was below it, or that the walk
\* finds there.
HeldCovered ==
    kind = "cpu.cfs_quota_us" =>
        /\ \A k \in place.mount .. place.process : \A l \in held[k] : Covered(l)
        /\ Due => \A k \in Ahead \cup Behind : \A l \in held[k] : Covered(l)

Bounded == OnTheWay /\ Witnessed /\ AheadCovered /\ BehindCovered /\ HeldCovered
-----------------------------------------------------------------------------
\* The file of the period is in the group whose quota was read, and is there if it was.
HalfRead ==
    pc = "period" => records[Len(records)].group = Group /\ (Read(Len(records)) => Readable)

\* Levels the walk has passed.
Passed(k) ==
    CASE pc = "find" -> FALSE
      [] pc = "walk" -> k > Group
      [] pc = "period" -> k >= Group
      [] OTHER -> TRUE

\* Limits L, with the process at level p, are those of one moment.
Moment(L, p) ==
    /\ L \in [Levels -> Writable] /\ p \in place.mount .. Depth
    /\ InForce(L, p) \in attained
    /\ changes = 0 \/ pc = "find" => L = limits /\ p = place.process

\* What is to come is as it was then, on the way up from where the process was.
ToCome(L, p) ==
    /\ pc = "walk" => Group <= p /\ (Current <=> Group = p)
    /\ pc = "period" => Group <= p /\ limits[Group].period = L[Group].period
    /\ \A k \in Ahead : limits[k] = L[k]

\* What was read is as it was then, and held for the process.
WasRead(L, p) ==
    \A i \in DOMAIN records : Read(i) =>
        /\ records[i].group \in Holding(p)
        /\ records[i].limit.quota = L[records[i].group].quota
        /\ Whole(i) => records[i].limit = L[records[i].group]

\* Of what the walk has passed, nothing that held for the process is left out.
NoneLeftOut(p) ==
    \A k \in Holding(p) : Passed(k) =>
        \E i \in DOMAIN records : records[i].group = k /\ records[i].status # "NotCollected"

Snap(L, p) == Moment(L, p) /\ ToCome(L, p) /\ WasRead(L, p) /\ NoneLeftOut(p)

Consistent ==
    Placed /\ ~Twice /\ changes <= 1 => \E L \in [Levels -> Writable], p \in Levels : Snap(L, p)

\* Each limit the mount held was in force for a process in the mount's own group, if that is
\* where the walk finds it.
MountAttained ==
    Placed /\ changes <= 1 /\ (Twice \/ place.process = place.mount) /\ Exists(place.mount) =>
        \A l \in held[place.mount] : \E a \in attained : Same(a, l)

IInv ==
    /\ Types /\ Slashed /\ MountTwice /\ Descending /\ FirstRead /\ Summed /\ Past
    /\ Bounded /\ HalfRead /\ Consistent /\ MountAttained
-----------------------------------------------------------------------------
\* Limits of any quota and period.
Limits == [quota : Nat, period : Nat \ {0}]

\* The order of products does not change with a positive factor.
LEMMA FactorKeepsOrder ==
    ASSUME NEW x \in Nat, NEW y \in Nat, NEW z \in Nat \ {0}
    PROVE  x < y <=> x * z < y * z
BY SMT

\* CpuBudget's and MemoryLimit's operator< is transitive: quotas are compared over the
\* product of the periods.
LEMMA StricterTransitive ==
    ASSUME NEW a \in Limits, NEW b \in Limits, NEW c \in Limits,
           Stricter(a, b), Stricter(b, c)
    PROVE  Stricter(a, c)
<1>1. CASE c.quota = Unlimited
  BY <1>1 DEF Stricter
<1>2. CASE c.quota # Unlimited
  <2> DEFINE ab == a.quota * b.period
             ba == b.quota * a.period
             bc == b.quota * c.period
             cb == c.quota * b.period
             ac == a.quota * c.period
             ca == c.quota * a.period
  <2>1. ab < ba /\ bc < cb /\ a.quota # Unlimited
    BY <1>2 DEF Stricter, Limits, Unlimited
  <2>2. ab \in Nat /\ ba \in Nat /\ bc \in Nat /\ cb \in Nat /\ ac \in Nat /\ ca \in Nat
    BY DEF Limits
  <2>3. ab * c.period < ba * c.period
    BY <2>1, <2>2, FactorKeepsOrder DEF Limits
  <2>4. bc * a.period < cb * a.period
    BY <2>1, <2>2, FactorKeepsOrder DEF Limits
  <2>5. /\ ab * c.period = ac * b.period
        /\ ba * c.period = bc * a.period
        /\ cb * a.period = ca * b.period
    BY SMT DEF Limits
  <2>6. ac * b.period < ca * b.period
    <3> HIDE DEF ab, ba, bc, cb, ac, ca
    <3> QED BY <2>2, <2>3, <2>4, <2>5 DEF Limits
  <2>7. ac < ca
    BY <2>2, <2>6, FactorKeepsOrder DEF Limits
  <2> QED BY <1>2, <2>1, <2>7 DEF Stricter
<1> QED BY <1>1, <1>2

\* Some numbers have a least one.
LEMMA LeastNatural ==
    ASSUME NEW T, T \subseteq Nat, T # {}
    PROVE  \E n \in T : \A m \in T : n <= m
<1> DEFINE R == {p \in Nat \X Nat : p[1] < p[2]}
<1>1. IsWellFoundedOn(R, Nat)
  BY ONLY NatLessThanWellFounded DEF OpToRel
<1>2. PICK n \in T : \A m \in T : <<m, n>> \notin R
  <2> HIDE DEF R
  <2> QED BY <1>1, WFMin
<1>3. ASSUME NEW m \in T PROVE n <= m
  <2>1. <<m, n>> \in Nat \X Nat /\ <<m, n>> \notin R
    BY <1>2
  <2> QED BY <2>1
<1> QED BY <1>2, <1>3

\* Any finite set of limits has a strictest one: the one with the fewest below it.
LEMMA StrictestExists ==
    ASSUME NEW S, S \subseteq Limits, IsFiniteSet(S), S # {}
    PROVE  Strictest(S) \in S /\ \A m \in S : ~Stricter(m, Strictest(S))
<1> DEFINE Below(l) == {m \in S : Stricter(m, l)}
           T == {Cardinality(Below(l)) : l \in S}
<1>1. \A l \in S : IsFiniteSet(Below(l)) /\ Cardinality(Below(l)) \in Nat
  BY FS_Subset, FS_CardinalityType
<1>2. T \subseteq Nat /\ T # {}
  BY <1>1
<1>3. PICK n \in T : \A m \in T : n <= m
  <2> HIDE DEF T
  <2> QED BY <1>2, LeastNatural
<1>4. PICK l \in S : n = Cardinality(Below(l))
  BY <1>3
<1>5. ASSUME NEW m \in S, Stricter(m, l) PROVE FALSE
  <2>1. Below(m) \subseteq Below(l)
    BY <1>5, StricterTransitive
  <2>2. m \in Below(l) /\ m \notin Below(m)
    BY <1>5 DEF Stricter, Limits
  <2>3. Cardinality(Below(m)) < Cardinality(Below(l))
    <3>1. /\ Cardinality(Below(m)) <= Cardinality(Below(l))
          /\ Cardinality(Below(l)) = Cardinality(Below(m)) => Below(l) = Below(m)
      BY <1>1, <2>1, FS_Subset
    <3> HIDE DEF Below
    <3> QED BY <1>1, <2>2, <3>1
  <2>4. n \in Nat /\ Cardinality(Below(m)) \in Nat /\ Cardinality(Below(m)) \in T
    BY <1>1, <1>4
  <2>5. Cardinality(Below(m)) < n /\ n <= Cardinality(Below(m))
    <3> HIDE DEF Below, T
    <3> QED BY <1>3, <1>4, <2>3, <2>4
  <2> HIDE DEF T, Below
  <2> QED BY <2>4, <2>5
<1> QED BY <1>4, <1>5 DEF Strictest

\* What an administrator may write, and a limit that is not there, are limits.
LEMMA WritableLimits == Writable \subseteq Limits /\ Limit(Unlimited, 1) \in Writable
<1> USE CgroupAssumption DEF Writable, Limits, Limit, Unlimited
<1>1. CASE Cpu
  BY <1>1
<1>2. CASE ~Cpu
  BY <1>2
<1> QED BY <1>1, <1>2

\* The limit in force is one of those that hold, or none, and none of them is stricter.
LEMMA InForceStrictest ==
    ASSUME NEW lim \in [Levels -> Writable], NEW p \in Levels, place.mount \in Levels
    PROVE  /\ InForce(lim, p) \in Writable
           /\ \/ InForce(lim, p) = Limit(Unlimited, 1)
              \/ \E k \in Holding(p) : InForce(lim, p) = lim[k]
           /\ \A k \in Holding(p) : ~Stricter(lim[k], InForce(lim, p))
<1> DEFINE H == Holding(p)
           Image == {lim[k] : k \in H}
           All == Image \cup {Limit(Unlimited, 1)}
<1>1. H \subseteq Levels /\ IsFiniteSet(H)
  <2>1. place.mount \in Int /\ p \in Int /\ H \subseteq place.mount .. p
    BY CgroupAssumption DEF Holding, Levels
  <2>2. IsFiniteSet(place.mount .. p)
    BY <2>1, FS_Interval
  <2>3. IsFiniteSet(H)
    BY <2>1, <2>2, FS_Subset
  <2>4. place.mount .. p \subseteq Levels
    BY CgroupAssumption DEF Levels
  <2> QED BY <2>1, <2>3, <2>4
<1>2. IsFiniteSet(Image)
  <2> DEFINE f == [k \in H |-> lim[k]]
  <2>1. f \in Surjection(H, Image)
    <3> HIDE DEF H
    <3> QED BY DEF Surjection
  <2> HIDE DEF f, H, Image
  <2> QED BY <1>1, <2>1, FS_Surjection
<1>3. IsFiniteSet(All)
  <2> HIDE DEF Image
  <2> QED BY <1>2, FS_AddElement
<1>4. All \subseteq Writable /\ All \subseteq Limits /\ All # {}
  <2> HIDE DEF H
  <2> QED BY <1>1, WritableLimits
<1>5. Strictest(All) \in All /\ \A m \in All : ~Stricter(m, Strictest(All))
  <2> HIDE DEF All
  <2> QED BY <1>3, <1>4, StrictestExists
<1>6. InForce(lim, p) = Strictest(All)
  BY DEF InForce
<1> HIDE DEF H
<1>7. \A k \in H : lim[k] \in All
  OBVIOUS
<1>8. Strictest(All) \in Writable
  <2> HIDE DEF All
  <2> QED BY <1>4, <1>5
<1>9. Strictest(All) = Limit(Unlimited, 1) \/ \E k \in H : Strictest(All) = lim[k]
  <2>1. \A x \in All : x = Limit(Unlimited, 1) \/ \E k \in H : x = lim[k]
    OBVIOUS
  <2> HIDE DEF All
  <2> QED BY <1>5, <2>1
<1>10. \A k \in H : ~Stricter(lim[k], Strictest(All))
  <2> HIDE DEF All
  <2> QED BY <1>5, <1>7
<1> QED BY <1>6, <1>8, <1>9, <1>10 DEF H
-----------------------------------------------------------------------------
\* Nothing that is read is moved by a step, but the process.
LEMMA Fixed ==
    ASSUME Types, [Next]_vars
    PROVE  /\ UNCHANGED administered
           /\ place'.mount = place.mount /\ place'.namespace = place.namespace
           /\ ~Move => UNCHANGED place
           /\ ~Write => UNCHANGED <<limits, held>>
           /\ ~Write /\ ~Move => UNCHANGED changes
           /\ attained \subseteq attained'
<1>1. CASE UNCHANGED vars
  BY <1>1 DEF vars, world, history
<1>2. CASE Find
  BY <1>2 DEF Find, world, history
<1>3. CASE Skip
  BY <1>3 DEF Skip, world, history
<1>4. CASE ReadFile
  BY <1>4 DEF ReadFile, world, history
<1>5. CASE ReadPeriod
  BY <1>5 DEF ReadPeriod, world, history
<1>6. CASE Parse
  BY <1>6 DEF Parse, world, history
<1>7. CASE Finish
  BY <1>7 DEF Finish, world, history
<1>8. CASE Write
  BY <1>8 DEF Write, world, history
<1>9. CASE Move
  BY <1>9 DEF Move, administered, Types
<1> QED BY <1>1, <1>2, <1>3, <1>4, <1>5, <1>6, <1>7, <1>8, <1>9 DEF Next, Done

\* So the same levels hold for a process at the same level.
LEMMA HoldingFixed ==
    ASSUME Types, [Next]_vars
    PROVE  /\ \A k : Exists(k)' <=> Exists(k)
           /\ \A k : Binds(k)' <=> Binds(k)
           /\ Writable' = Writable /\ RecordType' = RecordType
           /\ \A p : Holding(p)' = Holding(p)
           /\ \A lim, p : InForce(lim, p)' = InForce(lim, p)
           /\ Holding(place.process)' = Holding(place'.process)
           /\ InForce(limits, place.process)' = InForce(limits', place'.process)
<1>1. /\ kind' = kind /\ enabled' = enabled /\ hierarchy' = hierarchy
      /\ place'.mount = place.mount
  BY Fixed DEF administered
<1>2. \A k : Exists(k)' <=> Exists(k)
  BY <1>1 DEF Exists, Unified
<1>3. \A k : Binds(k)' <=> Binds(k)
  BY <1>1 DEF Binds
<1>4. Writable' = Writable
  BY <1>1 DEF Writable, Cpu
<1>5. ASSUME NEW p PROVE Holding(p)' = Holding(p)
  BY <1>1, <1>2, <1>3 DEF Holding
<1>6. ASSUME NEW lim, NEW p PROVE InForce(lim, p)' = InForce(lim, p)
  <2> DEFINE S(H) == {lim[k] : k \in H} \cup {Limit(Unlimited, 1)}
  <2>1. InForce(lim, p) = Strictest(S(Holding(p))) /\ InForce(lim, p)' = Strictest(S(Holding(p)'))
    BY DEF InForce
  <2> QED BY <1>5, <2>1
<1>7. Holding(place.process)' = Holding(place'.process)
  BY <1>1, <1>2, <1>3 DEF Holding
<1>8. InForce(limits, place.process)' = InForce(limits', place'.process)
  BY <1>7 DEF InForce
<1> QED BY <1>2, <1>3, <1>4, <1>5, <1>6, <1>7, <1>8 DEF RecordType
-----------------------------------------------------------------------------
(* Types.                                                                  *)

\* The group at the reader's leaf, in and below the mount's directory; a mount above the
\* namespace's root has no directory of that name.
LEMMA GroupPlace ==
    ASSUME Types
    PROVE  /\ place.namespace <= place.mount => Group = place.mount + offset
           /\ ~(place.namespace <= place.mount) => Group \in {place.mount, NoLevel}
           /\ AtMount => Group = place.mount
           /\ place.mount \in Nat /\ place.namespace \in Nat /\ place.process \in Nat
           /\ place.mount \in Levels /\ place.process \in Levels
BY CgroupAssumption DEF Types, Group, Levels, AtMount

\* One level up, or the end of the walk.
LEMMA UpGroup ==
    ASSUME Types, Up, UNCHANGED place
    PROVE  /\ AtMount => pc' = "parse" /\ UNCHANGED leaf
           /\ ~AtMount => pc' = "walk" /\ offset' \in Nat /\ slash' = FALSE
           /\ ~AtMount /\ slash => Group' = Group /\ offset' = offset
           /\ ~AtMount /\ ~slash /\ place.namespace <= place.mount => Group' = Group - 1
           /\ ~AtMount /\ Walking => Group' \in Levels \cup {NoLevel}
<1>1. offset \in Nat
  BY DEF Types
<1>2. ASSUME ~AtMount, ~slash PROVE pc' = "walk" /\ slash' = FALSE /\ offset' = offset - 1 /\ offset' \in Nat
  BY <1>1, <1>2 DEF Up, AtMount
<1>3. ASSUME ~AtMount, ~slash, place.namespace <= place.mount
      PROVE  Group = place.mount + offset /\ Group' = Group - 1
  BY <1>1, <1>2, <1>3, GroupPlace DEF Group
<1>4. ASSUME ~AtMount, ~slash, ~(place.namespace <= place.mount) PROVE Group' \in {place.mount, NoLevel}
  BY <1>2, <1>4, GroupPlace DEF Group
<1>5. ASSUME ~AtMount, ~slash, Walking PROVE Group' \in Levels \cup {NoLevel}
  <2>1. CASE place.namespace <= place.mount
    <3>1. place.mount \in Nat /\ Group' = place.mount + offset - 1 /\ offset # 0
      BY <1>1, <1>3, <1>5, <2>1, GroupPlace DEF AtMount
    <3>2. Group = place.mount + offset /\ Group \in Levels \cup {NoLevel}
      BY <1>5, <2>1, GroupPlace DEF Types
    <3> QED BY <1>1, <3>1, <3>2, CgroupAssumption DEF Levels, NoLevel
  <2>2. CASE ~(place.namespace <= place.mount)
    BY <1>4, <1>5, <2>2, GroupPlace
  <2> QED BY <2>1, <2>2
<1>6. ASSUME ~AtMount, slash
      PROVE  /\ pc' = "walk" /\ slash' = FALSE /\ offset' = offset /\ offset' \in Nat
             /\ Group' = Group /\ (Walking => Group' \in Levels \cup {NoLevel})
  <2>1. pc' = "walk" /\ slash' = FALSE /\ offset' = offset
    BY <1>6 DEF Up
  <2> QED BY <1>1, <2>1 DEF Group, Types
<1> QED BY <1>2, <1>3, <1>5, <1>6 DEF Up

\* Where the walk begins.
LEMMA FindGroup ==
    ASSUME Types, Find, ~Outside
    PROVE  /\ pc' = "walk" /\ offset' \in Nat /\ slash' = (offset' = 0)
           /\ Group' \in Levels \cup {NoLevel}
           /\ Placed => Group' = place.process
<1>1. /\ pc' = "walk" /\ UNCHANGED place /\ slash' = (offset' = 0)
      /\ offset' = IF Path = 0 THEN 0 ELSE Path - Root
  BY DEF Find, world
<1>2. /\ place.mount \in Nat /\ place.namespace \in Nat /\ place.process \in Nat
      /\ place.namespace <= place.process /\ place.mount \in Levels /\ place.process \in Levels
  BY GroupPlace DEF Types
<1>3. Path \in Nat /\ Root \in Nat
  BY <1>2 DEF Path, Root
<1>4. offset' \in Nat
  BY <1>1, <1>3 DEF Outside
<1>5. CASE place.namespace <= place.mount
  <2>1. Group' = place.mount + offset'
    BY <1>1, <1>5 DEF Group
  <2>2. Group' = place.mount \/ Group' = place.process
    BY <1>1, <1>2, <1>3, <1>4, <1>5, <2>1 DEF Path, Root, Outside
  <2>3. Placed => Group' = place.process
    BY <1>1, <1>2, <1>3, <1>4, <1>5, <2>1 DEF Path, Root, Outside, Placed
  <2> QED BY <1>1, <1>2, <1>4, <2>2, <2>3
<1>6. CASE ~(place.namespace <= place.mount)
  <2>1. Group' \in {place.mount, NoLevel}
    BY <1>1, <1>2, <1>6 DEF Group
  <2> QED BY <1>1, <1>2, <1>4, <1>6, <2>1 DEF Placed
<1> QED BY <1>5, <1>6

\* What a level shows is a limit.
LEMMA SeenWritable == ASSUME Types, Walking PROVE Seen \in Writable
<1>1. CASE Readable
  <2>1. Group \in Levels
    BY <1>1 DEF Readable, Types
  <2> QED BY <1>1, <2>1 DEF Seen, Types
<1>2. CASE ~Readable
  BY <1>2, WritableLimits DEF Seen
<1> QED BY <1>1, <1>2

\* Any limit that differs from a writable one in its period, for v1's quota files.
LEMMA PeriodWritable ==
    ASSUME Cpu, NEW a \in Writable, NEW b \in Writable
    PROVE  /\ [a EXCEPT !.period = b.period] \in Writable
           /\ [a EXCEPT !.period = b.period] = Limit(a.quota, b.period)
<1>1. a.quota \in Quotas \cup {Unlimited} /\ b.period \in Periods
      /\ a = [quota |-> a.quota, period |-> a.period]
  BY DEF Writable, Limit
<1>2. [a EXCEPT !.period = b.period] = Limit(a.quota, b.period)
  BY <1>1 DEF Limit
<1>3. Limit(a.quota, b.period) \in Writable
  BY <1>1 DEF Writable
<1> QED BY <1>2, <1>3

\* Reading a period changes nothing else.
LEMMA PeriodRecord ==
    ASSUME Types, ReadPeriod
    PROVE  LET n == Len(records) IN
           /\ n \in Nat \ {0} /\ Len(records') = n
           /\ records' \in Seq(RecordType)
           /\ \A i \in 1 .. n - 1 : records'[i] = records[i]
           /\ records'[n].group = records[n].group
           /\ records'[n].status = records[n].status
           /\ records'[n].limit = Limit(records[n].limit.quota, Seen.period)
<1> DEFINE n == Len(records)
           r == records[n]
           s == [r EXCEPT !.limit.period = Seen.period]
<1>1. pc = "period" /\ records \in Seq(RecordType) /\ records # <<>> /\ Cpu
  BY DEF ReadPeriod, Types, Cpu
<1>2. n \in Nat \ {0} /\ n \in 1 .. n /\ r \in RecordType
  BY <1>1
<1>3. Seen \in Writable /\ r.limit \in Writable
  BY <1>1, <1>2, SeenWritable DEF Walking, RecordType
<1>4. r.limit = [r.limit EXCEPT !.period = r.limit.period]
  BY <1>3 DEF Writable, Limit
<1>5. s = [r EXCEPT !.limit = Limit(r.limit.quota, Seen.period)]
  BY <1>1, <1>3, PeriodWritable
<1>6. Limit(r.limit.quota, Seen.period) \in Writable
  BY <1>1, <1>3, PeriodWritable
<1>7. s \in RecordType /\ s.group = r.group /\ s.status = r.status
      /\ s.limit = Limit(r.limit.quota, Seen.period)
  BY <1>2, <1>5, <1>6 DEF RecordType
<1>8. records' = [records EXCEPT ![n] = s]
  BY DEF ReadPeriod
<1>9. /\ records' \in Seq(RecordType) /\ Len(records') = n /\ records'[n] = s
      /\ \A i \in 1 .. n - 1 : records'[i] = records[i]
  <2> HIDE DEF s
  <2> QED BY <1>1, <1>2, <1>7, <1>8
<1> HIDE DEF s
<1> QED BY <1>2, <1>7, <1>9

\* Reading a level adds one record.
LEMMA AddedRecord ==
    ASSUME Types, ReadFile
    PROVE  LET n == Len(records) IN
           /\ n \in Nat /\ Len(records') = n + 1 /\ records' # <<>>
           /\ records' \in Seq(RecordType)
           /\ \A i \in 1 .. n : records'[i] = records[i]
           /\ records'[n + 1] = Record(Status, Seen)
<1>1. Seen \in Writable /\ Group \in Levels \cup {NoLevel} /\ records \in Seq(RecordType)
  BY SeenWritable DEF Types, ReadFile, Walking
<1>2. Record(Status, Seen) \in RecordType
  BY <1>1 DEF Record, RecordType, Status
<1>3. records' = Append(records, Record(Status, Seen))
  BY DEF ReadFile
<1> HIDE DEF Record
<1> QED BY <1>1, <1>2, <1>3

\* The parser joins what was read of one group.
LEMMA PairedRecord ==
    ASSUME Types, NEW i \in DOMAIN records
    PROVE  /\ Paired(i) \in RecordType
           /\ Paired(i).group = records[i].group /\ Paired(i).status = records[i].status
           /\ ~Read(i) \/ kind # "cpu.cfs_quota_us" => Paired(i) = records[i]
           /\ Read(i) =>
                \E j \in ReadOf(records[i].group) :
                    Paired(i).limit = Limit(records[i].limit.quota, records[j].limit.period)
<1>1. /\ records \in Seq(RecordType) /\ DOMAIN records \subseteq Nat
      /\ \A j \in DOMAIN records : records[j] \in RecordType /\ records[j].limit \in Writable
  <2>1. records \in Seq(RecordType)
    BY DEF Types
  <2>2. \A j \in DOMAIN records : records[j] \in RecordType
    BY <2>1
  <2> QED BY <2>1, <2>2 DEF RecordType
<1>2. CASE ~Read(i)
  BY <1>1, <1>2 DEF Paired, Read
<1>3. CASE Read(i) /\ kind # "cpu.cfs_quota_us"
  <2>1. Paired(i) = records[i] /\ i \in ReadOf(records[i].group)
    BY <1>3 DEF Paired, Read, ReadOf
  <2>2. records[i].limit = Limit(records[i].limit.quota, records[i].limit.period)
    BY <1>1 DEF Writable, Limit
  <2> QED BY <1>1, <1>3, <2>1, <2>2
<1>4. CASE Read(i) /\ kind = "cpu.cfs_quota_us"
  <2> DEFINE S == ReadOf(records[i].group)
             first == CHOOSE j \in S : \A m \in S : j <= m
             s == [records[i] EXCEPT !.limit.period = records[first].limit.period]
  <2>1. S \subseteq DOMAIN records /\ i \in S
    BY <1>4 DEF ReadOf, Read
  <2>2. \E j \in S : \A m \in S : j <= m
    <3> HIDE DEF S
    <3> QED BY <1>1, <2>1, LeastNatural
  <2>3. first \in S
    <3> HIDE DEF S
    <3> QED BY <2>2
  <2>4. Paired(i) = s
    BY <1>4 DEF Paired, Read
  <2> HIDE DEF first, S
  <2>5. first \in DOMAIN records /\ Cpu
    BY <1>4, <2>1, <2>3 DEF Cpu
  <2>6. /\ [records[i].limit EXCEPT !.period = records[first].limit.period] \in Writable
        /\ [records[i].limit EXCEPT !.period = records[first].limit.period]
             = Limit(records[i].limit.quota, records[first].limit.period)
    BY <1>1, <2>5, PeriodWritable
  <2>7. s = [records[i] EXCEPT !.limit = Limit(records[i].limit.quota, records[first].limit.period)]
    BY <2>6
  <2>8. /\ s \in RecordType /\ s.group = records[i].group /\ s.status = records[i].status
        /\ s.limit = Limit(records[i].limit.quota, records[first].limit.period)
    BY <1>1, <2>6, <2>7 DEF RecordType
  <2> QED BY <1>4, <2>3, <2>4, <2>8 DEF S
<1> QED BY <1>2, <1>3, <1>4

\* What the parser joins does not change with the walk over.
LEMMA PairedFixed ==
    ASSUME UNCHANGED <<records, kind>>
    PROVE  \A i : Paired(i)' = Paired(i)
BY DEF Paired, ReadOf

\* Taking a record leaves a summary.
LEMMA TakenSummary ==
    ASSUME NEW sum \in [state : {"Unknown", "Unlimited", "Finite", "Incomplete"}, value : Writable],
           NEW record \in RecordType
    PROVE  /\ Taken(sum, record) \in [state : {"Unknown", "Unlimited", "Finite", "Incomplete"}, value : Writable]
           /\ record.status = "Failed" => Taken(sum, record).state = "Incomplete"
           /\ sum.state = "Incomplete" => Taken(sum, record).state = "Incomplete"
           /\ \/ record.status # "Success" \/ record.limit.quota = Unlimited
                 \/ ~Stricter(record.limit, sum.value)
              \/ Taken(sum, record).value = record.limit
           /\ \/ Taken(sum, record).value = sum.value
              \/ /\ Taken(sum, record).value = record.limit
                 /\ record.status = "Success" /\ Stricter(record.limit, sum.value)
<1> HIDE DEF Stricter
<1>1. CASE record.status = "NotCollected"
  BY <1>1 DEF Taken
<1>2. CASE record.status = "Failed"
  BY <1>2 DEF Taken
<1>3. CASE record.status = "Success" /\ record.limit.quota = Unlimited
  BY <1>3 DEF Taken
<1>4. CASE record.status = "Success" /\ record.limit.quota # Unlimited
  <2>1. Taken(sum, record) = Adopted(sum, record.limit) /\ record.limit \in Writable
    BY <1>4 DEF Taken, RecordType
  <2> QED BY <1>4, <2>1 DEF Adopted
<1> QED BY <1>1, <1>2, <1>3, <1>4 DEF RecordType

\* Types are preserved.
LEMMA NextTypes == ASSUME Types, [Next]_vars PROVE Types'
<1>0. /\ Writable' = Writable /\ RecordType' = RecordType /\ UNCHANGED kind
      /\ place'.mount = place.mount /\ place'.namespace = place.namespace
  BY Fixed, HoldingFixed DEF administered
<1>1. CASE UNCHANGED vars
  BY <1>0, <1>1 DEF vars, world, leaf, parser, history, Types, Open, Walking, Group
<1>2. CASE Find
  <2>1. /\ UNCHANGED <<place, moved, limits, records, parsed, summary, changes, held>>
        /\ records = <<>> /\ offset = 0 /\ parsed = 0 /\ offset \in Nat /\ slash \in BOOLEAN
    BY <1>2 DEF Find, world, parser, history, Types, Open
  <2>2. CASE Outside
    BY <1>0, <1>2, <2>1, <2>2 DEF Find, leaf, Types, Open, Walking
  <2>3. CASE ~Outside
    BY <1>0, <1>2, <2>1, <2>3, FindGroup DEF Types, Open, Walking
  <2> QED BY <2>2, <2>3
<1>3. CASE Skip
  <2>1. /\ UNCHANGED <<place, moved, limits, records, parsed, summary, changes, held>>
        /\ Up /\ pc = "walk" /\ parsed = 0 /\ Walking
    BY <1>3 DEF Skip, world, parser, history, Types, Open, Walking
  <2> QED BY <1>0, <2>1, UpGroup DEF Types, leaf, Open, Walking
<1>4. CASE ReadFile
  <2>1. /\ UNCHANGED <<place, moved, limits, parsed, summary, changes, held>>
        /\ pc = "walk" /\ parsed = 0 /\ Walking
    BY <1>4 DEF ReadFile, world, parser, history, Types, Open, Walking
  <2>2. records' \in Seq(RecordType) /\ records' # <<>> /\ parsed' \in 0 .. Len(records')
    BY <1>4, <2>1, AddedRecord
  <2>3. CASE kind = "cpu.cfs_quota_us"
    <3>1. pc' = "period" /\ UNCHANGED <<offset, slash>>
      BY <1>4, <2>3 DEF ReadFile, leaf
    <3>2. Group' = Group
      BY <2>1, <3>1 DEF Group
    <3> QED BY <1>0, <2>1, <2>2, <2>3, <3>1, <3>2 DEF Types, Open, Walking
  <2>4. CASE kind # "cpu.cfs_quota_us"
    <3>1. Up
      BY <1>4, <2>4 DEF ReadFile
    <3> QED BY <1>0, <2>1, <2>2, <3>1, UpGroup DEF Types, leaf, Open, Walking
  <2> QED BY <2>3, <2>4
<1>5. CASE ReadPeriod
  <2>1. /\ UNCHANGED <<place, moved, limits, parsed, summary, changes, held>>
        /\ pc = "period" /\ parsed = 0 /\ Walking /\ Up
    BY <1>5 DEF ReadPeriod, world, parser, history, Types, Open, Walking
  <2>2. records' \in Seq(RecordType) /\ records' # <<>> /\ parsed' \in 0 .. Len(records')
    BY <1>5, <2>1, PeriodRecord
  <2> QED BY <1>0, <2>1, <2>2, UpGroup DEF Types, leaf, Open, Walking
<1>6. CASE Parse
  <2>1. /\ UNCHANGED <<place, moved, limits, offset, slash, pc, records, changes, held>>
        /\ pc = "parse" /\ parsed < Len(records) /\ parsed' = parsed + 1
        /\ summary' = Taken(summary, Paired(parsed + 1))
    BY <1>6 DEF Parse, world, leaf, history
  <2>2. Paired(parsed + 1) \in RecordType /\ parsed' \in 0 .. Len(records)
    BY <2>1, PairedRecord DEF Types
  <2>3. summary' \in [state : {"Unknown", "Unlimited", "Finite", "Incomplete"}, value : Writable]
    BY <2>1, <2>2, TakenSummary DEF Types
  <2> QED BY <1>0, <2>1, <2>2, <2>3 DEF Types, Open, Walking
<1>7. CASE Finish
  BY <1>0, <1>7 DEF Finish, world, leaf, parser, history, Types, Open, Walking
<1>8. CASE Write
  <2>1. /\ UNCHANGED <<place, moved, offset, slash, pc, records, parsed, summary>>
        /\ changes' = changes + 1
    BY <1>8 DEF Write, world, leaf, parser, Types
  <2>2. /\ limits' \in [Levels -> Writable] /\ held' \in [Levels -> SUBSET Writable]
        /\ \A k \in Levels : limits'[k] \in held'[k]
    <3>1. PICK k \in Levels, l \in Writable :
             limits' = [limits EXCEPT ![k] = l] /\ held' = [held EXCEPT ![k] = @ \cup {l}]
      BY <1>8 DEF Write, Matters
    <3> QED BY <3>1 DEF Types
  <2>3. Group' = Group
    BY <2>1 DEF Group
  <2> QED BY <1>0, <2>1, <2>2, <2>3 DEF Types, Open, Walking
<1>9. CASE Move
  <2>1. PICK q \in (place.mount .. Depth) \ {place.process} : place' = [place EXCEPT !.process = q]
    BY <1>9 DEF Move
  <2>2. /\ UNCHANGED <<limits, held, offset, slash, pc, records, parsed, summary>>
        /\ changes' = changes + 1 /\ moved' = TRUE /\ Placed
    BY <1>9 DEF Move, leaf, parser
  <2>3. q \in Levels /\ place.namespace <= q
    <3>1. place.mount \in Nat /\ place.namespace \in Nat /\ place.namespace <= place.mount
      BY <2>2, GroupPlace DEF Placed
    <3> QED BY <3>1, CgroupAssumption DEF Levels
  <2>4. place' \in [process : Levels, mount : Levels, namespace : Levels] /\ place'.namespace <= place'.process
    BY <2>1, <2>3 DEF Types
  <2>5. Group' = Group
    BY <1>0, <2>2 DEF Group
  <2> QED BY <1>0, <2>2, <2>4, <2>5 DEF Types, Open, Walking
<1> QED BY <1>1, <1>2, <1>3, <1>4, <1>5, <1>6, <1>7, <1>8, <1>9 DEF Next, Done
-----------------------------------------------------------------------------
(* The parser's summary.                                                   *)

\* The summary is preserved.
LEMMA NextSummed == ASSUME Types, Summed, [Next]_vars PROVE Summed'
<1>1. ASSUME parsed = 0, UNCHANGED <<parsed, summary>> PROVE Summed'
  <2>1. summary.value.quota = Unlimited /\ 1 .. parsed' = {}
    BY <1>1 DEF Summed
  <2> QED BY <1>1, <2>1 DEF Summed
<1>0. UNCHANGED kind
  BY Fixed DEF administered
<1>2. ASSUME UNCHANGED <<parsed, summary, records>> PROVE Summed'
  BY <1>0, <1>2, PairedFixed DEF Summed, Read
<1>3. CASE Find \/ Skip \/ ReadFile \/ ReadPeriod
  BY <1>1, <1>3 DEF Find, Skip, ReadFile, ReadPeriod, parser, Types, Open
<1>4. CASE UNCHANGED vars \/ Finish \/ Write \/ Move
  BY <1>2, <1>4 DEF vars, Finish, Write, Move, parser
<1>5. CASE Parse
  <2> DEFINE r == Paired(parsed + 1)
             v == summary.value
             w == summary'.value
  <2>1. /\ parsed < Len(records) /\ parsed' = parsed + 1 /\ UNCHANGED records
        /\ summary' = Taken(summary, r) /\ \A i : Paired(i)' = Paired(i)
    BY <1>0, <1>5, PairedFixed DEF Parse
  <2>2. /\ parsed \in Nat /\ parsed + 1 \in 1 .. Len(records)
        /\ \A i \in 1 .. parsed' : i \in 1 .. parsed \/ i = parsed + 1
        /\ \A i \in 1 .. parsed : i \in 1 .. parsed' /\ i \in DOMAIN records
        /\ parsed + 1 \in 1 .. parsed' /\ parsed + 1 \in DOMAIN records
    BY <2>1 DEF Types
  <2>3. /\ \A i \in 1 .. parsed : Paired(i) \in RecordType
        /\ r \in RecordType /\ r.status = records[parsed + 1].status
    BY <2>2, PairedRecord
  <2>4. /\ r.status = "Failed" => summary'.state = "Incomplete"
        /\ summary.state = "Incomplete" => summary'.state = "Incomplete"
        /\ \/ r.status # "Success" \/ r.limit.quota = Unlimited \/ ~Stricter(r.limit, v)
           \/ w = r.limit
        /\ \/ w = v
           \/ w = r.limit /\ r.status = "Success" /\ Stricter(r.limit, v)
    <3> HIDE DEF r
    <3> QED BY <2>1, <2>3, TakenSummary DEF Types
  <2>5. v \in Limits /\ r.limit \in Limits
    BY <2>3, WritableLimits DEF Types, RecordType
  <2>6. w.quota # Unlimited => \E i \in 1 .. parsed' : Read(i)' /\ Paired(i)'.limit = w
    <3>1. CASE w = v
      BY <2>1, <2>2, <3>1 DEF Summed, Read
    <3>2. CASE w = r.limit /\ r.status = "Success"
      BY <2>1, <2>2, <2>3, <3>2 DEF Read
    <3> QED BY <2>4, <3>1, <3>2
  <2>7. ASSUME NEW i \in 1 .. parsed', Read(i)' PROVE ~Stricter(Paired(i)'.limit, w)
    <3>1. CASE i = parsed + 1
      <4>1. Paired(i)'.limit = r.limit /\ r.status = "Success"
        BY <2>1, <2>3, <2>7, <3>1 DEF Read
      <4>2. ~Stricter(r.limit, r.limit)
        BY <2>5 DEF Stricter, Limits, Unlimited
      <4>3. r.limit.quota = Unlimited => ~Stricter(r.limit, w)
        BY DEF Stricter
      <4> HIDE DEF r, v, w
      <4> QED BY <2>4, <4>1, <4>2, <4>3
    <3>2. CASE i \in 1 .. parsed
      <4>1. ~Stricter(Paired(i).limit, v) /\ Paired(i)' = Paired(i)
        BY <2>1, <2>7, <3>2 DEF Summed, Read
      <4>2. Paired(i).limit \in Limits
        BY <2>3, <3>2, WritableLimits DEF RecordType
      <4>3. ASSUME w = r.limit, Stricter(r.limit, v), Stricter(Paired(i).limit, w) PROVE FALSE
        <5>1. Stricter(Paired(i).limit, r.limit)
          BY <4>3
        <5>2. Stricter(Paired(i).limit, v)
          <6> HIDE DEF r, v
          <6> QED BY <2>5, <4>2, <4>3, <5>1, StricterTransitive
        <5> QED BY <4>1, <5>2
      <4> HIDE DEF r, v, w
      <4> QED BY <2>4, <4>1, <4>3
    <3> QED BY <2>2, <2>7, <3>1, <3>2
  <2>8. ASSUME NEW i \in 1 .. parsed', records'[i].status = "Failed" PROVE summary'.state = "Incomplete"
    <3>1. CASE i = parsed + 1
      BY <2>1, <2>3, <2>4, <2>8, <3>1
    <3>2. CASE i \in 1 .. parsed
      BY <2>1, <2>4, <2>8, <3>2 DEF Summed
    <3> QED BY <2>2, <2>8, <3>1, <3>2
  <2> QED BY <2>6, <2>7, <2>8 DEF Summed
<1> QED BY <1>3, <1>4, <1>5 DEF Next, Done
-----------------------------------------------------------------------------
(* Where the walk is.                                                      *)

\* The walk of a process that the mount shows goes from level to level.
LEMMA PlacedGroup ==
    ASSUME Types, Placed
    PROVE  /\ place.namespace <= place.mount /\ place.mount <= place.process
           /\ place.mount \in Nat /\ offset \in Nat
           /\ Group = place.mount + offset /\ Group \in Nat /\ place.mount <= Group
           /\ Group = place.mount <=> offset = 0
           /\ ~slash => (AtMount <=> Group = place.mount)
BY GroupPlace DEF Types, Placed, AtMount

\* Whether a process is one the mount shows does not change.
LEMMA PlacedFixed == ASSUME Types, [Next]_vars PROVE Placed' <=> Placed
<1>1. CASE Move
  <2>1. PICK q \in (place.mount .. Depth) \ {place.process} : place' = [place EXCEPT !.process = q]
    BY <1>1 DEF Move
  <2>2. place'.process = q /\ place.mount <= q
    BY <2>1, GroupPlace, CgroupAssumption DEF Types
  <2> QED BY <1>1, <2>2, Fixed DEF Placed, Move
<1>2. CASE ~Move
  BY <1>2, Fixed DEF Placed
<1> QED BY <1>1, <1>2

\* The slash is gone with the first reading.
LEMMA NextSlashed == ASSUME Types, Slashed, [Next]_vars PROVE Slashed'
<1>1. CASE UNCHANGED vars \/ Write \/ Move
  <2>1. UNCHANGED <<offset, slash, pc, records>>
    BY <1>1 DEF vars, leaf, Write, Move
  <2> QED BY <2>1 DEF Slashed, Walking, Current
<1>2. CASE Find
  <2>1. ~slash /\ records' = <<>>
    BY <1>2 DEF Find, Slashed, Walking, Types
  <2>2. CASE Outside
    BY <1>2, <2>1, <2>2 DEF Find, leaf, Slashed
  <2>3. CASE ~Outside
    BY <1>2, <2>1, <2>3 DEF Find, Slashed, Walking, Current
  <2> QED BY <2>2, <2>3
<1>3. ASSUME Up, UNCHANGED place, Walking, records' # <<>> PROVE Slashed'
  <2>1. CASE AtMount
    BY <1>3, <2>1, UpGroup DEF AtMount, Slashed, leaf
  <2>2. CASE ~AtMount
    BY <1>3, <2>2, UpGroup DEF Slashed, Current
  <2> QED BY <2>1, <2>2
<1>4. CASE Skip
  <2>1. Up /\ UNCHANGED place /\ Walking /\ records' # <<>>
    BY <1>4 DEF Skip, world, Walking, Current
  <2> QED BY <1>3, <2>1
<1>5. CASE ReadFile
  <2>1. UNCHANGED place /\ pc = "walk" /\ records' # <<>> /\ (slash => Len(records') = 1)
    BY <1>5, AddedRecord DEF ReadFile, world, Slashed, Current
  <2>2. CASE Up
    BY <1>3, <2>1, <2>2 DEF Walking
  <2>3. CASE pc' = "period" /\ UNCHANGED leaf
    BY <2>1, <2>3 DEF Slashed, leaf, Walking
  <2> QED BY <1>5, <2>2, <2>3 DEF ReadFile
<1>6. CASE ReadPeriod
  <2>1. Up /\ UNCHANGED place /\ Walking /\ records' # <<>>
    BY <1>6, PeriodRecord DEF ReadPeriod, world, Walking
  <2> QED BY <1>3, <2>1
<1>7. CASE Parse \/ Finish
  <2>1. ~slash /\ UNCHANGED slash /\ pc' # "walk" /\ pc' # "period"
    BY <1>7 DEF Parse, Finish, leaf, Slashed, Walking
  <2> QED BY <2>1 DEF Slashed
<1> QED BY <1>1, <1>2, <1>4, <1>5, <1>6, <1>7 DEF Next, Done

\* Whether the mount is read twice is settled when the walk begins.
LEMMA TwiceFixed ==
    ASSUME Types, Slashed, MountTwice, Placed, [Next]_vars, ~Find
    PROVE  Twice' <=> Twice
<1>0. place'.mount = place.mount
  BY Fixed
<1>1. CASE UNCHANGED vars \/ Write \/ Move \/ Parse \/ Finish
  <2>1. UNCHANGED <<slash, records>>
    BY <1>1 DEF vars, leaf, Write, Move, Parse, Finish
  <2> QED BY <1>0, <2>1 DEF Twice
<1>2. ASSUME Up, UNCHANGED place PROVE ~slash'
  <2>1. AtMount => ~slash /\ UNCHANGED slash
    BY <1>2, UpGroup DEF AtMount, leaf
  <2> QED BY <1>2, <2>1, UpGroup
<1>3. CASE Skip
  <2>1. ~slash /\ ~slash' /\ UNCHANGED records
    BY <1>2, <1>3 DEF Skip, world, Slashed
  <2> QED BY <1>0, <2>1 DEF Twice
<1>4. CASE ReadFile
  <2>1. slash' => slash
    BY <1>2, <1>4 DEF ReadFile, world, leaf
  <2>2. CASE Current
    <3>1. records' # <<>> /\ records'[1].group = Group
      BY <1>4, <2>2, AddedRecord DEF Current, Record
    <3>2. slash <=> Group = place.mount
      BY <1>4, <2>2, PlacedGroup DEF Slashed, ReadFile
    <3> QED BY <1>0, <2>1, <2>2, <3>1, <3>2 DEF Twice, Current
  <2>3. CASE ~Current
    <3>1. ~slash /\ records # <<>>
      BY <1>4, <2>3 DEF Slashed, ReadFile, Current
    <3>2. 1 \in 1 .. Len(records)
      BY <3>1 DEF Types
    <3>3. records'[1] = records[1] /\ records' # <<>>
      BY <1>4, <3>2, AddedRecord
    <3> QED BY <1>0, <2>1, <3>1, <3>3 DEF Twice
  <2> QED BY <2>2, <2>3
<1>5. CASE ReadPeriod
  <2>1. ~slash' /\ records # <<>> /\ records' # <<>>
    BY <1>2, <1>5, PeriodRecord DEF ReadPeriod, world, Types
  <2>2. records'[1].group = records[1].group /\ 1 \in DOMAIN records
    BY <1>5, PeriodRecord DEF Types
  <2>3. slash => records[1].group = place.mount
    BY <2>2 DEF MountTwice, Twice
  <2> QED BY <1>0, <2>1, <2>2, <2>3 DEF Twice
<1> QED BY <1>1, <1>3, <1>4, <1>5 DEF Next, Done

\* The walk of the mount alone stays there.
LEMMA NextMountTwice == ASSUME Types, Slashed, MountTwice, [Next]_vars PROVE MountTwice'
<1> SUFFICES ASSUME Placed', Twice'
             PROVE  /\ \A i \in DOMAIN records' : records'[i].group = place.mount
                    /\ Walking' => offset' = 0
                    /\ ~moved' => place'.process = place.mount
  BY Fixed DEF MountTwice
<1>0. Placed
  BY PlacedFixed
<1>1. CASE Find
  <2>1. records' = <<>> /\ slash' /\ ~slash
    BY <1>1 DEF Find, Types, Twice, Slashed, Walking
  <2>2. ~Outside
    BY <1>1, <2>1 DEF Find, leaf
  <2>3. offset' = 0 /\ Group' = place.process /\ UNCHANGED place
    BY <1>0, <1>1, <2>1, <2>2, FindGroup DEF Find, world
  <2>4. place.process = place.mount
    BY <1>0, <2>3, PlacedGroup DEF Group
  <2> QED BY <2>1, <2>3, <2>4
<1>2. CASE ~Find
  <2>1. Twice
    BY <1>0, <1>2, TwiceFixed
  <2>2. /\ \A i \in DOMAIN records : records[i].group = place.mount
        /\ Walking => offset = 0 /\ Group = place.mount
        /\ ~moved => place.process = place.mount
    BY <1>0, <2>1, PlacedGroup DEF MountTwice
  <2>3. \A i \in DOMAIN records' : records'[i].group = place.mount
    <3>1. CASE ReadFile
      <4>1. /\ DOMAIN records = 1 .. Len(records) /\ DOMAIN records' = 1 .. Len(records) + 1
            /\ \A i \in DOMAIN records' : i \in DOMAIN records \/ i = Len(records) + 1
        BY <3>1, AddedRecord DEF Types
      <4>2. records'[Len(records) + 1].group = place.mount
        BY <2>2, <3>1, AddedRecord DEF Record, ReadFile, Walking
      <4> QED BY <2>2, <3>1, <4>1, <4>2, AddedRecord
    <3>2. CASE ReadPeriod
      <4>1. /\ DOMAIN records' = DOMAIN records /\ DOMAIN records = 1 .. Len(records)
            /\ \A i \in DOMAIN records : i \in 1 .. Len(records) - 1 \/ i = Len(records)
        BY <3>2, PeriodRecord DEF Types
      <4> QED BY <2>2, <3>2, <4>1, PeriodRecord
    <3>3. CASE UNCHANGED records
      BY <2>2, <3>3
    <3> QED BY <1>2, <3>1, <3>2, <3>3 DEF Next, Find, Skip, Parse, Finish, Write, Move, Done, vars
  <2>4. Walking' => offset' = 0
    <3>1. CASE UNCHANGED <<pc, offset>>
      BY <2>2, <3>1 DEF Walking
    <3>2. CASE Walking /\ Up /\ UNCHANGED place
      <4>1. AtMount => pc' = "parse"
        BY <3>2, UpGroup
      <4>2. ~AtMount => slash
        BY <2>2, <3>2 DEF AtMount
      <4> QED BY <2>2, <3>2, <4>1, <4>2, UpGroup DEF Walking
    <3>3. CASE ReadFile /\ UNCHANGED leaf
      BY <2>2, <3>3 DEF ReadFile, leaf, Walking
    <3> QED BY <1>2, <3>1, <3>2, <3>3
         DEF Next, Skip, ReadFile, ReadPeriod, Parse, Finish, Write, Move, Done, vars, leaf, world, Walking
  <2>5. ~moved' => place'.process = place.mount
    <3>1. CASE Move
      BY <3>1 DEF Move
    <3>2. CASE ~Move
      <4>1. UNCHANGED <<place, moved>>
        BY <3>2 DEF Next, Find, Skip, ReadFile, ReadPeriod, Parse, Finish, Write, Done, vars, world
      <4> QED BY <2>2, <4>1
    <3> QED BY <3>1, <3>2
  <2> QED BY <2>3, <2>4, <2>5
<1> QED BY <1>1, <1>2

\* The first file is the process's own group's.
LEMMA NextFirstRead == ASSUME Types, FirstRead, [Next]_vars PROVE FirstRead'
<1>1. CASE ReadFile
  <2>1. CASE Current
    <3>1. records'[1] = Record(Status, Seen) /\ Status # "NotCollected"
      BY <1>1, <2>1, AddedRecord DEF Current, Status
    <3> QED BY <3>1 DEF FirstRead, Record
  <2>2. CASE ~Current
    <3>1. 1 \in 1 .. Len(records)
      BY <2>2 DEF Current, Types
    <3>2. records'[1] = records[1]
      BY <1>1, <3>1, AddedRecord
    <3> QED BY <2>2, <3>2 DEF FirstRead, Current
  <2> QED BY <2>1, <2>2
<1>2. CASE ReadPeriod
  <2>1. 1 \in 1 .. Len(records) /\ records # <<>>
    BY <1>2 DEF ReadPeriod, Types
  <2>2. records'[1].status = records[1].status
    BY <1>2, <2>1, PeriodRecord
  <2> QED BY <2>1, <2>2 DEF FirstRead
<1>3. CASE UNCHANGED records
  BY <1>3 DEF FirstRead
<1> QED BY <1>1, <1>2, <1>3 DEF Next, Find, Skip, Parse, Finish, Write, Move, Done, vars

\* The walk leaves records of ever higher groups, when the mount is read once.
LEMMA DescendingGroups ==
    ASSUME Types, Slashed, MountTwice, Descending, [Next]_vars, Placed', ~Twice', Walking',
           NEW i \in DOMAIN records'
    PROVE  IF Whole(i)' THEN records'[i].group > Group' ELSE records'[i].group = Group'
<1>2. CASE Find
  <2>1. records' = <<>>
    BY <1>2 DEF Find, Types
  <2> QED BY <2>1
<1> SUFFICES ASSUME ~Find PROVE IF Whole(i)' THEN records'[i].group > Group' ELSE records'[i].group = Group'
  BY <1>2
<1>0. /\ Placed /\ Group \in Nat /\ ~slash
      /\ \A j \in DOMAIN records :
            Walking => IF Whole(j) THEN records[j].group > Group ELSE records[j].group = Group
      /\ records \in Seq(RecordType)
      /\ \A j \in DOMAIN records : records[j].group \in Int
  <2>1. Placed
    BY PlacedFixed
  <2>3. ~Twice /\ ~slash
    BY <2>1, TwiceFixed DEF Twice
  <2>2. ASSUME NEW j \in DOMAIN records PROVE records[j].group \in Int
    <3>1. records[j] \in RecordType
      BY <2>2 DEF Types
    <3> QED BY <3>1, CgroupAssumption DEF RecordType, Levels, NoLevel
  <2> QED BY <2>1, <2>2, <2>3, PlacedGroup DEF Descending, Types
<1>1. CASE UNCHANGED vars \/ Write \/ Move
  <2>1. UNCHANGED <<offset, pc, records>>
    BY <1>1 DEF vars, leaf, Write, Move
  <2>2. Group' = Group /\ Walking
    BY <2>1, Fixed DEF Group, Walking
  <2> QED BY <1>0, <2>1, <2>2 DEF Whole
<1>3. ASSUME Walking, Up, UNCHANGED place PROVE pc' = "walk" /\ Group' = Group - 1
  BY <1>0, <1>3, UpGroup, PlacedGroup DEF Walking
<1>4. CASE Skip
  <2>1. Up /\ UNCHANGED <<place, records>> /\ pc = "walk" /\ Walking
    BY <1>4 DEF Skip, world, Walking
  <2> QED BY <1>0, <1>3, <2>1 DEF Whole
<1>5. CASE ReadFile
  <2> DEFINE n == Len(records)
  <2>1. /\ n \in Nat /\ DOMAIN records = 1 .. n /\ i \in 1 .. n + 1 /\ Len(records') = n + 1
        /\ \A j \in 1 .. n : records'[j] = records[j]
        /\ records'[n + 1].group = Group
    BY <1>5, AddedRecord DEF Types, Record
  <2>2. pc = "walk" /\ Walking /\ UNCHANGED place
    BY <1>5 DEF ReadFile, world, Walking
  <2>3. CASE Up
    BY <1>0, <1>3, <2>1, <2>2, <2>3 DEF Whole
  <2>4. CASE pc' = "period" /\ UNCHANGED leaf
    <3>1. Group' = Group
      BY <2>2, <2>4 DEF Group, leaf
    <3> QED BY <1>0, <2>1, <2>2, <2>4, <3>1 DEF Whole
  <2> QED BY <1>5, <2>3, <2>4 DEF ReadFile
<1>6. CASE ReadPeriod
  <2> DEFINE n == Len(records)
  <2>1. /\ n \in Nat \ {0} /\ DOMAIN records = 1 .. n /\ i \in 1 .. n
        /\ \A j \in 1 .. n - 1 : records'[j] = records[j]
        /\ records'[n].group = records[n].group
    BY <1>6, PeriodRecord DEF Types
  <2>2. pc = "period" /\ Walking /\ Up /\ UNCHANGED place
    BY <1>6 DEF ReadPeriod, world, Walking
  <2>3. pc' = "walk" /\ Group' = Group - 1
    BY <1>3, <2>2
  <2>4. records'[i].group = records[i].group
    BY <2>1
  <2>5. records[i].group > Group \/ records[i].group = Group
    BY <1>0, <2>1, <2>2
  <2> QED BY <1>0, <2>1, <2>3, <2>4, <2>5 DEF Whole
<1> QED BY <1>1, <1>4, <1>5, <1>6 DEF Next, Parse, Finish, Done, Walking

\* So they stay apart.
LEMMA NextDescending ==
    ASSUME Types, Slashed, MountTwice, Descending, [Next]_vars
    PROVE  Descending'
<1> SUFFICES ASSUME Placed', ~Twice', NEW i \in DOMAIN records', NEW j \in DOMAIN records',
                    records'[i].group = records'[j].group
             PROVE  i = j
  BY DescendingGroups DEF Descending
<1>1. CASE Find
  <2>1. records' = <<>>
    BY <1>1 DEF Find, Types
  <2> QED BY <2>1
<1>2. CASE ~Find
  <2>1. Placed /\ ~Twice
    BY <1>2, PlacedFixed, TwiceFixed
  <2>2. \A k, m \in DOMAIN records : records[k].group = records[m].group => k = m
    BY <2>1 DEF Descending
  <2>3. CASE UNCHANGED records
    BY <2>2, <2>3
  <2>4. CASE ReadFile
    <3>1. /\ DOMAIN records = 1 .. Len(records) /\ DOMAIN records' = 1 .. Len(records) + 1
          /\ Len(records) \in Nat
          /\ \A k \in DOMAIN records : records'[k] = records[k]
          /\ records'[Len(records) + 1].group = Group
      BY <2>4, AddedRecord DEF Types, Record
    <3>2. \A k \in DOMAIN records : records[k].group # Group
      <4>1. \A k \in DOMAIN records : records[k].group > Group
        BY <2>1, <2>4 DEF Descending, ReadFile, Walking, Whole
      <4>2. Group \in Nat
        BY <2>1, PlacedGroup
      <4> QED BY <4>1, <4>2
    <3> QED BY <2>2, <3>1, <3>2
  <2>5. CASE ReadPeriod
    <3>1. DOMAIN records' = DOMAIN records /\ DOMAIN records = 1 .. Len(records)
          /\ \A k \in DOMAIN records : k \in 1 .. Len(records) - 1 \/ k = Len(records)
      BY <2>5, PeriodRecord DEF Types
    <3>2. \A k \in DOMAIN records : records'[k].group = records[k].group
      BY <2>5, <3>1, PeriodRecord
    <3> QED BY <2>2, <3>1, <3>2
  <2> QED BY <1>2, <2>3, <2>4, <2>5 DEF Next, Find, Skip, Parse, Finish, Write, Move, Done, vars
<1> QED BY <1>1, <1>2

\* Half a pair is of the group the walk is at.
LEMMA NextHalfRead == ASSUME Types, HalfRead, [Next]_vars PROVE HalfRead'
<1> SUFFICES ASSUME pc' = "period"
             PROVE  records'[Len(records')].group = Group' /\ (Read(Len(records))' => Readable')
  BY DEF HalfRead
<1>1. ASSUME UNCHANGED offset PROVE Group' = Group /\ (Readable' <=> Readable)
  <2>1. Group' = Group
    BY <1>1, Fixed DEF Group
  <2> QED BY <2>1, HoldingFixed, Fixed DEF Readable, administered
<1>2. CASE ReadFile
  <2>1. UNCHANGED offset
    BY <1>2 DEF ReadFile, Up, leaf
  <2>2. records'[Len(records')] = Record(Status, Seen)
    BY <1>2, AddedRecord
  <2>3. Status = "Success" => Readable
    BY DEF Status
  <2> QED BY <1>1, <2>1, <2>2, <2>3 DEF Record, Read
<1>3. CASE UNCHANGED vars \/ Write \/ Move
  <2>1. UNCHANGED <<offset, pc, records>>
    BY <1>3 DEF vars, leaf, Write, Move
  <2> QED BY <1>1, <2>1 DEF HalfRead, Read
<1> QED BY <1>2, <1>3 DEF Next, Find, Skip, ReadPeriod, Up, Parse, Finish, Done
-----------------------------------------------------------------------------
(* What the files held.                                                    *)

\* The history of a level grows.
LEMMA HeldGrows ==
    ASSUME Types, [Next]_vars, NEW k \in Levels
    PROVE  held[k] \subseteq held'[k]
<1>1. CASE Write
  BY <1>1 DEF Write, Types, Matters
<1>2. CASE ~Write
  BY <1>2, Fixed
<1> QED BY <1>1, <1>2

\* What is read is in the history.
LEMMA NextStood == ASSUME Types, HalfRead, Stood, [Next]_vars PROVE Stood'
<1> DEFINE Of(k, r) ==
             /\ k \in Levels /\ Exists(k)
             /\ \E l \in held[k] : l.quota = r.limit.quota
             /\ \E l \in held[k] : l.period = r.limit.period
             /\ kind # "cpu.cfs_quota_us" => r.limit \in held[k]
<1>0. \A i \in DOMAIN records : Read(i) => Of(records[i].group, records[i])
  BY DEF Stood
<1>1. SUFFICES ASSUME NEW i \in DOMAIN records', Read(i)' PROVE Of(records'[i].group, records'[i])
  <2>1. ASSUME NEW k, NEW r, Of(k, r)
        PROVE  /\ k \in Levels /\ Exists(k)'
               /\ \E l \in held'[k] : l.quota = r.limit.quota
               /\ \E l \in held'[k] : l.period = r.limit.period
               /\ kind' # "cpu.cfs_quota_us" => r.limit \in held'[k]
    <3>1. held[k] \subseteq held'[k] /\ (Exists(k)' <=> Exists(k)) /\ kind' = kind
      BY <2>1, HeldGrows, HoldingFixed, Fixed DEF administered
    <3> QED BY <2>1, <3>1
  <2> HIDE DEF Of
  <2> QED BY <1>1, <2>1 DEF Stood
<1>2. CASE UNCHANGED records
  BY <1>0, <1>1, <1>2 DEF Read
<1>3. ASSUME Readable, Walking PROVE Of(Group, [limit |-> Seen])
  <2>1. Group \in Levels /\ Exists(Group) /\ Seen = limits[Group]
    BY <1>3 DEF Readable, Seen, Types
  <2> QED BY <2>1 DEF Types
<1>4. CASE ReadFile
  <2>0. DOMAIN records = 1 .. Len(records) /\ DOMAIN records' = 1 .. Len(records) + 1
    BY <1>4, AddedRecord DEF Types
  <2>1. /\ \A j \in DOMAIN records : records'[j] = records[j]
        /\ DOMAIN records = 1 .. Len(records) /\ i \in 1 .. Len(records) + 1 /\ Len(records) \in Nat
        /\ records'[Len(records) + 1] = Record(Status, Seen)
    BY <1>4, <2>0, AddedRecord DEF Types
  <2>2. CASE i \in DOMAIN records
    <3>1. records'[i] = records[i] /\ Read(i)
      BY <1>1, <2>1, <2>2 DEF Read
    <3> HIDE DEF Of
    <3> QED BY <1>0, <2>2, <3>1
  <2>3. CASE i = Len(records) + 1
    <3>1. Status = "Success" /\ records'[i].group = Group /\ records'[i].limit = Seen
      BY <1>1, <2>1, <2>3 DEF Record, Read
    <3>2. Readable /\ Walking
      BY <1>4, <3>1 DEF Status, ReadFile, Walking
    <3> QED BY <1>3, <3>1, <3>2
  <2> QED BY <2>1, <2>2, <2>3
<1>5. CASE ReadPeriod
  <2> DEFINE n == Len(records)
  <2>1. /\ n \in Nat \ {0} /\ DOMAIN records = 1 .. n /\ i \in 1 .. n
        /\ \A j \in 1 .. n - 1 : records'[j] = records[j]
        /\ records'[n].group = records[n].group /\ records'[n].status = records[n].status
        /\ records'[n].limit = Limit(records[n].limit.quota, Seen.period)
        /\ pc = "period" /\ kind = "cpu.cfs_quota_us"
    BY <1>5, PeriodRecord DEF Types, ReadPeriod
  <2>2. CASE i \in 1 .. n - 1
    <3>1. records'[i] = records[i] /\ Read(i) /\ i \in DOMAIN records
      BY <1>1, <2>1, <2>2 DEF Read
    <3> HIDE DEF Of
    <3> QED BY <1>0, <3>1
  <2>3. CASE i = n
    <3>1. Read(n) /\ records[n].group = Group /\ Readable /\ Walking
      BY <1>1, <2>1, <2>3 DEF Read, HalfRead, Walking
    <3>2. Of(Group, records[n]) /\ Of(Group, [limit |-> Seen])
      BY <1>0, <1>3, <2>1, <3>1
    <3>3. records'[i].limit.quota = records[n].limit.quota /\ records'[i].limit.period = Seen.period
      BY <2>1, <2>3 DEF Limit
    <3> QED BY <2>1, <2>3, <3>1, <3>2, <3>3
  <2> QED BY <2>1, <2>2, <2>3
<1> QED BY <1>2, <1>4, <1>5 DEF Next, Find, Skip, Parse, Finish, Write, Move, Done, vars

\* Budgets are pairs.
LEMMA LimitParts == ASSUME NEW l \in Writable PROVE Limit(l.quota, l.period) = l
BY DEF Writable, Limit

\* One write leaves what was held a single limit, or two that share one file.
LEMMA NextWritten == ASSUME Types, Written, [Next]_vars PROVE Written'
<1>1. CASE Write
  <2>1. PICK k \in Matters, l \in Writable :
          /\ limits' = [limits EXCEPT ![k] = l] /\ held' = [held EXCEPT ![k] = @ \cup {l}]
          /\ kind = "cpu.cfs_quota_us" => l.quota = limits[k].quota \/ l.period = limits[k].period
    BY <1>1 DEF Write
  <2>2. /\ ~moved' /\ UNCHANGED <<place, kind, enabled>> /\ changes' = changes + 1 /\ ~moved
        /\ changes \in Nat /\ k \in Levels
    BY <1>1 DEF Write, world, administered, Types, Matters
  <2>3. ASSUME NEW j \in Levels, j # k PROVE limits'[j] = limits[j] /\ held'[j] = held[j]
    BY <2>1, <2>3 DEF Types
  <2>4. \A j \in Levels \ Matters' : held'[j] = {limits'[j]}
    <3>1. Matters' = Matters
      BY <2>2, HoldingFixed DEF Matters
    <3> QED BY <2>2, <2>3, <3>1 DEF Written
  <2>5. ASSUME kind' = "cpu.cfs_quota_us", changes' <= 1,
               NEW j \in Levels, NEW a \in held'[j], NEW b \in held'[j]
        PROVE  Limit(a.quota, b.period) \in held'[j]
    <3>1. changes = 0 /\ \A m \in Levels : held[m] = {limits[m]} /\ limits[m] \in Writable
      BY <2>2, <2>5 DEF Written, Types
    <3>2. CASE j # k
      BY <2>3, <2>5, <3>1, <3>2, LimitParts
    <3>3. CASE j = k
      <4>1. held'[j] = {limits[k], l}
        BY <2>1, <2>2, <3>1, <3>3 DEF Types
      <4>2. limits[k] \in Writable /\ l \in Writable
        BY <2>2, <3>1
      <4>3. l.quota = limits[k].quota \/ l.period = limits[k].period
        BY <2>1, <2>2, <2>5
      <4> QED BY <4>1, <4>2, <4>3, LimitParts
    <3> QED BY <3>2, <3>3
  <2> QED BY <2>2, <2>4, <2>5 DEF Written
<1>2. CASE Move
  <2>1. moved' /\ changes' = changes + 1 /\ UNCHANGED <<limits, held, kind>> /\ changes \in Nat
    BY <1>2 DEF Move, administered, Types
  <2> QED BY <2>1 DEF Written
<1>3. CASE ~Write /\ ~Move
  <2>1. UNCHANGED <<place, limits, held, changes, kind, enabled, moved>>
    BY <1>3, Fixed DEF Next, Find, Skip, ReadFile, ReadPeriod, Parse, Finish, Done, vars, world, administered
  <2>2. Matters' = Matters
    BY <2>1, HoldingFixed DEF Matters
  <2> QED BY <2>1, <2>2 DEF Written
<1> QED BY <1>1, <1>2, <1>3

\* What one write leaves is not torn.
LEMMA OnceNotTorn == ASSUME Types, Stood, Written, changes <= 1 PROVE ~Torn
<1> SUFFICES ASSUME NEW i \in DOMAIN records, Read(i)
             PROVE  Paired(i).limit \in held[records[i].group]
  BY DEF Torn, Read
<1>1. CASE kind # "cpu.cfs_quota_us"
  BY <1>1, PairedRecord DEF Stood
<1>2. CASE kind = "cpu.cfs_quota_us"
  <2> DEFINE g == records[i].group
  <2>1. PICK j \in ReadOf(g) : Paired(i).limit = Limit(records[i].limit.quota, records[j].limit.period)
    BY PairedRecord
  <2>2. j \in DOMAIN records /\ records[j].group = g /\ Read(j)
    BY DEF ReadOf, Read
  <2>3. g \in Levels
    BY DEF Stood
  <2>4. PICK a \in held[g] : a.quota = records[i].limit.quota
    BY DEF Stood
  <2>5. PICK b \in held[g] : b.period = records[j].limit.period
    BY <2>2 DEF Stood
  <2>6. Limit(a.quota, b.period) \in held[g]
    BY <1>2, <2>3 DEF Written
  <2> QED BY <2>1, <2>4, <2>5, <2>6
<1> QED BY <1>1, <1>2

-----------------------------------------------------------------------------
(* The upper bound.                                                        *)

\* A limit that holds for the process is covered by the strictest of them.
LEMMA HoldsCovered ==
    ASSUME NEW lim \in [Levels -> Writable], NEW p \in Levels, place.mount \in Levels,
           NEW att, InForce(lim, p) \in att, NEW k \in Holding(p)
    PROVE  \E a \in att : ~Stricter(lim[k], a)
BY InForceStrictest

\* As long as the process was not moved, what is ahead holds for it; so does the mount's
\* own limit when the process is in a namespace below the mount.
LEMMA AheadHolds ==
    ASSUME Types, Witnessed, OnTheWay, ~Placed \/ ~moved
    PROVE  AheadCovered
<1> SUFFICES ASSUME Due, NEW k \in Ahead, Exists(k), Binds(k) \/ (Current /\ k = Group)
             PROVE  Covered(limits[k])
  BY DEF AheadCovered
<1>1. /\ place.mount \in Nat /\ place.namespace \in Nat /\ place.process \in Nat
      /\ place.mount \in Levels /\ place.process \in Levels
      /\ Walking /\ Group \in Levels \cup {NoLevel} /\ k \in place.mount .. Group
  BY GroupPlace, CgroupAssumption DEF Ahead, Walking, Types, Levels, NoLevel
<1>2. k \in place.mount .. place.process /\ (k = place.process \/ Binds(k))
  <2>1. CASE Placed
    <3>1. Group <= place.process /\ (Current => Group = place.process)
      BY <1>1, <2>1 DEF OnTheWay
    <3> QED BY <1>1, <3>1, CgroupAssumption DEF Levels, NoLevel
  <2>2. CASE ~Placed
    <3>1. ~(place.namespace <= place.mount) /\ Binds(place.mount) /\ place.mount <= place.process
      BY <2>2, <1>1 DEF Due, Placed
    <3>2. k = place.mount
      BY <1>1, <3>1, GroupPlace DEF NoLevel
    <3> QED BY <1>1, <3>1, <3>2
  <2> QED BY <2>1, <2>2
<1>3. k \in Holding(place.process)
  BY <1>2 DEF Holding
<1> QED BY <1>1, <1>3, HoldsCovered DEF Covered, Types, Witnessed

\* The process, and the limit in force for it.
LEMMA NextWitnessed == ASSUME Types, Witnessed, [Next]_vars PROVE Witnessed'
<1> USE DEF Witnessed
<1>1. CASE Write
  <2>1. InForce(limits', place.process) \in attained' /\ UNCHANGED place
    BY <1>1 DEF Write, world
  <2> QED BY <2>1, HoldingFixed
<1>2. CASE Move
  <2>1. PICK q \in (place.mount .. Depth) \ {place.process} :
           /\ place' = [place EXCEPT !.process = q]
           /\ attained' = attained \cup {InForce(limits, q)}
    BY <1>2 DEF Move
  <2>2. place'.process = q /\ limits' = limits
    BY <1>2, <2>1 DEF Move, Types
  <2> QED BY <2>1, <2>2, HoldingFixed
<1>3. CASE ~Write /\ ~Move
  <2>1. UNCHANGED <<limits, place>> /\ attained \subseteq attained'
    BY <1>3, Fixed
  <2> QED BY <2>1, HoldingFixed
<1> QED BY <1>1, <1>2, <1>3

\* A process that the reader can bound was one.
LEMMA DueFixed == ASSUME Types, [Next]_vars PROVE Due' => Due
<1>1. CASE Move
  BY <1>1, GroupPlace DEF Move, Placed, Due
<1>2. CASE ~Move
  BY <1>2, PlacedFixed, HoldingFixed, Fixed DEF Due
<1> QED BY <1>1, <1>2

\* A level that is read is one of those ahead.
LEMMA ReadableAhead ==
    ASSUME Types, pc = "walk", Readable
    PROVE  Group \in Levels /\ Group \in Ahead /\ Exists(Group)
<1>1. Group \in Levels /\ Exists(Group)
  BY DEF Types, Walking, Readable
<1>2. place.mount \in Nat /\ Group \in Nat /\ place.mount <= Group
  BY <1>1, GroupPlace, CgroupAssumption DEF Types, Levels, NoLevel, Readable
<1> QED BY <1>1, <1>2 DEF Ahead

\* A reading adds its level to those that were read.
LEMMA BehindStep ==
    ASSUME Types, [Next]_vars
    PROVE  \A k \in Behind' : k \in Behind \/ (ReadFile /\ Readable /\ k = Group)
<1>1. CASE ReadFile
  <2>1. /\ \A j \in DOMAIN records : records'[j] = records[j]
        /\ DOMAIN records = 1 .. Len(records) /\ Len(records) \in Nat
        /\ DOMAIN records' = 1 .. Len(records) + 1
        /\ records'[Len(records) + 1] = Record(Status, Seen)
    BY <1>1, AddedRecord DEF Types
  <2>2. \A j \in DOMAIN records' : j \in DOMAIN records \/ j = Len(records) + 1
    BY <2>1
  <2>3. Status = "Success" => Readable
    BY DEF Status
  <2> QED BY <1>1, <2>1, <2>2, <2>3 DEF Behind, Read, Record
<1>2. CASE ReadPeriod
  <2>1. DOMAIN records' = DOMAIN records /\ DOMAIN records = 1 .. Len(records)
        /\ \A k \in DOMAIN records : k \in 1 .. Len(records) - 1 \/ k = Len(records)
    BY <1>2, PeriodRecord DEF Types
  <2>2. \A k \in DOMAIN records : records'[k].group = records[k].group /\ records'[k].status = records[k].status
    BY <1>2, <2>1, PeriodRecord
  <2> QED BY <2>1, <2>2 DEF Behind, Read
<1>3. CASE UNCHANGED records
  BY <1>3 DEF Behind, Read
<1> QED BY <1>1, <1>2, <1>3 DEF Next, Find, Skip, Parse, Finish, Write, Move, Done, vars

\* The walk goes on upwards.
LEMMA WalkOnTheWay ==
    ASSUME Types, OnTheWay, [Next]_vars, Placed', ~moved', Walking'
    PROVE  Group' <= place'.process /\ (Current' => Group' = place'.process)
<1>0. ~Move
  BY DEF Move
<1>1. UNCHANGED place /\ Placed /\ place.namespace <= place.mount
  BY <1>0, Fixed DEF Placed
<1>2. /\ place.mount \in Nat /\ place.namespace \in Nat /\ place.process \in Nat /\ offset \in Nat
      /\ Group = place.mount + offset
  BY <1>1, GroupPlace DEF Types
<1>3. CASE Find
  <2>1. ~Outside
    BY <1>3 DEF Find, Walking
  <2> QED BY <1>1, <1>2, <1>3, <2>1, FindGroup
<1>4. CASE UNCHANGED vars \/ Write \/ Parse \/ Finish
  <2>1. UNCHANGED <<offset, records, moved>> /\ Walking
    BY <1>4 DEF vars, world, leaf, Write, Parse, Finish, Walking
  <2>2. Group' = Group /\ Current' = Current
    BY <1>1, <2>1 DEF Group, Current
  <2> QED BY <1>1, <2>1, <2>2 DEF OnTheWay
<1>5. CASE Skip
  <2>1. Up /\ Walking /\ ~Current /\ UNCHANGED <<records, moved>>
    BY <1>5 DEF Skip, world, Walking
  <2>2. (Group' = Group \/ Group' = Group - 1) /\ ~Current'
    BY <1>1, <2>1, UpGroup DEF Walking, Current
  <2> QED BY <1>1, <1>2, <2>1, <2>2 DEF OnTheWay
<1>6. CASE ReadFile \/ ReadPeriod
  <2>1. UNCHANGED moved /\ Walking
    BY <1>6 DEF ReadFile, ReadPeriod, world, Walking
  <2>2. ~Current'
    <3>1. records' # <<>>
      BY <1>6, AddedRecord, PeriodRecord
    <3> QED BY <3>1 DEF Current
  <2>3. Group' = Group \/ Group' = Group - 1
    <3>1. CASE Up
      BY <1>1, <3>1, UpGroup DEF Walking
    <3>2. CASE UNCHANGED offset
      BY <1>1, <3>2 DEF Group
    <3> QED BY <1>6, <3>1, <3>2 DEF ReadFile, ReadPeriod, leaf
  <2> QED BY <1>1, <1>2, <2>1, <2>2, <2>3 DEF OnTheWay
<1> QED BY <1>0, <1>3, <1>4, <1>5, <1>6 DEF Next, Done

\* What it reads on the way lies above the process.
LEMMA NextOnTheWay == ASSUME Types, OnTheWay, [Next]_vars PROVE OnTheWay'
<1> SUFFICES ASSUME Due', ~moved' \/ ~Placed', NEW k \in Behind'
             PROVE  k \in place'.mount .. place'.process
  BY WalkOnTheWay DEF OnTheWay
<1>1. UNCHANGED place /\ Due /\ (~moved \/ ~Placed)
  <2>1. ~Move
    BY PlacedFixed DEF Move
  <2>2. UNCHANGED <<place, moved>>
    BY <2>1 DEF Next, Find, Skip, ReadFile, ReadPeriod, Parse, Finish, Write, Done, vars, world
  <2> QED BY <2>2, PlacedFixed, DueFixed
<1>2. CASE k \in Behind
  BY <1>1, <1>2 DEF OnTheWay
<1>3. CASE ReadFile /\ Readable /\ k = Group
  <2>1. pc = "walk" /\ Walking
    BY <1>3 DEF ReadFile, Walking
  <2>2. k \in place.mount .. Group /\ place.mount \in Nat /\ place.process \in Nat
    BY <1>3, <2>1, ReadableAhead, GroupPlace DEF Ahead
  <2>3. Group <= place.process
    <3>1. CASE Placed
      BY <1>1, <2>1, <3>1 DEF OnTheWay
    <3>2. CASE ~Placed
      <4>1. Group = place.mount
        BY <1>1, <1>3, <3>2, GroupPlace DEF Due, Placed, Readable
      <4> QED BY <1>1, <4>1 DEF Due
    <3> QED BY <3>1, <3>2
  <2> QED BY <1>1, <1>3, <2>2, <2>3
<1> QED BY <1>2, <1>3, BehindStep

\* Once the walk has begun, it only leaves levels behind.
LEMMA AheadShrinks ==
    ASSUME Types, [Next]_vars, ~Find, place.namespace <= place.mount
    PROVE  /\ Ahead' \subseteq Ahead
           /\ \A k \in Ahead' : Current' /\ k = Group' => Current /\ k = Group
<1>0. /\ place'.mount = place.mount /\ place'.namespace = place.namespace
      /\ place.mount \in Nat /\ offset \in Nat /\ Group = place.mount + offset
      /\ place'.namespace <= place'.mount
  BY Fixed, GroupPlace DEF Types
<1>1. ASSUME UNCHANGED <<offset, slash, pc, records>>
      PROVE  Ahead' = Ahead /\ Group' = Group /\ Current' = Current
  BY <1>0, <1>1 DEF Ahead, Group, Current
<1>2. CASE UNCHANGED vars \/ Write \/ Move \/ Parse
  <2>1. UNCHANGED <<offset, slash, pc, records>>
    BY <1>2 DEF vars, leaf, Write, Move, Parse
  <2> QED BY <1>1, <2>1
<1>3. CASE Finish
  <2>1. Ahead' = {}
    BY <1>3 DEF Finish, Ahead
  <2> QED BY <2>1
<1>4. ASSUME Up, UNCHANGED place, pc = "walk" \/ pc = "period"
      PROVE  Ahead' = {} \/ Ahead' = place.mount .. (IF slash THEN Group ELSE Group - 1)
  <2>1. CASE AtMount
    BY <1>4, <2>1 DEF Up, Ahead
  <2>2. CASE ~AtMount
    <3>1. pc' = "walk" /\ Group' = IF slash THEN Group ELSE Group - 1
      BY <1>0, <1>4, <2>2, UpGroup
    <3> QED BY <1>0, <3>1 DEF Ahead
  <2> QED BY <2>1, <2>2
<1>5. CASE Skip
  <2>1. Up /\ UNCHANGED place /\ pc = "walk" /\ ~Current'
    BY <1>5 DEF Skip, world, Current
  <2>2. Ahead = place.mount .. Group
    BY <2>1 DEF Ahead
  <2> QED BY <1>0, <1>4, <2>1, <2>2
<1>6. CASE ReadFile
  <2>1. UNCHANGED place /\ pc = "walk" /\ ~Current'
    BY <1>6, AddedRecord DEF ReadFile, world, Current
  <2>2. Ahead = place.mount .. Group
    BY <2>1 DEF Ahead
  <2>3. CASE Up
    BY <1>0, <1>4, <2>1, <2>2, <2>3
  <2>4. CASE pc' = "period" /\ UNCHANGED leaf
    <3>1. Ahead' = place.mount .. (IF slash THEN Group ELSE Group - 1)
      BY <1>0, <2>1, <2>4 DEF Ahead, Group, leaf
    <3> QED BY <1>0, <2>1, <2>2, <3>1
  <2> QED BY <1>6, <2>3, <2>4 DEF ReadFile
<1>7. CASE ReadPeriod
  <2>1. Up /\ UNCHANGED place /\ pc = "period" /\ ~Current'
    BY <1>7, PeriodRecord DEF ReadPeriod, world, Current
  <2>2. Ahead = place.mount .. (IF slash THEN Group ELSE Group - 1)
    BY <2>1 DEF Ahead
  <2> QED BY <1>0, <1>4, <2>1, <2>2
<1> QED BY <1>2, <1>3, <1>5, <1>6, <1>7 DEF Next, Done

\* A limit that is covered stays covered.
LEMMA CoveredKept ==
    ASSUME Types, [Next]_vars, NEW l, Covered(l)
    PROVE  Covered(l)'
BY Fixed DEF Covered

\* What is ahead stays covered.
LEMMA NextAheadCovered == ASSUME Types, Bounded, [Next]_vars PROVE AheadCovered'
<1>0. Types' /\ Witnessed' /\ OnTheWay'
  BY NextTypes, NextWitnessed, NextOnTheWay DEF Bounded
<1>1. CASE ~Placed' \/ ~moved'
  <2>1. (~Placed \/ ~moved)'
    BY <1>1
  <2> QED BY <1>0, <2>1, AheadHolds, PTL
<1>2. CASE Placed' /\ moved'
  <2>1. Placed /\ UNCHANGED limits /\ place.namespace <= place.mount /\ Due
    <3>1. CASE Move
      BY <3>1, GroupPlace DEF Move, Placed, Due
    <3>2. CASE ~Move
      <4>1. UNCHANGED place /\ (Write => ~moved')
        BY <3>2, Fixed DEF Write, world
      <4> QED BY <1>2, <4>1, Fixed, GroupPlace DEF Placed, Due
    <3> QED BY <3>1, <3>2
  <2>2. SUFFICES ASSUME NEW k \in Ahead', Exists(k)', Binds(k)' \/ (Current' /\ k = Group')
                 PROVE  Covered(limits[k])'
    BY DEF AheadCovered
  <2>3. Exists(k) /\ (Binds(k) \/ (Current' /\ k = Group'))
    BY <2>2, HoldingFixed
  <2>4. CASE Find
    <3>1. ~Outside
      BY <2>2, <2>4 DEF Find, Ahead
    <3>2. Group' = place.process /\ pc' = "walk" /\ UNCHANGED <<place, attained>>
      BY <2>1, <2>4, <3>1, FindGroup DEF Find, world, history
    <3>3. k \in place.mount .. place.process
      BY <2>2, <3>2 DEF Ahead
    <3>4. k \in Holding(place.process)
      BY <2>3, <3>2, <3>3 DEF Holding
    <3>5. Covered(limits[k])
      BY <3>4, HoldsCovered, GroupPlace DEF Covered, Types, Bounded, Witnessed
    <3> QED BY <2>1, <3>2, <3>5 DEF Covered
  <2>5. CASE ~Find
    <3>1. k \in Ahead /\ (Current' /\ k = Group' => Current /\ k = Group)
      BY <2>1, <2>2, <2>5, AheadShrinks
    <3>2. Covered(limits[k])
      BY <2>1, <2>3, <3>1 DEF Bounded, AheadCovered
    <3> QED BY <2>1, <3>2, Fixed DEF Covered
  <2> QED BY <2>4, <2>5
<1> QED BY <1>1, <1>2

\* What was read stays covered, where a limit is one file.
LEMMA NextBehindCovered == ASSUME Types, Bounded, [Next]_vars PROVE BehindCovered'
<1> SUFFICES ASSUME Due', kind' # "cpu.cfs_quota_us", NEW i \in DOMAIN records', Read(i)'
             PROVE  Covered(records[i].limit)'
  BY DEF BehindCovered
<1>0. /\ Due /\ kind # "cpu.cfs_quota_us"
      /\ \A j \in DOMAIN records : Read(j) => Covered(records[j].limit)
  BY DueFixed, Fixed DEF Bounded, BehindCovered, administered
<1>1. ASSUME UNCHANGED records PROVE Covered(records[i].limit)'
  <2>1. Covered(records[i].limit)
    BY <1>0, <1>1 DEF Read
  <2> QED BY <1>1, <2>1, Fixed DEF Covered
<1>2. CASE ReadFile
  <2> DEFINE n == Len(records)
  <2>1. /\ n \in Nat /\ DOMAIN records = 1 .. n /\ i \in 1 .. n + 1
        /\ \A j \in 1 .. n : records'[j] = records[j]
        /\ records'[n + 1] = Record(Status, Seen)
    BY <1>2, AddedRecord DEF Types
  <2>2. CASE i \in 1 .. n
    <3>1. Covered(records[i].limit) /\ records'[i] = records[i]
      BY <1>0, <2>1, <2>2 DEF Read
    <3> QED BY <3>1, Fixed DEF Covered
  <2>3. CASE i = n + 1
    <3>1. Status = "Success" /\ records'[i].limit = Seen
      BY <2>1, <2>3 DEF Record, Read
    <3>2. Readable /\ Seen = limits[Group]
      BY <3>1 DEF Status, Seen
    <3>3. pc = "walk" /\ (Current \/ Binds(Group))
      BY <1>2, <3>2 DEF ReadFile, UsesHierarchy, Readable
    <3>4. Covered(limits[Group])
      BY <1>0, <3>2, <3>3, ReadableAhead DEF Bounded, AheadCovered
    <3> QED BY <3>1, <3>2, <3>4, Fixed DEF Covered
  <2> QED BY <2>1, <2>2, <2>3
<1>3. ~ReadPeriod
  BY <1>0 DEF ReadPeriod, Types
<1> QED BY <1>1, <1>2, <1>3 DEF Next, Find, Skip, Parse, Finish, Write, Move, Done, vars

\* Every budget of a v1 group holds for the processes below it.
LEMMA BudgetsHold ==
    ASSUME Types, kind = "cpu.cfs_quota_us", NEW p \in Levels
    PROVE  Holding(p) = place.mount .. p
BY DEF Holding, Exists, Binds, Unified

\* A budget held while the process was below its group was in force, or looser.
LEMMA NextHeldBelow ==
    ASSUME Types, Written, Bounded, [Next]_vars, kind = "cpu.cfs_quota_us",
           NEW k \in place'.mount .. place'.process, NEW l \in held'[k]
    PROVE  Covered(l)'
<1>0. /\ place'.mount = place.mount /\ place.mount \in Levels /\ place.process \in Levels
      /\ place.mount \in Nat /\ place.process \in Nat /\ k \in Levels
      /\ \A j \in place.mount .. place.process : \A m \in held[j] : Covered(m)
      /\ \A j \in Levels : \A m \in held[j] : Covered(m) => Covered(m)'
  <2>1. Types'
    BY NextTypes
  <2>2. place'.process \in Levels
    BY <2>1 DEF Types
  <2>3. k \in Levels
    BY <2>2, Fixed, GroupPlace, CgroupAssumption DEF Levels
  <2> QED BY <2>3, Fixed, GroupPlace, CoveredKept DEF Bounded, HeldCovered
<1>1. CASE Write
  <2>1. PICK j \in Matters, m \in Writable :
          /\ limits' = [limits EXCEPT ![j] = m] /\ held' = [held EXCEPT ![j] = @ \cup {m}]
    BY <1>1 DEF Write
  <2>2. UNCHANGED place /\ InForce(limits', place.process) \in attained'
    BY <1>1 DEF Write, world
  <2>3. CASE l \in held[k]
    BY <1>0, <2>2, <2>3
  <2>4. CASE l \notin held[k]
    <3>1. k = j /\ l = m /\ l = limits'[k]
      BY <1>0, <2>1, <2>4 DEF Types
    <3>2. k \in Holding(place.process)
      BY <1>0, <2>2, BudgetsHold
    <3>3. limits' \in [Levels -> Writable]
      BY <2>1 DEF Types
    <3> QED BY <1>0, <2>2, <3>1, <3>2, <3>3, HoldsCovered DEF Covered
  <2> QED BY <2>3, <2>4
<1>2. CASE Move
  <2>1. PICK q \in (place.mount .. Depth) \ {place.process} :
           /\ place' = [place EXCEPT !.process = q]
           /\ attained' = attained \cup {InForce(limits, q)}
    BY <1>2 DEF Move
  <2>2. /\ place'.process = q /\ q \in Levels /\ ~moved /\ place.mount <= place.process
        /\ UNCHANGED <<held, limits>>
    BY <1>0, <1>2, <2>1, CgroupAssumption DEF Move, Placed, Levels, Types
  <2>3. CASE k <= place.process
    <3>1. k \in place.mount .. place.process
      BY <1>0, <2>3, CgroupAssumption DEF Levels
    <3> QED BY <1>0, <2>2, <3>1
  <2>4. CASE k > place.process
    <3>1. k \notin Matters
      BY <1>0, <2>2, <2>4 DEF Matters
    <3>2. l = limits[k]
      BY <1>0, <2>2, <3>1 DEF Written
    <3>3. k \in Holding(q)
      BY <1>0, <2>2, BudgetsHold
    <3> QED BY <1>0, <2>1, <2>2, <3>2, <3>3, HoldsCovered DEF Covered, Types
  <2> QED BY <1>0, <2>3, <2>4, CgroupAssumption DEF Levels
<1>3. CASE ~Write /\ ~Move
  <2>1. UNCHANGED <<place, held>>
    BY <1>3, Fixed
  <2> QED BY <1>0, <2>1
<1> QED BY <1>1, <1>2, <1>3

\* What is ahead and behind lies on the way to the process, as long as it was not moved.
WithinReach == \A k \in Ahead \cup Behind : k \in place.mount .. place.process

LEMMA WalkBelow ==
    ASSUME Types, OnTheWay, Due, ~Placed \/ ~moved
    PROVE  WithinReach
<1> SUFFICES ASSUME NEW k \in Ahead PROVE k \in place.mount .. place.process
  BY DEF OnTheWay, WithinReach
<1>1. /\ place.mount \in Nat /\ place.process \in Nat
      /\ Walking /\ Group \in Int /\ k \in place.mount .. Group
  <2>1. Walking
    BY DEF Ahead, Walking
  <2>2. Group \in Int
    BY <2>1, CgroupAssumption DEF Types, Levels, NoLevel
  <2> QED BY <2>1, <2>2, GroupPlace DEF Ahead
<1>2. CASE Placed
  BY <1>1, <1>2 DEF OnTheWay
<1>3. CASE ~Placed
  <2>1. Group \in {place.mount, NoLevel} /\ place.mount <= place.process
    BY <1>3, GroupPlace DEF Due, Placed
  <2> QED BY <1>1, <2>1 DEF NoLevel
<1> QED BY <1>2, <1>3

\* Every budget of a group on the walk stays covered.
LEMMA NextHeldCovered == ASSUME Types, Written, Bounded, [Next]_vars PROVE HeldCovered'
<1> SUFFICES ASSUME kind = "cpu.cfs_quota_us", Due', NEW k \in Ahead' \cup Behind', NEW l \in held'[k]
             PROVE  Covered(l)'
  BY NextHeldBelow, Fixed DEF HeldCovered, administered
<1>1. CASE ~Placed' \/ ~moved'
  <2>1. Types' /\ OnTheWay' /\ (~Placed \/ ~moved)'
    BY <1>1, NextTypes, NextOnTheWay DEF Bounded
  <2>2. Due /\ Due'
    BY DueFixed
  <2>3. WithinReach'
    BY <2>1, <2>2, WalkBelow, PTL
  <2> QED BY <2>3, NextHeldBelow DEF WithinReach
<1>2. CASE Placed' /\ moved'
  <2>1. Placed /\ UNCHANGED held /\ place.namespace <= place.mount /\ Due
    <3>1. ~Write
      BY <1>2 DEF Write, world
    <3> QED BY <1>2, <3>1, PlacedFixed, DueFixed, Fixed DEF Placed
  <2>2. CASE k \in Ahead \cup Behind
    BY <2>1, <2>2, CoveredKept DEF Bounded, HeldCovered
  <2>3. CASE k \notin Ahead \cup Behind
    <3>1. k \in Ahead'
      <4>1. CASE k \in Behind'
        <5>1. ReadFile /\ Readable /\ k = Group
          BY <2>3, <4>1, BehindStep
        <5>2. k \in Ahead
          BY <5>1, ReadableAhead DEF ReadFile
        <5> QED BY <2>3, <5>2
      <4> QED BY <4>1
    <3>2. Find
      BY <2>1, <2>3, <3>1, AheadShrinks
    <3>3. ~Outside
      BY <3>1, <3>2 DEF Find, Ahead
    <3>4. Group' = place.process /\ pc' = "walk" /\ UNCHANGED place
      BY <2>1, <3>2, <3>3, FindGroup DEF Find, world
    <3>5. k \in place'.mount .. place'.process
      BY <3>1, <3>4 DEF Ahead
    <3> QED BY <3>5, NextHeldBelow
  <2> QED BY <2>2, <2>3
<1> QED BY <1>1, <1>2

\* The upper bound's invariant is preserved.
LEMMA NextBounded == ASSUME Types, Written, Bounded, [Next]_vars PROVE Bounded'
BY NextWitnessed, NextOnTheWay, NextAheadCovered, NextBehindCovered, NextHeldCovered DEF Bounded
-----------------------------------------------------------------------------
(* One moment of the walk.                                                 *)

\* A level where the walk is, when it has left the process's own group: the walk is past it.
LEMMA BelowOwn ==
    ASSUME Types, Placed, pc = "walk", NEW L, NEW p \in place.mount .. Depth, ToCome(L, p),
           Group \in Holding(p)
    PROVE  Current \/ Binds(Group)
BY PlacedGroup DEF ToCome, Holding

\* Reading what is to come, or reading what was read, adds nothing of another moment.
LEMMA SnapReadFile ==
    ASSUME Types, Placed, ~slash, ReadFile, [Next]_vars, NEW L, NEW p, Snap(L, p)
    PROVE  WasRead(L, p)' /\ NoneLeftOut(p)'
<1> DEFINE n == Len(records)
<1>1. /\ n \in Nat /\ DOMAIN records = 1 .. n /\ DOMAIN records' = 1 .. n + 1 /\ Len(records') = n + 1
      /\ \A j \in 1 .. n : records'[j] = records[j]
      /\ records'[n + 1] = Record(Status, Seen)
  BY AddedRecord DEF Types
<1>2. /\ pc = "walk" /\ Walking /\ UNCHANGED <<place, limits>> /\ (Current \/ UsesHierarchy(Group))
      /\ p \in place.mount .. Depth /\ (Current <=> Group = p) /\ Group <= p
      /\ L \in [Levels -> Writable]
  BY DEF ReadFile, world, Walking, Snap, Moment, ToCome
<1>3. /\ Group \in Nat /\ place.mount \in Nat /\ place.mount <= Group /\ Group \in Levels
      /\ Group # NoLevel
  BY <1>2, PlacedGroup, CgroupAssumption DEF Levels, NoLevel
<1>4. Holding(p)' = Holding(p)
  BY HoldingFixed
<1>5. /\ records'[n + 1].group = Group /\ records'[n + 1].status = Status
      /\ records'[n + 1].limit = Seen
  BY <1>1 DEF Record
<1>6. (Readable => Group \in Holding(p)) /\ (Group \in Holding(p) => Exists(Group))
  BY <1>2, <1>3, CgroupAssumption DEF Holding, Readable, UsesHierarchy
<1>7. Readable => /\ Group \in Holding(p) /\ Seen = L[Group]
  <2>1. Readable => Exists(Group) /\ Seen = limits[Group]
    BY DEF Readable, Seen
  <2>2. Group \in Ahead
    BY <1>2, <1>3 DEF Ahead
  <2> QED BY <1>6, <2>1, <2>2 DEF Snap, ToCome
<1>8. Group \in Holding(p) => Status # "NotCollected"
  BY <1>3, <1>6 DEF Status, Absent
<1>9. WasRead(L, p)'
  <2> SUFFICES ASSUME NEW i \in 1 .. n + 1, Read(i)'
               PROVE  /\ records'[i].group \in Holding(p)
                      /\ records'[i].limit = L[records'[i].group]
    BY <1>1, <1>4 DEF WasRead
  <2>1. CASE i \in 1 .. n
    BY <1>1, <1>2, <2>1 DEF Snap, WasRead, Read, Whole
  <2>2. CASE i = n + 1
    <3>1. Readable
      BY <1>5, <2>2 DEF Read, Status
    <3> QED BY <1>5, <1>7, <2>2, <3>1
  <2> QED BY <1>1, <2>1, <2>2
<1>10. NoneLeftOut(p)'
  <2> SUFFICES ASSUME NEW k \in Holding(p), Passed(k)'
               PROVE  \E i \in 1 .. n + 1 : records'[i].group = k /\ records'[i].status # "NotCollected"
    BY <1>1, <1>4 DEF NoneLeftOut
  <2>1. k \in Int /\ place.mount <= k
    BY <1>2, <1>3, CgroupAssumption DEF Holding
  <2>2. CASE k > Group
    <3>1. Passed(k)
      BY <1>2, <2>2 DEF Passed
    <3>2. PICK i \in 1 .. n : records[i].group = k /\ records[i].status # "NotCollected"
      BY <1>1, <3>1 DEF Snap, NoneLeftOut
    <3> QED BY <1>1, <3>2
  <2>3. CASE k = Group
    BY <1>1, <1>5, <1>8, <2>3
  <2>4. k >= Group
    <3>1. CASE pc' = "period" /\ UNCHANGED leaf
      <4>1. Group' = Group
        BY <1>2, <3>1 DEF Group, leaf
      <4> QED BY <2>2, <3>1, <4>1 DEF Passed
    <3>2. CASE Up /\ ~AtMount
      <4>1. Group' = Group - 1 /\ pc' = "walk"
        BY <1>2, <3>2, UpGroup, PlacedGroup
      <4> QED BY <1>3, <2>1, <4>1 DEF Passed
    <3>3. CASE AtMount
      BY <2>1, <1>3, <3>3, PlacedGroup
    <3> QED BY <3>1, <3>2, <3>3 DEF ReadFile
  <2> QED BY <1>3, <2>1, <2>2, <2>3, <2>4
<1> QED BY <1>9, <1>10

\* The period of a pair is of the moment its quota is of.
LEMMA SnapReadPeriod ==
    ASSUME Types, HalfRead, Placed, ~slash, ReadPeriod, [Next]_vars, NEW L, NEW p, Snap(L, p)
    PROVE  WasRead(L, p)' /\ NoneLeftOut(p)'
<1> DEFINE n == Len(records)
<1>1. /\ n \in Nat \ {0} /\ DOMAIN records = 1 .. n /\ DOMAIN records' = 1 .. n /\ Len(records') = n
      /\ \A j \in 1 .. n - 1 : records'[j] = records[j]
      /\ records'[n].group = records[n].group /\ records'[n].status = records[n].status
      /\ records'[n].limit = Limit(records[n].limit.quota, Seen.period)
  BY PeriodRecord DEF Types
<1>2. /\ pc = "period" /\ Walking /\ Up /\ UNCHANGED <<place, limits>>
      /\ p \in place.mount .. Depth /\ Group <= p
      /\ limits[Group].period = L[Group].period /\ L \in [Levels -> Writable]
  BY DEF ReadPeriod, world, Walking, Snap, Moment, ToCome
<1>3. /\ Group \in Nat /\ place.mount \in Nat /\ place.mount <= Group /\ Group \in Levels
  BY <1>2, PlacedGroup, CgroupAssumption DEF Levels
<1>4. Holding(p)' = Holding(p)
  BY HoldingFixed
<1>5. records[n].group = Group
  BY <1>2 DEF HalfRead
<1>6. ASSUME Read(n) PROVE records'[n].limit = L[Group] /\ Group \in Holding(p)
  <2>1. Seen = limits[Group]
    BY <1>2, <1>6 DEF HalfRead, Seen
  <2>2. records[n].limit.quota = L[Group].quota /\ Group \in Holding(p)
    BY <1>1, <1>5, <1>6 DEF Snap, WasRead
  <2>3. L[Group] = Limit(L[Group].quota, L[Group].period)
    BY <1>2, <1>3 DEF Writable, Limit
  <2> QED BY <1>1, <1>2, <2>1, <2>2, <2>3
<1>7. WasRead(L, p)'
  <2> SUFFICES ASSUME NEW i \in 1 .. n, Read(i)'
               PROVE  /\ records'[i].group \in Holding(p)
                      /\ records'[i].limit = L[records'[i].group]
    BY <1>1, <1>4 DEF WasRead
  <2>1. CASE i \in 1 .. n - 1
    BY <1>1, <2>1 DEF Snap, WasRead, Read, Whole
  <2>2. CASE i = n
    BY <1>1, <1>5, <1>6, <2>2 DEF Read
  <2>3. i \in 1 .. n - 1 \/ i = n
    <3>1. n \in Nat /\ i \in 1 .. n
      BY <1>1
    <3> HIDE DEF n
    <3> QED BY <3>1
  <2> QED BY <2>1, <2>2, <2>3
<1>8. NoneLeftOut(p)'
  <2> SUFFICES ASSUME NEW k \in Holding(p), Passed(k)'
               PROVE  \E i \in 1 .. n : records'[i].group = k /\ records'[i].status # "NotCollected"
    BY <1>1, <1>4 DEF NoneLeftOut
  <2>1. k \in Int /\ place.mount <= k
    BY <1>2, <1>3, CgroupAssumption DEF Holding
  <2>2. k >= Group
    <3>1. CASE ~AtMount
      <4>1. Group' = Group - 1 /\ pc' = "walk"
        BY <1>2, <3>1, UpGroup, PlacedGroup
      <4> QED BY <1>3, <2>1, <4>1 DEF Passed
    <3>2. CASE AtMount
      BY <2>1, <1>3, <3>2, PlacedGroup
    <3> QED BY <3>1, <3>2
  <2>3. Passed(k)
    BY <1>2, <2>2 DEF Passed
  <2>4. PICK i \in 1 .. n : records[i].group = k /\ records[i].status # "NotCollected"
    BY <1>1, <2>3 DEF Snap, NoneLeftOut
  <2>5. records'[i].group = k /\ records'[i].status # "NotCollected"
    BY <1>1, <2>4
  <2> QED BY <2>5
<1> QED BY <1>7, <1>8

\* The walk of a process that the mount shows is on the way from it.
LEMMA SnapToCome ==
    ASSUME Types, Placed, Find \/ ~slash, [Next]_vars, ~Write, ~Move, NEW L, NEW p,
           Moment(L, p), ToCome(L, p)
    PROVE  ToCome(L, p)'
<1>0. /\ UNCHANGED <<place, limits>> /\ p \in place.mount .. Depth /\ p \in Int
      /\ Group = place.mount + offset /\ Group \in Nat /\ place.mount <= Group
      /\ place.namespace <= place.mount
  BY Fixed, PlacedGroup, CgroupAssumption DEF Moment
<1>1. CASE Find
  <2>1. L = limits /\ p = place.process /\ records' = <<>>
    BY <1>1 DEF Find, Moment, Types
  <2>2. pc' = "walk" => Group' = place.process
    BY <1>1, FindGroup DEF Find
  <2>3. pc' # "period"
    BY <1>1 DEF Find
  <2> QED BY <1>0, <2>1, <2>2, <2>3 DEF ToCome, Current
<1>2. ASSUME ~Find PROVE \A k \in Ahead' : limits'[k] = L[k]
  BY <1>0, <1>2, AheadShrinks DEF ToCome
<1>3. ASSUME ~Find, Walking, Up PROVE pc' # "period" /\ (pc' = "walk" => Group' = Group - 1)
  BY <1>0, <1>3, UpGroup DEF Up
<1>4. CASE Skip
  <2>1. Walking /\ Up /\ ~Current' /\ Group <= p
    BY <1>4 DEF Skip, Walking, Current, ToCome
  <2>2. ~Find
    BY <1>4 DEF Find, Skip
  <2>3. pc' # "period" /\ (pc' = "walk" => Group' <= p /\ Group' # p)
    BY <1>0, <1>3, <2>1, <2>2
  <2> QED BY <1>2, <2>1, <2>2, <2>3 DEF ToCome
<1>5. CASE ReadFile
  <2>1. Walking /\ pc = "walk" /\ ~Current' /\ Group <= p
    BY <1>5, AddedRecord DEF ReadFile, Walking, Current, ToCome
  <2>2. ~Find
    BY <1>5 DEF Find, ReadFile
  <2>3. CASE Up
    <3>1. pc' # "period" /\ (pc' = "walk" => Group' <= p /\ Group' # p)
      BY <1>0, <1>3, <2>1, <2>2, <2>3
    <3> QED BY <1>2, <2>1, <2>2, <3>1 DEF ToCome
  <2>4. CASE pc' = "period" /\ UNCHANGED leaf
    <3>1. Group' = Group /\ Group \in Ahead
      BY <1>0, <2>1, <2>4 DEF Group, Ahead, leaf
    <3>2. limits[Group] = L[Group]
      BY <3>1 DEF ToCome
    <3> QED BY <1>0, <1>2, <2>1, <2>2, <2>4, <3>1, <3>2 DEF ToCome
  <2> QED BY <1>5, <2>3, <2>4 DEF ReadFile
<1>6. CASE ReadPeriod
  <2>1. Walking /\ Up /\ ~Current' /\ Group <= p
    BY <1>6, PeriodRecord DEF ReadPeriod, Walking, Current, ToCome
  <2>2. ~Find
    BY <1>6 DEF Find, ReadPeriod
  <2>3. pc' # "period" /\ (pc' = "walk" => Group' <= p /\ Group' # p)
    BY <1>0, <1>3, <2>1, <2>2
  <2> QED BY <1>2, <2>1, <2>2, <2>3 DEF ToCome
<1>7. CASE UNCHANGED vars \/ Parse \/ Finish
  <2>1. UNCHANGED <<offset, slash, records>> /\ (pc' = pc \/ pc' = "done")
    BY <1>7 DEF vars, leaf, Parse, Finish
  <2>2. Group' = Group /\ Current' = Current
    BY <1>0, <2>1 DEF Group, Current
  <2>3. \A k \in Ahead' : limits'[k] = L[k]
    BY <1>0, <2>1, <2>2 DEF Ahead, ToCome
  <2> QED BY <1>0, <2>1, <2>2, <2>3 DEF ToCome
<1> QED BY <1>1, <1>4, <1>5, <1>6, <1>7 DEF Next, Done

\* A step of the reader or the parser stays within the moment.
LEMMA SnapKept ==
    ASSUME Types, HalfRead, Placed, Find \/ ~slash, [Next]_vars, ~Write, ~Move,
           NEW L, NEW p, Snap(L, p)
    PROVE  Snap(L, p)'
<1>0. /\ UNCHANGED <<place, limits>> /\ p \in place.mount .. Depth /\ attained \subseteq attained'
      /\ Writable' = Writable /\ Holding(p)' = Holding(p) /\ InForce(L, p)' = InForce(L, p)
  BY Fixed, HoldingFixed DEF Snap, Moment
<1>1. Moment(L, p)'
  <2>1. UNCHANGED changes /\ (pc' = "find" => pc = "find")
    BY DEF Next, Find, Skip, ReadFile, ReadPeriod, Up, Parse, Finish, Done, vars, history
  <2> QED BY <1>0, <2>1 DEF Snap, Moment
<1>2. ToCome(L, p)'
  BY SnapToCome DEF Snap
<1>3. CASE ReadFile
  BY <1>1, <1>2, <1>3, SnapReadFile DEF Snap, Find, ReadFile
<1>4. CASE ReadPeriod
  BY <1>1, <1>2, <1>4, SnapReadPeriod DEF Snap, Find, ReadPeriod
<1>5. CASE Find
  <2>1. records' = <<>>
    BY <1>5 DEF Find, Types
  <2>2. WasRead(L, p)'
    BY <2>1 DEF WasRead
  <2>3. pc' = "walk" /\ Group' = p
    <3>1. ~Outside
      BY PlacedGroup, GroupPlace DEF Outside, Path, Root, Types
    <3>2. p = place.process
      BY <1>5 DEF Find, Snap, Moment
    <3> QED BY <1>5, <3>1, <3>2, FindGroup
  <2>4. \A k \in Holding(p) : ~Passed(k)'
    BY <1>0, <2>3, PlacedGroup, CgroupAssumption DEF Holding, Passed
  <2>5. NoneLeftOut(p)'
    BY <1>0, <2>4 DEF NoneLeftOut
  <2> QED BY <1>1, <1>2, <2>2, <2>5 DEF Snap
<1>6. CASE UNCHANGED vars \/ Parse \/ Finish
  <2>1. /\ UNCHANGED <<offset, records>> /\ (pc' = pc \/ (pc = "parse" /\ pc' = "done"))
    BY <1>6 DEF vars, leaf, Parse, Finish
  <2>2. Group' = Group
    BY <1>0, <2>1 DEF Group
  <2>3. \A k : Passed(k)' => Passed(k)
    BY <2>1, <2>2 DEF Passed, Types
  <2>4. WasRead(L, p)'
    BY <1>0, <2>1 DEF Snap, WasRead, Read, Whole
  <2>5. NoneLeftOut(p)'
    BY <1>0, <2>1, <2>3 DEF Snap, NoneLeftOut
  <2> QED BY <1>1, <1>2, <2>4, <2>5 DEF Snap
<1>7. CASE Skip
  <2>1. /\ UNCHANGED records /\ pc = "walk" /\ Walking /\ Up /\ ~Current /\ ~Binds(Group)
        /\ pc' # "period" /\ ~slash
    BY <1>7 DEF Skip, Find, Walking, UsesHierarchy, Up
  <2>2. Group \notin Holding(p)
    BY <1>0, <2>1, BelowOwn DEF Snap
  <2>3. ASSUME NEW k \in Holding(p), Passed(k)' PROVE Passed(k)
    <3>1. k \in Int /\ place.mount <= k /\ Group \in Nat
      BY <1>0, PlacedGroup, CgroupAssumption DEF Holding
    <3>2. k >= Group
      <4>1. CASE ~AtMount
        <5>1. Group' = Group - 1 /\ pc' = "walk"
          BY <1>0, <2>1, <4>1, UpGroup, PlacedGroup
        <5> QED BY <2>3, <3>1, <5>1 DEF Passed
      <4>2. CASE AtMount
        BY <2>1, <3>1, <4>2, PlacedGroup
      <4> QED BY <4>1, <4>2
    <3>3. k # Group
      BY <2>2
    <3> QED BY <2>1, <3>1, <3>2, <3>3 DEF Passed
  <2>4. WasRead(L, p)'
    BY <1>0, <2>1 DEF Snap, WasRead, Read, Whole
  <2>5. NoneLeftOut(p)'
    BY <1>0, <2>1, <2>3 DEF Snap, NoneLeftOut
  <2> QED BY <1>1, <1>2, <2>4, <2>5 DEF Snap
<1> QED BY <1>3, <1>4, <1>5, <1>6, <1>7 DEF Next, Done

\* The first thing to happen is a write: the moment is before it if the level was read, and
\* after it if the level is still to be read.
LEMMA SnapWrite ==
    ASSUME Types, Descending, Placed, ~Twice, Write, [Next]_vars, changes = 0,
           NEW L, NEW p, Snap(L, p)
    PROVE  \E M \in [Levels -> Writable] : Snap(M, p)'
<1>0. /\ UNCHANGED <<place, offset, slash, pc, records>> /\ L = limits /\ p = place.process
      /\ ~slash
      /\ changes' = 1 /\ limits \in [Levels -> Writable] /\ limits' \in [Levels -> Writable]
      /\ p \in place.mount .. Depth /\ attained \subseteq attained' /\ InForce(L, p) \in attained
      /\ Open /\ Group \in Nat
  BY NextTypes, HoldingFixed, Fixed, PlacedGroup DEF Write, world, leaf, Snap, Moment, Types, Twice
<1>1. /\ Writable' = Writable /\ Holding(p)' = Holding(p)
      /\ InForce(limits, p)' = InForce(limits', p)
      /\ \A M : InForce(M, p)' = InForce(M, p)
  BY <1>0, HoldingFixed
<1>2. Group' = Group /\ Ahead' = Ahead /\ Current' = Current /\ \A k : Passed(k)' = Passed(k)
  <2>1. Group' = Group
    BY <1>0 DEF Group
  <2> QED BY <1>0, <2>1 DEF Ahead, Current, Passed
<1>3. NoneLeftOut(p)'
  BY <1>0, <1>1, <1>2 DEF Snap, NoneLeftOut
<1>4. PICK k \in Matters, l \in Writable :
        /\ limits' = [limits EXCEPT ![k] = l]
        /\ kind = "cpu.cfs_quota_us" => l.quota = limits[k].quota \/ l.period = limits[k].period
        /\ attained' = attained \cup {InForce(limits', place.process)}
  BY DEF Write
<1>5. /\ k \in Levels /\ limits'[k] = l
      /\ \A j \in Levels : j # k => limits'[j] = limits[j]
  BY <1>0, <1>4 DEF Matters
<1>6. \A j \in Ahead : j \in Levels
  BY <1>0, PlacedGroup, CgroupAssumption DEF Ahead, Snap, ToCome, Levels
<1>7. \A i \in DOMAIN records : Read(i) => records[i].group \in Holding(p) /\ records[i].group \in Levels
  BY <1>0, PlacedGroup, CgroupAssumption DEF Snap, WasRead, Holding, Levels
<1>8. ASSUME pc # "find", k \notin Ahead, pc = "period" /\ k = Group => l.period = limits[k].period
      PROVE  Snap(L, p)'
  <2>1. pc = "period" => Group \in Levels
    BY <1>0 DEF Types, Walking, NoLevel
  <2>2. pc = "period" => limits'[Group].period = limits[Group].period
    BY <1>5, <1>8, <2>1
  <2>3. \A j \in Ahead : limits'[j] = limits[j]
    BY <1>5, <1>6, <1>8
  <2>4. Moment(L, p)'
    BY <1>0, <1>1, <1>8 DEF Moment
  <2>5. ToCome(L, p)'
    BY <1>0, <1>2, <2>2, <2>3 DEF ToCome, Snap
  <2>6. WasRead(L, p)'
    BY <1>0, <1>1 DEF WasRead, Snap, Read, Whole
  <2> QED BY <1>3, <2>4, <2>5, <2>6 DEF Snap
<1>9. ASSUME pc = "find" \/ k \in Ahead \/ (pc = "period" /\ k = Group /\ l.period # limits[k].period),
             NEW N, N = limits'
      PROVE  Snap(N, p)'
  <2>1. Moment(N, p)'
    BY <1>0, <1>1, <1>4, <1>9 DEF Moment
  <2>2. ToCome(N, p)'
    BY <1>0, <1>2, <1>9 DEF ToCome, Snap
  <2>3. ASSUME NEW i \in DOMAIN records, Read(i)
        PROVE  /\ Whole(i) => N[records[i].group] = limits[records[i].group]
               /\ N[records[i].group].quota = limits[records[i].group].quota
    <3>1. Walking
      BY <1>0, <2>3 DEF Open, Walking, Types
    <3>2. IF Whole(i) THEN records[i].group > Group ELSE records[i].group = Group
      BY <2>3, <3>1 DEF Descending
    <3>3. CASE k \in Ahead
      <4>1. k <= Group /\ (pc = "period" => k < Group) /\ k \in Int
        BY <1>0, <3>3, PlacedGroup DEF Ahead
      <4>2. records[i].group # k
        <5>1. records[i].group \in Int
          BY <1>7, <2>3, CgroupAssumption DEF Levels
        <5> QED BY <1>0, <3>1, <3>2, <4>1, <5>1 DEF Whole, Walking
      <4> QED BY <1>5, <1>7, <1>9, <2>3, <4>2
    <3>4. CASE pc = "period" /\ k = Group /\ l.period # limits[k].period
      <4>1. l.quota = limits[k].quota
        BY <1>4, <3>4 DEF Types
      <4>2. CASE Whole(i)
        <5>1. records[i].group # k
          BY <1>0, <3>2, <3>4, <4>2
        <5> QED BY <1>5, <1>7, <1>9, <2>3, <5>1
      <4>3. CASE ~Whole(i)
        BY <1>5, <1>9, <3>2, <3>4, <4>1, <4>3
      <4> QED BY <4>2, <4>3
    <3> QED BY <1>9, <3>1, <3>3, <3>4 DEF Walking
  <2>4. WasRead(N, p)'
    BY <1>0, <1>1, <2>3 DEF WasRead, Snap, Read, Whole
  <2> QED BY <1>3, <2>1, <2>2, <2>4 DEF Snap
<1>10. \E N : N = limits'
  OBVIOUS
<1> QED BY <1>0, <1>8, <1>9, <1>10

\* The first thing to happen is a move: the moment is before it if the reader has found the
\* process, and after it if not.
LEMMA SnapMove ==
    ASSUME Types, Placed, Move, [Next]_vars, changes = 0, NEW L, NEW p, Snap(L, p)
    PROVE  \E q \in Levels : Snap(L, q)'
<1>0. /\ UNCHANGED <<limits, offset, slash, pc, records>> /\ L = limits /\ p = place.process
      /\ changes' = 1 /\ place'.mount = place.mount
      /\ p \in place.mount .. Depth /\ attained \subseteq attained' /\ InForce(L, p) \in attained
      /\ Writable' = Writable /\ place.mount \in Nat /\ L \in [Levels -> Writable]
  BY HoldingFixed, Fixed, PlacedGroup DEF Move, leaf, Snap, Moment, Types
<1>1. /\ \A q : Holding(q)' = Holding(q) /\ InForce(L, q)' = InForce(L, q)
  BY HoldingFixed
<1>2. PICK q \in (place.mount .. Depth) \ {place.process} :
        place' = [place EXCEPT !.process = q] /\ attained' = attained \cup {InForce(limits, q)}
  BY DEF Move
<1>3. q \in Levels /\ p \in Levels /\ place'.process = q
  BY <1>0, <1>2, CgroupAssumption DEF Levels, Types
<1>4. Group' = Group /\ Ahead' = Ahead /\ Current' = Current /\ \A k : Passed(k)' = Passed(k)
  <2>1. Group' = Group
    BY <1>0, Fixed DEF Group
  <2> QED BY <1>0, <2>1 DEF Ahead, Current, Passed
<1>5. CASE pc = "find"
  <2>1. Moment(L, q)'
    BY <1>0, <1>1, <1>2, <1>3 DEF Moment
  <2>2. ToCome(L, q)'
    BY <1>0, <1>5 DEF ToCome
  <2>3. WasRead(L, q)'
    BY <1>0, <1>5 DEF WasRead, Types
  <2>4. NoneLeftOut(q)'
    BY <1>0, <1>5 DEF NoneLeftOut, Passed
  <2> QED BY <1>3, <2>1, <2>2, <2>3, <2>4 DEF Snap
<1>6. CASE pc # "find"
  <2>1. Moment(L, p)'
    BY <1>0, <1>1, <1>6 DEF Moment
  <2>2. ToCome(L, p)'
    BY <1>0, <1>4 DEF ToCome, Snap
  <2>3. WasRead(L, p)'
    BY <1>0, <1>1 DEF WasRead, Snap, Read, Whole
  <2>4. NoneLeftOut(p)'
    BY <1>0, <1>1, <1>4 DEF NoneLeftOut, Snap
  <2> QED BY <1>3, <2>1, <2>2, <2>3, <2>4 DEF Snap
<1> QED BY <1>5, <1>6

\* One change at most keeps to one moment.
LEMMA NextConsistent ==
    ASSUME Types, Slashed, MountTwice, HalfRead, Descending, Consistent, [Next]_vars
    PROVE  Consistent'
<1> SUFFICES ASSUME Placed', ~Twice', changes' <= 1
             PROVE  \E L \in [Levels -> Writable], p \in Levels : Snap(L, p)'
  BY HoldingFixed DEF Consistent
<1>1. Placed /\ changes <= 1 /\ (Write \/ Move => changes = 0)
  <2>1. changes \in Nat /\ (changes' = changes \/ changes' = changes + 1)
        /\ (Write \/ Move => changes' = changes + 1)
    BY DEF Next, Find, Skip, ReadFile, ReadPeriod, Parse, Finish, Write, Move, Done, vars, history, Types
  <2> QED BY <2>1, PlacedFixed
<1>2. ~Twice
  <2>1. CASE Find
    BY <2>1 DEF Find, Types, Slashed, Walking, Twice
  <2>2. CASE ~Find
    BY <1>1, <2>2, TwiceFixed
  <2> QED BY <2>1, <2>2
<1>3. PICK L \in [Levels -> Writable], p \in Levels : Snap(L, p)
  BY <1>1, <1>2 DEF Consistent
<1>4. CASE Write
  <2>1. \E M \in [Levels -> Writable] : Snap(M, p)'
    BY <1>1, <1>2, <1>3, <1>4, SnapWrite
  <2> QED BY <1>3, <2>1
<1>5. CASE Move
  <2>1. \E q \in Levels : Snap(L, q)'
    BY <1>1, <1>3, <1>5, SnapMove
  <2> QED BY <1>3, <2>1
<1>6. CASE ~Write /\ ~Move
  <2>1. Snap(L, p)'
    BY <1>1, <1>2, <1>3, <1>6, SnapKept DEF Twice
  <2> QED BY <1>3, <2>1
<1> QED BY <1>4, <1>5, <1>6

\* In the mount's own group its limit is the one in force.
LEMMA MountInForce ==
    ASSUME place.mount \in Levels, Exists(place.mount), NEW lim \in [Levels -> Writable]
    PROVE  Same(InForce(lim, place.mount), lim[place.mount])
<1>1. Holding(place.mount) = {place.mount}
  BY CgroupAssumption DEF Holding, Levels
<1>2. ~Stricter(lim[place.mount], InForce(lim, place.mount))
  BY <1>1, InForceStrictest
<1>3. InForce(lim, place.mount) = Limit(Unlimited, 1) \/ InForce(lim, place.mount) = lim[place.mount]
  BY <1>1, InForceStrictest
<1>4. \A l : ~Stricter(Limit(Unlimited, 1), l)
  BY DEF Stricter, Limit
<1> QED BY <1>2, <1>3, <1>4 DEF Same

\* What the mount holds while the process is in its group is in force.
LEMMA NextMountAttained ==
    ASSUME Types, Slashed, MountTwice, Written, Witnessed, MountAttained, [Next]_vars
    PROVE  MountAttained'
<1> DEFINE m == place.mount
<1> SUFFICES ASSUME Placed, changes' <= 1, Twice' \/ place'.process = m, Exists(m), NEW l \in held'[m]
             PROVE  \E a \in attained' : Same(a, l)
  BY PlacedFixed, HoldingFixed, Fixed DEF MountAttained, Same, Stricter
<1>0. /\ m \in Levels /\ attained \subseteq attained' /\ changes \in Nat
      /\ limits \in [Levels -> Writable] /\ limits' \in [Levels -> Writable]
  BY GroupPlace, Fixed, NextTypes, HoldingFixed DEF Types
<1>1. ASSUME changes <= 1, Twice \/ place.process = m, l \in held[m]
      PROVE  \E a \in attained' : Same(a, l)
  BY <1>0, <1>1 DEF MountAttained
<1>2. CASE Find
  <2>1. UNCHANGED <<place, changes, held>>
    BY <1>2 DEF Find, world, history
  <2>2. ASSUME Twice' PROVE place.process = m
    <3>1. /\ slash' /\ ~Outside
      BY <1>2, <2>2 DEF Find, leaf, Types, Slashed, Walking, Twice
    <3>2. Group' = place.process /\ offset' = 0
      BY <1>2, <3>1, FindGroup
    <3> QED BY <1>0, <2>1, <3>2, PlacedGroup, CgroupAssumption DEF Group, Levels
  <2> QED BY <1>1, <2>1, <2>2
<1>3. ASSUME ~Find PROVE Twice' <=> Twice
  BY <1>3, TwiceFixed
<1>4. CASE Write
  <2>1. UNCHANGED place /\ changes = 0 /\ ~moved /\ ~Find
    BY <1>0, <1>4 DEF Write, world, Find
  <2>2. place.process = m
    BY <1>3, <2>1 DEF MountTwice
  <2>3. PICK k \in Matters, w \in Writable :
          /\ limits' = [limits EXCEPT ![k] = w] /\ held' = [held EXCEPT ![k] = @ \cup {w}]
          /\ attained' = attained \cup {InForce(limits', place.process)}
    BY <1>4 DEF Write
  <2>4. CASE l \in held[m]
    BY <1>1, <2>1, <2>2, <2>4
  <2>5. CASE l \notin held[m]
    <3>1. k = m /\ l = limits'[m]
      BY <1>0, <2>3, <2>5 DEF Types
    <3> QED BY <1>0, <2>2, <2>3, <3>1, MountInForce
  <2> QED BY <2>4, <2>5
<1>5. CASE Move
  <2>1. changes = 0 /\ ~moved /\ held' = held /\ limits' = limits /\ ~Find
    BY <1>0, <1>5 DEF Move, Find
  <2>2. CASE Twice \/ place.process = m
    BY <1>1, <2>1, <2>2
  <2>3. CASE ~Twice
    <3>1. place'.process = m
      BY <1>3, <2>1, <2>3
    <3>2. InForce(limits, m) \in attained'
      BY <1>0, <1>5, <3>1, HoldingFixed, NextWitnessed, <2>1 DEF Witnessed
    <3>3. held[m] = {limits[m]}
      BY <1>0, <2>1 DEF Written
    <3> QED BY <1>0, <2>1, <3>2, <3>3, MountInForce
  <2> QED BY <2>2, <2>3
<1>6. CASE ~Find /\ ~Write /\ ~Move
  BY <1>1, <1>3, <1>6, Fixed
<1> QED BY <1>2, <1>4, <1>5, <1>6
-----------------------------------------------------------------------------
\* The invariant holds at first.
LEMMA InitIInv == Init => IInv
<1> SUFFICES ASSUME Init PROVE IInv
  OBVIOUS
<1>1. /\ place \in [process : Levels, mount : Levels, namespace : Levels]
      /\ place.namespace <= place.process
      /\ limits \in [Levels -> Writable]
      /\ pc = "find" /\ records = <<>> /\ parsed = 0 /\ offset = 0 /\ changes = 0
      /\ ~slash /\ ~moved /\ slash \in BOOLEAN /\ moved \in BOOLEAN
      /\ held = [k \in Levels |-> {limits[k]}]
      /\ attained = {InForce(limits, place.process)}
      /\ place.mount \in Levels /\ place.process \in Levels
  BY CgroupAssumption DEF Init
<1>2. Types
  <2>1. summary \in [state : {"Unknown", "Unlimited", "Finite", "Incomplete"}, value : Writable]
    BY WritableLimits DEF Init
  <2>2. records \in Seq(RecordType) /\ Len(records) = 0
    BY <1>1
  <2>3. kind \in Kinds
    BY DEF Init
  <2>4. parsed \in 0 .. Len(records)
    BY <1>1, <2>2
  <2>5. held \in [Levels -> SUBSET Writable] /\ \A k \in Levels : limits[k] \in held[k]
    BY <1>1
  <2> QED BY <1>1, <2>1, <2>2, <2>3, <2>4, <2>5 DEF Types, Open, Walking
<1>3. Summed
  <2>1. summary.value.quota = Unlimited
    BY DEF Init, Limit
  <2> QED BY <1>1, <2>1 DEF Summed
<1>4. Past
  <2>1. \A k \in Levels : held[k] = {limits[k]}
    BY <1>1
  <2>2. ASSUME NEW k \in Levels, NEW a \in held[k], NEW b \in held[k]
        PROVE  Limit(a.quota, b.period) \in held[k]
    <3>1. a = limits[k] /\ b = limits[k] /\ limits[k] \in Writable
      BY <1>1, <2>2
    <3> QED BY <2>1, <3>1, LimitParts
  <2> QED BY <1>1, <2>1, <2>2 DEF Past, Stood, Written
<1>5. Bounded
  <2>1. Ahead = {} /\ Behind = {}
    BY <1>1 DEF Ahead, Behind
  <2>2. ASSUME kind = "cpu.cfs_quota_us", NEW k \in place.mount .. place.process, NEW l \in held[k]
        PROVE  Covered(l)
    <3>1. k \in Levels
      BY <1>1, <2>2, CgroupAssumption DEF Levels
    <3>2. k \in Holding(place.process)
      BY <1>2, <1>1, <2>2, BudgetsHold
    <3>3. l = limits[k]
      BY <1>1, <2>2, <3>1
    <3> QED BY <1>1, <3>2, <3>3, HoldsCovered DEF Covered
  <2>3. OnTheWay /\ Witnessed /\ AheadCovered
    BY <1>1, <2>1 DEF Witnessed, OnTheWay, AheadCovered, Walking
  <2>4. BehindCovered
    BY <1>1 DEF BehindCovered
  <2>5. HeldCovered
    BY <2>1, <2>2 DEF HeldCovered
  <2> QED BY <2>3, <2>4, <2>5 DEF Bounded
<1>6. Slashed /\ MountTwice /\ Descending /\ FirstRead /\ HalfRead
  BY <1>1 DEF Slashed, MountTwice, Twice, Descending, FirstRead, HalfRead, Walking
<1>7. Consistent
  <2>1. ASSUME Placed PROVE Snap(limits, place.process)
    <3>1. place.process \in place.mount .. Depth
      BY <1>1, <2>1, CgroupAssumption DEF Placed, Levels
    <3>2. Moment(limits, place.process)
      BY <1>1, <3>1 DEF Moment
    <3>3. ToCome(limits, place.process)
      BY <1>1 DEF ToCome, Ahead
    <3>4. WasRead(limits, place.process) /\ NoneLeftOut(place.process)
      BY <1>1 DEF WasRead, NoneLeftOut, Passed
    <3> QED BY <3>2, <3>3, <3>4 DEF Snap
  <2> QED BY <1>1, <2>1 DEF Consistent
<1>8. MountAttained
  BY <1>1, MountInForce DEF MountAttained, Twice
<1> QED BY <1>2, <1>3, <1>4, <1>5, <1>6, <1>7, <1>8 DEF IInv

\* Every step preserves the invariant.
LEMMA NextIInv == IInv /\ [Next]_vars => IInv'
<1> SUFFICES ASSUME IInv, [Next]_vars PROVE IInv'
  OBVIOUS
<1>1. Types' /\ Slashed' /\ MountTwice'
  BY NextTypes, NextSlashed, NextMountTwice DEF IInv
<1>2. Descending' /\ FirstRead' /\ Summed'
  BY NextDescending, NextFirstRead, NextSummed DEF IInv
<1>3. Past' /\ HalfRead'
  BY NextStood, NextWritten, NextHalfRead DEF IInv, Past
<1>4. Bounded'
  BY NextBounded DEF IInv, Past
<1>5. Consistent' /\ MountAttained'
  BY NextConsistent, NextMountAttained DEF IInv, Past, Bounded
<1> QED BY <1>1, <1>2, <1>3, <1>4, <1>5 DEF IInv

\* The invariant holds always: types, the summary of what was taken, what covers each
\* record, and the one moment of a walk that at most one change disturbs.
THEOREM IInvAlways == Spec => []IInv
BY InitIInv, NextIInv, PTL DEF Spec

\* Whatever is written during the walk of read_hierarchy, and wherever the process is moved,
\* parse_cgroup_limits reports no limit stricter than all that were in force, unless it joins a
\* v1 quota to a period beside which it never stood, which takes two writes.
THEOREM UpperBoundAlways == Spec => []UpperBound
<1>1. IInv => UpperBound
  <2> SUFFICES ASSUME IInv, pc = "done", Reported.quota # Unlimited, changes > 1 => ~Torn, Due
               PROVE  Covered(Reported)
    BY DEF UpperBound, Due, Covered
  <2>1. PICK i \in 1 .. parsed : Read(i) /\ Paired(i).limit = Reported
    BY DEF IInv, Summed, Reported
  <2>2. i \in DOMAIN records
    BY <2>1 DEF IInv, Types
  <2>3. CASE kind = "cpu.cfs_quota_us"
    <3>1. ~Torn
      BY OnceNotTorn DEF IInv, Types, Past
    <3>2. Reported \in held[records[i].group] /\ records[i].group \in Behind
      BY <2>1, <2>2, <3>1 DEF Torn, Behind, Read
    <3> QED BY <2>3, <3>2 DEF IInv, Bounded, HeldCovered
  <2>4. CASE kind # "cpu.cfs_quota_us"
    <3>1. records[i].limit = Reported
      BY <2>1, <2>2, <2>4, PairedRecord DEF IInv
    <3> QED BY <2>1, <2>2, <2>4, <3>1 DEF IInv, Bounded, BehindCovered
  <2> QED BY <2>3, <2>4
<1> QED BY <1>1, IInvAlways, PTL

\* When the parser is done it has taken every record.
LEMMA AllTaken ==
    ASSUME Types, pc = "done"
    PROVE  /\ parsed = Len(records) /\ DOMAIN records = 1 .. parsed
           /\ \A i \in DOMAIN records : records[i].status \in {"Success", "NotCollected", "Failed"}
<1>1. records \in Seq(RecordType) /\ parsed = Len(records)
  BY DEF Types
<1>2. \A i \in DOMAIN records : records[i] \in RecordType
  BY <1>1
<1>3. DOMAIN records = 1 .. Len(records)
  BY <1>1
<1> QED BY <1>1, <1>2, <1>3 DEF RecordType

\* A walk with levels below the mount reports the limit of its one moment.
LEMMA SnapAttained ==
    ASSUME IInv, pc = "done", Known, Placed, changes <= 1, ~Twice
    PROVE  \E l \in attained : Same(l, Reported)
<1>1. PICK L \in [Levels -> Writable], p \in Levels : Snap(L, p)
  BY DEF IInv, Consistent
<1> DEFINE l == InForce(L, p)
<1>2. /\ l \in attained
      /\ l = Limit(Unlimited, 1) \/ \E k \in Holding(p) : l = L[k]
      /\ \A k \in Holding(p) : ~Stricter(L[k], l)
  BY <1>1, InForceStrictest, GroupPlace DEF IInv, Snap, Moment
<1>3. /\ DOMAIN records = 1 .. parsed
      /\ \A i \in DOMAIN records : records[i].status \in {"Success", "NotCollected", "Failed"}
  BY AllTaken DEF IInv
<1>4. ASSUME NEW i \in DOMAIN records, Read(i)
      PROVE  records[i].group \in Holding(p) /\ Paired(i).limit = L[records[i].group]
  <2>1. records[i].group \in Holding(p) /\ records[i].limit = L[records[i].group]
    BY <1>1, <1>4 DEF Snap, WasRead, Whole
  <2>2. PICK j \in ReadOf(records[i].group) :
           Paired(i).limit = Limit(records[i].limit.quota, records[j].limit.period)
    BY <1>4, PairedRecord DEF IInv
  <2>3. j = i
    BY <1>4, <2>2 DEF IInv, Descending, ReadOf
  <2>4. records[i].limit \in Writable
    <3>1. records[i] \in RecordType
      BY <1>4 DEF IInv, Types
    <3> QED BY <3>1 DEF RecordType
  <2> QED BY <2>1, <2>2, <2>3, <2>4, LimitParts
<1>5. ~Stricter(Reported, l)
  <2>1. CASE Reported.quota = Unlimited
    BY <2>1 DEF Stricter
  <2>2. CASE Reported.quota # Unlimited
    <3>1. PICK i \in 1 .. parsed : Read(i) /\ Paired(i).limit = Reported
      BY <2>2 DEF IInv, Summed, Reported
    <3> QED BY <1>2, <1>3, <1>4, <3>1
  <2> QED BY <2>1, <2>2
<1>6. ~Stricter(l, Reported)
  <2>1. CASE l = Limit(Unlimited, 1)
    BY <2>1 DEF Stricter, Limit
  <2>2. ASSUME NEW k \in Holding(p), l = L[k] PROVE ~Stricter(l, Reported)
    <3>1. PICK i \in DOMAIN records : records[i].group = k /\ records[i].status # "NotCollected"
      BY <1>1, <2>2 DEF Snap, NoneLeftOut, Passed
    <3>2. records[i].status # "Failed"
      BY <1>3, <3>1 DEF IInv, Summed, Known
    <3>3. Read(i) /\ Paired(i).limit = l
      BY <1>3, <1>4, <2>2, <3>1, <3>2 DEF Read
    <3> QED BY <1>3, <3>1, <3>3 DEF IInv, Summed, Reported
  <2> QED BY <1>2, <2>1, <2>2
<1> QED BY <1>2, <1>5, <1>6 DEF Same

\* A walk of the mount alone reports one of the limits that the mount held.
LEMMA TwiceAttained ==
    ASSUME IInv, pc = "done", Known, Placed, changes <= 1, Twice
    PROVE  \E l \in attained : Same(l, Reported)
<1>1. /\ DOMAIN records = 1 .. parsed /\ records # <<>> /\ 1 \in DOMAIN records
      /\ \A i \in DOMAIN records : records[i].status \in {"Success", "NotCollected", "Failed"}
  <2>1. records # <<>>
    BY DEF IInv, Slashed, Walking, Twice
  <2>2. 1 \in DOMAIN records
    BY <2>1 DEF IInv, Types
  <2> QED BY <2>1, <2>2, AllTaken DEF IInv
<1>2. Read(1)
  <2>1. records[1].status # "NotCollected"
    BY <1>1 DEF IInv, FirstRead
  <2>2. records[1].status # "Failed"
    BY <1>1 DEF IInv, Summed, Known
  <2> QED BY <1>1, <2>1, <2>2 DEF Read
<1>3. \A i \in DOMAIN records : records[i].group = place.mount
  BY DEF IInv, MountTwice
<1>4. Exists(place.mount)
  BY <1>1, <1>2, <1>3 DEF IInv, Past, Stood
<1>5. ASSUME NEW i \in DOMAIN records, Read(i) PROVE \E a \in attained : Same(a, Paired(i).limit)
  <2>1. Paired(i).limit \in held[place.mount]
    BY <1>3, <1>5, OnceNotTorn DEF IInv, Past, Torn, Read
  <2> QED BY <1>4, <2>1 DEF IInv, MountAttained
<1>6. CASE Reported.quota # Unlimited
  <2>1. PICK i \in 1 .. parsed : Read(i) /\ Paired(i).limit = Reported
    BY <1>6 DEF IInv, Summed, Reported
  <2> QED BY <1>1, <1>5, <2>1
<1>7. CASE Reported.quota = Unlimited
  <2>1. PICK a \in attained : Same(a, Paired(1).limit)
    BY <1>1, <1>2, <1>5
  <2>2. ~Stricter(Paired(1).limit, Reported)
    BY <1>1, <1>2 DEF IInv, Summed, Reported
  <2>3. Paired(1).limit.quota = Unlimited
    BY <1>7, <2>2 DEF Stricter
  <2>4. a.quota = Unlimited
    BY <2>1, <2>3 DEF Same, Stricter
  <2> QED BY <1>7, <2>4 DEF Same, Stricter
<1> QED BY <1>6, <1>7

\* A limit that parse_cgroup_limits reports as known was in force at one moment of the walk
\* of read_hierarchy, if at most one limit was written or the process moved once meanwhile.
THEOREM AttainedAlways == Spec => []Attained
<1>1. IInv => Attained
  BY SnapAttained, TwiceAttained DEF Attained
<1> QED BY <1>1, IInvAlways, PTL
=============================================================================
