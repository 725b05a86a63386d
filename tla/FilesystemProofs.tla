-------------------------- MODULE FilesystemProofs --------------------------
(***************************************************************************)
(* Proofs about FilesystemUsage for every set of mounts, every depth of    *)
(* the path and any number of changes during the walks.                    *)
(***************************************************************************)
EXTENDS FilesystemUsage, WellFoundedInduction, TLAPS

\* A report is added for one filesystem, the others stay.
LEMMA ReportedRight ==
  ASSUME RightFilesystem, NEW f, NEW report, reports' = Reported(f, report),
         report.status = "Success" => report.usage = f
  PROVE  RightFilesystem'
  BY DEF RightFilesystem, Reported

\* Every return but the last of Stat comes without statistics.
LEMMA ReturnRight ==
  ASSUME RightFilesystem, NEW status, NEW usage, Return(status, usage),
         status = "Success" => usage = FsOf[target]
  PROVE  RightFilesystem'
<1>1. reports' = Reported(FsOf[target], Report(status, usage, target))
  BY DEF Return
<1>2. Report(status, usage, target).status = status /\ Report(status, usage, target).usage = usage
  BY DEF Report
<1> HIDE DEF Return
<1> QED
  BY <1>1, <1>2, ReportedRight

\* Statistics are attributed to the filesystem they are of, although the path may
\* lead elsewhere at every step of the walk: only the descriptor is trusted.
THEOREM RightFilesystemAlways == Spec => []RightFilesystem
<1>1. Init => RightFilesystem
  BY DEF Init, RightFilesystem
<1>2. RightFilesystem /\ [Next]_vars => RightFilesystem'
  <2> SUFFICES ASSUME RightFilesystem, [Next]_vars PROVE RightFilesystem'
    OBVIOUS
  <2>1. CASE UNCHANGED reports
    BY <2>1 DEF RightFilesystem
  <2>2. CASE SkipFilesystem
    <3>1. reports' = Reported(Turn, Report("NotCollected", None, None))
      BY <2>2 DEF SkipFilesystem
    <3>2. Report("NotCollected", None, None).status # "Success"
      BY DEF Report
    <3> QED
      BY <3>1, <3>2, ReportedRight
  <2>3. CASE Check
    <3>1. UNCHANGED reports \/ Return("NotCollected", None) \/ Return("IoError", None)
      BY <2>3 DEF Check
    <3> QED
      BY <2>1, <3>1, ReturnRight
  <2>4. CASE OpenFails
    <3>1. Return("NotPresent", None) \/ Return("IoError", None)
      BY <2>4 DEF OpenFails
    <3> QED
      BY <3>1, ReturnRight
  <2>5. CASE Stat
    <3>1. \/ \E status \in {"IoError", "Unsupported", "NotPresent"} : Return(status, None)
          \/ FsOf[fd.mount] = FsOf[target] /\ Return("Success", FsOf[fd.mount])
      BY <2>5 DEF Stat, OtherDevice
    <3> QED
      BY <3>1, ReturnRight
  <2> QED
    BY <2>1, <2>2, <2>3, <2>4, <2>5
       DEF Next, vars, Mount, Unmount, Replace, Changes, ReadMountInfo, Query, Open, OpenActivates, Done
<1> QED
  BY <1>1, <1>2, PTL DEF Spec

\* A component is looked up from a descriptor that was checked; nothing the host
\* does afterwards moves the descriptor into another mount.
CheckedBeforeOpen == NoLookupInAutofs /\ (pc = "open" => ~Autofs(fd.mount))

\* Between the check of a descriptor and the lookup from it, it does not get into autofs.
THEOREM CheckedAlways == Spec => []CheckedBeforeOpen
<1>1. Init => CheckedBeforeOpen
  BY DEF Init, CheckedBeforeOpen, NoLookupInAutofs
<1>2. CheckedBeforeOpen /\ [Next]_vars => CheckedBeforeOpen'
  <2> SUFFICES ASSUME CheckedBeforeOpen, [Next]_vars PROVE CheckedBeforeOpen'
    OBVIOUS
  <2>1. ASSUME UNCHANGED automounts, pc' # "open" PROVE CheckedBeforeOpen'
    BY <2>1 DEF CheckedBeforeOpen, NoLookupInAutofs
  <2>2. ASSUME UNCHANGED <<automounts, pc, fd>> PROVE CheckedBeforeOpen'
    BY <2>2 DEF CheckedBeforeOpen, NoLookupInAutofs, Autofs, Direct
  <2>3. CASE Check
    <3>1. CASE Queryable /\ UNCHANGED fd
      BY <2>3, <3>1 DEF Check, Queryable, CheckedBeforeOpen, NoLookupInAutofs, namespace, Autofs, Direct
    <3>2. CASE pc' = "next"
      BY <2>1, <2>3, <3>2 DEF Check, namespace
    <3> QED
      BY <2>3, <3>1, <3>2 DEF Check, Return
  <2>4. CASE OpenActivates
    <3>1. "inside" \notin Activates
      BY <2>4 DEF OpenActivates, CheckedBeforeOpen, Activates
    <3> QED
      BY <2>4, <3>1 DEF OpenActivates, CheckedBeforeOpen, NoLookupInAutofs
  <2>5. CASE OpenFails \/ Stat
    BY <2>1, <2>5 DEF OpenFails, Stat, Return, namespace
  <2>6. CASE Open \/ ReadMountInfo \/ Query
    BY <2>1, <2>6 DEF Open, ReadMountInfo, Query, namespace
  <2>7. CASE Mount \/ Unmount \/ Replace \/ SkipFilesystem \/ UNCHANGED vars
    BY <2>2, <2>7 DEF Mount, Unmount, Replace, Changes, SkipFilesystem, vars, namespace
  <2> QED
    BY <2>3, <2>4, <2>5, <2>6, <2>7 DEF Next, Done
<1> QED
  BY <1>1, <1>2, PTL DEF Spec

\* The walk never triggers an automount by a lookup inside autofs, whatever is
\* mounted on its path meanwhile.
THEOREM NoLookupInAutofsAlways == Spec => []NoLookupInAutofs
<1>1. CheckedBeforeOpen => NoLookupInAutofs
  BY DEF CheckedBeforeOpen
<1> QED
  BY <1>1, CheckedAlways, PTL

-----------------------------------------------------------------------------
(* The mount tree.  At a depth of the path mounts are stacked on a mount:    *)
(* there is one on each at most, and a topmost one.  The stack is described  *)
(* as the least closed set, without the recursion of Top and Visible.        *)

\* Where a mount may be; the mounts of the tree; a mount with nothing on it at a depth.
Places == {Nowhere} \cup [on : Mounts, at : 1 .. Depth]
Hanging(t) == {Root} \cup {c \in Others : t[c] # Nowhere}
Bare(t, x, d) == \A c \in Others : ~(t[c].on = x /\ t[c].at = d)
\* A set with all that is mounted on its members at a depth; the least one with mount m.
Closed(t, S, d) == \A c \in Others : t[c].at = d /\ t[c].on \in S => c \in S
Stack(t, m, d) == {x \in Mounts : \A S \in SUBSET Mounts : m \in S /\ Closed(t, S, d) => x \in S}

\* Every mount of the tree is on a mount of the tree, none beside another, and every
\* stack has an end.
WellStacked(t) ==
    /\ t \in [Others -> Places]
    /\ \A c \in Others : t[c] # Nowhere => t[c].on \in Hanging(t)
    /\ \A b, c \in Others : t[b] = t[c] => b = c \/ t[b] = Nowhere
    /\ \A m \in Mounts, d \in 1 .. Depth : \E x \in Stack(t, m, d) : Bare(t, x, d)

\* A mount is nowhere, or on a mount at a depth of the path.
LEMMA PlaceIs ==
    ASSUME NEW t, t \in [Others -> Places], NEW c \in Others
    PROVE  \/ t[c] = Nowhere /\ t[c].on = None /\ t[c].at = 0
           \/ /\ t[c] # Nowhere /\ t[c].on \in Mounts /\ t[c].at \in 1 .. Depth
              /\ t[c] = [on |-> t[c].on, at |-> t[c].at]
  BY FilesystemAssumption DEF Places, Nowhere

\* No two mounts are on one mount at one depth.
LEMMA PlacedAlone ==
    ASSUME NEW t, WellStacked(t), NEW b \in Others, NEW c \in Others,
           t[b].on = t[c].on, t[b].at = t[c].at, t[b].at \in 1 .. Depth
    PROVE  b = c
<1> t \in [Others -> Places]
  BY DEF WellStacked
<1>0. ASSUME t[b].at = 0 PROVE FALSE
  BY <1>0
<1>1. t[b] # Nowhere /\ t[b] = [on |-> t[b].on, at |-> t[b].at]
  BY <1>0, PlaceIs, Zenon
<1>2. t[c] = [on |-> t[c].on, at |-> t[c].at]
  BY <1>0, PlaceIs, Zenon
<1>3. t[b] = t[c]
  BY <1>1, <1>2
<1> QED
  BY <1>1, <1>3 DEF WellStacked

\* The stack is the least set with the mount and what is on its members.
LEMMA StackHas ==
    ASSUME NEW t, NEW m \in Mounts, NEW d
    PROVE  m \in Stack(t, m, d) /\ Stack(t, m, d) \subseteq Mounts /\ Closed(t, Stack(t, m, d), d)
  BY DEF Stack, Closed, Others

\* Every closed set with the mount has the stack in it.
LEMMA StackLeast ==
    ASSUME NEW t, NEW m, NEW d, NEW S \in SUBSET Mounts, m \in S, Closed(t, S, d)
    PROVE  Stack(t, m, d) \subseteq S
  BY DEF Stack

\* The stack of a mount with nothing on it is the mount alone.
LEMMA BareStack ==
    ASSUME NEW t, NEW m \in Mounts, NEW d, Bare(t, m, d)
    PROVE  Stack(t, m, d) = {m}
<1>1. Closed(t, {m}, d)
  BY DEF Closed, Bare
<1> QED
  BY <1>1, StackHas, StackLeast

\* A member of a stack but the lowest is on another one.
LEMMA StackBelow ==
    ASSUME NEW t, NEW m \in Mounts, NEW d, NEW x \in Stack(t, m, d), x # m
    PROVE  x \in Others /\ t[x].at = d /\ t[x].on \in Stack(t, m, d)
<1> DEFINE S == Stack(t, m, d) \ {x}
<1>1. S \in SUBSET Mounts /\ m \in S /\ ~Closed(t, S, d)
  BY StackHas, StackLeast
<1>2. PICK c \in Others : t[c].at = d /\ t[c].on \in S /\ c \notin S
  BY <1>1 DEF Closed
<1>3. c = x
  BY <1>2, StackHas DEF Closed
<1> QED
  BY <1>2, <1>3

\* The stack of a mount is the mount and the stack of the one on it.
LEMMA StackOn ==
    ASSUME NEW t, WellStacked(t), NEW m \in Mounts, NEW d \in 1 .. Depth,
           NEW c \in Others, t[c].on = m, t[c].at = d
    PROVE  Stack(t, m, d) = {m} \cup Stack(t, c, d)
<1>1. c \in Mounts
  BY DEF Others
<1>2. Stack(t, c, d) \subseteq Stack(t, m, d)
  BY <1>1, StackHas, StackLeast DEF Closed
<1>3. Closed(t, {m} \cup Stack(t, c, d), d)
  <2> SUFFICES ASSUME NEW b \in Others, t[b].at = d, t[b].on \in {m} \cup Stack(t, c, d)
               PROVE  b \in Stack(t, c, d)
    BY DEF Closed
  <2>1. CASE t[b].on = m
    BY <1>1, <2>1, PlacedAlone, StackHas
  <2>2. CASE t[b].on \in Stack(t, c, d)
    BY <1>1, <2>2, StackHas DEF Closed
  <2> QED BY <2>1, <2>2
<1> QED
  BY <1>1, <1>2, <1>3, StackHas, StackLeast

\* There is one topmost mount.
LEMMA OneOnTop ==
    ASSUME NEW t, WellStacked(t), NEW m \in Mounts, NEW d \in 1 .. Depth,
           NEW x \in Stack(t, m, d), NEW y \in Stack(t, m, d), Bare(t, x, d), Bare(t, y, d)
    PROVE  x = y
<1> DEFINE S == {z \in Mounts : x \in Stack(t, z, d)}
<1>1. Closed(t, S, d)
  <2> SUFFICES ASSUME NEW c \in Others, t[c].at = d, t[c].on \in S PROVE x \in Stack(t, c, d)
    BY DEF Closed, Others
  <2>1. Stack(t, t[c].on, d) = {t[c].on} \cup Stack(t, c, d)
    BY StackOn
  <2>2. x # t[c].on
    BY DEF Bare
  <2> QED BY <2>1, <2>2
<1>2. y \in S
  <2> HIDE DEF S
  <2>1. S \in SUBSET Mounts /\ m \in S
    BY DEF S
  <2> QED BY <1>1, <2>1, StackLeast
<1> QED
  BY <1>2, BareStack

\* What Top returns.
LEMMA TopIs ==
    WellStacked(tree) =>
      \A m \in Mounts, d \in 1 .. Depth : \A x \in Stack(tree, m, d) : Bare(tree, x, d) => Top(m, d) = x
<1> SUFFICES ASSUME WellStacked(tree), NEW m \in Mounts, NEW d \in 1 .. Depth,
                    NEW x \in Stack(tree, m, d), Bare(tree, x, d)
             PROVE  Top(m, d) = x
  OBVIOUS
<1> DEFINE IsTop(g) == g = [z \in Mounts |-> IF On(z, d) = {} THEN z ELSE g[CHOOSE c \in On(z, d) : TRUE]]
           Upper(z) == CHOOSE y \in Stack(tree, z, d) : Bare(tree, y, d)
           f == [z \in Mounts |-> Upper(z)]
<1>1. ASSUME NEW z \in Mounts PROVE Upper(z) \in Stack(tree, z, d) /\ Bare(tree, Upper(z), d)
  BY DEF WellStacked
<1>2. ASSUME NEW z \in Mounts
      PROVE  \/ On(z, d) = {} /\ Bare(tree, z, d)
             \/ \E c \in Others : /\ On(z, d) = {c} /\ (CHOOSE b \in On(z, d) : TRUE) = c
                                  /\ tree[c].on = z /\ tree[c].at = d
  <2>1. CASE On(z, d) = {}
    BY <2>1 DEF On, Bare
  <2>2. CASE On(z, d) # {}
    <3>1. PICK c \in Others : tree[c].on = z /\ tree[c].at = d
      BY <2>2 DEF On
    <3>2. On(z, d) = {c}
      BY <3>1, PlacedAlone DEF On
    <3> QED BY <3>1, <3>2
  <2> QED BY <2>1, <2>2
<1>3. IsTop(f)
  <2> DEFINE h == [z \in Mounts |-> IF On(z, d) = {} THEN z ELSE f[CHOOSE c \in On(z, d) : TRUE]]
  <2> SUFFICES \A z \in Mounts : f[z] = h[z]
    <3>1. f = [z \in Mounts |-> f[z]] /\ h = [z \in Mounts |-> h[z]]
      OBVIOUS
    <3>2. IsTop(f) <=> f = h
      OBVIOUS
    <3> HIDE DEF f, h, IsTop
    <3>3. ASSUME \A z \in Mounts : f[z] = h[z] PROVE f = h
      BY <3>1, <3>3
    <3> QED BY <3>2, <3>3
  <2> SUFFICES ASSUME NEW z \in Mounts PROVE f[z] = h[z]
    OBVIOUS
  <2>9. h[z] = IF On(z, d) = {} THEN z ELSE f[CHOOSE c \in On(z, d) : TRUE]
    OBVIOUS
  <2>0. f[z] = Upper(z)
    OBVIOUS
  <2>1. CASE On(z, d) = {} /\ Bare(tree, z, d)
    BY <1>1, <2>0, <2>1, BareStack
  <2>2. ASSUME NEW c \in Others, On(z, d) = {c}, (CHOOSE b \in On(z, d) : TRUE) = c,
               tree[c].on = z, tree[c].at = d
        PROVE  f[z] = f[c]
    <3>1. c \in Mounts /\ f[c] = Upper(c)
      BY DEF Others
    <3>2. Upper(c) \in Stack(tree, z, d) /\ Bare(tree, Upper(c), d)
      BY <1>1, <2>2, <3>1, StackOn
    <3>3. Upper(z) = Upper(c)
      <4> HIDE DEF Upper, f
      <4> QED BY <1>1, <3>2, OneOnTop
    <3> QED BY <2>0, <3>1, <3>3
  <2> HIDE DEF f, h
  <2> QED
    BY <1>2, <2>9, <2>1, <2>0, <1>1, BareStack, <2>2
<1>4. PICK g : IsTop(g) /\ Top(m, d) = g[m]
  <2>1. Top(m, d) = (CHOOSE g : IsTop(g))[m]
    BY DEF Top
  <2> HIDE DEF IsTop, f
  <2> QED BY <1>3, <2>1
<1>5. ASSUME NEW z \in Mounts PROVE g[z] = IF On(z, d) = {} THEN z ELSE g[CHOOSE c \in On(z, d) : TRUE]
  BY <1>4
<1> DEFINE S == {z \in Mounts : g[z] = g[m]}
<1>6. Closed(tree, S, d)
  <2> SUFFICES ASSUME NEW c \in Others, tree[c].at = d, tree[c].on \in S PROVE g[c] = g[m]
    BY DEF Closed, Others
  <2>1. c \in On(tree[c].on, d)
    BY DEF On
  <2>2. (CHOOSE b \in On(tree[c].on, d) : TRUE) = c
    BY <1>2, <2>1
  <2> QED BY <1>5, <2>1, <2>2
<1>7. x \in S
  <2>1. S \in SUBSET Mounts /\ m \in S
    OBVIOUS
  <2> HIDE DEF S
  <2> QED BY <1>6, <2>1, StackLeast
<1>8. On(x, d) = {}
  BY DEF On, Bare
<1> QED
  BY <1>4, <1>5, <1>7, <1>8

\* What is on a mount of the tree is in the tree.
LEMMA StackHangs ==
    ASSUME NEW t, WellStacked(t), NEW m \in Hanging(t), NEW d \in 1 .. Depth
    PROVE  Stack(t, m, d) \subseteq Hanging(t)
<1>1. Hanging(t) \in SUBSET Mounts
  BY FilesystemAssumption DEF Hanging, Others
<1>2. Closed(t, Hanging(t), d)
  <2> SUFFICES ASSUME NEW c \in Others, t[c].at = d PROVE t[c] # Nowhere
    BY DEF Closed, Hanging
  <2>1. Nowhere.at = 0 /\ d # 0
    BY FilesystemAssumption DEF Nowhere
  <2> QED BY <2>1, Zenon
<1> QED
  BY <1>1, <1>2, StackLeast

\* Top is one of the stack with nothing on it.
LEMMA TopFound ==
    WellStacked(tree) =>
      \A m \in Mounts, d \in 1 .. Depth : Top(m, d) \in Stack(tree, m, d) /\ Bare(tree, Top(m, d), d)
<1> SUFFICES ASSUME WellStacked(tree), NEW m \in Mounts, NEW d \in 1 .. Depth
             PROVE  Top(m, d) \in Stack(tree, m, d) /\ Bare(tree, Top(m, d), d)
  OBVIOUS
<1>1. PICK x \in Stack(tree, m, d) : Bare(tree, x, d)
  BY DEF WellStacked
<1>2. Top(m, d) = x
  BY <1>1, TopIs
<1> QED
  BY <1>1, <1>2

-----------------------------------------------------------------------------
(* Trees with one mount more or less.                                        *)

Put(t, n, v, d) == [t EXCEPT ![n] = [on |-> v, at |-> d]]

\* A mount that was nowhere is put on one that hangs and is bare at that depth.
LEMMA Grown ==
    ASSUME NEW t, WellStacked(t), NEW n \in Others, t[n] = Nowhere,
           NEW v \in Hanging(t), NEW d \in 1 .. Depth, Bare(t, v, d),
           NEW u, u = Put(t, n, v, d)
    PROVE  /\ WellStacked(u)
           /\ \A x \in Mounts, e \in 1 .. Depth :
                Bare(u, x, e) <=> Bare(t, x, e) /\ ~(x = v /\ e = d)
           /\ \A x \in Mounts, e \in 1 .. Depth : Stack(t, x, e) \subseteq Stack(u, x, e)
           /\ \A x \in Mounts : v \in Stack(t, x, d) => n \in Stack(u, x, d)
           /\ \A e \in 1 .. Depth : Bare(u, n, e)
<1> t \in [Others -> Places]
  BY DEF WellStacked
<1>1. v \in Mounts /\ n \in Mounts /\ n # v /\ Root \notin Others
  BY FilesystemAssumption DEF Hanging, Others
<1>2. [on |-> v, at |-> d] \in Places /\ [on |-> v, at |-> d] # Nowhere
  <2>1. [on |-> v, at |-> d] \in [on : Mounts, at : 1 .. Depth]
    BY <1>1
  <2>2. v # None
    BY <1>1, FilesystemAssumption
  <2> QED BY <2>1, <2>2 DEF Places, Nowhere
<1>3. /\ u \in [Others -> Places]
      /\ u[n] = [on |-> v, at |-> d] /\ u[n].on = v /\ u[n].at = d
      /\ \A c \in Others : c # n => u[c] = t[c]
  BY <1>2 DEF Put
<1>4. t[n].on = None /\ t[n].at = 0 /\ d # 0 /\ None \notin Mounts
  BY FilesystemAssumption DEF Nowhere
<1>5. \A e \in 1 .. Depth : Bare(t, n, e)
  <2> SUFFICES ASSUME NEW c \in Others, t[c].on = n PROVE FALSE
    BY DEF Bare
  <2>1. t[c] # Nowhere
    <3>1. Nowhere.on = None
      BY DEF Nowhere
    <3> QED BY <1>1, <1>4, <3>1
  <2>2. n \in Hanging(t)
    BY <2>1 DEF WellStacked
  <2> QED BY <1>1, <2>2 DEF Hanging
<1>6. \A x \in Mounts, e \in 1 .. Depth : Bare(u, x, e) <=> Bare(t, x, e) /\ ~(x = v /\ e = d)
  <2> SUFFICES ASSUME NEW x \in Mounts, NEW e \in 1 .. Depth
               PROVE  Bare(u, x, e) <=> Bare(t, x, e) /\ ~(x = v /\ e = d)
    OBVIOUS
  <2>1. ASSUME Bare(u, x, e) PROVE Bare(t, x, e) /\ ~(x = v /\ e = d)
    BY <1>3, <1>4, <2>1 DEF Bare
  <2>2. ASSUME Bare(t, x, e), ~(x = v /\ e = d) PROVE Bare(u, x, e)
    BY <1>3, <2>2 DEF Bare
  <2> QED BY <2>1, <2>2
<1>7. \A e \in 1 .. Depth : Bare(u, n, e)
  BY <1>1, <1>5, <1>6
<1>8. ASSUME NEW x \in Mounts, NEW e \in 1 .. Depth PROVE Stack(t, x, e) \subseteq Stack(u, x, e)
  <2>1. Closed(t, Stack(u, x, e), e)
    <3> SUFFICES ASSUME NEW c \in Others, t[c].at = e, t[c].on \in Stack(u, x, e)
                 PROVE  c \in Stack(u, x, e)
      BY DEF Closed
    <3>1. c # n
      BY <1>4, FilesystemAssumption
    <3> QED BY <1>3, <3>1, StackHas DEF Closed
  <2> QED BY <2>1, StackHas, StackLeast
<1>9. ASSUME NEW x \in Mounts, v \in Stack(t, x, d) PROVE n \in Stack(u, x, d)
  BY <1>3, <1>8, <1>9, StackHas DEF Closed
<1>10. WellStacked(u)
  <2>1. ASSUME NEW c \in Others, u[c] # Nowhere PROVE u[c].on \in Hanging(u)
    <3>1. Hanging(t) \subseteq Hanging(u)
      BY <1>2, <1>3 DEF Hanging
    <3>2. CASE c = n
      BY <1>3, <3>1, <3>2
    <3>3. CASE c # n
      BY <1>3, <2>1, <3>1, <3>3 DEF WellStacked
    <3> QED BY <3>2, <3>3
  <2>2. ASSUME NEW b \in Others, NEW c \in Others, u[b] = u[c] PROVE b = c \/ u[b] = Nowhere
    <3>1. \A a \in Others : t[a] # [on |-> v, at |-> d]
      BY DEF Bare
    <3> QED BY <1>3, <2>2, <3>1 DEF WellStacked
  <2>3. ASSUME NEW x \in Mounts, NEW e \in 1 .. Depth PROVE \E y \in Stack(u, x, e) : Bare(u, y, e)
    <3>1. PICK y \in Stack(t, x, e) : Bare(t, y, e)
      BY DEF WellStacked
    <3>2. CASE y = v /\ e = d
      BY <1>7, <1>9, <3>1, <3>2
    <3>3. CASE ~(y = v /\ e = d)
      BY <1>6, <1>8, <3>1, <3>3, StackHas
    <3> QED BY <3>2, <3>3
  <2> QED BY <1>3, <2>1, <2>2, <2>3 DEF WellStacked
<1> QED
  BY <1>6, <1>7, <1>8, <1>9, <1>10

\* A mount with nothing on it is taken away.
LEMMA Pruned ==
    ASSUME NEW t, WellStacked(t), NEW n \in Others, t[n] # Nowhere,
           \A d \in 1 .. Depth : Bare(t, n, d),
           NEW u, u = [t EXCEPT ![n] = Nowhere]
    PROVE  WellStacked(u)
<1> t \in [Others -> Places]
  BY DEF WellStacked
<1>1. n \in Mounts /\ n # Root
  BY DEF Others
<1>2. /\ u \in [Others -> Places] /\ u[n] = Nowhere
      /\ \A c \in Others : c # n => u[c] = t[c]
  BY DEF Places
<1>3. Nowhere.on = None /\ Nowhere.at = 0 /\ None \notin Mounts
  BY FilesystemAssumption DEF Nowhere
<1>4. ASSUME NEW c \in Others, t[c] # Nowhere PROVE t[c].on # n
  <2>1. t[c].at \in 1 .. Depth
    BY <1>4, PlaceIs
  <2> QED BY <2>1 DEF Bare
<1>5. ASSUME NEW c \in Others, u[c] # Nowhere PROVE u[c].on \in Hanging(u)
  <2>1. c # n /\ u[c] = t[c] /\ t[c].on \in Hanging(t) /\ t[c].on # n
    BY <1>2, <1>4, <1>5 DEF WellStacked
  <2> QED BY <1>2, <2>1 DEF Hanging
<1>6. ASSUME NEW b \in Others, NEW c \in Others, u[b] = u[c] PROVE b = c \/ u[b] = Nowhere
  BY <1>2, <1>6 DEF WellStacked
<1>7. ASSUME NEW x \in Mounts, NEW e \in 1 .. Depth, Bare(t, x, e) PROVE Bare(u, x, e)
  BY <1>2, <1>3, <1>7, FilesystemAssumption DEF Bare
<1>8. ASSUME NEW x \in Mounts, NEW e \in 1 .. Depth PROVE \E y \in Stack(u, x, e) : Bare(u, y, e)
  <2>1. PICK y \in Stack(t, x, e) : Bare(t, y, e)
    BY DEF WellStacked
  <2>2. CASE x = n
    BY <1>1, <1>7, <2>2, StackHas
  <2>3. CASE x # n
    <3>1. Closed(t, Stack(u, x, e) \cup {n}, e)
      <4> SUFFICES ASSUME NEW c \in Others, t[c].at = e, t[c].on \in Stack(u, x, e) \cup {n}, c # n
                   PROVE  c \in Stack(u, x, e)
        BY DEF Closed
      <4>1. t[c].on # n
        BY DEF Bare
      <4> QED BY <1>2, <4>1, StackHas DEF Closed
    <3>2. Stack(t, x, e) \subseteq Stack(u, x, e) \cup {n}
      <4>1. Stack(u, x, e) \cup {n} \in SUBSET Mounts /\ x \in Stack(u, x, e) \cup {n}
        BY <1>1, StackHas
      <4> QED BY <3>1, <4>1, StackLeast
    <3>3. CASE y # n
      BY <1>7, <2>1, <3>2, <3>3, StackHas
    <3>4. CASE y = n
      <4>1. t[n].at = e /\ t[n].on \in Stack(t, x, e)
        BY <2>1, <2>3, <3>4, StackBelow
      <4>2. t[n].on # n /\ t[n].on \in Mounts
        BY <1>4, <4>1, StackHas
      <4>3. Bare(u, t[n].on, e)
        <5> SUFFICES ASSUME NEW c \in Others, u[c].on = t[n].on, u[c].at = e PROVE FALSE
          BY DEF Bare
        <5>1. c # n
          BY <1>2, <1>3, FilesystemAssumption
        <5> QED BY <1>2, <4>1, <5>1, PlacedAlone
      <4> QED BY <3>2, <4>1, <4>2, <4>3
    <3> QED BY <3>3, <3>4
  <2> QED BY <2>2, <2>3
<1> QED
  BY <1>2, <1>5, <1>6, <1>8 DEF WellStacked

-----------------------------------------------------------------------------
(* The path.                                                                 *)

\* A set of numbers has a least one.
LEMMA LeastOf == ASSUME NEW S, S \subseteq Nat, S # {} PROVE \E m \in S : \A j \in S : m <= j
<1> DEFINE R == {p \in Nat \X Nat : p[1] < p[2]}
<1>1. IsWellFoundedOn(R, Nat)
  BY ONLY NatLessThanWellFounded DEF OpToRel
<1>2. PICK m \in S : \A j \in S : <<j, m>> \notin R
  <2> HIDE DEF R
  <2> QED BY <1>1, WFMin
<1>3. \A j \in S : ~(j < m)
  BY <1>2
<1> QED
  BY <1>3

\* A path takes at each depth the step of that depth from where it is.
StepsIn(S, step) == \A x \in S, d \in 1 .. Depth : step[d][x] \in S
IsPath(p, S, r, step) ==
    p \in [0 .. Depth -> S] /\ p[0] = r /\ \A d \in 1 .. Depth : p[d] = step[d][p[d - 1]]

\* From a mount, step by step, there is a path of any length.
LEMMA PathExists ==
    ASSUME NEW S, NEW r \in S, NEW step, StepsIn(S, step)
    PROVE  \E p : IsPath(p, S, r, step)
<1> \A x \in S, d \in 1 .. Depth : step[d][x] \in S
  BY DEF StepsIn
<1> Depth \in Nat
  BY FilesystemAssumption
<1> DEFINE Path(p, n) == p \in [0 .. n -> S] /\ p[0] = r /\ \A d \in 1 .. n : p[d] = step[d][p[d - 1]]
           Missing == {n \in 0 .. Depth : \A p : ~Path(p, n)}
<1>1. ASSUME Missing # {} PROVE FALSE
  <2>1. PICK n \in Missing : \A k \in Missing : n <= k
    <3>1. Missing \subseteq Nat
      OBVIOUS
    <3> HIDE DEF Missing
    <3> QED BY <1>1, <3>1, LeastOf
  <2>2. n # 0
    <3>1. Path([i \in 0 .. 0 |-> r], 0)
      OBVIOUS
    <3> QED BY <2>1, <3>1
  <2>3. n \in 1 .. Depth /\ n - 1 \in 0 .. Depth /\ n - 1 \notin Missing
    BY <2>1, <2>2
  <2>4. PICK p : Path(p, n - 1)
    BY <2>3
  <2> DEFINE q == [i \in 0 .. n |-> IF i = n THEN step[n][p[n - 1]] ELSE p[i]]
  <2>5. q \in [0 .. n -> S]
    BY <2>3, <2>4
  <2>6. \A i \in 0 .. n - 1 : q[i] = p[i]
    BY <2>3
  <2>7. q[n] = step[n][p[n - 1]]
    BY <2>3
  <2>8. q[0] = r
    BY <2>3, <2>4, <2>6
  <2>9. ASSUME NEW d \in 1 .. n PROVE q[d] = step[d][q[d - 1]]
    <3> HIDE DEF q
    <3>1. CASE d = n
      BY <2>3, <2>6, <2>7, <3>1
    <3>2. CASE d # n
      <4>1. d \in 1 .. n - 1 /\ d \in 0 .. n - 1 /\ d - 1 \in 0 .. n - 1
        BY <2>3, <3>2
      <4> QED BY <2>4, <2>6, <4>1
    <3> QED BY <3>1, <3>2
  <2>10. Path(q, n)
    <3> HIDE DEF q
    <3> QED BY <2>5, <2>8, <2>9
  <2> QED BY <2>1, <2>10
<1>2. Depth \notin Missing
  BY <1>1
<1> QED
  BY <1>2 DEF IsPath

\* Paths that step alike below a depth are the same below it.
LEMMA PathAgree ==
    ASSUME NEW p, NEW q, NEW c \in 0 .. Depth + 1, p[0] = q[0],
           \A d \in 1 .. Depth : d < c /\ p[d - 1] = q[d - 1] => p[d] = q[d]
    PROVE  \A d \in 0 .. Depth : d < c => p[d] = q[d]
<1> Depth \in Nat
  BY FilesystemAssumption
<1> DEFINE Differ == {d \in 0 .. Depth : d < c /\ p[d] # q[d]}
<1>1. ASSUME Differ # {} PROVE FALSE
  <2>1. PICK d \in Differ : \A k \in Differ : d <= k
    <3>1. Differ \subseteq Nat
      OBVIOUS
    <3> HIDE DEF Differ
    <3> QED BY <1>1, <3>1, LeastOf
  <2>2. d \in 1 .. Depth /\ d < c /\ p[d] # q[d] /\ d - 1 \in 0 .. Depth /\ d - 1 < c /\ ~(d <= d - 1)
    BY <2>1
  <2>3. p[d - 1] = q[d - 1]
    BY <2>1, <2>2
  <2> QED BY <2>2, <2>3
<1> QED
  BY <1>1

\* What Visible is: a path of topmost mounts, all of them in the tree.
LEMMA VisibleIs ==
    WellStacked(tree) =>
      /\ Visible \in [0 .. Depth -> Hanging(tree)]
      /\ Visible[0] = Root
      /\ \A d \in 1 .. Depth : Visible[d] = Top(Visible[d - 1], d)
<1> SUFFICES ASSUME WellStacked(tree)
             PROVE  /\ Visible \in [0 .. Depth -> Hanging(tree)]
                    /\ Visible[0] = Root
                    /\ \A d \in 1 .. Depth : Visible[d] = Top(Visible[d - 1], d)
  OBVIOUS
<1> Depth \in Nat /\ Hanging(tree) \subseteq Mounts /\ Root \in Hanging(tree)
  BY FilesystemAssumption DEF Hanging, Others
<1> DEFINE step == [d \in 1 .. Depth |-> [x \in Mounts |-> Top(x, d)]]
           IsVisible(g) == g = [d \in 0 .. Depth |-> IF d = 0 THEN Root ELSE Top(g[d - 1], d)]
<1>1. \A x \in Hanging(tree), d \in 1 .. Depth : Top(x, d) \in Hanging(tree)
  BY TopFound, StackHangs
<1>2. PICK p \in [0 .. Depth -> Hanging(tree)] :
        p[0] = Root /\ \A d \in 1 .. Depth : p[d] = step[d][p[d - 1]]
  <2>1. StepsIn(Hanging(tree), step)
    BY <1>1 DEF StepsIn
  <2> HIDE DEF step
  <2>2. PICK p : IsPath(p, Hanging(tree), Root, step)
    BY <2>1, PathExists
  <2> QED BY <2>2 DEF IsPath
<1>3. ASSUME NEW d \in 1 .. Depth PROVE p[d] = Top(p[d - 1], d)
  <2>1. d - 1 \in 0 .. Depth
    OBVIOUS
  <2>2. p[d - 1] \in Mounts
    BY <1>2, <2>1
  <2> QED BY <1>2, <2>2
<1>4. IsVisible(p)
  <2>1. p = [d \in 0 .. Depth |-> p[d]]
    BY <1>2
  <2>2. ASSUME NEW d \in 0 .. Depth PROVE p[d] = IF d = 0 THEN Root ELSE Top(p[d - 1], d)
    BY <1>2, <1>3
  <2> QED BY <2>1, <2>2
<1>5. IsVisible(Visible)
  <2>1. Visible = CHOOSE g : IsVisible(g)
    BY DEF Visible
  <2> HIDE DEF IsVisible
  <2> QED BY <1>4, <2>1
<1>6. Visible[0] = Root /\ \A d \in 1 .. Depth : Visible[d] = Top(Visible[d - 1], d)
  BY <1>5
<1>7. \A d \in 0 .. Depth : d < Depth + 1 => Visible[d] = p[d]
  <2>1. \A d \in 1 .. Depth : d < Depth + 1 /\ Visible[d - 1] = p[d - 1] => Visible[d] = p[d]
    BY <1>3, <1>6
  <2>2. Visible[0] = p[0]
    BY <1>2, <1>6
  <2>3. Depth + 1 \in 0 .. Depth + 1
    OBVIOUS
  <2> QED BY <2>1, <2>2, <2>3, PathAgree
<1>8. Visible = [d \in 0 .. Depth |-> Visible[d]]
  BY <1>5
<1>9. ASSUME NEW d \in 0 .. Depth PROVE Visible[d] \in Hanging(tree)
  BY <1>2, <1>7
<1> QED
  BY <1>6, <1>8, <1>9

\* The path goes on to what is bare in the stack on its last mount.
LEMMA VisibleOn ==
    WellStacked(tree) =>
      \A d \in 1 .. Depth, x \in Mounts, y \in Mounts :
        x = Visible[d - 1] /\ y \in Stack(tree, x, d) /\ Bare(tree, y, d) => Visible[d] = y
<1> SUFFICES ASSUME WellStacked(tree), NEW d \in 1 .. Depth, NEW x \in Mounts, NEW y \in Mounts,
                    x = Visible[d - 1], y \in Stack(tree, x, d), Bare(tree, y, d)
             PROVE  Visible[d] = y
  OBVIOUS
<1>1. Visible[d] = Top(x, d)
  BY VisibleIs
<1> QED
  BY <1>1, TopIs

\* The same of the state after a step.
LEMMA VisibleNext ==
    WellStacked(tree') =>
      /\ Visible' \in [0 .. Depth -> Hanging(tree')] /\ Visible'[0] = Root
      /\ \A d \in 1 .. Depth, x \in Mounts, y \in Mounts :
           x = Visible'[d - 1] /\ y \in Stack(tree', x, d) /\ Bare(tree', y, d) => Visible'[d] = y
<1>1. (WellStacked(tree) =>
        /\ Visible \in [0 .. Depth -> Hanging(tree)] /\ Visible[0] = Root
        /\ \A d \in 1 .. Depth, x \in Mounts, y \in Mounts :
             x = Visible[d - 1] /\ y \in Stack(tree, x, d) /\ Bare(tree, y, d) => Visible[d] = y)'
  <2>1. WellStacked(tree) =>
        /\ Visible \in [0 .. Depth -> Hanging(tree)] /\ Visible[0] = Root
        /\ \A d \in 1 .. Depth, x \in Mounts, y \in Mounts :
             x = Visible[d - 1] /\ y \in Stack(tree, x, d) /\ Bare(tree, y, d) => Visible[d] = y
    BY VisibleIs, VisibleOn
  <2> QED BY <2>1, PTL
<1> QED
  BY <1>1

\* The next mount of the path is the one before where nothing is mounted, and a mount
\* at that depth where something is.
LEMMA VisibleStep ==
    ASSUME WellStacked(tree), NEW d \in 1 .. Depth
    PROVE  /\ Visible[d] \in Mounts /\ Visible[d - 1] \in Mounts
           /\ Visible[d] \in Stack(tree, Visible[d - 1], d) /\ Bare(tree, Visible[d], d)
           /\ Visible[d] # Visible[d - 1] => Visible[d] \in Others /\ tree[Visible[d]].at = d
<1>1. d \in 0 .. Depth /\ d - 1 \in 0 .. Depth
  BY FilesystemAssumption
<1>2. Hanging(tree) \subseteq Mounts
  BY FilesystemAssumption DEF Hanging, Others
<1>3. Visible[d] = Top(Visible[d - 1], d) /\ Visible[d] \in Mounts /\ Visible[d - 1] \in Mounts
  BY <1>1, <1>2, VisibleIs
<1>4. Visible[d] \in Stack(tree, Visible[d - 1], d) /\ Bare(tree, Visible[d], d)
  BY <1>3, TopFound
<1>5. ASSUME NEW m \in Mounts, NEW x \in Stack(tree, m, d), x # m
      PROVE  x \in Others /\ tree[x].at = d
  BY <1>5, StackBelow
<1> QED
  BY <1>3, <1>4, <1>5

-----------------------------------------------------------------------------
(* What the namespace is like at every step: nothing is mounted on what is   *)
(* no directory.                                                             *)

TreeInv ==
    /\ WellStacked(tree)
    /\ entries \in [1 .. Depth -> {"directory", "symlink", "absent"}]
    /\ \A m \in Others, d \in 1 .. Depth : d <= tree[m].at => entries[d] = "directory"

\* A path that can be walked has directories everywhere, under mounts as well.
LEMMA WalkableEntries ==
    ASSUME TreeInv, NEW d \in 1 .. Depth, Walkable(d), NEW e \in 1 .. d
    PROVE  entries[e] = "directory"
<1>1. e \in 1 .. Depth
  BY FilesystemAssumption
<1>2. CASE Visible[e] = Visible[e - 1]
  BY <1>2 DEF Walkable
<1>3. CASE Visible[e] # Visible[e - 1]
  <2>1. Visible[e] \in Others /\ tree[Visible[e]].at = e
    BY <1>1, <1>3, VisibleStep DEF TreeInv
  <2> QED BY <1>1, <2>1 DEF TreeInv
<1> QED
  BY <1>2, <1>3

\* A mount is added on directories.
LEMMA TreeGrown ==
    ASSUME TreeInv, NEW n \in Others, tree[n] = Nowhere, NEW v \in Hanging(tree), NEW d \in 1 .. Depth,
           Bare(tree, v, d), \A e \in 1 .. d : entries[e] = "directory",
           tree' = Mounted(n, v, d), UNCHANGED entries
    PROVE  TreeInv'
<1>1. tree' = [tree EXCEPT ![n] = [on |-> v, at |-> d]] /\ WellStacked(tree)
  BY DEF Mounted, TreeInv
<1>2. WellStacked(tree')
  BY <1>1, Grown DEF Put
<1>3. ASSUME NEW m \in Others, NEW e \in 1 .. Depth, e <= tree'[m].at PROVE entries[e] = "directory"
  <2>1. tree \in [Others -> Places]
    BY DEF TreeInv, WellStacked
  <2>2. CASE m = n
    <3>1. tree'[m].at = d
      BY <1>1, <2>1, <2>2
    <3> QED BY <1>3, <3>1, FilesystemAssumption
  <2>3. CASE m # n
    <3>1. tree'[m] = tree[m]
      BY <1>1, <2>1, <2>3
    <3> QED BY <1>3, <3>1 DEF TreeInv
  <2> QED BY <2>2, <2>3
<1> QED
  BY <1>2, <1>3 DEF TreeInv

\* At first there is only the mount at "/".
LEMMA TreeInit == Init => TreeInv
<1> SUFFICES ASSUME Init PROVE TreeInv
  OBVIOUS
<1>1. /\ tree \in [Others -> Places]
      /\ \A m \in Others : tree[m] = Nowhere /\ tree[m].at = 0 /\ tree[m].on = None
  BY DEF Init, Nowhere, Places
<1>2. ASSUME NEW m \in Mounts, NEW d \in 1 .. Depth PROVE m \in Stack(tree, m, d) /\ Bare(tree, m, d)
  BY <1>1, StackHas, FilesystemAssumption DEF Bare
<1>3. WellStacked(tree)
  BY <1>1, <1>2 DEF WellStacked
<1> QED
  BY <1>1, <1>3, FilesystemAssumption DEF TreeInv, Init

\* Other processes mount what a walkable path leads to, unmount what nothing is on, and
\* replace what nothing is mounted on or below.
LEMMA TreeChanges == ASSUME TreeInv, Mount \/ Unmount \/ Replace PROVE TreeInv'
<1> tree \in [Others -> Places] /\ WellStacked(tree) /\ Depth \in Nat
  BY FilesystemAssumption DEF TreeInv, WellStacked
<1>1. CASE Mount
  <2>1. PICK n \in Others, d \in 1 .. Depth :
          ~Attached(n) /\ Walkable(d) /\ tree' = Mounted(n, Visible[d], d) /\ UNCHANGED entries
    BY <1>1 DEF Mount
  <2>2. tree[n] = Nowhere
    BY <2>1 DEF Attached
  <2>3. Visible[d] \in Hanging(tree)
    BY VisibleIs
  <2>4. Bare(tree, Visible[d], d)
    BY VisibleStep
  <2>5. \A e \in 1 .. d : entries[e] = "directory"
    BY <2>1, WalkableEntries
  <2> QED BY <2>1, <2>2, <2>3, <2>4, <2>5, TreeGrown
<1>2. CASE Unmount
  <2>1. PICK n \in Others :
          /\ Attached(n) /\ \A d \in 1 .. Depth : On(n, d) = {}
          /\ tree' = [tree EXCEPT ![n] = Nowhere] /\ UNCHANGED entries
    BY <1>2 DEF Unmount
  <2>2. tree[n] # Nowhere /\ \A d \in 1 .. Depth : Bare(tree, n, d)
    BY <2>1, FilesystemAssumption DEF Attached, On, Bare, Others
  <2>3. WellStacked(tree')
    BY <2>1, <2>2, Pruned
  <2>4. ASSUME NEW m \in Others, NEW d \in 1 .. Depth, d <= tree'[m].at PROVE entries[d] = "directory"
    <3>1. m # n
      BY <2>1, <2>4 DEF Nowhere
    <3>2. tree'[m] = tree[m]
      BY <2>1, <3>1
    <3> QED BY <2>4, <3>2 DEF TreeInv
  <2> QED BY <2>1, <2>3, <2>4 DEF TreeInv
<1>3. CASE Replace
  <2>1. PICK d \in 1 .. Depth, entry \in {"directory", "symlink", "absent"} :
          /\ \A m \in Others : tree[m].at < d
          /\ entries' = [entries EXCEPT ![d] = entry] /\ UNCHANGED tree
    BY <1>3 DEF Replace
  <2>2. ASSUME NEW m \in Others, NEW e \in 1 .. Depth, e <= tree[m].at PROVE entries'[e] = "directory"
    <3>1. tree[m].at \in Nat
      <4>1. tree[m].at = 0 \/ tree[m].at \in 1 .. Depth
        BY PlaceIs, Zenon
      <4> QED BY <4>1
    <3>2. e # d
      BY <2>1, <2>2, <3>1
    <3> QED BY <2>1, <2>2, <3>2 DEF TreeInv
  <2> QED BY <2>1, <2>2 DEF TreeInv
<1> QED
  BY <1>1, <1>2, <1>3

-----------------------------------------------------------------------------
(* The walk.                                                                 *)

Walking == pc \in {"check", "open", "stat"}

\* A walk is to a mount that mountinfo listed, and has come no deeper than that.
WalkInv ==
    /\ pc = "mountinfo" => DOMAIN reports = {}
    /\ pc # "mountinfo" =>
         /\ Root \in DOMAIN listed
         /\ \A m \in DOMAIN listed : m \in Mounts /\ listed[m] \in 0 .. Depth
    /\ Walking =>
         /\ target \in DOMAIN listed
         /\ fd.mount \in Mounts /\ fd.depth \in 0 .. listed[target]
    /\ pc \in {"mountinfo", "next"} \/ Walking
    /\ pc = "open" => fd.depth < listed[target]
    /\ pc = "stat" => fd.depth = listed[target]

\* Nothing is read or reported at first.
LEMMA WalkInit == Init => WalkInv
  BY DEF Init, WalkInv, Walking

\* A component that is opened is one of the path.
LEMMA ComponentIs ==
    ASSUME TreeInv, WalkInv, pc = "open"
    PROVE  /\ Component \in 1 .. Depth /\ Component <= listed[target] /\ fd.depth = Component - 1
           /\ fd.depth \in 0 .. Depth /\ listed[target] \in 0 .. Depth
           /\ Found \in Mounts /\ Bare(tree, Found, Component)
           /\ Found \in Stack(tree, fd.mount, Component)
           /\ Covered => Found \in Others /\ tree[Found].at = Component
<1>1. /\ Component \in 1 .. Depth /\ Component <= listed[target] /\ fd.depth = Component - 1
      /\ fd.depth \in 0 .. Depth /\ listed[target] \in 0 .. Depth /\ fd.mount \in Mounts
  BY FilesystemAssumption DEF WalkInv, Walking, Component
<1> HIDE DEF Component
<1>2. Found \in Stack(tree, fd.mount, Component) /\ Bare(tree, Found, Component)
  BY <1>1, TopFound DEF Found, TreeInv
<1> QED
  BY <1>1, <1>2, StackHas, StackBelow DEF Covered

\* A call that returns leaves no descriptor behind.
LEMMA WalkReturns ==
    ASSUME WalkInv, Walking, NEW status, NEW usage, Return(status, usage)
    PROVE  WalkInv'
  BY DEF WalkInv, Walking, Return

\* Mounts found in mountinfo are at a depth of the path.
LEMMA ListedIs ==
    ASSUME TreeInv, ReadMountInfo
    PROVE  /\ Root \in DOMAIN listed'
           /\ \A m \in DOMAIN listed' : m \in Mounts /\ listed'[m] \in 0 .. Depth
<1>1. listed' = [m \in {m \in Mounts : Attached(m)} |-> DepthOf(m)]
  BY DEF ReadMountInfo
<1>2. Root \in Mounts /\ Attached(Root) /\ Depth \in Nat
  BY FilesystemAssumption DEF Attached
<1>3. ASSUME NEW m \in Mounts, Attached(m) PROVE DepthOf(m) \in 0 .. Depth
  <2>1. CASE m = Root
    BY <1>2, <2>1 DEF DepthOf
  <2>2. CASE m # Root
    <3>1. m \in Others /\ tree[m] # Nowhere /\ tree \in [Others -> Places]
      BY <1>3, <2>2 DEF Attached, Others, TreeInv, WellStacked
    <3>2. tree[m].at \in 1 .. Depth
      BY <3>1, PlaceIs
    <3> QED BY <1>2, <2>2, <3>2 DEF DepthOf
  <2> QED BY <2>1, <2>2
<1> QED
  BY <1>1, <1>2, <1>3

\* Every step of the walk keeps the descriptor on its way to a listed mount.
LEMMA WalkStep == ASSUME TreeInv, WalkInv, [Next]_vars PROVE WalkInv'
<1>1. CASE Mount \/ Unmount \/ Replace \/ UNCHANGED vars
  BY <1>1 DEF Mount, Unmount, Replace, Changes, vars, WalkInv, Walking
<1>2. CASE ReadMountInfo
  BY <1>2, ListedIs DEF ReadMountInfo, WalkInv, Walking
<1>3. CASE SkipFilesystem
  BY <1>3 DEF SkipFilesystem, WalkInv, Walking
<1>4. CASE Query
  <2>1. target' \in DOMAIN listed /\ fd' = [mount |-> Root, depth |-> 0] /\ pc' = "check" /\ UNCHANGED listed
    BY <1>4 DEF Query, WalkInv
  <2>2. Root \in Mounts /\ listed[target'] \in 0 .. Depth /\ 0 \in 0 .. listed[target']
    BY <1>4, <2>1, FilesystemAssumption DEF Query, WalkInv
  <2>3. fd'.mount = Root /\ fd'.depth = 0
    BY <2>1
  <2> QED BY <1>4, <2>1, <2>2, <2>3 DEF Query, WalkInv, Walking
<1>5. CASE Check
  <2>1. Walking
    BY <1>5 DEF Check, Walking
  <2>2. CASE Return("NotCollected", None) \/ Return("IoError", None)
    BY <2>1, <2>2, WalkReturns
  <2>3. CASE Queryable /\ pc' = (IF Last THEN "stat" ELSE "open") /\ UNCHANGED <<listed, target, fd, reports>>
    <3>1. listed[target] \in 0 .. Depth /\ Depth \in Nat
      BY <1>5, <2>1, FilesystemAssumption DEF WalkInv, Check
    <3>2. Last => fd.depth = listed[target]
      BY DEF Last
    <3>3. ~Last => fd.depth < listed[target]
      BY <2>1, <3>1 DEF Last, WalkInv
    <3> QED BY <1>5, <2>1, <2>3, <3>2, <3>3 DEF WalkInv, Walking, Check
  <2> QED BY <1>5, <2>2, <2>3 DEF Check
<1>6. CASE Open \/ OpenActivates
  <2>1. pc = "open" /\ pc' = "check" /\ UNCHANGED <<listed, target, reports>>
    BY <1>6 DEF Open, OpenActivates
  <2>2. Found \in Mounts /\ Component \in 0 .. listed[target]
    BY <2>1, ComponentIs, FilesystemAssumption
  <2>3. fd'.mount \in Mounts /\ fd'.depth = Component
    <3> HIDE DEF Component
    <3> QED BY <1>6, <2>2 DEF Open, OpenActivates, Others
  <2> QED BY <2>1, <2>2, <2>3 DEF WalkInv, Walking
<1>7. CASE OpenFails
  <2>1. PICK status : Return(status, None)
    BY <1>7 DEF OpenFails
  <2> QED BY <1>7, <2>1, WalkReturns DEF OpenFails, Walking
<1>8. CASE Stat
  <2>1. PICK status, usage : Return(status, usage)
    BY <1>8 DEF Stat
  <2> QED BY <1>8, <2>1, WalkReturns DEF Stat, Walking
<1> QED
  BY <1>1, <1>2, <1>3, <1>4, <1>5, <1>6, <1>7, <1>8 DEF Next, Done

\* An automount is activated only on a mount of the tree.
LEMMA ActivatedOn ==
    ASSUME TreeInv, WalkInv, CheckedBeforeOpen, OpenActivates
    PROVE  Covered /\ Direct(Found) /\ Directory
<1>1. pc = "open" /\ Activates # {}
  BY DEF OpenActivates
<1>2. ~Autofs(fd.mount)
  BY <1>1 DEF CheckedBeforeOpen
<1> QED
  BY <1>1, <1>2 DEF Activates

\* The tree stays one under every step, the automounts a walk activates included.
LEMMA TreeStep == ASSUME TreeInv, WalkInv, CheckedBeforeOpen, [Next]_vars PROVE TreeInv'
<1>1. CASE Mount \/ Unmount \/ Replace
  BY <1>1, TreeChanges
<1>2. CASE UNCHANGED <<tree, entries>>
  BY <1>2 DEF TreeInv
<1>3. CASE OpenActivates
  <2>1. PICK n \in Others : /\ ~Attached(n)
                            /\ tree' = Mounted(n, Found, Component) /\ UNCHANGED entries
    BY <1>3 DEF OpenActivates
  <2>2. pc = "open" /\ Covered
    BY <1>3, ActivatedOn DEF OpenActivates
  <2>3. /\ Component \in 1 .. Depth /\ Bare(tree, Found, Component)
        /\ Found \in Others /\ tree[Found].at = Component
    BY <2>2, ComponentIs
  <2> HIDE DEF Component, Found
  <2>4. tree[n] = Nowhere /\ Found \in Hanging(tree)
    <3>1. Nowhere.at = 0 /\ Component # 0
      BY <2>3, FilesystemAssumption DEF Nowhere
    <3> QED BY <2>1, <2>3, <3>1 DEF Attached, Hanging
  <2>5. ASSUME NEW e \in 1 .. Component PROVE entries[e] = "directory"
    <3>1. e \in 1 .. Depth /\ e <= Component
      BY <2>3, FilesystemAssumption
    <3> QED BY <2>3, <3>1 DEF TreeInv
  <2> QED BY <2>1, <2>3, <2>4, <2>5, TreeGrown
<1> QED
  BY <1>1, <1>2, <1>3
     DEF Next, vars, namespace, ReadMountInfo, SkipFilesystem, Query, Check, Open, OpenFails, Stat, Done

-----------------------------------------------------------------------------
(* While nobody mounts, the descriptor follows the path, and what it finds   *)
(* stays as it is.                                                           *)

Followed ==
    changes = 0 /\ Walking =>
      /\ fd.mount = Visible[fd.depth]
      /\ \A d \in 0 .. fd.depth : d < fd.depth \/ pc # "check" => ~Autofs(Visible[d])

\* Why the path does not lead to a mount: a component is no directory, or its end is in
\* another filesystem.  Up to there it does not touch autofs.
Blocked(m) ==
    \E d \in 1 .. listed[m] :
      /\ Visible[d] = Visible[d - 1] /\ entries[d] # "directory"
      /\ \A e \in 0 .. d - 1 : ~Autofs(Visible[e])

Elsewhere(m) ==
    /\ FsOf[Visible[listed[m]]] # FsOf[m]
    /\ \A d \in 0 .. listed[m] : ~Autofs(Visible[d])

\* The listed mounts the path misses.
Missed == {m \in DOMAIN listed : Blocked(m) \/ Elsewhere(m)}

\* What was reported as changed or covered is missed by the path.
ReportsSettled ==
    changes = 0 =>
      \A f \in DOMAIN reports :
        reports[f].status \in {"NotPresent", "Unsupported"} => reports[f].of \in Missed

PathInv == changes \in Nat /\ Followed /\ ReportsSettled

\* The path does not lead to a mount it misses.
LEMMA MissedNotLed == ASSUME NEW m \in Missed PROVE ~Leads(m)
  BY DEF Missed, Blocked, Elsewhere, Leads, Walkable

\* At first nobody walks and nothing is reported.
LEMMA PathInit == Init => PathInv
  BY DEF Init, PathInv, Followed, Walking, ReportsSettled

\* The path stays while the mounts stay.
LEMMA VisibleKept == ASSUME UNCHANGED tree PROVE Visible' = Visible
  BY DEF Visible, Top, On

\* What the path misses, it misses until the namespace changes.
LEMMA MissedKept ==
    ASSUME UNCHANGED <<tree, entries, listed>>, NEW m \in Missed
    PROVE  m \in Missed'
  BY VisibleKept DEF Missed, Blocked, Elsewhere, Autofs, Direct

\* A step that only reports, and reports what is settled.
LEMMA ReportsKept ==
    ASSUME PathInv, UNCHANGED <<tree, entries, listed, changes>>,
           \/ UNCHANGED reports
           \/ \E f, report : /\ reports' = Reported(f, report)
                             /\ changes = 0 /\ report.status \in {"NotPresent", "Unsupported"}
                                  => report.of \in Missed
    PROVE  ReportsSettled'
<1> SUFFICES ASSUME changes = 0, NEW f \in DOMAIN reports',
                    reports'[f].status \in {"NotPresent", "Unsupported"}
             PROVE  reports'[f].of \in Missed'
  BY DEF ReportsSettled
<1>1. reports'[f].of \in Missed
  BY DEF PathInv, ReportsSettled, Reported
<1> QED
  BY <1>1, MissedKept

\* A call may return with "changed or covered" for a mount the path misses.
LEMMA ReturnSettled ==
    ASSUME PathInv, NEW status, NEW usage, Return(status, usage), UNCHANGED namespace,
           changes = 0 /\ status \in {"NotPresent", "Unsupported"} => target \in Missed
    PROVE  PathInv'
<1>1. reports' = Reported(FsOf[target], Report(status, usage, target))
  BY DEF Return
<1>2. Report(status, usage, target).status = status /\ Report(status, usage, target).of = target
  BY DEF Report
<1>3. ReportsSettled'
  <2> HIDE DEF Return
  <2>1. UNCHANGED <<tree, entries, listed, changes>>
    BY DEF Return, namespace
  <2> QED BY <1>1, <1>2, <2>1, ReportsKept
<1>4. Followed' /\ changes' \in Nat
  BY DEF Return, Followed, Walking, PathInv, namespace
<1> QED
  BY <1>3, <1>4 DEF PathInv

\* An automount that is activated changes the path from its own depth on.
LEMMA PathActivated ==
    ASSUME TreeInv, TreeInv', NEW n \in Others, tree[n] = Nowhere, NEW c \in 1 .. Depth, NEW v \in Others,
           v = Visible[c], tree[v] # Nowhere, tree' = Mounted(n, v, c)
    PROVE  Visible'[c] = n /\ \A d \in 0 .. Depth : d < c => Visible'[d] = Visible[d]
<1> Depth \in Nat /\ Hanging(tree) \subseteq Mounts /\ Hanging(tree') \subseteq Mounts
    /\ v \in Hanging(tree) /\ n \in Mounts /\ v \in Mounts
  BY FilesystemAssumption DEF Hanging, Others
<1> WellStacked(tree) /\ WellStacked(tree')
  BY DEF TreeInv
<1>1. v \in Stack(tree, Visible[c - 1], c) /\ Bare(tree, v, c) /\ Visible[c - 1] \in Mounts
  BY VisibleStep
<1>2. /\ \A x \in Mounts, e \in 1 .. Depth :
           Bare(tree', x, e) <=> Bare(tree, x, e) /\ ~(x = v /\ e = c)
      /\ \A x \in Mounts, e \in 1 .. Depth : Stack(tree, x, e) \subseteq Stack(tree', x, e)
      /\ \A x \in Mounts : v \in Stack(tree, x, c) => n \in Stack(tree', x, c)
      /\ \A e \in 1 .. Depth : Bare(tree', n, e)
  <2>1. tree' = Put(tree, n, v, c) /\ n \in Mounts
    BY DEF Put, Mounted
  <2> QED BY <1>1, <2>1, Grown
<1>3. ASSUME NEW d \in 1 .. Depth, d < c, Visible'[d - 1] = Visible[d - 1] PROVE Visible'[d] = Visible[d]
  <2>1. PICK x \in Mounts : x = Visible[d - 1]
    BY VisibleStep
  <2>2. PICK y \in Mounts : y = Visible[d]
    BY VisibleStep
  <2>3. y \in Stack(tree, x, d) /\ Bare(tree, y, d)
    BY <2>1, <2>2, VisibleStep
  <2>4. y \in Stack(tree', x, d) /\ Bare(tree', y, d)
    BY <1>2, <1>3, <2>3
  <2> QED BY <1>3, <2>1, <2>2, <2>4, VisibleNext
<1>4. \A d \in 0 .. Depth : d < c => Visible'[d] = Visible[d]
  <2>1. Visible'[0] = Visible[0] /\ c \in 0 .. Depth + 1
    BY VisibleIs, VisibleNext
  <2>2. ASSUME NEW p, NEW q, p[0] = q[0], \A d \in 1 .. Depth : d < c /\ p[d - 1] = q[d - 1] => p[d] = q[d]
        PROVE  \A d \in 0 .. Depth : d < c => p[d] = q[d]
    BY <2>1, <2>2, PathAgree
  <2> QED BY <1>3, <2>1, <2>2
<1>5. PICK x \in Mounts : x = Visible[c - 1] /\ x = Visible'[c - 1]
  <2>1. c - 1 \in 0 .. Depth /\ c - 1 < c
    OBVIOUS
  <2> QED BY <1>1, <1>4, <2>1
<1>6. Visible'[c] = n
  BY <1>1, <1>2, <1>5, VisibleNext
<1> QED
  BY <1>4, <1>6

\* Whoever changes the path ends what is said of an unchanged one.
LEMMA PathChanges ==
    ASSUME PathInv, WalkInv, Mount \/ Unmount \/ Replace
    PROVE  PathInv'
<1>1. Changes
  BY DEF Mount, Unmount, Replace
<1>2. CASE pc = "mountinfo"
  BY <1>1, <1>2 DEF Changes, WalkInv, PathInv, Followed, ReportsSettled, Walking
<1>3. CASE pc # "mountinfo"
  BY <1>1, <1>3 DEF Changes, PathInv, Followed, ReportsSettled
<1> QED
  BY <1>2, <1>3

\* The component that is opened is the next one of the path.
LEMMA PathOpen == ASSUME TreeInv, WalkInv, PathInv, Open PROVE PathInv'
<1>1. /\ pc = "open" /\ fd' = [mount |-> Found, depth |-> Component] /\ pc' = "check"
      /\ UNCHANGED <<namespace, listed, reports>>
  BY DEF Open
<1>2. ReportsSettled'
  BY <1>1, ReportsKept DEF namespace
<1>3. ASSUME changes = 0
      PROVE  /\ Found = Visible[Component]
             /\ \A d \in 0 .. Component : d < Component => ~Autofs(Visible[d])
  <2>1. Walking /\ Component \in 1 .. Depth /\ fd.depth = Component - 1 /\ Depth \in Nat
    BY <1>1, ComponentIs, FilesystemAssumption DEF Walking
  <2>2. fd.mount = Visible[Component - 1] /\ \A d \in 0 .. Component - 1 : ~Autofs(Visible[d])
    BY <1>1, <1>3, <2>1 DEF PathInv, Followed
  <2>3. Found \in Stack(tree, fd.mount, Component) /\ Bare(tree, Found, Component)
        /\ Found \in Mounts /\ fd.mount \in Mounts
    BY <1>1, <2>1, ComponentIs DEF WalkInv
  <2> HIDE DEF Component, Found
  <2>4. Found = Visible[Component]
    BY <2>1, <2>2, <2>3, VisibleOn DEF TreeInv
  <2> QED BY <2>1, <2>2, <2>4
<1>4. Followed'
  <2>1. Visible' = Visible /\ fd'.mount = Found /\ fd'.depth = Component /\ changes' = changes
    BY <1>1, VisibleKept DEF namespace
  <2> HIDE DEF Found, Component
  <2> QED BY <1>1, <1>3, <2>1 DEF Followed, Autofs, Direct
<1> QED
  BY <1>1, <1>2, <1>4 DEF PathInv, namespace

\* A walk activates an automount only where every report that is settled was settled
\* before: up to there no autofs is on the path.
LEMMA PathOpenActivates ==
    ASSUME TreeInv, TreeInv', WalkInv, CheckedBeforeOpen, PathInv, OpenActivates
    PROVE  PathInv'
<1>1. PICK n \in Others : /\ ~Attached(n) /\ ~Autofs(n)
                          /\ tree' = Mounted(n, Found, Component)
                          /\ fd' = [mount |-> n, depth |-> Component]
  BY DEF OpenActivates
<1>2. pc = "open" /\ pc' = "check" /\ UNCHANGED <<entries, changes, listed, reports>>
  BY DEF OpenActivates
<1>3. Covered /\ Direct(Found)
  BY ActivatedOn
<1>4. /\ Component \in 1 .. Depth /\ fd.depth = Component - 1 /\ Depth \in Nat
      /\ Found \in Mounts /\ Bare(tree, Found, Component) /\ Found \in Stack(tree, fd.mount, Component)
      /\ Found \in Others /\ tree[Found].at = Component /\ fd.mount \in Mounts /\ Found # fd.mount
  BY <1>2, <1>3, ComponentIs, FilesystemAssumption DEF WalkInv, Walking, Covered
<1> DEFINE c == Component
           v == Found
<1> HIDE DEF c, v
<1>5. ASSUME changes = 0
      PROVE  /\ Visible'[c] = n /\ \A d \in 0 .. Depth : d < c => Visible'[d] = Visible[d]
             /\ \A d \in 0 .. c - 1 : ~Autofs(Visible[d])
             /\ Visible[c] # Visible[c - 1] /\ Autofs(Visible[c])
  <2>1. fd.mount = Visible[c - 1] /\ \A d \in 0 .. c - 1 : ~Autofs(Visible[d])
    BY <1>2, <1>4, <1>5 DEF PathInv, Followed, Walking, c
  <2>2. v = Visible[c]
    BY <1>4, <2>1, VisibleOn DEF TreeInv, c, v
  <2>3. tree[n] = Nowhere /\ tree[v] # Nowhere
    BY <1>1, <1>4 DEF Attached, Nowhere, c, v
  <2>4. Visible'[c] = n /\ \A d \in 0 .. Depth : d < c => Visible'[d] = Visible[d]
    BY <1>1, <1>4, <2>2, <2>3, PathActivated DEF c, v
  <2> QED BY <1>3, <1>4, <2>1, <2>2, <2>4 DEF Autofs, c, v
<1>6. Followed'
  <2> SUFFICES ASSUME changes = 0
               PROVE  n = Visible'[c] /\ \A d \in 0 .. c : d < c => ~Autofs(Visible'[d])
    BY <1>1, <1>2 DEF Followed, Autofs, Direct, c
  <2> QED BY <1>4, <1>5 DEF c
<1>7. ASSUME changes = 0, NEW m \in Missed PROVE m \in Missed'
  <2>1. m \in DOMAIN listed /\ listed[m] \in 0 .. Depth
    BY <1>2 DEF Missed, WalkInv
  <2>2. CASE Blocked(m)
    <3>1. PICK d \in 1 .. listed[m] : /\ Visible[d] = Visible[d - 1] /\ entries[d] # "directory"
                                      /\ \A e \in 0 .. d - 1 : ~Autofs(Visible[e])
      BY <2>2 DEF Blocked
    <3>2. d < c
      <4>1. ~(c \in 0 .. d - 1) /\ d # c
        BY <1>5, <1>7, <3>1
      <4> QED BY <1>4, <2>1, <4>1 DEF c
    <3>3. d \in 0 .. Depth /\ d - 1 \in 0 .. Depth /\ d - 1 < c /\ c \in Nat
      BY <1>4, <2>1, <3>2 DEF c
    <3>4. ASSUME NEW e \in 0 .. d - 1 PROVE Visible'[e] = Visible[e]
      <4>1. e \in 0 .. Depth /\ e < c
        BY <1>4, <3>2, <3>3
      <4> QED BY <1>5, <1>7, <4>1
    <3>5. Visible'[d] = Visible[d] /\ Visible'[d - 1] = Visible[d - 1]
      BY <1>5, <1>7, <3>2, <3>3
    <3>6. Blocked(m)'
      BY <1>2, <3>1, <3>4, <3>5 DEF Blocked, Autofs, Direct
    <3> QED BY <1>2, <2>1, <3>6 DEF Missed
  <2>3. CASE Elsewhere(m)
    <3>1. listed[m] < c
      <4>1. ~(c \in 0 .. listed[m])
        BY <1>5, <1>7, <2>3 DEF Elsewhere
      <4> QED BY <1>4, <2>1, <4>1 DEF c
    <3>2. \A e \in 0 .. listed[m] : Visible'[e] = Visible[e]
      BY <1>4, <1>5, <1>7, <2>1, <3>1 DEF c
    <3>3. Visible'[listed[m]] = Visible[listed[m]]
      BY <2>1, <3>2
    <3>4. Elsewhere(m)'
      BY <1>2, <2>3, <3>2, <3>3 DEF Elsewhere, Autofs, Direct
    <3> QED BY <1>2, <2>1, <3>4 DEF Missed
  <2> QED BY <2>2, <2>3 DEF Missed
<1>8. ReportsSettled'
  BY <1>2, <1>7 DEF PathInv, ReportsSettled
<1> QED
  BY <1>2, <1>6, <1>8 DEF PathInv

\* A component that is no directory is on the path for good, and nothing covers it.
LEMMA PathOpenFails == ASSUME TreeInv, WalkInv, CheckedBeforeOpen, PathInv, OpenFails PROVE PathInv'
<1>1. PICK status : /\ Return(status, None)
                    /\ status \in {"NotPresent", "Unsupported"} => Entry # "directory"
  BY DEF OpenFails
<1>2. ASSUME changes = 0, Entry # "directory" PROVE target \in Missed
  <2>1. /\ pc = "open" /\ Walking /\ target \in DOMAIN listed
    BY DEF OpenFails, WalkInv, Walking
  <2>2. /\ Component \in 1 .. Depth /\ Component \in 1 .. listed[target] /\ fd.depth = Component - 1
        /\ Found \in Stack(tree, fd.mount, Component) /\ Bare(tree, Found, Component) /\ Found \in Mounts
    BY <2>1, ComponentIs, FilesystemAssumption
  <2>3. Found = fd.mount /\ entries[Component] # "directory"
    BY <1>2 DEF Entry, Covered
  <2> HIDE DEF Component, Found
  <2>4. fd.mount = Visible[Component - 1] /\ \A d \in 0 .. Component - 1 : ~Autofs(Visible[d])
    BY <1>2, <2>1, <2>2 DEF PathInv, Followed
  <2>5. Visible[Component] = Visible[Component - 1]
    BY <2>2, <2>3, <2>4, VisibleOn DEF TreeInv
  <2>6. Blocked(target)
    BY <2>2, <2>3, <2>4, <2>5 DEF Blocked
  <2> QED BY <2>1, <2>6 DEF Missed
<1> QED
  BY <1>1, <1>2, ReturnSettled DEF OpenFails

\* At its end the walk has seen the whole path: nothing is mounted on a symlink, and
\* what the descriptor is in is what the path leads to.
LEMMA PathStat == ASSUME TreeInv, WalkInv, PathInv, Stat PROVE PathInv'
<1>1. PICK status, usage : /\ Return(status, usage)
                           /\ status \in {"NotPresent", "Unsupported"} => Link \/ OtherDevice
  BY DEF Stat
<1>2. ASSUME changes = 0, Link \/ OtherDevice PROVE target \in Missed
  <2>1. /\ pc = "stat" /\ Walking /\ target \in DOMAIN listed
        /\ fd.depth = listed[target] /\ listed[target] \in 0 .. Depth /\ Depth \in Nat
    BY FilesystemAssumption DEF Stat, WalkInv, Walking
  <2>2. fd.mount = Visible[listed[target]] /\ \A d \in 0 .. listed[target] : ~Autofs(Visible[d])
    BY <1>2, <2>1 DEF PathInv, Followed
  <2>3. CASE OtherDevice
    <3>1. Elsewhere(target)
      BY <2>2, <2>3 DEF Elsewhere, OtherDevice
    <3> QED BY <2>1, <3>1 DEF Missed
  <2>4. CASE Link
    <3> DEFINE d == listed[target]
    <3>1. d \in 1 .. Depth /\ entries[d] = "symlink"
      BY <2>1, <2>4 DEF Link
    <3>2. Visible[d] = Visible[d - 1]
      <4>1. ASSUME Visible[d] # Visible[d - 1] PROVE FALSE
        <5>1. Visible[d] \in Others /\ tree[Visible[d]].at = d
          BY <3>1, <4>1, VisibleStep DEF TreeInv
        <5>2. entries[d] = "directory"
          BY <3>1, <5>1 DEF TreeInv
        <5> QED BY <3>1, <5>2
      <4> QED BY <4>1
    <3>3. Blocked(target)
      BY <2>1, <2>2, <3>1, <3>2 DEF Blocked
    <3> QED BY <2>1, <3>3 DEF Missed
  <2> QED BY <1>2, <2>3, <2>4
<1> QED
  BY <1>1, <1>2, ReturnSettled DEF Stat

\* Every step keeps what is said of a path nobody changed.
LEMMA PathStep ==
    ASSUME TreeInv, TreeInv', WalkInv, CheckedBeforeOpen, PathInv, [Next]_vars
    PROVE  PathInv'
<1>1. CASE Mount \/ Unmount \/ Replace
  BY <1>1, PathChanges
<1>2. CASE Open
  BY <1>2, PathOpen
<1>3. CASE OpenActivates
  BY <1>3, PathOpenActivates
<1>4. CASE OpenFails
  BY <1>4, PathOpenFails
<1>5. CASE Stat
  BY <1>5, PathStat
<1>6. CASE ReadMountInfo
  BY <1>6 DEF ReadMountInfo, namespace, WalkInv, PathInv, Followed, Walking, ReportsSettled
<1>7. CASE SkipFilesystem
  <2>1. /\ reports' = Reported(Turn, Report("NotCollected", None, None))
        /\ pc = "next" /\ UNCHANGED <<namespace, listed, pc>>
    BY <1>7 DEF SkipFilesystem
  <2>2. Report("NotCollected", None, None).status \notin {"NotPresent", "Unsupported"}
    BY DEF Report
  <2>3. ReportsSettled'
    BY <2>1, <2>2, ReportsKept DEF namespace
  <2> QED BY <2>1, <2>3 DEF PathInv, Followed, Walking, namespace
<1>8. CASE Query
  <2>1. fd' = [mount |-> Root, depth |-> 0] /\ pc' = "check" /\ UNCHANGED <<namespace, listed, reports>>
    BY <1>8 DEF Query
  <2>2. fd'.mount = Visible'[0] /\ fd'.depth = 0
    BY <2>1, VisibleNext DEF TreeInv
  <2>3. ReportsSettled'
    BY <2>1, ReportsKept DEF namespace
  <2> QED BY <2>1, <2>2, <2>3 DEF PathInv, Followed, namespace
<1>9. CASE Check
  <2>1. CASE Return("NotCollected", None) \/ Return("IoError", None)
    BY <1>9, <2>1, ReturnSettled DEF Check
  <2>2. CASE Queryable /\ UNCHANGED <<listed, fd, reports>>
    <3>1. ReportsSettled'
      BY <1>9, <2>2, ReportsKept DEF Check, namespace
    <3>2. ASSUME changes = 0
          PROVE  fd.mount = Visible[fd.depth] /\ \A d \in 0 .. fd.depth : ~Autofs(Visible[d])
      <4>1. fd.depth \in Nat
        BY <1>9 DEF Check, WalkInv, Walking
      <4> QED BY <1>9, <2>2, <3>2, <4>1 DEF Check, PathInv, Followed, Walking, Queryable
    <3>3. Visible' = Visible /\ UNCHANGED changes
      BY <1>9, VisibleKept DEF Check, namespace
    <3>4. Followed'
      BY <2>2, <3>2, <3>3 DEF Followed, Autofs, Direct
    <3> QED BY <3>1, <3>3, <3>4 DEF PathInv
  <2> QED BY <1>9, <2>1, <2>2 DEF Check
<1>10. CASE UNCHANGED vars
  <2>1. ReportsSettled'
    BY <1>10, ReportsKept DEF vars, namespace
  <2>2. Visible' = Visible
    BY <1>10, VisibleKept DEF vars, namespace
  <2> QED BY <1>10, <2>1, <2>2 DEF PathInv, Followed, Walking, Autofs, Direct, vars, namespace
<1> QED
  BY <1>1, <1>2, <1>3, <1>4, <1>5, <1>6, <1>7, <1>8, <1>9, <1>10 DEF Next, Done

\* With nothing mounted meanwhile, a filesystem is reported as changed or covered only if
\* the path of its mount really does not lead to it.
THEOREM ChangedOrCoveredAlways == Spec => []ChangedOrCovered
<1> DEFINE Inv == TreeInv /\ WalkInv /\ PathInv
<1>1. Init => Inv
  BY TreeInit, WalkInit, PathInit
<1>2. Inv /\ CheckedBeforeOpen /\ [Next]_vars => Inv'
  BY TreeStep, WalkStep, PathStep
<1>3. Inv => ChangedOrCovered
  BY MissedNotLed DEF PathInv, ReportsSettled, ChangedOrCovered
<1> QED
  BY <1>1, <1>2, <1>3, CheckedAlways, PTL DEF Spec
=============================================================================
