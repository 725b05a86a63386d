---------------------------- MODULE SpawnProofs ----------------------------
(***************************************************************************)
(* Proofs about SpawnDescriptors for any number of threads, any size of    *)
(* the descriptor table, any descriptors the host has open at first and    *)
(* any number of files it opens meanwhile.                                 *)
(***************************************************************************)
EXTENDS SpawnDescriptors, FiniteSetTheorems, SequenceTheorems, WellFoundedInduction, TLAPS

Places ==
    {"output", "error", "configure", "writers", "reading", "destroy", "done"}
      \cup {Remapping(e) : e \in Ends} \cup {Dropping(e) : e \in Ends}

Files == (Threads \X Ends) \cup {HostFile, NullFile}

Types ==
    /\ DOMAIN table \subseteq Fds
    /\ \A fd \in DOMAIN table : table[fd].file \in Files
    /\ pc \in [Threads -> Places]
    /\ ends \in [Threads -> [Ends -> Fds \cup {NoFd}]]
    /\ stale \in [Threads -> Fds \cup {NoFd}]
    /\ todo \in [Threads -> Seq(Ends)]
    /\ DOMAIN child = Threads

\* The low descriptor that was duplicated is still the end it was.
StaleOwned ==
    \A t \in Threads, e \in Ends : pc[t] = Dropping(e) =>
        /\ stale[t] \in DOMAIN table
        /\ table[stale[t]].file = EndFile(t, e)
        /\ stale[t] # ends[t][e]

\* Every open pipe end is remembered by the thread it belongs to.
Accounted ==
    \A t \in Threads, e \in Ends, fd \in DOMAIN table : table[fd].file = EndFile(t, e) =>
        ends[t][e] = fd \/ (pc[t] = Dropping(e) /\ stale[t] = fd)

\* The ends a thread has at a place of the code, and those that are not low any more.
NotYet(p) ==
    CASE p = "output" -> Ends
      [] p \in {"remap out.r", "drop out.r", "remap out.w", "drop out.w", "error"} -> {"err.r", "err.w"}
      [] p = "reading" -> {"out.w", "err.w"}
      [] p = "done" -> Ends
      [] OTHER -> {}
High(p) ==
    CASE p \in {"drop out.r", "remap out.w"} -> {"out.r"}
      [] p \in {"drop out.w", "error", "remap err.r"} -> {"out.r", "out.w"}
      [] p \in {"drop err.r", "remap err.w"} -> {"out.r", "out.w", "err.r"}
      [] p \in {"drop err.w", "configure"} -> Ends
      [] OTHER -> {}

\* The ends whose turn in the remapping loop is still to come.
Pending(p) ==
    CASE p = "remap out.r" -> {"out.r", "out.w"}
      [] p \in {"drop out.r", "remap out.w"} -> {"out.w"}
      [] p = "remap err.r" -> {"err.r", "err.w"}
      [] p \in {"drop err.r", "remap err.w"} -> {"err.w"}
      [] OTHER -> {}

Closing(t) == {todo[t][i] : i \in 1 .. Len(todo[t])}

Progress ==
    \A t \in Threads :
        /\ \A e \in NotYet(pc[t]) : ends[t][e] = NoFd
        /\ \A e \in High(pc[t]) : ends[t][e] = NoFd \/ ~Low(ends[t][e])
        /\ \A e \in Pending(pc[t]) : ends[t][e] # NoFd
        /\ pc[t] = "writers" => \A e \in {"out.w", "err.w"} \ Closing(t) : ends[t][e] = NoFd
        /\ pc[t] = "destroy" => \A e \in Ends \ Closing(t) : ends[t][e] = NoFd

IInv == Types /\ Owned /\ StaleOwned /\ Accounted /\ Progress /\ ChildStreams

-----------------------------------------------------------------------------
(* What the kernel hands out.                                              *)

\* The lowest of some descriptors is one of them.
LEMMA LowestOne == ASSUME NEW S, S \subseteq Nat, S # {} PROVE Lowest(S) \in S
<1> DEFINE R == {p \in Nat \X Nat : p[1] < p[2]}
<1>1. IsWellFoundedOn(R, Nat)
  BY ONLY NatLessThanWellFounded DEF OpToRel
<1>2. PICK x \in S : \A y \in S : ~ (<<y, x>> \in R)
  <2> HIDE DEF R
  <2> QED
    BY <1>1, WFMin
<1>3. ASSUME NEW y \in S PROVE x <= y
  <2>1. y \in Nat /\ x \in Nat
    OBVIOUS
  <2>2. <<y, x>> \in R <=> y < x
    BY <2>1
  <2> HIDE DEF R
  <2> QED
    BY <1>2, <2>1, <2>2
<1> QED
  BY <1>3 DEF Lowest, Min

\* A descriptor that is handed out is in the table's range, was not open, and is
\* not below the least number asked for.
LEMMA FreeOne ==
    ASSUME NEW from \in Nat, Free(from) # {}
    PROVE Lowest(Free(from)) \in Fds \ DOMAIN table /\ Lowest(Free(from)) >= from
<1>1. Free(from) \subseteq Nat
  BY SpawnAssumption DEF Free, Fds
<1>2. Lowest(Free(from)) \in Free(from)
  BY <1>1, LowestOne
<1> QED
  BY <1>2 DEF Free

\* pipe2 finds two different descriptors where there are two.
LEMMA FreeTwo ==
    ASSUME ~ (Cardinality(Free(0)) < 2)
    PROVE  LET a == Lowest(Free(0))
               b == Lowest(Free(0) \ {a})
           IN  {a, b} \subseteq Fds \ DOMAIN table /\ a # b
<1> DEFINE a == Lowest(Free(0))
           b == Lowest(Free(0) \ {a})
<1>1. Free(0) \subseteq Nat /\ Free(0) \subseteq Fds \ DOMAIN table
  BY SpawnAssumption DEF Free, Fds
<1>2. IsFiniteSet(Free(0))
  <2>1. IsFiniteSet(Fds)
    BY FS_Interval, SpawnAssumption DEF Fds
  <2> QED
    BY <1>1, <2>1, FS_Subset
<1>3. Cardinality(Free(0)) \in Nat /\ Cardinality({}) = 0
  BY <1>2, FS_CardinalityType, FS_EmptySet
<1>4. Free(0) # {}
  BY <1>3
<1>5. a \in Free(0)
  BY <1>1, <1>4, LowestOne
<1>6. Cardinality(Free(0) \ {a}) = Cardinality(Free(0)) - 1
  BY <1>2, <1>5, FS_RemoveElement
<1>7. Free(0) \ {a} # {}
  BY <1>3, <1>6
<1>8. b \in Free(0) \ {a}
  BY <1>1, <1>7, LowestOne
<1> QED
  BY <1>1, <1>5, <1>8

\* The other ends of a list that is closed from its head.
LEMMA ClosingTail ==
    ASSUME NEW s \in Seq(Ends), s # <<>>
    PROVE  /\ Head(s) \in Ends
           /\ Tail(s) \in Seq(Ends)
           /\ \A i \in 1 .. Len(s) : s[i] # Head(s) => \E j \in 1 .. Len(Tail(s)) : Tail(s)[j] = s[i]
<1>1. Head(s) \in Ends /\ Tail(s) \in Seq(Ends)
  BY HeadTailProperties
<1>2. Len(Tail(s)) = Len(s) - 1 /\ \A i \in 1 .. Len(Tail(s)) : Tail(s)[i] = s[i + 1]
  BY HeadTailProperties
<1>3. ASSUME NEW i \in 1 .. Len(s), s[i] # Head(s)
      PROVE  \E j \in 1 .. Len(Tail(s)) : Tail(s)[j] = s[i]
  <2>1. Head(s) = s[1] /\ Len(s) \in Nat
    OBVIOUS
  <2>2. i - 1 \in 1 .. Len(Tail(s))
    BY <1>2, <1>3, <2>1
  <2>3. Tail(s)[i - 1] = s[i]
    BY <1>2, <2>2
  <2> QED
    BY <2>2, <2>3
<1> QED
  BY <1>1, <1>3

-----------------------------------------------------------------------------
(* One system call.                                                        *)

\* Whatever the host had open, no call owns an end at first.
LEMMA IInvInit == Init => IInv
<1> SUFFICES ASSUME Init PROVE IInv
  OBVIOUS
<1>1. PICK open \in HostSets : table = [fd \in open |-> Entry(HostFile, FALSE)]
  BY DEF Init
<1>2. DOMAIN table \subseteq Fds /\ \A fd \in DOMAIN table : table[fd].file = HostFile
  BY <1>1, SpawnAssumption DEF Fds, Entry
<1>3. Types
  BY <1>2, EmptySeq DEF Init, Types, Files, Places
<1>4. \A t \in Threads, e \in Ends : HostFile # EndFile(t, e)
  BY SpawnAssumption DEF HostFile, EndFile
<1>5. Owned /\ Accounted
  BY <1>2, <1>4 DEF Init, Owned, Accounted
<1>6. \A e \in Ends : Dropping(e) # "output"
  BY DEF Ends, Dropping
<1>7. StaleOwned
  BY <1>6 DEF Init, StaleOwned
<1>8. \A t \in Threads : NotYet(pc[t]) = Ends /\ High(pc[t]) = {}
  BY DEF Init, NotYet, High
<1>9. Progress
  BY <1>8 DEF Init, Progress, Pending
<1>10. ChildStreams
  BY DEF Init, ChildStreams, Started
<1> QED
  BY <1>3, <1>5, <1>7, <1>9, <1>10 DEF IInv

\* The places of the remapping loop are different from each other.
LEMMA DifferentPlaces ==
    /\ \A e, f \in Ends : Dropping(e) # Remapping(f) /\ Dropping(e) # AfterRemap(f)
    /\ \A e, f \in Ends : Dropping(e) = Dropping(f) => e = f
    /\ \A e \in Ends : Dropping(e) \in Places /\ Remapping(e) \in Places /\ AfterRemap(e) \in Places
    /\ \A e \in Ends : Dropping(e) \notin {"output", "error", "configure", "writers", "reading", "destroy", "done"}
  BY DEF Ends, Dropping, Remapping, AfterRemap, Places

\* Files of different threads or ends, and of the host, are different files.
LEMMA DifferentFiles ==
    /\ \A t, u \in Threads, e, f \in Ends : EndFile(t, e) = EndFile(u, f) => t = u /\ e = f
    /\ \A t \in Threads, e \in Ends : EndFile(t, e) \notin {HostFile, NullFile} /\ EndFile(t, e) \in Files
  BY SpawnAssumption DEF EndFile, HostFile, NullFile, Files

\* close of an end that is remembered, or of none.
LEMMA CloseKeeps ==
    ASSUME Types, Owned, StaleOwned, Accounted,
           NEW t \in Threads, NEW e \in Ends,
           table' = Closed(table, {ends[t][e]}),
           ends' = [ends EXCEPT ![t][e] = Forget(@)],
           UNCHANGED <<pc, stale>>
    PROVE  /\ Owned' /\ StaleOwned' /\ Accounted'
           /\ DOMAIN table' \subseteq Fds /\ \A fd \in DOMAIN table' : table'[fd].file \in Files
           /\ ends' \in [Threads -> [Ends -> Fds \cup {NoFd}]]
           /\ ends'[t][e] = NoFd
           /\ \A u \in Threads, f \in Ends : (u # t \/ f # e) => ends'[u][f] = ends[u][f]
<1>1. DOMAIN table' = DOMAIN table \ {ends[t][e]} /\ \A fd \in DOMAIN table' : table'[fd] = table[fd]
  BY DEF Closed
<1>2. /\ ends' \in [Threads -> [Ends -> Fds \cup {NoFd}]]
      /\ ends'[t][e] = NoFd
      /\ \A u \in Threads, f \in Ends : (u # t \/ f # e) => ends'[u][f] = ends[u][f]
  BY DEF Types, Forget
<1>3. Owned'
  <2> SUFFICES ASSUME NEW u \in Threads, NEW f \in Ends, ends'[u][f] # NoFd
               PROVE  ends'[u][f] \in DOMAIN table' /\ table'[ends'[u][f]].file = EndFile(u, f)
    BY DEF Owned
  <2>1. (u # t \/ f # e) /\ ends'[u][f] = ends[u][f]
    BY <1>2
  <2>2. ends[u][f] \in DOMAIN table /\ table[ends[u][f]].file = EndFile(u, f)
    BY <2>1 DEF Owned
  <2>3. ends[u][f] # ends[t][e]
    BY <2>1, <2>2, DifferentFiles DEF Owned
  <2> QED
    BY <1>1, <2>1, <2>2, <2>3
<1>4. StaleOwned'
  <2> SUFFICES ASSUME NEW u \in Threads, NEW f \in Ends, pc[u] = Dropping(f)
               PROVE  /\ stale[u] \in DOMAIN table' /\ table'[stale[u]].file = EndFile(u, f)
                      /\ stale[u] # ends'[u][f]
    BY DEF StaleOwned
  <2>1. stale[u] \in DOMAIN table /\ table[stale[u]].file = EndFile(u, f) /\ stale[u] # ends[u][f]
    BY DEF StaleOwned
  <2>2. stale[u] # NoFd
    BY <2>1 DEF Types, Fds, NoFd
  <2>3. stale[u] # ends[t][e]
    BY <2>1, <2>2, DifferentFiles DEF Owned
  <2> QED
    BY <1>1, <1>2, <2>1, <2>2, <2>3
<1>5. Accounted'
  <2> SUFFICES ASSUME NEW u \in Threads, NEW f \in Ends, NEW fd \in DOMAIN table',
                      table'[fd].file = EndFile(u, f)
               PROVE  ends'[u][f] = fd \/ (pc'[u] = Dropping(f) /\ stale'[u] = fd)
    BY DEF Accounted
  <2>1. fd \in DOMAIN table /\ table[fd].file = EndFile(u, f) /\ fd # ends[t][e]
    BY <1>1
  <2>2. ends[u][f] = fd \/ (pc[u] = Dropping(f) /\ stale[u] = fd)
    BY <2>1 DEF Accounted
  <2> QED
    BY <1>2, <2>1, <2>2
<1> QED
  BY <1>1, <1>2, <1>3, <1>4, <1>5 DEF Types

\* The other threads' progress is not disturbed by a call that changes its own ends.
LEMMA OthersProgress ==
    ASSUME Progress, NEW t \in Threads, NEW u \in Threads, u # t,
           pc'[u] = pc[u], todo'[u] = todo[u], \A e \in Ends : ends'[u][e] = ends[u][e]
    PROVE  /\ \A e \in NotYet(pc'[u]) : ends'[u][e] = NoFd
           /\ \A e \in High(pc'[u]) : ends'[u][e] = NoFd \/ ~Low(ends'[u][e])
           /\ \A e \in Pending(pc'[u]) : ends'[u][e] # NoFd
           /\ pc'[u] = "writers" => \A e \in {"out.w", "err.w"} \ Closing(u)' : ends'[u][e] = NoFd
           /\ pc'[u] = "destroy" => \A e \in Ends \ Closing(u)' : ends'[u][e] = NoFd
<1>1. NotYet(pc[u]) \subseteq Ends /\ High(pc[u]) \subseteq Ends /\ Pending(pc[u]) \subseteq Ends
  BY DEF NotYet, High, Pending, Ends
<1>2. Closing(u)' = Closing(u) /\ {"out.w", "err.w"} \subseteq Ends
  BY DEF Closing, Ends
<1> QED
  BY <1>1, <1>2 DEF Progress

\* What a thread that is between two calls of the loop, or closing, must show.
LEMMA OwnProgress ==
    ASSUME Progress, NEW t \in Threads,
           \A u \in Threads \ {t} : pc'[u] = pc[u] /\ todo'[u] = todo[u] /\ \A e \in Ends : ends'[u][e] = ends[u][e],
           \A e \in NotYet(pc'[t]) : ends'[t][e] = NoFd,
           \A e \in High(pc'[t]) : ends'[t][e] = NoFd \/ ~Low(ends'[t][e]),
           \A e \in Pending(pc'[t]) : ends'[t][e] # NoFd,
           pc'[t] = "writers" => \A e \in {"out.w", "err.w"} \ Closing(t)' : ends'[t][e] = NoFd,
           pc'[t] = "destroy" => \A e \in Ends \ Closing(t)' : ends'[t][e] = NoFd
    PROVE  Progress'
<1>1. ASSUME NEW u \in Threads, u # t
      PROVE  /\ \A e \in NotYet(pc'[u]) : ends'[u][e] = NoFd
             /\ \A e \in High(pc'[u]) : ends'[u][e] = NoFd \/ ~Low(ends'[u][e])
             /\ \A e \in Pending(pc'[u]) : ends'[u][e] # NoFd
             /\ pc'[u] = "writers" => \A e \in {"out.w", "err.w"} \ Closing(u)' : ends'[u][e] = NoFd
             /\ pc'[u] = "destroy" => \A e \in Ends \ Closing(u)' : ends'[u][e] = NoFd
  BY <1>1, OthersProgress
<1> QED
  BY <1>1 DEF Progress

\* Pipe::Pipe moves an end out of the way, or loses it when there is no room.
LEMMA RemapKeeps ==
    ASSUME IInv, NEW t \in Threads, NEW e \in Ends, Remap(t, e)
    PROVE  IInv'
<1> DEFINE fd == ends[t][e]
           c == Lowest(Free(3))
<1> USE DEF IInv
<1>0. pc[t] = Remapping(e) /\ UNCHANGED <<todo, child, opened>>
  BY DEF Remap
<1>1. CASE ~Low(fd)
  <2>1. UNCHANGED <<table, ends, stale>> /\ pc' = [pc EXCEPT ![t] = AfterRemap(e)]
    BY <1>1 DEF Remap, Goto
  <2>2. pc'[t] = AfterRemap(e) /\ pc' \in [Threads -> Places] /\ \A u \in Threads \ {t} : pc'[u] = pc[u]
    BY <2>1, DifferentPlaces DEF Types
  <2>3. Types' /\ Owned' /\ ChildStreams'
    BY <1>0, <2>1, <2>2 DEF Types, Owned, ChildStreams, Started
  <2>4. StaleOwned' /\ Accounted'
    BY <1>0, <2>1, <2>2, DifferentPlaces DEF StaleOwned, Accounted
  <2>5. /\ NotYet(AfterRemap(e)) = NotYet(Remapping(e))
        /\ High(AfterRemap(e)) \subseteq High(Remapping(e)) \cup {e}
        /\ Pending(AfterRemap(e)) \subseteq Pending(Remapping(e))
        /\ AfterRemap(e) \notin {"writers", "destroy"}
    BY DEF Ends, AfterRemap, Remapping, NotYet, High, Pending
  <2>6. Progress'
    BY <1>0, <1>1, <2>1, <2>2, <2>5, OwnProgress DEF Progress
  <2> QED
    BY <2>3, <2>4, <2>6
<1>2. CASE Low(fd)
  <2>1. stale' = [stale EXCEPT ![t] = fd] /\ pc' = [pc EXCEPT ![t] = Dropping(e)]
    BY <1>2 DEF Remap, Goto
  <2>2. /\ stale'[t] = fd /\ \A u \in Threads \ {t} : stale'[u] = stale[u]
        /\ pc'[t] = Dropping(e) /\ \A u \in Threads \ {t} : pc'[u] = pc[u]
        /\ pc' \in [Threads -> Places] /\ stale' \in [Threads -> Fds \cup {NoFd}]
    BY <2>1, DifferentPlaces DEF Types
  <2>3. e \in Pending(Remapping(e))
    BY DEF Ends, Pending, Remapping
  <2>4. fd # NoFd /\ fd \in DOMAIN table /\ table[fd].file = EndFile(t, e)
    BY <1>0, <2>3 DEF Progress, Owned
  <2>5. fd \in Nat /\ fd < 3
    BY <1>2, <2>4, SpawnAssumption DEF Low, Types, Fds
  <2>6. /\ \A f \in Ends \ {e} : ends'[t][f] = ends[t][f]
        /\ \A u \in Threads \ {t} : ends'[u] = ends[u]
        /\ \A x \in DOMAIN table : x \in DOMAIN table' /\ table'[x].file = table[x].file
        /\ \A x \in DOMAIN table' \ DOMAIN table : x = ends'[t][e] /\ table'[x].file = EndFile(t, e)
        /\ ends'[t][e] = NoFd \/ (ends'[t][e] \in DOMAIN table' \ DOMAIN table /\ ~Low(ends'[t][e]))
        /\ DOMAIN table' \subseteq Fds
        /\ ends' \in [Threads -> [Ends -> Fds \cup {NoFd}]]
    <3>1. CASE Free(3) = {}
      <4>1. ends' = [ends EXCEPT ![t][e] = NoFd] /\ UNCHANGED table
        BY <1>2, <3>1 DEF Remap
      <4> QED
        BY <4>1 DEF Types
    <3>2. CASE Free(3) # {}
      <4>1. c \in Fds \ DOMAIN table /\ c >= 3
        BY <3>2, FreeOne
      <4>2. ends' = [ends EXCEPT ![t][e] = c] /\ table' = Opened(table, c, Replacement(table[fd]))
        BY <1>2, <3>2 DEF Remap
      <4> HIDE DEF c
      <4>3. DOMAIN table' = DOMAIN table \cup {c} /\ \A x \in DOMAIN table : table'[x] = table[x]
        BY <4>1, <4>2 DEF Opened
      <4>4. table'[c].file = EndFile(t, e)
        BY <2>4, <4>1, <4>2 DEF Opened, Replacement, Entry
      <4>5. ends'[t][e] = c /\ ends' \in [Threads -> [Ends -> Fds \cup {NoFd}]]
            /\ (\A f \in Ends \ {e} : ends'[t][f] = ends[t][f]) /\ \A u \in Threads \ {t} : ends'[u] = ends[u]
        BY <4>1, <4>2 DEF Types
      <4>6. ~Low(c)
        BY <4>1, SpawnAssumption DEF Low, Fds
      <4> QED
        BY <4>1, <4>3, <4>4, <4>5, <4>6 DEF Types
    <3> QED
      BY <3>1, <3>2
  <2>7. Types'
    <3>1. ASSUME NEW x \in DOMAIN table' PROVE table'[x].file \in Files
      <4>1. CASE x \in DOMAIN table
        <5>1. table'[x].file = table[x].file
          BY <2>6, <4>1
        <5> QED
          BY <4>1, <5>1 DEF Types
      <4>2. CASE x \notin DOMAIN table
        BY <2>6, <4>2, DifferentFiles
      <4> QED
        BY <4>1, <4>2
    <3> QED
      BY <1>0, <2>2, <2>6, <3>1 DEF Types
  <2>8. Owned'
    BY <2>6 DEF Owned
  <2>9. StaleOwned'
    <3> SUFFICES ASSUME NEW u \in Threads, NEW f \in Ends, pc'[u] = Dropping(f)
                 PROVE  /\ stale'[u] \in DOMAIN table' /\ table'[stale'[u]].file = EndFile(u, f)
                        /\ stale'[u] # ends'[u][f]
      BY DEF StaleOwned
    <3>1. CASE u = t
      BY <2>2, <2>4, <2>6, <3>1, DifferentPlaces
    <3>2. CASE u # t
      BY <2>2, <2>6, <3>2 DEF StaleOwned
    <3> QED
      BY <3>1, <3>2
  <2>10. Accounted'
    <3> SUFFICES ASSUME NEW u \in Threads, NEW f \in Ends, NEW x \in DOMAIN table',
                        table'[x].file = EndFile(u, f)
                 PROVE  ends'[u][f] = x \/ (pc'[u] = Dropping(f) /\ stale'[u] = x)
      BY DEF Accounted
    <3>1. CASE x \in DOMAIN table
      <4>1. table[x].file = EndFile(u, f)
        BY <2>6, <3>1
      <4>2. ends[u][f] = x \/ (pc[u] = Dropping(f) /\ stale[u] = x)
        BY <3>1, <4>1 DEF Accounted
      <4> QED
        BY <1>0, <2>2, <2>6, <4>2, DifferentPlaces
    <3>2. CASE x \notin DOMAIN table
      BY <2>6, <3>2, DifferentFiles
    <3> QED
      BY <3>1, <3>2
  <2>11. /\ NotYet(Dropping(e)) = NotYet(Remapping(e)) /\ e \notin NotYet(Remapping(e))
         /\ High(Dropping(e)) \subseteq High(Remapping(e)) \cup {e}
         /\ Pending(Dropping(e)) \subseteq Pending(Remapping(e)) \ {e}
         /\ Dropping(e) \notin {"writers", "destroy"}
         /\ NotYet(Remapping(e)) \subseteq Ends /\ High(Remapping(e)) \subseteq Ends /\ Pending(Remapping(e)) \subseteq Ends
    BY DEF Ends, Dropping, Remapping, NotYet, High, Pending
  <2>12. Progress'
    <3>1. \A f \in NotYet(pc'[t]) : ends'[t][f] = NoFd
      BY <1>0, <2>2, <2>6, <2>11 DEF Progress
    <3>2. \A f \in High(pc'[t]) : ends'[t][f] = NoFd \/ ~Low(ends'[t][f])
      BY <1>0, <2>2, <2>6, <2>11 DEF Progress
    <3>3. \A f \in Pending(pc'[t]) : ends'[t][f] # NoFd
      BY <1>0, <2>2, <2>6, <2>11 DEF Progress
    <3>4. pc'[t] \notin {"writers", "destroy"}
      BY <2>2, <2>11
    <3> QED
      BY <1>0, <2>2, <2>6, <3>1, <3>2, <3>3, <3>4, OwnProgress
  <2>13. ChildStreams'
    BY <1>0 DEF ChildStreams, Started
  <2> QED
    BY <2>7, <2>8, <2>9, <2>10, <2>12, <2>13
<1> QED
  BY <1>1, <1>2

\* The low descriptor of an end that was moved, or lost, is closed.
LEMMA DropLowKeeps ==
    ASSUME IInv, NEW t \in Threads, NEW e \in Ends, DropLow(t, e)
    PROVE  IInv'
<1> USE DEF IInv
<1>1. /\ pc[t] = Dropping(e) /\ pc' = [pc EXCEPT ![t] = AfterRemap(e)]
      /\ table' = Closed(table, {stale[t]}) /\ stale' = [stale EXCEPT ![t] = NoFd]
      /\ UNCHANGED <<ends, todo, child, opened>>
  BY DEF DropLow, Goto
<1>2. /\ DOMAIN table' = DOMAIN table \ {stale[t]}
      /\ \A fd \in DOMAIN table' : table'[fd] = table[fd]
  BY <1>1 DEF Closed
<1>3. /\ pc'[t] = AfterRemap(e) /\ pc' \in [Threads -> Places]
      /\ stale' \in [Threads -> Fds \cup {NoFd}]
      /\ \A u \in Threads \ {t} : pc'[u] = pc[u] /\ stale'[u] = stale[u]
  BY <1>1, DifferentPlaces DEF Types
<1>4. stale[t] \in DOMAIN table /\ table[stale[t]].file = EndFile(t, e) /\ stale[t] # ends[t][e]
  BY <1>1 DEF StaleOwned
<1>5. Types'
  BY <1>1, <1>2, <1>3 DEF Types
<1>6. Owned'
  <2> SUFFICES ASSUME NEW u \in Threads, NEW f \in Ends, ends[u][f] # NoFd
               PROVE  ends[u][f] \in DOMAIN table' /\ table'[ends[u][f]].file = EndFile(u, f)
    BY <1>1 DEF Owned
  <2>1. ends[u][f] \in DOMAIN table /\ table[ends[u][f]].file = EndFile(u, f)
    BY DEF Owned
  <2>2. ends[u][f] # stale[t]
    BY <1>4, <2>1, DifferentFiles
  <2> QED
    BY <1>2, <2>1, <2>2
<1>7. StaleOwned'
  <2> SUFFICES ASSUME NEW u \in Threads, NEW f \in Ends, pc'[u] = Dropping(f)
               PROVE  /\ stale'[u] \in DOMAIN table' /\ table'[stale'[u]].file = EndFile(u, f)
                      /\ stale'[u] # ends'[u][f]
    BY DEF StaleOwned
  <2>1. u # t /\ pc[u] = Dropping(f) /\ stale'[u] = stale[u]
    BY <1>3, DifferentPlaces
  <2>2. stale[u] \in DOMAIN table /\ table[stale[u]].file = EndFile(u, f) /\ stale[u] # ends[u][f]
    BY <2>1 DEF StaleOwned
  <2>3. stale[u] # stale[t]
    BY <1>4, <2>1, <2>2, DifferentFiles
  <2> QED
    BY <1>1, <1>2, <2>1, <2>2, <2>3
<1>8. Accounted'
  <2> SUFFICES ASSUME NEW u \in Threads, NEW f \in Ends, NEW fd \in DOMAIN table',
                      table'[fd].file = EndFile(u, f)
               PROVE  ends'[u][f] = fd \/ (pc'[u] = Dropping(f) /\ stale'[u] = fd)
    BY DEF Accounted
  <2>1. fd \in DOMAIN table /\ table[fd].file = EndFile(u, f) /\ fd # stale[t]
    BY <1>2
  <2>2. ends[u][f] = fd \/ (pc[u] = Dropping(f) /\ stale[u] = fd)
    BY <2>1 DEF Accounted
  <2> QED
    BY <1>1, <1>3, <2>1, <2>2
<1>9. /\ NotYet(AfterRemap(e)) = NotYet(Dropping(e))
      /\ High(AfterRemap(e)) \subseteq High(Dropping(e))
      /\ Pending(AfterRemap(e)) \subseteq Pending(Dropping(e))
      /\ AfterRemap(e) \notin {"writers", "destroy"}
  BY DEF Ends, AfterRemap, Dropping, NotYet, High, Pending
<1>10. Progress'
  BY <1>1, <1>3, <1>9, OwnProgress DEF Progress
<1>11. ChildStreams'
  BY <1>1 DEF ChildStreams, Started
<1> QED
  BY <1>5, <1>6, <1>7, <1>8, <1>10, <1>11

\* Pipe::Pipe opens two descriptors and remembers them, or opens none; both pipes
\* of a call are created so.
LEMMA CreateKeeps ==
    ASSUME IInv, NEW t \in Threads, CreateOutput(t) \/ CreateError(t)
    PROVE  IInv'
<1> USE DEF IInv
<1>a. PICK r, w, remap, next :
          /\ \/ pc[t] = "output" /\ r = "out.r" /\ w = "out.w" /\ remap = "remap out.r" /\ next = "error"
             \/ pc[t] = "error" /\ r = "err.r" /\ w = "err.w" /\ remap = "remap err.r" /\ next = "configure"
          /\ Pipe2(t, r, w, remap, next)
  BY DEF CreateOutput, CreateError
<1>b. /\ r \in Ends /\ w \in Ends /\ r # w /\ remap \in Places /\ next \in Places
      /\ \A e \in Ends : Dropping(e) \notin {pc[t], remap, next}
  BY <1>a DEF Ends, Dropping, Remapping, Places
<1>c. /\ ends[t][r] = NoFd /\ ends[t][w] = NoFd
      /\ NotYet(next) \subseteq NotYet(pc[t]) /\ NotYet(remap) \subseteq NotYet(pc[t]) \ {r, w}
      /\ NotYet(pc[t]) \subseteq Ends /\ High(pc[t]) \subseteq Ends \ {r, w}
      /\ High(remap) \subseteq High(pc[t]) /\ High(next) \subseteq High(pc[t]) \cup {r, w}
      /\ Pending(next) = {} /\ Pending(remap) = {r, w}
      /\ {remap, next} \cap {"writers", "destroy"} = {}
  <2>1. r \in NotYet(pc[t]) /\ w \in NotYet(pc[t])
    BY <1>a DEF NotYet, Ends
  <2>2. ends[t][r] = NoFd /\ ends[t][w] = NoFd
    BY <2>1 DEF Progress
  <2>3. /\ NotYet(next) \subseteq NotYet(pc[t]) /\ NotYet(remap) \subseteq NotYet(pc[t]) \ {r, w}
        /\ NotYet(pc[t]) \subseteq Ends
    BY <1>a DEF NotYet, Ends
  <2>4. /\ High(pc[t]) \subseteq Ends \ {r, w}
        /\ High(remap) \subseteq High(pc[t]) /\ High(next) \subseteq High(pc[t]) \cup {r, w}
    BY <1>a DEF High, Ends
  <2>5. /\ Pending(next) = {} /\ Pending(remap) = {r, w}
        /\ {remap, next} \cap {"writers", "destroy"} = {}
    BY <1>a DEF Pending
  <2> QED
    BY <2>2, <2>3, <2>4, <2>5
<1>0. UNCHANGED <<stale, todo, child>> /\ ChildStreams'
  BY <1>a DEF Pipe2, ChildStreams, Started
<1> DEFINE a == Lowest(Free(0))
           b == Lowest(Free(0) \ {a})
<1>1. CASE Cardinality(Free(0)) < 2
  <2>1. UNCHANGED <<table, ends>> /\ pc' = [pc EXCEPT ![t] = next]
    BY <1>1, <1>a DEF Pipe2, Goto
  <2>2. pc'[t] = next /\ pc' \in [Threads -> Places] /\ \A u \in Threads \ {t} : pc'[u] = pc[u]
    BY <1>b, <2>1 DEF Types
  <2>3. Types' /\ Owned'
    BY <1>0, <2>1, <2>2 DEF Types, Owned
  <2>4. StaleOwned' /\ Accounted'
    BY <1>0, <1>b, <2>1, <2>2 DEF StaleOwned, Accounted
  <2>5. Progress'
    <3>1. \A e \in NotYet(pc'[t]) : ends'[t][e] = NoFd
      BY <1>c, <2>1, <2>2 DEF Progress
    <3>2. \A e \in High(pc'[t]) : ends'[t][e] = NoFd \/ ~Low(ends'[t][e])
      BY <1>c, <2>1, <2>2 DEF Progress
    <3>3. \A e \in Pending(pc'[t]) : ends'[t][e] # NoFd
      BY <1>c, <2>2
    <3>4. \A u \in Threads \ {t} : pc'[u] = pc[u] /\ todo'[u] = todo[u] /\ \A e \in Ends : ends'[u][e] = ends[u][e]
      BY <1>0, <2>1, <2>2
    <3>5. pc'[t] \notin {"writers", "destroy"}
      BY <1>c, <2>2
    <3> QED
      BY <3>1, <3>2, <3>3, <3>4, <3>5, OwnProgress
  <2> QED
    BY <1>0, <2>3, <2>4, <2>5
<1>2. CASE ~ (Cardinality(Free(0)) < 2)
  <2>1. a \in Fds \ DOMAIN table /\ b \in Fds \ DOMAIN table /\ a # b
    BY <1>2, FreeTwo
  <2>2. /\ table' = Opened(Opened(table, a, Entry(EndFile(t, r), TRUE)), b, Entry(EndFile(t, w), TRUE))
        /\ ends' = [ends EXCEPT ![t] = [@ EXCEPT ![r] = a, ![w] = b]]
        /\ pc' = [pc EXCEPT ![t] = remap]
    BY <1>2, <1>a DEF Pipe2, Goto
  <2> HIDE DEF a, b
  <2>3. DOMAIN table' = DOMAIN table \cup {a, b}
    BY <2>2 DEF Opened
  <2>4. table'[a].file = EndFile(t, r) /\ table'[b].file = EndFile(t, w)
    BY <2>1, <2>2 DEF Opened, Entry
  <2>5. \A fd \in DOMAIN table : table'[fd] = table[fd]
    BY <2>1, <2>2 DEF Opened
  <2>6. /\ ends' \in [Threads -> [Ends -> Fds \cup {NoFd}]]
        /\ ends'[t][r] = a /\ ends'[t][w] = b
        /\ \A e \in Ends \ {r, w} : ends'[t][e] = ends[t][e]
        /\ \A u \in Threads \ {t} : ends'[u] = ends[u]
    BY <1>b, <2>1, <2>2 DEF Types
  <2>7. pc'[t] = remap /\ pc' \in [Threads -> Places] /\ \A u \in Threads \ {t} : pc'[u] = pc[u]
    BY <1>b, <2>2 DEF Types
  <2>8. Types'
    <3>1. ASSUME NEW x \in DOMAIN table' PROVE table'[x].file \in Files
      BY <1>b, <2>3, <2>4, <2>5, DifferentFiles DEF Types
    <3> QED
      BY <1>0, <2>1, <2>3, <2>6, <2>7, <3>1 DEF Types
  <2>9. Owned'
    <3> SUFFICES ASSUME NEW u \in Threads, NEW e \in Ends, ends'[u][e] # NoFd
                 PROVE  ends'[u][e] \in DOMAIN table' /\ table'[ends'[u][e]].file = EndFile(u, e)
      BY DEF Owned
    <3>1. CASE u = t /\ e \in {r, w}
      BY <3>1, <2>3, <2>4, <2>6
    <3>2. CASE ~ (u = t /\ e \in {r, w})
      <4>1. ends'[u][e] = ends[u][e]
        BY <3>2, <2>6
      <4> QED
        BY <4>1, <2>3, <2>5 DEF Owned
    <3> QED
      BY <3>1, <3>2
  <2>10. StaleOwned'
    <3> SUFFICES ASSUME NEW u \in Threads, NEW e \in Ends, pc'[u] = Dropping(e)
                 PROVE  /\ stale'[u] \in DOMAIN table' /\ table'[stale'[u]].file = EndFile(u, e)
                        /\ stale'[u] # ends'[u][e]
      BY DEF StaleOwned
    <3>1. u # t
      BY <1>b, <2>7
    <3> QED
      BY <1>0, <2>3, <2>5, <2>6, <2>7, <3>1 DEF StaleOwned
  <2>11. Accounted'
    <3> SUFFICES ASSUME NEW u \in Threads, NEW e \in Ends, NEW fd \in DOMAIN table',
                        table'[fd].file = EndFile(u, e)
                 PROVE  ends'[u][e] = fd \/ (pc'[u] = Dropping(e) /\ stale'[u] = fd)
      BY DEF Accounted
    <3>1. CASE fd \in {a, b}
      <4>1. (fd = a /\ u = t /\ e = r) \/ (fd = b /\ u = t /\ e = w)
        BY <1>b, <3>1, <2>4, DifferentFiles
      <4> QED
        BY <4>1, <2>6
    <3>2. CASE fd \notin {a, b}
      <4>1. fd \in DOMAIN table /\ table[fd].file = EndFile(u, e)
        BY <3>2, <2>3, <2>5
      <4>2. ends[u][e] = fd \/ (pc[u] = Dropping(e) /\ stale[u] = fd)
        BY <4>1 DEF Accounted
      <4>3. fd # NoFd
        BY <4>1 DEF Types, Fds, NoFd
      <4>4. ends[t][r] = NoFd /\ ends[t][w] = NoFd /\ pc[t] # Dropping(e)
        BY <1>b, <1>c
      <4>5. CASE u = t
        BY <4>2, <4>3, <4>4, <4>5, <2>6
      <4>6. CASE u # t
        BY <1>0, <4>2, <4>6, <2>6, <2>7
      <4> QED
        BY <4>5, <4>6
    <3> QED
      BY <3>1, <3>2
  <2>12. a # NoFd /\ b # NoFd
    BY <2>1 DEF Fds, NoFd
  <2>13. Progress'
    <3>1. \A e \in NotYet(pc'[t]) : ends'[t][e] = NoFd
      BY <1>c, <2>6, <2>7 DEF Progress
    <3>2. \A e \in High(pc'[t]) : ends'[t][e] = NoFd \/ ~Low(ends'[t][e])
      BY <1>c, <2>6, <2>7 DEF Progress
    <3>3. \A e \in Pending(pc'[t]) : ends'[t][e] # NoFd
      BY <1>c, <2>6, <2>7, <2>12
    <3> QED
      BY <1>0, <1>c, <2>6, <2>7, <3>1, <3>2, <3>3, OwnProgress
  <2> QED
    BY <1>0, <2>8, <2>9, <2>10, <2>11, <2>13
<1> QED
  BY <1>1, <1>2

\* A step that closes and opens nothing, and touches no end.
LEMMA StepKeeps ==
    ASSUME IInv, NEW t \in Threads, NEW next \in Places,
           \A e \in Ends : Dropping(e) \notin {pc[t], next},
           UNCHANGED <<table, ends, stale>>,
           pc' = [pc EXCEPT ![t] = next],
           todo' \in [Threads -> Seq(Ends)],
           \A u \in Threads \ {t} : todo'[u] = todo[u],
           DOMAIN child' = Threads
    PROVE  /\ Types' /\ Owned' /\ StaleOwned' /\ Accounted'
           /\ pc'[t] = next
           /\ \A u \in Threads \ {t} : pc'[u] = pc[u] /\ todo'[u] = todo[u] /\ \A e \in Ends : ends'[u][e] = ends[u][e]
<1> USE DEF IInv
<1>1. pc'[t] = next /\ pc' \in [Threads -> Places] /\ \A u \in Threads \ {t} : pc'[u] = pc[u]
  BY DEF Types
<1>2. Types' /\ Owned'
  BY <1>1 DEF Types, Owned
<1>3. StaleOwned' /\ Accounted'
  BY <1>1 DEF StaleOwned, Accounted
<1> QED
  BY <1>1, <1>2, <1>3

\* Once both pipes are valid, their ends lie above the standard streams, so the file
\* actions redirect into the pipes and close what they meant to close.
LEMMA SpawnRedirects ==
    ASSUME IInv, NEW t \in Threads, Spawn(t)
    PROVE  /\ {0, 1, 2} \subseteq DOMAIN child'[t]
           /\ child'[t][0].file = NullFile
           /\ child'[t][1].file = EndFile(t, "out.w")
           /\ child'[t][2].file = EndFile(t, "err.w")
<1> USE DEF IInv
<1> DEFINE mine == ends[t]
           null == Opened(table, 0, Entry(NullFile, FALSE))
           one == Redirect(null, mine, "out.r", "out.w", 1)
           two == Redirect(one, mine, "err.r", "err.w", 2)
<1>1. child'[t] = Exec(two)
  BY DEF Spawn, FileActions, Types
<1>2. \A e \in Ends : mine[e] \in Int /\ mine[e] >= 3 /\ mine[e] \in DOMAIN table /\ table[mine[e]].file = EndFile(t, e)
  <2>1. \A e \in Ends : mine[e] # NoFd /\ e \in High(pc[t])
    BY DEF Spawn, High
  <2> QED
    BY <2>1, SpawnAssumption DEF Progress, Owned, Types, Fds, Low
<1>3. \A e, f \in Ends : e # f => mine[e] # mine[f]
  BY <1>2, DifferentFiles
<1> HIDE DEF mine
<1>4. /\ DOMAIN null = DOMAIN table \cup {0}
      /\ null[0] = Entry(NullFile, FALSE) /\ \A fd \in DOMAIN null : fd # 0 => null[fd] = table[fd]
  BY DEF Opened
<1> HIDE DEF null
<1>5. /\ DOMAIN one = (DOMAIN null \cup {1}) \ {mine["out.r"], mine["out.w"]}
      /\ 1 \in DOMAIN one => one[1] = Entry(null[mine["out.w"]].file, FALSE)
      /\ \A fd \in DOMAIN one : fd # 1 => one[fd] = null[fd]
  BY DEF Redirect, Closed, Opened
<1> HIDE DEF one
<1>6. /\ DOMAIN two = (DOMAIN one \cup {2}) \ {mine["err.r"], mine["err.w"]}
      /\ 2 \in DOMAIN two => two[2] = Entry(one[mine["err.w"]].file, FALSE)
      /\ \A fd \in DOMAIN two : fd # 2 => two[fd] = one[fd]
  BY DEF Redirect, Closed, Opened
<1> HIDE DEF two
<1>7. \A e \in Ends : mine[e] \notin {0, 1, 2}
  BY <1>2
<1>8. /\ {0, 1, 2} \subseteq DOMAIN two /\ two[0] = Entry(NullFile, FALSE)
      /\ two[1] = Entry(EndFile(t, "out.w"), FALSE) /\ two[2] = Entry(EndFile(t, "err.w"), FALSE)
  <2>1. "out.r" \in Ends /\ "out.w" \in Ends /\ "err.r" \in Ends /\ "err.w" \in Ends
    BY DEF Ends
  <2>2. 0 \in DOMAIN null /\ 0 \in DOMAIN one /\ 1 \in DOMAIN one /\ {0, 1, 2} \subseteq DOMAIN two
    BY <1>4, <1>5, <1>6, <1>7, <2>1
  <2>3. mine["out.w"] \in DOMAIN null /\ mine["err.w"] \in DOMAIN null /\ mine["err.w"] \in DOMAIN one
    BY <1>2, <1>3, <1>4, <1>5, <2>1
  <2>4. null[mine["out.w"]].file = EndFile(t, "out.w") /\ null[mine["err.w"]].file = EndFile(t, "err.w")
    BY <1>2, <1>4, <1>7, <2>1, <2>3
  <2>5. one[mine["err.w"]].file = EndFile(t, "err.w")
    BY <1>5, <1>7, <2>1, <2>3, <2>4
  <2>6. one[1] = Entry(EndFile(t, "out.w"), FALSE)
    BY <1>5, <2>2, <2>4
  <2>7. one[0] = Entry(NullFile, FALSE)
    <3>1. one[0] = null[0]
      BY <1>5, <2>2
    <3> QED
      BY <1>4, <2>2, <3>1
  <2>8. two[2] = Entry(EndFile(t, "err.w"), FALSE)
    BY <1>6, <2>2, <2>5
  <2>9. two[0] = one[0] /\ two[1] = one[1]
    BY <1>6, <2>2
  <2> QED
    BY <2>2, <2>6, <2>7, <2>8, <2>9
<1>9. /\ DOMAIN Exec(two) = DOMAIN two \ {fd \in DOMAIN two : two[fd].cloexec}
      /\ \A fd \in DOMAIN Exec(two) : Exec(two)[fd] = two[fd]
  BY DEF Exec, Closed
<1>10. \A fd \in {0, 1, 2} : two[fd].cloexec = FALSE
  BY <1>8 DEF Entry
<1> QED
  BY <1>1, <1>8, <1>9, <1>10 DEF Entry

\* The calls before and after the spawn keep the accounts of every thread.
LEMMA SpawnKeeps ==
    ASSUME IInv, NEW t \in Threads, Spawn(t)
    PROVE  IInv'
<1> USE DEF IInv
<1>1. /\ pc[t] = "configure" /\ pc' = [pc EXCEPT ![t] = "writers"]
      /\ todo' = [todo EXCEPT ![t] = Writers] /\ child' = [child EXCEPT ![t] = Exec(FileActions(ends[t]))]
      /\ UNCHANGED <<table, ends, stale, opened>>
  BY DEF Spawn, Goto
<1>2. Writers \in Seq(Ends) /\ Len(Writers) = 2 /\ Writers[1] = "out.w" /\ Writers[2] = "err.w"
  BY DEF Writers, Ends
<1>3. /\ todo' \in [Threads -> Seq(Ends)] /\ todo'[t] = Writers /\ \A u \in Threads \ {t} : todo'[u] = todo[u]
      /\ DOMAIN child' = Threads /\ \A u \in Threads \ {t} : child'[u] = child[u]
  BY <1>1, <1>2 DEF Types
<1>4. "writers" \in Places /\ \A e \in Ends : Dropping(e) \notin {pc[t], "writers"}
  BY <1>1, DifferentPlaces DEF Places
<1>5. /\ Types' /\ Owned' /\ StaleOwned' /\ Accounted' /\ pc'[t] = "writers"
      /\ \A u \in Threads \ {t} : pc'[u] = pc[u] /\ todo'[u] = todo[u] /\ \A e \in Ends : ends'[u][e] = ends[u][e]
  BY <1>1, <1>3, <1>4, StepKeeps DEF Types
<1>6. {"out.w", "err.w"} \subseteq Closing(t)'
  <2>1. Closing(t)' = {Writers[i] : i \in 1 .. Len(Writers)}
    BY <1>3 DEF Closing
  <2>2. 1 \in 1 .. Len(Writers) /\ 2 \in 1 .. Len(Writers)
    BY <1>2
  <2> QED
    BY <1>2, <2>1, <2>2
<1>7. NotYet("writers") = {} /\ High("writers") = {} /\ Pending("writers") = {}
  BY DEF NotYet, High, Pending
<1>8. Progress'
  BY <1>5, <1>6, <1>7, OwnProgress
<1>9. ChildStreams'
  BY <1>3, SpawnRedirects DEF ChildStreams, Started
<1> QED
  BY <1>5, <1>8, <1>9

\* A call that gives up, or returns, lists all its ends for closing.
LEMMA LeaveKeeps ==
    ASSUME IInv, NEW t \in Threads, SpawnFails(t) \/ Return(t)
    PROVE  IInv'
<1> USE DEF IInv
<1>1. /\ pc[t] \in {"configure", "reading"} /\ pc' = [pc EXCEPT ![t] = "destroy"]
      /\ todo' = [todo EXCEPT ![t] = Destruction]
      /\ UNCHANGED <<table, ends, stale, child, opened>>
  BY DEF SpawnFails, Return, Goto
<1>2. /\ Destruction \in Seq(Ends) /\ Len(Destruction) = 4 /\ Destruction[1] = "err.r"
      /\ Destruction[2] = "err.w" /\ Destruction[3] = "out.r" /\ Destruction[4] = "out.w"
  BY DEF Destruction, Ends
<1>3. todo' \in [Threads -> Seq(Ends)] /\ todo'[t] = Destruction /\ \A u \in Threads \ {t} : todo'[u] = todo[u]
  BY <1>1, <1>2 DEF Types
<1>4. "destroy" \in Places /\ \A e \in Ends : Dropping(e) \notin {pc[t], "destroy"}
  BY <1>1, DifferentPlaces DEF Places
<1>5. /\ Types' /\ Owned' /\ StaleOwned' /\ Accounted' /\ pc'[t] = "destroy"
      /\ \A u \in Threads \ {t} : pc'[u] = pc[u] /\ todo'[u] = todo[u] /\ \A e \in Ends : ends'[u][e] = ends[u][e]
  BY <1>1, <1>3, <1>4, StepKeeps DEF Types
<1>6. Ends \subseteq Closing(t)'
  <2>1. Closing(t)' = {Destruction[i] : i \in 1 .. Len(Destruction)}
    BY <1>3 DEF Closing
  <2>2. {1, 2, 3, 4} \subseteq 1 .. Len(Destruction)
    BY <1>2
  <2> QED
    BY <1>2, <2>1, <2>2 DEF Ends
<1>7. NotYet("destroy") = {} /\ High("destroy") = {} /\ Pending("destroy") = {}
  BY DEF NotYet, High, Pending
<1>8. Progress'
  BY <1>5, <1>6, <1>7, OwnProgress
<1>9. ChildStreams'
  BY <1>1 DEF ChildStreams, Started
<1> QED
  BY <1>5, <1>8, <1>9

\* When the list is empty, every end that was to be closed is closed.
LEMMA ClosedKeeps ==
    ASSUME IInv, NEW t \in Threads, WritersClosed(t) \/ Destroyed(t)
    PROVE  IInv'
<1> USE DEF IInv
<1>1. PICK next :
          /\ \/ pc[t] = "writers" /\ next = "reading"
             \/ pc[t] = "destroy" /\ next = "done"
          /\ todo[t] = <<>> /\ pc' = [pc EXCEPT ![t] = next]
          /\ UNCHANGED <<table, ends, stale, todo, child, opened>>
  BY DEF WritersClosed, Destroyed, Goto
<1>2. next \in Places /\ \A e \in Ends : Dropping(e) \notin {pc[t], next}
  BY <1>1, DifferentPlaces DEF Places
<1>3. /\ Types' /\ Owned' /\ StaleOwned' /\ Accounted' /\ pc'[t] = next
      /\ \A u \in Threads \ {t} : pc'[u] = pc[u] /\ todo'[u] = todo[u] /\ \A e \in Ends : ends'[u][e] = ends[u][e]
  BY <1>1, <1>2, StepKeeps DEF Types
<1>4. Closing(t) = {}
  BY <1>1 DEF Closing
<1>5. /\ High(next) = {} /\ Pending(next) = {} /\ next \notin {"writers", "destroy"}
      /\ \/ pc[t] = "writers" /\ NotYet(next) = {"out.w", "err.w"}
         \/ pc[t] = "destroy" /\ NotYet(next) = Ends
  BY <1>1 DEF NotYet, High, Pending
<1>6. \A e \in NotYet(next) : ends[t][e] = NoFd
  BY <1>4, <1>5 DEF Progress
<1>7. Progress'
  BY <1>1, <1>3, <1>5, <1>6, OwnProgress
<1>8. ChildStreams'
  BY <1>1 DEF ChildStreams, Started
<1> QED
  BY <1>3, <1>7, <1>8

\* The next end of the list is closed and taken off the list.
LEMMA CloseEndKeeps ==
    ASSUME IInv, NEW t \in Threads, CloseEnd(t)
    PROVE  IInv'
<1> USE DEF IInv
<1> DEFINE e == Head(todo[t])
<1>1. /\ pc[t] \in {"writers", "destroy"} /\ todo[t] # <<>> /\ todo[t] \in Seq(Ends)
      /\ table' = Closed(table, {ends[t][e]}) /\ ends' = [ends EXCEPT ![t][e] = Forget(@)]
      /\ todo' = [todo EXCEPT ![t] = Tail(@)]
      /\ UNCHANGED <<pc, stale, child, opened>>
  BY DEF CloseEnd, Types
<1>2. /\ e \in Ends /\ Tail(todo[t]) \in Seq(Ends)
      /\ \A i \in 1 .. Len(todo[t]) : todo[t][i] # e =>
             \E j \in 1 .. Len(Tail(todo[t])) : Tail(todo[t])[j] = todo[t][i]
  BY <1>1, ClosingTail
<1> HIDE DEF e
<1>3. /\ Owned' /\ StaleOwned' /\ Accounted'
      /\ DOMAIN table' \subseteq Fds /\ \A fd \in DOMAIN table' : table'[fd].file \in Files
      /\ ends' \in [Threads -> [Ends -> Fds \cup {NoFd}]]
      /\ ends'[t][e] = NoFd
      /\ \A u \in Threads, f \in Ends : (u # t \/ f # e) => ends'[u][f] = ends[u][f]
  BY <1>1, <1>2, CloseKeeps
<1>4. /\ todo' \in [Threads -> Seq(Ends)] /\ todo'[t] = Tail(todo[t])
      /\ \A u \in Threads \ {t} : todo'[u] = todo[u]
  BY <1>1, <1>2 DEF Types
<1>5. Types'
  BY <1>1, <1>3, <1>4 DEF Types
<1>6. Closing(t) \subseteq Closing(t)' \cup {e}
  BY <1>2, <1>4 DEF Closing
<1>7. NotYet(pc[t]) = {} /\ High(pc[t]) = {} /\ Pending(pc[t]) = {}
  BY <1>1 DEF NotYet, High, Pending
<1>8. \A f \in Ends : ends[t][f] = NoFd => ends'[t][f] = NoFd
  BY <1>3
<1>9. pc'[t] = "writers" => \A f \in {"out.w", "err.w"} \ Closing(t)' : ends'[t][f] = NoFd
  <2> SUFFICES ASSUME pc[t] = "writers", NEW f \in {"out.w", "err.w"} \ Closing(t)' PROVE ends'[t][f] = NoFd
    BY <1>1
  <2>1. f \in Ends /\ (f = e \/ f \notin Closing(t))
    BY <1>6 DEF Ends
  <2> QED
    BY <1>3, <1>8, <2>1 DEF Progress
<1>10. pc'[t] = "destroy" => \A f \in Ends \ Closing(t)' : ends'[t][f] = NoFd
  <2> SUFFICES ASSUME pc[t] = "destroy", NEW f \in Ends \ Closing(t)' PROVE ends'[t][f] = NoFd
    BY <1>1
  <2>1. f = e \/ f \notin Closing(t)
    BY <1>6
  <2> QED
    BY <1>3, <1>8, <2>1 DEF Progress
<1>11. Progress'
  BY <1>1, <1>3, <1>4, <1>7, <1>9, <1>10, OwnProgress
<1>12. ChildStreams'
  BY <1>1 DEF ChildStreams, Started
<1> QED
  BY <1>3, <1>5, <1>11, <1>12

\* A reader is closed at its end of file.
LEMMA EndOfFileKeeps ==
    ASSUME IInv, NEW t \in Threads, NEW e \in {"out.r", "err.r"}, EndOfFile(t, e)
    PROVE  IInv'
<1> USE DEF IInv
<1>1. /\ e \in Ends /\ e \notin {"out.w", "err.w"} /\ pc[t] = "reading"
      /\ table' = Closed(table, {ends[t][e]}) /\ ends' = [ends EXCEPT ![t][e] = Forget(@)]
      /\ UNCHANGED <<pc, stale, todo, child, opened>>
  BY DEF EndOfFile, Ends
<1>2. /\ Owned' /\ StaleOwned' /\ Accounted'
      /\ DOMAIN table' \subseteq Fds /\ \A fd \in DOMAIN table' : table'[fd].file \in Files
      /\ ends' \in [Threads -> [Ends -> Fds \cup {NoFd}]]
      /\ ends'[t][e] = NoFd
      /\ \A u \in Threads, f \in Ends : (u # t \/ f # e) => ends'[u][f] = ends[u][f]
  BY <1>1, CloseKeeps
<1>3. Types'
  BY <1>1, <1>2 DEF Types
<1>4. NotYet(pc[t]) = {"out.w", "err.w"} /\ High(pc[t]) = {} /\ Pending(pc[t]) = {} /\ {"out.w", "err.w"} \subseteq Ends
  BY <1>1 DEF NotYet, High, Pending, Ends
<1>5. \A f \in NotYet(pc[t]) : ends'[t][f] = NoFd
  BY <1>1, <1>2, <1>4 DEF Progress
<1>6. Progress'
  BY <1>1, <1>2, <1>4, <1>5, OwnProgress
<1>7. ChildStreams'
  BY <1>1 DEF ChildStreams, Started
<1> QED
  BY <1>2, <1>3, <1>6, <1>7

\* A file the host opens gets a descriptor no call uses.
LEMMA HostKeeps ==
    ASSUME IInv, HostOpens
    PROVE  IInv'
<1> USE DEF IInv
<1> DEFINE c == Lowest(Free(0))
<1>1. /\ Free(0) # {} /\ table' = Opened(table, c, Entry(HostFile, TRUE))
      /\ UNCHANGED <<pc, ends, stale, todo, child>>
  BY DEF HostOpens
<1>2. c \in Fds \ DOMAIN table
  BY <1>1, FreeOne
<1> HIDE DEF c
<1>3. DOMAIN table' = DOMAIN table \cup {c} /\ table'[c].file = HostFile /\ \A fd \in DOMAIN table : table'[fd] = table[fd]
  BY <1>1, <1>2 DEF Opened, Entry
<1>4. Types'
  <2>1. ASSUME NEW fd \in DOMAIN table' PROVE table'[fd].file \in Files
    BY <1>3 DEF Types, Files
  <2> QED
    BY <1>1, <1>2, <1>3, <2>1 DEF Types
<1>5. Owned' /\ StaleOwned'
  <2>1. \A fd \in DOMAIN table : fd \in DOMAIN table' /\ table'[fd].file = table[fd].file
    BY <1>3
  <2>2. Owned'
    BY <1>1, <2>1 DEF Owned
  <2>3. StaleOwned'
    BY <1>1, <2>1 DEF StaleOwned
  <2> QED
    BY <2>2, <2>3
<1>6. Accounted'
  <2> SUFFICES ASSUME NEW u \in Threads, NEW f \in Ends, NEW fd \in DOMAIN table',
                      table'[fd].file = EndFile(u, f)
               PROVE  ends'[u][f] = fd \/ (pc'[u] = Dropping(f) /\ stale'[u] = fd)
    BY DEF Accounted
  <2>1. fd \in DOMAIN table /\ table[fd].file = EndFile(u, f)
    BY <1>3, DifferentFiles
  <2> QED
    BY <1>1, <2>1 DEF Accounted
<1>7. Progress' /\ ChildStreams'
  BY <1>1 DEF Progress, Closing, ChildStreams, Started
<1> QED
  BY <1>4, <1>5, <1>6, <1>7

\* Every system call of every thread, and of the host, keeps the accounts.
LEMMA IInvNext == IInv /\ [Next]_vars => IInv'
<1> SUFFICES ASSUME IInv, [Next]_vars PROVE IInv'
  OBVIOUS
<1>1. ASSUME NEW t \in Threads, Call(t) PROVE IInv'
  <2>1. ASSUME NEW e \in Ends, Remap(t, e) \/ DropLow(t, e) PROVE IInv'
    BY <2>1, RemapKeeps, DropLowKeeps
  <2>2. ASSUME NEW e \in {"out.r", "err.r"}, EndOfFile(t, e) PROVE IInv'
    BY <2>2, EndOfFileKeeps
  <2> QED
    BY <1>1, <2>1, <2>2, CreateKeeps, SpawnKeeps, LeaveKeeps, ClosedKeeps, CloseEndKeeps DEF Call
<1>2. CASE UNCHANGED vars
  BY <1>2 DEF vars, IInv, Types, Owned, StaleOwned, Accounted, Progress, Closing, ChildStreams, Started
<1> QED
  BY <1>1, <1>2, HostKeeps DEF Next, AllDone

\* Every descriptor is accounted for, in every state of every interleaving.
THEOREM IInvAlways == Spec => []IInv
  BY IInvInit, IInvNext, PTL DEF Spec

-----------------------------------------------------------------------------
(* What the calls promise.                                                 *)

\* The number a thread remembers for a pipe end refers to that end, so no close of
\* a call hits a file of the host or of another thread.
THEOREM OwnedAlways == Spec => []Owned
<1>1. IInv => Owned
  BY DEF IInv
<1> QED
  BY <1>1, IInvAlways, PTL

\* A started probe reads /dev/null and writes to its own two pipes.
THEOREM ChildStreamsAlways == Spec => []ChildStreams
<1>1. IInv => ChildStreams
  BY DEF IInv
<1> QED
  BY <1>1, IInvAlways, PTL

\* Every pipe end in the host's table is closed by an exec.
Marked ==
    \A t \in Threads, e \in Ends, fd \in DOMAIN table :
        table[fd].file = EndFile(t, e) => table[fd].cloexec = TRUE

\* No shell has a pipe end of another thread.
Apart ==
    \A t, u \in Threads, e \in Ends : u # t =>
        \A fd \in DOMAIN child[u] : child[u][fd].file # EndFile(t, e)

\* A system call leaves the descriptors of the table as they are, closes some, or opens some
\* that an exec closes.
LEMMA TableStep ==
    ASSUME [Next]_vars, NEW fd \in DOMAIN table'
    PROVE  (fd \in DOMAIN table /\ table'[fd] = table[fd]) \/ table'[fd].cloexec = TRUE
<1>1. ASSUME NEW fds, table' = Closed(table, fds) PROVE fd \in DOMAIN table /\ table'[fd] = table[fd]
  BY <1>1 DEF Closed
<1>2. ASSUME NEW c, NEW file, table' = Opened(table, c, Entry(file, TRUE))
      PROVE  (fd \in DOMAIN table /\ table'[fd] = table[fd]) \/ table'[fd].cloexec = TRUE
  BY <1>2 DEF Opened, Entry
<1>3. ASSUME NEW t, NEW r, NEW w, NEW remap, NEW next, Pipe2(t, r, w, remap, next)
      PROVE  (fd \in DOMAIN table /\ table'[fd] = table[fd]) \/ table'[fd].cloexec = TRUE
  <2>1. CASE UNCHANGED table
    BY <2>1
  <2>2. CASE ~UNCHANGED table
    <3>1. PICK a, b, f, g : table' = Opened(Opened(table, a, Entry(f, TRUE)), b, Entry(g, TRUE))
      BY <1>3, <2>2 DEF Pipe2
    <3> QED BY <3>1 DEF Opened, Entry
  <2> QED BY <2>1, <2>2
<1>4. ASSUME NEW t \in Threads, Call(t)
      PROVE  (fd \in DOMAIN table /\ table'[fd] = table[fd]) \/ table'[fd].cloexec = TRUE
  <2>1. CASE CreateOutput(t) \/ CreateError(t)
    BY <1>3, <2>1 DEF CreateOutput, CreateError
  <2>2. ASSUME NEW e \in Ends, Remap(t, e)
        PROVE  (fd \in DOMAIN table /\ table'[fd] = table[fd]) \/ table'[fd].cloexec = TRUE
    BY <1>2, <2>2 DEF Remap, Replacement
  <2>3. ASSUME NEW e \in Ends, DropLow(t, e) \/ EndOfFile(t, e) PROVE fd \in DOMAIN table /\ table'[fd] = table[fd]
    BY <1>1, <2>3 DEF DropLow, EndOfFile
  <2>4. CASE CloseEnd(t)
    BY <1>1, <2>4 DEF CloseEnd
  <2>5. CASE Spawn(t) \/ SpawnFails(t) \/ WritersClosed(t) \/ Return(t) \/ Destroyed(t)
    BY <2>5 DEF Spawn, SpawnFails, WritersClosed, Return, Destroyed
  <2> QED BY <1>4, <2>1, <2>2, <2>3, <2>4, <2>5 DEF Call, Ends
<1>5. CASE HostOpens
  BY <1>2, <1>5 DEF HostOpens
<1>6. CASE UNCHANGED vars
  BY <1>6 DEF vars
<1> QED BY <1>4, <1>5, <1>6 DEF Next, AllDone

\* The exec closes the ends of other threads.
LEMMA SpawnInherits ==
    ASSUME IInv, Marked, NEW u \in Threads, Spawn(u), NEW t \in Threads \ {u}, NEW e \in Ends,
           NEW fd \in DOMAIN child'[u]
    PROVE  child'[u][fd].file # EndFile(t, e)
<1> DEFINE mine == ends[u]
           null == Opened(table, 0, Entry(NullFile, FALSE))
           one == Redirect(null, mine, "out.r", "out.w", 1)
           two == Redirect(one, mine, "err.r", "err.w", 2)
<1>1. CASE fd \in {0, 1, 2}
  <2>1. child'[u][fd].file \in {NullFile, EndFile(u, "out.w"), EndFile(u, "err.w")}
    BY <1>1, SpawnRedirects
  <2> QED BY <2>1, DifferentFiles DEF Ends
<1>2. CASE fd \notin {0, 1, 2}
  <2>1. child'[u] = Exec(two)
    BY DEF Spawn, FileActions, IInv, Types
  <2>2. fd \in DOMAIN two /\ ~two[fd].cloexec /\ child'[u][fd] = two[fd]
    <3> HIDE DEF two
    <3> QED BY <2>1 DEF Exec, Closed
  <2>3. fd \in DOMAIN one /\ two[fd] = one[fd]
    <3> HIDE DEF one
    <3> QED BY <1>2, <2>2 DEF Redirect, Closed, Opened
  <2>4. fd \in DOMAIN null /\ one[fd] = null[fd]
    <3> HIDE DEF null
    <3> QED BY <1>2, <2>3 DEF Redirect, Closed, Opened
  <2>5. fd \in DOMAIN table /\ null[fd] = table[fd]
    BY <1>2, <2>4 DEF Opened
  <2>6. ~table[fd].cloexec /\ child'[u][fd].file = table[fd].file
    <3> HIDE DEF two, one, null
    <3> QED BY <2>2, <2>3, <2>4, <2>5
  <2> QED BY <2>5, <2>6 DEF Marked
<1> QED BY <1>1, <1>2

\* Ends stay marked, and away from the shells of other threads.
LEMMA ApartNext == ASSUME IInv, Marked, Apart, [Next]_vars PROVE Marked' /\ Apart'
<1>1. Marked'
  BY TableStep DEF Marked
<1>2. ASSUME NEW t \in Threads, NEW u \in Threads, NEW e \in Ends, u # t, NEW fd \in DOMAIN child'[u]
      PROVE  child'[u][fd].file # EndFile(t, e)
  <2>1. CASE child'[u] = child[u]
    BY <1>2, <2>1 DEF Apart
  <2>2. CASE Spawn(u)
    BY <1>2, <2>2, SpawnInherits
  <2>3. CASE \E v \in Threads \ {u} : Spawn(v)
    <3>1. child'[u] = child[u]
      BY <2>3 DEF Spawn, IInv, Types
    <3> QED BY <2>1, <3>1
  <2>4. child' = child \/ \E v \in Threads : Spawn(v)
    BY DEF Next, Call, CreateOutput, CreateError, Pipe2, Remap, DropLow, SpawnFails, CloseEnd, WritersClosed,
           EndOfFile, Return, Destroyed, HostOpens, AllDone, vars
  <2> QED BY <2>1, <2>2, <2>3, <2>4
<1> QED BY <1>1, <1>2 DEF Apart

\* No shell has a pipe end of another thread, in every state of every interleaving.
LEMMA ApartAlways == Spec => [](Marked /\ Apart)
<1>1. Init => Marked /\ Apart
  <2> SUFFICES ASSUME Init PROVE Marked /\ Apart
    OBVIOUS
  <2>1. \A fd \in DOMAIN table : table[fd].file = HostFile
    BY DEF Init, Entry
  <2>2. \A u \in Threads : DOMAIN child[u] = {}
    BY DEF Init
  <2> QED BY <2>1, <2>2, DifferentFiles DEF Marked, Apart
<1>2. IInv /\ (Marked /\ Apart) /\ [Next]_vars => (Marked /\ Apart)'
  BY ApartNext
<1> QED BY <1>1, <1>2, IInvAlways, PTL DEF Spec

\* While a call reads, neither the host nor the shell of another thread holds a write end of
\* its pipes: nothing but the probe can keep the end of file away.
THEOREM OnlyProbeWritesAlways == Spec => []OnlyProbeWrites
<1>1. IInv /\ (Marked /\ Apart) => OnlyProbeWrites
  <2> SUFFICES ASSUME IInv, Apart, NEW t \in Threads, pc[t] = "reading"
               PROVE  /\ \A fd \in DOMAIN table : table[fd].file \notin WriteEnds(t)
                      /\ \A u \in Threads \ {t} : \A fd \in DOMAIN child[u] :
                            child[u][fd].file \notin WriteEnds(t)
    BY DEF OnlyProbeWrites
  <2>1. ASSUME NEW fd \in DOMAIN table, NEW e \in {"out.w", "err.w"}, table[fd].file = EndFile(t, e)
        PROVE  FALSE
    <3>1. e \in Ends /\ e \in NotYet(pc[t]) /\ Dropping(e) # pc[t]
      BY DifferentPlaces DEF Ends, NotYet
    <3>2. ends[t][e] = NoFd /\ ends[t][e] = fd
      BY <2>1, <3>1 DEF IInv, Progress, Accounted
    <3> QED
      BY <3>2 DEF IInv, Types, Fds, NoFd
  <2> QED BY <2>1 DEF Apart, WriteEnds, Ends
<1> QED
  BY <1>1, IInvAlways, ApartAlways, PTL

\* A call that has returned, whichever way it went, has closed every end it opened.
THEOREM NoDescriptorLeftAlways == Spec => []NoDescriptorLeft
<1>1. IInv => NoDescriptorLeft
  <2> SUFFICES ASSUME IInv, NEW t \in Threads, pc[t] = "done", NEW fd \in DOMAIN table, table[fd].file[1] = t
               PROVE  FALSE
    BY DEF NoDescriptorLeft
  <2>1. PICK e \in Ends : table[fd].file = EndFile(t, e)
    <3>1. table[fd].file \in (Threads \X Ends) \cup {HostFile, NullFile}
      BY DEF IInv, Types, Files
    <3>2. HostFile[1] = "host" /\ NullFile[1] = "host"
      BY DEF HostFile, NullFile
    <3>3. table[fd].file \in Threads \X Ends
      BY <3>1, <3>2, SpawnAssumption
    <3>4. table[fd].file = <<t, table[fd].file[2]>> /\ table[fd].file[2] \in Ends
      BY <3>3
    <3> QED
      BY <3>4 DEF EndFile
  <2>2. e \in NotYet(pc[t]) /\ Dropping(e) # pc[t]
    BY DifferentPlaces DEF NotYet
  <2>3. ends[t][e] = NoFd /\ ends[t][e] = fd
    BY <2>1, <2>2 DEF IInv, Progress, Accounted
  <2> QED
    BY <2>3 DEF IInv, Types, Fds, NoFd
<1> QED
  BY <1>1, IInvAlways, PTL
=============================================================================
