--------------------------- MODULE CommandProofs ---------------------------
(***************************************************************************)
(* Proofs about Command for every limit, buffer size, number of reads and  *)
(* set of descendants.                                                     *)
(***************************************************************************)
EXTENDS CommandRefinement, TLAPS

\* The initial state of a call is well typed, for every host setting of SIGCHLD.
LEMMA TypeInit == Init => TypeOK
<1> SUFFICES ASSUME Init PROVE TypeOK
  OBVIOUS
<1>1. autoReap \in BOOLEAN
  BY CommandAssumption, Zenon DEF Init
<1>2. 0 \in 0 .. Limit /\ 0 \in 0 .. MaxReads /\ 0 \in 0 .. Capacity /\ 0 \in 0 .. MaxWritten
  BY CommandAssumption
<1> QED
  BY <1>1, <1>2 DEF Init, TypeOK, Streams, Procs, Endings

\* Every step of the supervisor, the probe and the kernel keeps the types.
LEMMA TypeStep == TypeOK /\ [Next]_vars => TypeOK'
<1> SUFFICES ASSUME TypeOK, [Next]_vars PROVE TypeOK'
  OBVIOUS
<1> USE CommandAssumption DEF TypeOK, Streams, Procs, Endings
<1>1. CASE SpawnFails
  BY <1>1 DEF SpawnFails, kernel, probe
<1>2. CASE Spawn
  BY <1>2 DEF Spawn
<1>3. CASE SetNonblocking
  BY <1>3 DEF SetNonblocking, kernel, probe
<1>4. CASE CheckDeadline
  BY <1>4 DEF CheckDeadline, kernel, probe
<1>5. CASE Poll
  BY <1>5 DEF Poll, kernel, probe
<1>6. ASSUME NEW s \in Streams, DrainEnds(s) PROVE TypeOK'
  BY <1>6 DEF DrainEnds, AfterDrain, kernel, probe
<1>7. ASSUME NEW s \in Streams, ReadBytes(s) PROVE TypeOK'
  BY <1>7 DEF ReadBytes, Exceeds, probe
<1>8. ASSUME NEW s \in Streams, ReadNothing(s) PROVE TypeOK'
  BY <1>8 DEF ReadNothing, AfterDrain, kernel, probe
<1>9. ASSUME NEW s \in Streams, ReadFails(s) PROVE TypeOK'
  BY <1>9 DEF ReadFails, kernel, probe
<1>10. CASE WaitNoHang
  <2>1. CASE Reap
    BY <1>10, <2>1 DEF WaitNoHang, Reap
  <2>2. CASE UNCHANGED <<exit, received, reads, reaped, waited, kernel>>
    BY <1>10, <2>2 DEF WaitNoHang, kernel, probe
  <2> QED
    BY <1>10, <2>1, <2>2 DEF WaitNoHang
<1>11. CASE Settle
  <2>1. CASE KillGroup
    BY <1>11, <2>1 DEF Settle, KillGroup, Targets, probe
  <2>2. CASE UNCHANGED <<status, exit, reading, received, reads, reaped, waited, kernel>>
    BY <1>11, <2>2 DEF Settle, kernel, probe
  <2> QED
    BY <1>11, <2>1, <2>2 DEF Settle
<1>12. CASE ReapBlocking
  BY <1>12 DEF ReapBlocking, Reap
<1>13. CASE Finish
  BY <1>13 DEF Finish, kernel, probe
<1>14. CASE Abandon
  BY <1>14 DEF Abandon, KillGroup, Targets, probe
<1>15. CASE DestroyReap
  BY <1>15 DEF DestroyReap, Reap
<1>16. ASSUME NEW p \in Procs, NEW s \in Streams, Write(p, s) PROVE TypeOK'
  BY <1>16 DEF Write, parent
<1>17. ASSUME NEW p \in Procs, NEW s \in Streams, CloseStream(p, s) PROVE TypeOK'
  BY <1>17 DEF CloseStream, parent
<1>18. ASSUME NEW p \in Procs, NEW c \in Descendants, Fork(p, c) PROVE TypeOK'
  BY <1>18 DEF Fork, parent
<1>19. ASSUME NEW p \in Procs, Setsid(p) PROVE TypeOK'
  BY <1>19 DEF Setsid, parent
<1>20. ASSUME NEW p \in Procs, NEW how \in Endings, Terminated(p, how) PROVE TypeOK'
  BY <1>20 DEF Terminated, parent
<1>21. CASE Expire
  BY <1>21 DEF Expire, parent, probe
<1>22. CASE Recycle
  BY <1>22 DEF Recycle, parent, probe
<1>23. CASE UNCHANGED vars
  BY <1>23 DEF vars, parent, probe
<1>24. CASE Environment
  BY <1>16, <1>17, <1>18, <1>19, <1>20, <1>21, <1>22, <1>24
    DEF Environment, Die, Exit
<1> QED
  BY <1>1, <1>2, <1>3, <1>4, <1>5, <1>6, <1>7, <1>8, <1>9, <1>10, <1>11, <1>12,
     <1>13, <1>14, <1>15, <1>23, <1>24 DEF Next, Supervise, Returned

\* Every variable of the supervised call keeps its type; in particular the
\* collected output never exceeds the limit and never wraps below it.
THEOREM TypeCorrect == Spec => []TypeOK
  BY TypeInit, TypeStep, PTL DEF Spec

-----------------------------------------------------------------------------
(* The answer of the call.                                                 *)

\* A call that has not started anything has nothing to answer for.
LEMMA SupervisedInit == Init => Supervised
  BY TypeInit DEF Init, Supervised, Accounted, ClosedAtEnd, StatusFits, WholeOutput,
    LimitIsExact, HasWriter, Ok, TypeOK

\* What the probe, the kernel and the clock do, in any order, leaves the
\* bookkeeping of the supervisor right.
LEMMA SupervisedEnvironment == Supervised /\ TypeOK' /\ Environment => Supervised'
<1> SUFFICES ASSUME Supervised, TypeOK', Environment PROVE Supervised'
  OBVIOUS
<1> USE DEF Supervised, TypeOK, Accounted, ClosedAtEnd, StatusFits, WholeOutput,
  LimitIsExact, HasWriter, Ok, Done, Streams
<1>1. ASSUME NEW p \in Procs, NEW s \in Streams, Write(p, s) PROVE Supervised'
  <2>1. pc # "returned"
    BY DEF Environment
  <2>2. written'[s] = written[s] + 1 /\ buffered'[s] = buffered[s] + 1
    BY <1>1 DEF Write
  <2>3. \A t \in Streams \ {s} : written'[t] = written[t] /\ buffered'[t] = buffered[t]
    BY <1>1 DEF Write
  <2>4. UNCHANGED <<pc, status, exit, reading, received, reaped, waited, holds>> /\ s \in reading
    BY <1>1 DEF Write, parent
  <2>5. Accounted' /\ ClosedAtEnd'
    BY <2>1, <2>2, <2>3, <2>4
  <2>6. StatusFits' /\ WholeOutput'
    BY <2>1, <2>4
  <2>7. LimitIsExact'
    <3>1. \A t \in Streams : written'[t] >= written[t]
      BY <2>2, <2>3
    <3> QED
      BY <2>1, <2>4, <3>1, CommandAssumption
  <2> QED
    BY <2>5, <2>6, <2>7
<1>2. ASSUME NEW p \in Procs, NEW s \in Streams, CloseStream(p, s) PROVE Supervised'
  BY <1>2 DEF CloseStream, parent
<1>3. ASSUME NEW p \in Procs, NEW c \in Descendants, Fork(p, c) PROVE Supervised'
  BY <1>3 DEF Fork, parent
<1>4. ASSUME NEW p \in Procs, Setsid(p) PROVE Supervised'
  BY <1>4 DEF Setsid, parent
<1>5. ASSUME NEW p \in Procs, NEW how \in Endings, Terminated(p, how) PROVE Supervised'
  BY <1>5 DEF Terminated, parent
<1>6. CASE Expire
  BY <1>6 DEF Expire, parent, probe
<1>7. CASE Recycle
  BY <1>7 DEF Recycle, parent, probe
<1> QED
  BY <1>1, <1>2, <1>3, <1>4, <1>5, <1>6, <1>7 DEF Environment, Die, Exit, Endings

\* Every step of the supervising thread keeps its books right: what a drain takes
\* out of a pipe is delivered or is the overrun, a read end is closed at the end
\* of file only, and the loop is left without an error only when it is done.
LEMMA SupervisedThread == Supervised /\ TypeOK' /\ Supervise => Supervised'
<1> SUFFICES ASSUME Supervised, TypeOK', Supervise PROVE Supervised'
  OBVIOUS
<1> USE CommandAssumption DEF Supervised, TypeOK, Accounted, ClosedAtEnd, StatusFits,
  WholeOutput, LimitIsExact, HasWriter, Ok, Done, Streams, Endings
<1>1. CASE SpawnFails
  BY <1>1 DEF SpawnFails, kernel, probe
<1>2. CASE Spawn
  BY <1>2 DEF Spawn
<1>3. CASE SetNonblocking
  BY <1>3 DEF SetNonblocking, kernel, probe
<1>4. CASE CheckDeadline
  BY <1>4 DEF CheckDeadline, OutOfTime, kernel, probe
<1>5. CASE Poll
  BY <1>5 DEF Poll, kernel, probe
<1>6. ASSUME NEW s \in Streams, DrainEnds(s) PROVE Supervised'
  BY <1>6 DEF DrainEnds, AfterDrain, kernel, probe
<1>7. ASSUME NEW s \in Streams, ReadBytes(s) PROVE Supervised'
  <2> DEFINE bytes == IF buffered[s] < ReadSize THEN buffered[s] ELSE ReadSize
  <2>1. bytes \in Nat /\ bytes <= buffered[s]
    OBVIOUS
  <2>2. pc = s /\ status = "Success" /\ written[s] = buffered[s] + received[s]
    BY <1>7 DEF ReadBytes
  <2>3. CASE Exceeds(s, bytes)
    <3>1. written'[s] > Limit /\ status' = "OutputLimit" /\ pc' = "settle"
      BY <1>7, <2>1, <2>2, <2>3 DEF ReadBytes, Exceeds, probe
    <3> QED
      BY <1>7, <2>3, <3>1 DEF ReadBytes, probe
  <2>4. CASE ~Exceeds(s, bytes)
    <3>1. /\ buffered'[s] = buffered[s] - bytes
          /\ received'[s] = received[s] + bytes
          /\ \A t \in Streams \ {s} : buffered'[t] = buffered[t] /\ received'[t] = received[t]
          /\ UNCHANGED <<pc, status, reading, holds, written, reaped>>
      BY <1>7, <2>4 DEF ReadBytes, probe
    <3> HIDE DEF bytes
    <3> QED
      BY <2>1, <2>2, <3>1
  <2> QED
    BY <2>3, <2>4
<1>8. ASSUME NEW s \in Streams, ReadNothing(s) PROVE Supervised'
  BY <1>8 DEF ReadNothing, EndOfFile, AfterDrain, kernel, probe
<1>9. ASSUME NEW s \in Streams, ReadFails(s) PROVE Supervised'
  BY <1>9 DEF ReadFails, kernel, probe
<1>10. CASE WaitNoHang
  <2>1. CASE Reap
    BY <1>10, <2>1 DEF WaitNoHang, Reap
  <2>2. CASE UNCHANGED <<exit, received, reads, reaped, waited, kernel>>
    BY <1>10, <2>2 DEF WaitNoHang, kernel, probe
  <2> QED
    BY <1>10, <2>1, <2>2 DEF WaitNoHang
<1>11. CASE Settle
  <2>1. UNCHANGED <<status, exit, reading, received, reads, reaped, waited, holds, written, buffered>>
    BY <1>11 DEF Settle, KillGroup, kernel, probe
  <2> QED
    BY <1>11, <2>1 DEF Settle
<1>12. CASE ReapBlocking
  BY <1>12 DEF ReapBlocking, Reap
<1>13. CASE Finish
  BY <1>13 DEF Finish, kernel, probe
<1>14. CASE Abandon
  BY <1>14 DEF Abandon, KillGroup, probe
<1>15. CASE DestroyReap
  BY <1>15 DEF DestroyReap, Reap
<1> QED
  BY <1>1, <1>2, <1>3, <1>4, <1>5, <1>6, <1>7, <1>8, <1>9, <1>10, <1>11, <1>12, <1>13,
     <1>14, <1>15 DEF Supervise

\* Supervised is inductive.
THEOREM AlwaysSupervised == Spec => []Supervised
<1>1. Supervised /\ [Next]_vars => Supervised'
  <2> SUFFICES ASSUME Supervised, [Next]_vars PROVE Supervised'
    OBVIOUS
  <2>1. TypeOK'
    BY TypeStep DEF Supervised
  <2>2. CASE UNCHANGED vars
    BY <2>2 DEF vars, parent, probe, Supervised, TypeOK, Accounted, ClosedAtEnd, StatusFits,
      WholeOutput, LimitIsExact, HasWriter, Ok, Done
  <2> QED
    BY <2>1, <2>2, SupervisedThread, SupervisedEnvironment DEF Next, Returned
<1> QED
  BY SupervisedInit, <1>1, PTL DEF Spec

\* An answer of execute_command that is not an error carries every byte the probe
\* wrote, whatever the interleaving of writers, forks, exits and reads was.
THEOREM WholeOutputAlways == Spec => []WholeOutput
<1>1. Supervised => WholeOutput
  BY DEF Supervised
<1> QED
  BY AlwaysSupervised, <1>1, PTL

\* OutputLimit is reported exactly for a stream that exceeds the limit.
THEOREM LimitIsExactAlways == Spec => []LimitIsExact
<1>1. Supervised => LimitIsExact
  BY DEF Supervised
<1> QED
  BY AlwaysSupervised, <1>1, PTL

-----------------------------------------------------------------------------
(* The processes a call leaves behind.                                     *)

\* The probe and the kernel cannot undo a group kill: a process that is being
\* killed does not fork, and one that leaves the group takes no one with it.
LEMMA ContainedEnvironment == Contained /\ Supervised' /\ Environment => Contained'
<1> SUFFICES ASSUME Contained, Supervised', Environment PROVE Contained'
  OBVIOUS
<1>0. TypeOK
  BY DEF Contained, Supervised
<1> USE CommandAssumption, <1>0 DEF Contained, GroupKilled, NoShellLeft, AbortKillsGroup, TypeOK, Running,
  Procs
<1>1. ASSUME NEW p \in Procs, NEW s \in Streams, Write(p, s) PROVE Contained'
  BY <1>1 DEF Environment, Write, parent
<1>2. ASSUME NEW p \in Procs, NEW s \in Streams, CloseStream(p, s) PROVE Contained'
  BY <1>2 DEF Environment, CloseStream, parent
<1>3. ASSUME NEW p \in Procs, NEW c \in Descendants, Fork(p, c) PROVE Contained'
  <2>1. Shell # c /\ c \in Procs
    BY CommandAssumption
  <2>2. pc # "returned" /\ UNCHANGED <<pc, status, reaped, killed>>
    BY <1>3 DEF Environment, Fork, parent
  <2>3. pstate[c] = "unborn" /\ pstate' = [pstate EXCEPT ![c] = "running"]
    BY <1>3 DEF Fork
  <2>4. GroupKilled => group' \subseteq group
    BY <1>3 DEF Fork
  <2>5. GroupKilled => GroupKilled'
    <3> SUFFICES ASSUME GroupKilled, NEW q \in group', pstate'[q] = "running" PROVE q \in killed'
      BY <1>0
    <3>1. q \in group /\ q \in Procs
      BY <2>4
    <3>2. CASE q = c
      BY <2>3, <3>1, <3>2
    <3>3. CASE q # c
      BY <2>2, <2>3, <3>1, <3>3
    <3> QED
      BY <3>2, <3>3
  <2> QED
    BY <2>1, <2>2, <2>3, <2>5, <1>3 DEF Fork
<1>4. ASSUME NEW p \in Procs, Setsid(p) PROVE Contained'
  BY <1>4 DEF Environment, Setsid, parent
<1>5. ASSUME NEW p \in Procs, NEW how \in Endings, Running(p), Terminated(p, how) PROVE Contained'
  BY <1>5 DEF Environment, Terminated, parent
<1>6. CASE Expire
  BY <1>6 DEF Environment, Expire, parent, probe
<1>7. CASE Recycle
  BY <1>7 DEF Environment, Recycle, parent, probe
<1> QED
  BY <1>1, <1>2, <1>3, <1>4, <1>5, <1>6, <1>7 DEF Environment, Die, Exit, Endings

\* The supervising thread never forgets a shell, and does not return from an
\* error before the group was killed.
LEMMA ContainedThread == Contained /\ Supervised' /\ Supervise => Contained'
<1> SUFFICES ASSUME Contained, Supervised', Supervise PROVE Contained'
  OBVIOUS
<1>0. TypeOK /\ StatusFits
  BY DEF Contained, Supervised
<1> USE CommandAssumption, <1>0 DEF Contained, GroupKilled, NoShellLeft, AbortKillsGroup,
  TypeOK, StatusFits, Running, Procs, Ok, Streams
<1>1. CASE SpawnFails
  BY <1>1 DEF SpawnFails, kernel, probe
<1>2. CASE Spawn
  BY <1>2 DEF Spawn
<1>3. CASE SetNonblocking
  BY <1>3 DEF SetNonblocking, kernel, probe
<1>4. CASE CheckDeadline
  BY <1>4 DEF CheckDeadline, OutOfTime, kernel, probe
<1>5. CASE Poll
  BY <1>5 DEF Poll, kernel, probe
<1>6. ASSUME NEW s \in Streams, DrainEnds(s) PROVE Contained'
  BY <1>6 DEF DrainEnds, AfterDrain, kernel, probe
<1>7. ASSUME NEW s \in Streams, ReadBytes(s) PROVE Contained'
  BY <1>7 DEF ReadBytes, probe
<1>8. ASSUME NEW s \in Streams, ReadNothing(s) PROVE Contained'
  BY <1>8 DEF ReadNothing, AfterDrain, kernel, probe
<1>9. ASSUME NEW s \in Streams, ReadFails(s) PROVE Contained'
  BY <1>9 DEF ReadFails, kernel, probe
<1>10. CASE WaitNoHang
  <2>1. CASE Reap
    BY <1>10, <2>1 DEF WaitNoHang, Reap
  <2>2. CASE UNCHANGED <<exit, received, reads, reaped, waited, kernel>>
    BY <1>10, <2>2 DEF WaitNoHang, kernel, probe
  <2> QED
    BY <1>10, <2>1, <2>2 DEF WaitNoHang
<1>11. CASE Settle
  <2>1. CASE status = "Success"
    BY <1>11, <2>1 DEF Settle, Done, kernel, probe
  <2>2. CASE status # "Success"
    <3>1. UNCHANGED <<status, reaped, pstate, group, holds>> /\ killed' = killed \cup Targets
      BY <1>11, <2>2 DEF Settle, KillGroup, probe
    <3>2. GroupKilled'
      BY <3>1 DEF Targets
    <3>3. pstate[Shell] # "unborn"
      BY <1>11 DEF Settle
    <3>4. pc' = "reap" \/ (pc' = "finish" /\ reaped)
      BY <1>11, <2>2 DEF Settle
    <3> QED
      BY <2>2, <3>1, <3>2, <3>3, <3>4
  <2> QED
    BY <2>1, <2>2
<1>12. CASE ReapBlocking
  BY <1>12 DEF ReapBlocking, Reap
<1>13. CASE Finish
  <2>1. CASE status = "Success"
    <3>1. \A p \in Procs : holds[p] = {}
      BY <1>13, <2>1 DEF Finish, Supervised, ClosedAtEnd, HasWriter, Done
    <3> QED
      BY <1>13, <2>1, <3>1 DEF Finish, kernel, probe
  <2>2. CASE status # "Success"
    BY <1>13, <2>2 DEF Finish, kernel, probe
  <2> QED
    BY <2>1, <2>2
<1>14. CASE Abandon
  BY <1>14 DEF Abandon, KillGroup, Targets, probe
<1>15. CASE DestroyReap
  BY <1>15 DEF DestroyReap, Reap
<1> QED
  BY <1>1, <1>2, <1>3, <1>4, <1>5, <1>6, <1>7, <1>8, <1>9, <1>10, <1>11, <1>12, <1>13,
     <1>14, <1>15 DEF Supervise

\* Contained is inductive.
THEOREM AlwaysContained == Spec => []Contained
<1>1. Init => Contained
  BY SupervisedInit DEF Init, Contained, NoShellLeft, AbortKillsGroup, Procs
<1>2. Contained /\ [Next]_vars => Contained'
  <2> SUFFICES ASSUME Contained, [Next]_vars PROVE Contained'
    OBVIOUS
  <2>1. Supervised'
    <3>1. TypeOK'
      BY TypeStep DEF Contained, Supervised
    <3>2. CASE UNCHANGED vars
      BY <3>2 DEF vars, parent, probe, Contained, Supervised, TypeOK, Accounted, ClosedAtEnd,
        StatusFits, WholeOutput, LimitIsExact, HasWriter, Ok, Done
    <3> QED
      BY <3>1, <3>2, SupervisedThread, SupervisedEnvironment DEF Next, Returned, Contained
  <2>2. CASE UNCHANGED vars
    BY <2>1, <2>2 DEF vars, parent, probe, Contained, GroupKilled, NoShellLeft, AbortKillsGroup,
      Ok, Running
  <2> QED
    BY <2>1, <2>2, ContainedThread, ContainedEnvironment DEF Next, Returned
<1> QED
  BY <1>1, <1>2, PTL DEF Spec

\* No call of execute_command leaves its shell running or unreaped.
THEOREM NoShellLeftAlways == Spec => []NoShellLeft
<1>1. Contained => NoShellLeft
  BY DEF Contained
<1> QED
  BY AlwaysContained, <1>1, PTL

\* Whatever the descendants do between the first fork and the last, a call that
\* gives up has killed all that is in the group.
THEOREM AbortKillsGroupAlways == Spec => []AbortKillsGroup
<1>1. Contained => AbortKillsGroup
  BY DEF Contained
<1> QED
  BY AlwaysContained, <1>1, PTL

-----------------------------------------------------------------------------
(* execute_command implements its contract.                                *)

\* The steps of the supervised call are steps of ProbeContract or stutter.
THEOREM Implements == Spec => ImplementsContract
<1> DEFINE answer == IF pc = "returned" THEN status ELSE "pending"
<1>1. Init => Contract!Init
  BY DEF Init, Contract!Init
<1>2. Supervised /\ Supervised' /\ [Next]_vars => [Contract!Next]_Contract!vars
  <2> SUFFICES ASSUME Supervised, Supervised', [Next]_vars
               PROVE  [Contract!Next]_Contract!vars
    OBVIOUS
  <2> USE DEF Contract!vars
  <2>1. CASE UNCHANGED <<written, received, answer>>
    BY <2>1
  <2>2. ASSUME NEW p \in Procs, NEW s \in Streams, pc # "returned", Write(p, s)
        PROVE  Contract!Next
    BY <2>2 DEF Write, parent, Contract!Next, Contract!Produce
  <2>3. ASSUME NEW s \in Streams, ReadBytes(s)
        PROVE  Contract!Next \/ UNCHANGED <<written, received, answer>>
    <3> DEFINE bytes == IF buffered[s] < ReadSize THEN buffered[s] ELSE ReadSize
    <3>1. bytes \in Nat \ {0} /\ bytes <= buffered[s] /\ pc # "returned" /\ pc = s
      BY <2>3, CommandAssumption DEF ReadBytes, Supervised, TypeOK, Streams
    <3>2. CASE Exceeds(s, bytes)
      BY <2>3, <3>1, <3>2 DEF ReadBytes, probe
    <3>3. CASE ~Exceeds(s, bytes)
      <4>1. /\ received' = [received EXCEPT ![s] = @ + bytes]
            /\ UNCHANGED <<pc, status, written>>
        BY <2>3, <3>3 DEF ReadBytes, probe
      <4>2. received[s] + bytes <= Limit /\ received[s] + bytes <= written[s]
        <5>1. written[s] = buffered[s] + received[s]
          BY <3>1 DEF Supervised, Accounted, StatusFits, Streams
        <5> QED
          BY <3>1, <3>3, <5>1, CommandAssumption DEF Exceeds, Supervised, TypeOK
      <4>3. received[s] + bytes \in 1 .. Limit /\ received[s] + bytes > received[s]
        BY <3>1, <4>2, CommandAssumption DEF Supervised, TypeOK
      <4> QED
        BY <3>1, <4>1, <4>2, <4>3 DEF Contract!Next, Contract!Collect
    <3> QED
      BY <3>2, <3>3
  <2>4. ASSUME pc # "returned", pc' = "returned", UNCHANGED <<written, received>>
        PROVE  Contract!Next
    <3>1. status' \in Contract!Complete => received' = written'
      <4>1. received \in [Streams -> 0 .. Limit] /\ written \in [Streams -> 0 .. MaxWritten]
        BY DEF Supervised, TypeOK
      <4>2. status' \in Contract!Complete => \A s \in Streams : received[s] = written[s]
        BY <2>4 DEF Supervised, WholeOutput, Ok, Contract!Complete
      <4> QED
        BY <2>4, <4>1, <4>2
    <3>2. status' = "OutputLimit" => \E s \in Streams : written[s] > Limit
      BY <2>4 DEF Supervised, LimitIsExact
    <3>3. status' \in Contract!Complete \cup Contract!Errors
      BY DEF Supervised, TypeOK, Contract!Complete, Contract!Errors
    <3> QED
      BY <2>4, <3>1, <3>2, <3>3 DEF Contract!Next, Contract!Answer
  <2>5. CASE Supervise
    BY <2>1, <2>3, <2>4, <2>5 DEF Supervise, SpawnFails, Spawn, SetNonblocking, CheckDeadline,
      Poll, DrainEnds, ReadNothing, ReadFails, AfterDrain, WaitNoHang, Reap, Settle, ReapBlocking,
      Finish, Abandon, KillGroup, DestroyReap, kernel, probe, Streams
  <2>6. CASE Environment
    BY <2>1, <2>2, <2>6 DEF Environment, CloseStream, Fork, Setsid, Die, Exit, Terminated, Expire,
      Recycle, parent, probe
  <2> QED
    BY <2>1, <2>5, <2>6 DEF Next, Returned, vars, parent, probe
<1> QED
  BY <1>1, <1>2, AlwaysSupervised, PTL DEF Spec, ImplementsContract, Contract!Spec
=============================================================================
