------------------------------ MODULE Command ------------------------------
(***************************************************************************)
(* One call of execute_command (src/reader/linux/command.cpp): the reader  *)
(* starts `sh -c <probe>` in a process group of its own, with stdout and   *)
(* stderr connected to two pipes, and supervises it until both pipes are   *)
(* at end of file and the shell is reaped, or until it gives up because of *)
(* the deadline, the output limit or an I/O error.                         *)
(*                                                                         *)
(* The supervising thread, the shell, the processes the shell starts and   *)
(* the kernel interleave freely.  Bytes are only counted: a pipe is FIFO,  *)
(* so how many bytes went in and came out tells which ones.                *)
(***************************************************************************)
EXTENDS Naturals, FiniteSets

CONSTANTS
    Shell,        \* the process posix_spawn creates, the only child waited for
    Descendants,  \* processes the shell may start (the bound on fork)
    Limit,        \* CommandOptions.output_limit, per stream
    Capacity,     \* bytes the kernel buffers in one pipe
    ReadSize,     \* size of the buffer of drain
    MaxReads,     \* reads of one drain before the deadline is looked at again
    HostReaps,    \* whether the host application may ignore SIGCHLD
    MaxWritten    \* bound: bytes the probe writes to one stream

ASSUME CommandAssumption ==
    /\ Shell \notin Descendants
    /\ Limit \in Nat
    /\ Capacity \in Nat \ {0}
    /\ ReadSize \in Nat \ {0}
    /\ MaxReads \in Nat \ {0}
    /\ HostReaps \subseteq BOOLEAN
    /\ MaxWritten \in Nat

Procs == {Shell} \cup Descendants
Streams == {"out", "err"}

VARIABLES
    pc,        \* where the supervising thread is in execute_command
    status,    \* result.status
    exit,      \* result.exit_code / result.signal
    reading,   \* the streams whose read end is still open
    received,  \* sizes of result.output and result.error
    reads,     \* reads done by the current drain
    reaped,    \* ChildProcess::reaped_
    waited,    \* ChildProcess::status_
    expired,   \* the deadline has passed
    autoReap,  \* the host application ignores SIGCHLD
    pstate,    \* life cycle of every process
    holds,     \* the streams whose write end a process holds
    group,     \* members of the process group numbered pid_
    killed,    \* processes with a pending SIGKILL
    stranger,  \* a group of another program got the number pid_
    ending,    \* how the shell ended
    buffered,  \* bytes in each pipe
    written    \* bytes ever written to each pipe

parent == <<pc, status, exit, reading, received, reads, reaped, waited>>
probe  == <<pstate, holds, group, ending, written>>
vars   == <<parent, expired, autoReap, probe, killed, stranger, buffered>>

Endings == {"zero", "nonzero", "signal"}

TypeOK ==
    /\ pc \in {"start", "setup", "check", "poll", "out", "err", "wait", "settle",
               "reap", "finish", "abandon", "destroy", "returned"}
    /\ status \in {"SpawnError", "Success", "Failed", "TimedOut", "OutputLimit", "ReadError"}
    /\ exit \in Endings \cup {"none"}
    /\ reading \subseteq Streams
    /\ received \in [Streams -> 0 .. Limit]
    /\ reads \in 0 .. MaxReads
    /\ reaped \in BOOLEAN
    /\ waited \in Endings \cup {"none"}
    /\ expired \in BOOLEAN
    /\ autoReap \in BOOLEAN
    /\ pstate \in [Procs -> {"unborn", "running", "zombie", "gone"}]
    /\ holds \in [Procs -> SUBSET Streams]
    /\ group \subseteq Procs
    /\ killed \subseteq Procs
    /\ stranger \in {"none", "present", "struck"}
    /\ ending \in Endings \cup {"none"}
    /\ buffered \in [Streams -> 0 .. Capacity]
    /\ written \in [Streams -> 0 .. MaxWritten]

Init ==
    /\ pc = "start"
    /\ status = "SpawnError"
    /\ exit = "none"
    /\ reading = {}
    /\ received = [s \in Streams |-> 0]
    /\ reads = 0
    /\ reaped = FALSE
    /\ waited = "none"
    /\ expired = FALSE
    /\ autoReap \in HostReaps
    /\ pstate = [p \in Procs |-> "unborn"]
    /\ holds = [p \in Procs |-> {}]
    /\ group = {}
    /\ killed = {}
    /\ stranger = "none"
    /\ ending = "none"
    /\ buffered = [s \in Streams |-> 0]
    /\ written = [s \in Streams |-> 0]

Running(p) == pstate[p] = "running"

\* Some process can still write to s: a read of the empty pipe is no end of file.
HasWriter(s) == \E p \in Procs : s \in holds[p]

-----------------------------------------------------------------------------
(* The probe: the shell and what it starts.  Nothing forces any of this to *)
(* happen, except that a process with a pending SIGKILL dies.              *)

Write(p, s) ==
    /\ Running(p)
    /\ s \in holds[p] \cap reading
    /\ buffered[s] < Capacity
    /\ written[s] < MaxWritten
    /\ buffered' = [buffered EXCEPT ![s] = @ + 1]
    /\ written' = [written EXCEPT ![s] = @ + 1]
    /\ UNCHANGED <<parent, expired, autoReap, pstate, holds, group, ending, killed, stranger>>

CloseStream(p, s) ==
    /\ Running(p)
    /\ s \in holds[p]
    /\ holds' = [holds EXCEPT ![p] = @ \ {s}]
    /\ UNCHANGED <<parent, expired, autoReap, pstate, group, ending, written, killed, stranger, buffered>>

\* fork copies the descriptors and the group; it fails in a process being killed.
Fork(p, c) ==
    /\ Running(p)
    /\ p \notin killed
    /\ c \in Descendants
    /\ pstate[c] = "unborn"
    /\ pstate' = [pstate EXCEPT ![c] = "running"]
    /\ holds' = [holds EXCEPT ![c] = holds[p]]
    /\ group' = IF p \in group THEN group \cup {c} ELSE group
    /\ UNCHANGED <<parent, expired, autoReap, ending, written, killed, stranger, buffered>>

\* A daemonising descendant leaves the group; its leader, the shell, cannot.
Setsid(p) ==
    /\ p \in Descendants \cap group
    /\ Running(p)
    /\ p \notin killed
    /\ group' = group \ {p}
    /\ UNCHANGED <<parent, expired, autoReap, pstate, holds, ending, written, killed, stranger, buffered>>

\* The kernel closes the descriptors; only the shell waits for its parent.
Terminated(p, how) ==
    /\ holds' = [holds EXCEPT ![p] = {}]
    /\ IF p = Shell
       THEN /\ pstate' = [pstate EXCEPT ![p] = IF autoReap THEN "gone" ELSE "zombie"]
            /\ ending' = how
            /\ group' = IF autoReap THEN group \ {p} ELSE group
       ELSE /\ pstate' = [pstate EXCEPT ![p] = "gone"]
            /\ group' = group \ {p}
            /\ UNCHANGED ending
    /\ UNCHANGED <<parent, expired, autoReap, written, killed, stranger, buffered>>

Exit(p, how) == Running(p) /\ Terminated(p, how)

Die(p) == Running(p) /\ p \in killed /\ Terminated(p, "signal")

Expire ==
    /\ ~expired
    /\ pc \notin {"start", "setup", "returned"}
    /\ expired' = TRUE
    /\ UNCHANGED <<parent, autoReap, probe, killed, stranger, buffered>>

\* The kernel hands out a number again once no process and no group has it.
Recycle ==
    /\ pstate[Shell] = "gone"
    /\ group = {}
    /\ stranger = "none"
    /\ stranger' = "present"
    /\ UNCHANGED <<parent, expired, autoReap, probe, killed, buffered>>

-----------------------------------------------------------------------------
(* The supervising thread.                                                 *)

kernel == <<expired, autoReap, probe, killed, stranger, buffered>>

\* A pipe, the spawn attributes or posix_spawn itself fails.
SpawnFails ==
    /\ pc = "start"
    /\ pc' = "returned"
    /\ UNCHANGED <<status, exit, reading, received, reads, reaped, waited, kernel>>

\* The shell leads its own group; the parent drops its copies of the write ends.
Spawn ==
    /\ pc = "start"
    /\ pc' = "setup"
    /\ reading' = Streams
    /\ pstate' = [pstate EXCEPT ![Shell] = "running"]
    /\ holds' = [holds EXCEPT ![Shell] = Streams]
    /\ group' = {Shell}
    /\ UNCHANGED <<status, exit, received, reads, reaped, waited, expired, autoReap,
                   ending, written, killed, stranger, buffered>>

SetNonblocking ==
    /\ pc = "setup"
    /\ \/ pc' = "check" /\ status' = "Success"
       \/ pc' = "abandon" /\ status' = "ReadError"
    /\ UNCHANGED <<exit, reading, received, reads, reaped, waited, kernel>>

\* Mutant of Done: the shell's exit ends the loop, whoever holds the pipes.
DoneWithShell == reaped

\* The loop condition is false.
Done == reading = {} /\ reaped

OutOfTime == expired

\* The loop condition and the deadline check at the top of its body.
CheckDeadline ==
    /\ pc = "check"
    /\ IF Done
       THEN pc' = "settle" /\ UNCHANGED status
       ELSE IF OutOfTime
       THEN pc' = "settle" /\ status' = "TimedOut"
       ELSE pc' = "poll" /\ UNCHANGED status
    /\ UNCHANGED <<exit, reading, received, reads, reaped, waited, kernel>>

\* poll always returns: it is given at most 50 ms, and EINTR is no error.
Poll ==
    /\ pc = "poll"
    /\ \/ pc' = "out" /\ UNCHANGED status
       \/ pc' = "settle" /\ status' = "ReadError"
    /\ reads' = 0
    /\ UNCHANGED <<exit, reading, received, reaped, waited, kernel>>

\* What follows the drain of s when it returns true.
AfterDrain(s) ==
    /\ pc' = IF s = "out" THEN "err" ELSE "wait"
    /\ reads' = 0

\* drain is not entered for a closed stream, and stops after MaxReads reads.
DrainEnds(s) ==
    /\ pc = s
    /\ s \notin reading \/ reads = MaxReads
    /\ AfterDrain(s)
    /\ UNCHANGED <<status, exit, reading, received, reaped, waited, kernel>>

\* Mutants of Exceeds: the limit taken per read, and one byte too early.
ExceedsAlone(s, bytes) == bytes > Limit
ExceedsEarly(s, bytes) == bytes >= Limit - received[s]

Exceeds(s, bytes) == bytes > Limit - received[s]

ReadBytes(s) ==
    /\ pc = s
    /\ s \in reading
    /\ reads < MaxReads
    /\ buffered[s] > 0
    /\ LET bytes == IF buffered[s] < ReadSize THEN buffered[s] ELSE ReadSize
       IN  /\ buffered' = [buffered EXCEPT ![s] = @ - bytes]
           /\ IF Exceeds(s, bytes)
              THEN /\ status' = "OutputLimit"
                   /\ pc' = "settle"
                   /\ UNCHANGED <<received, reads>>
              ELSE /\ received' = [received EXCEPT ![s] = @ + bytes]
                   /\ reads' = reads + 1
                   /\ UNCHANGED <<pc, status>>
    /\ UNCHANGED <<exit, reading, reaped, waited, expired, autoReap, probe, killed, stranger>>

\* Mutant of EndOfFile: EAGAIN taken for the end.
EndOfFileWhenEmpty(s) == buffered[s] = 0

EndOfFile(s) == buffered[s] = 0 /\ ~HasWriter(s)

\* End of file closes the read end; an empty pipe with a writer is EAGAIN.
ReadNothing(s) ==
    /\ pc = s
    /\ s \in reading
    /\ reads < MaxReads
    /\ buffered[s] = 0
    /\ reading' = IF EndOfFile(s) THEN reading \ {s} ELSE reading
    /\ AfterDrain(s)
    /\ UNCHANGED <<status, exit, received, reaped, waited, kernel>>

\* EINTR costs one of the reads; any other error abandons the probe.
ReadFails(s) ==
    /\ pc = s
    /\ s \in reading
    /\ reads < MaxReads
    /\ \/ reads' = reads + 1 /\ UNCHANGED <<pc, status>>
       \/ pc' = "settle" /\ status' = "ReadError" /\ UNCHANGED reads
    /\ UNCHANGED <<exit, reading, received, reaped, waited, kernel>>

\* waitpid answered: the shell's status, or ECHILD when the kernel reaped it.
Reap ==
    /\ ~Running(Shell)
    /\ reaped' = TRUE
    /\ IF pstate[Shell] = "zombie"
       THEN /\ waited' = ending
            /\ pstate' = [pstate EXCEPT ![Shell] = "gone"]
            /\ group' = group \ {Shell}
       ELSE UNCHANGED <<waited, pstate, group>>
    /\ UNCHANGED <<exit, received, reads, expired, autoReap, holds, ending, written,
                   killed, stranger, buffered>>

\* Mutant of WaitNoHang: a child that has not changed state counts as reaped.
WaitNoHangReaps ==
    /\ pc = "wait"
    /\ pc' = "check"
    /\ reaped' = TRUE
    /\ UNCHANGED <<status, exit, reading, received, reads, waited, kernel>>

\* child.poll(): waitpid with WNOHANG, skipped once the shell is reaped.
WaitNoHang ==
    /\ pc = "wait"
    /\ pc' = "check"
    /\ \/ ~reaped /\ Reap
       \/ /\ reaped \/ Running(Shell)
          /\ UNCHANGED <<exit, received, reads, reaped, waited, kernel>>
    /\ UNCHANGED <<status, reading>>

\* Mutant of Targets: kill(pid_, SIGKILL).
TargetShell == {p \in {Shell} : Running(p)}

Targets == {p \in group : Running(p)}

\* kill(-pid_, SIGKILL) reaches whatever is in the group of that number now.
KillGroup ==
    /\ killed' = killed \cup Targets
    /\ stranger' = IF stranger = "present" THEN "struck" ELSE stranger
    /\ UNCHANGED <<status, exit, reading, received, reads, reaped, waited, expired,
                   autoReap, probe, buffered>>

\* child.terminate() unless the loop ended with Success.
Settle ==
    /\ pc = "settle"
    /\ IF status = "Success"
       THEN /\ pc' = "finish"
            /\ UNCHANGED <<status, exit, reading, received, reads, reaped, waited, kernel>>
       ELSE /\ pc' = IF reaped THEN "finish" ELSE "reap"
            /\ KillGroup

\* The blocking waitpid of terminate().
ReapBlocking ==
    /\ pc = "reap"
    /\ pc' = "finish"
    /\ Reap
    /\ UNCHANGED <<status, reading>>

\* Translate the wait status; the destructors close what is still open.
Finish ==
    /\ pc = "finish"
    /\ pc' = "returned"
    /\ exit' = waited
    /\ status' = IF status # "Success" THEN status
                 ELSE IF waited = "none" THEN "ReadError"
                 ELSE IF waited = "zero" THEN "Success" ELSE "Failed"
    /\ reading' = {}
    /\ UNCHANGED <<received, reads, reaped, waited, kernel>>

\* The early return after a failed fcntl: ~ChildProcess terminates the probe.
Abandon ==
    /\ pc = "abandon"
    /\ pc' = "destroy"
    /\ KillGroup

DestroyReap ==
    /\ pc = "destroy"
    /\ pc' = "returned"
    /\ reading' = {}
    /\ Reap
    /\ UNCHANGED status

\* The caller has its result; what is left of the probe is no longer observed.
Returned ==
    /\ pc = "returned"
    /\ UNCHANGED vars

Supervise ==
    \/ SpawnFails \/ Spawn \/ SetNonblocking \/ CheckDeadline \/ Poll
    \/ \E s \in Streams : DrainEnds(s) \/ ReadBytes(s) \/ ReadNothing(s) \/ ReadFails(s)
    \/ WaitNoHang \/ Settle \/ ReapBlocking \/ Finish \/ Abandon \/ DestroyReap

Environment ==
    /\ pc # "returned"
    /\ \/ \E p \in Procs, s \in Streams : Write(p, s) \/ CloseStream(p, s)
       \/ \E p \in Procs, c \in Descendants : Fork(p, c)
       \/ \E p \in Procs : Setsid(p) \/ Die(p)
       \/ \E p \in Procs, how \in Endings : Exit(p, how)
       \/ Expire \/ Recycle

Next == Supervise \/ Environment \/ Returned

Spec == Init /\ [][Next]_vars

\* The thread is scheduled, time passes, and SIGKILL is delivered; the probe is
\* under no obligation at all.
Fairness ==
    /\ WF_vars(Supervise)
    /\ WF_vars(Expire)
    /\ \A p \in Procs : WF_vars(pc # "returned" /\ Die(p))

FairSpec == Spec /\ Fairness

-----------------------------------------------------------------------------
(* What a caller of execute_command relies on.                             *)

Ok(result) == result \in {"Success", "Failed"}

\* An answer that is not an error carries every byte the probe ever wrote: both
\* streams were read to the end of file and nobody can still write to them, and
\* only a shell that was seen to exit with 0 is a Success.
WholeOutput ==
    pc = "returned" /\ Ok(status) =>
        /\ \A s \in Streams : received[s] = written[s] /\ ~HasWriter(s)
        /\ status = "Success" <=> exit = "zero"
        /\ exit # "none"

\* However the call ends, ~ChildProcess and terminate() leave no shell behind,
\* neither running nor as a zombie of the host application.
NoShellLeft ==
    pc = "returned" => pstate[Shell] \in {"unborn", "gone"}

\* A probe that was given up is not left running: the group kill of terminate()
\* reached every process still in the shell's group, also when the shell itself
\* had been reaped before.  (The one error without a kill, a shell whose status
\* the kernel discarded, is found out when nobody holds a pipe any more.)
AbortKillsGroup ==
    pc = "returned" /\ ~Ok(status) =>
        \A p \in group : Running(p) =>
            p \in killed \/ (status = "ReadError" /\ holds[p] = {})

\* drain reports OutputLimit only for a stream that really exceeds the limit,
\* and a stream of exactly the limit is delivered.
LimitIsExact ==
    /\ status = "OutputLimit" => \E s \in Streams : written[s] > Limit
    /\ pc = "returned" /\ Ok(status) => \A s \in Streams : written[s] <= Limit

\* command.cpp:140 says what the kill of terminate() is for: the probe's process
\* group.  It never hits a group of another program that got the same number.
KillsOnlyProbe == stranger # "struck"
-----------------------------------------------------------------------------
(* Why WholeOutput and AbortKillsGroup hold: what is true at every step.   *)

\* Nothing is lost between the pipe and the result except by OutputLimit, which
\* drops what it has just read.
Accounted ==
    \A s \in Streams : status # "OutputLimit" => written[s] = buffered[s] + received[s]

\* While the call runs, a closed read end means the end of file was read.
ClosedAtEnd ==
    pc # "returned" \/ Ok(status) =>
        \A s \in Streams \ reading : buffered[s] = 0 /\ ~HasWriter(s)

\* The status where the thread is.
StatusFits ==
    /\ pc \in {"start", "setup"} => status = "SpawnError"
    /\ pc \in {"check", "poll", "out", "err", "wait"} => status = "Success"
    /\ pc \in {"abandon", "destroy"} => status = "ReadError"
    /\ pc \in {"settle", "finish"} => status # "SpawnError"
    /\ pc \in {"settle", "finish"} /\ status = "Success" => Done
    /\ pc = "reap" => status \in {"TimedOut", "OutputLimit", "ReadError"}
    /\ status = "Failed" => pc = "returned"

\* Supervision is sound at every step, not only when the call returns: an answer
\* given now would be right.
Supervised ==
    /\ TypeOK
    /\ Accounted
    /\ ClosedAtEnd
    /\ StatusFits
    /\ WholeOutput
    /\ LimitIsExact

\* Every running process of the group has its SIGKILL.
GroupKilled == \A p \in group : Running(p) => p \in killed

\* The shell is known to be gone where reaped_ says so, and the group has been
\* killed, and stays killed, from terminate() on.
Contained ==
    /\ Supervised
    /\ pc = "start" => group = {} /\ pstate[Shell] = "unborn"
    /\ pc \notin {"start", "returned"} => pstate[Shell] # "unborn"
    /\ \A p \in group : pstate[p] # "unborn"
    /\ reaped \/ pc = "finish" => pstate[Shell] = "gone"
    /\ pc \in {"reap", "destroy"} => GroupKilled
    /\ pc = "finish" /\ status # "Success" => GroupKilled
    /\ NoShellLeft
    /\ AbortKillsGroup
=============================================================================
