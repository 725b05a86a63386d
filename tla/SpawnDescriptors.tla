-------------------------- MODULE SpawnDescriptors --------------------------
(***************************************************************************)
(* The descriptors of a probe: the two pipes of execute_command, the       *)
(* remapping of ends that fall on a standard stream, the file actions of   *)
(* posix_spawn and the closes of ~Pipe, one system call at a time, in      *)
(* several threads of a host that may have closed its own standard         *)
(* streams, opens files meanwhile, and may run out of descriptors.         *)
(*                                                                         *)
(* Command assumes what is shown here: the write ends of a probe's pipes   *)
(* are held by the probe's own processes only.  A shell keeps its table    *)
(* from the exec on, also when its thread has returned: whether it still   *)
(* runs does not matter here.                                              *)
(***************************************************************************)
EXTENDS Integers, Sequences, FiniteSets, FiniteSetsExt

CONSTANTS
    Threads,      \* threads inside execute_command
    FdLimit,      \* RLIMIT_NOFILE of the host (bound)
    HostSets,     \* the descriptors the host may have open at first
    HostFiles     \* bound: files the host opens meanwhile

ASSUME SpawnAssumption ==
    /\ FdLimit \in Nat
    /\ HostSets \subseteq SUBSET (0 .. FdLimit - 1)
    /\ HostFiles \in Nat
    /\ "host" \notin Threads

Fds == 0 .. FdLimit - 1
NoFd == -1
Ends == {"out.r", "out.w", "err.r", "err.w"}

VARIABLES
    table,    \* the host's descriptor table: open descriptor -> [file, cloexec]
    pc,       \* per thread: what it does next
    ends,     \* per thread: the members descriptors_ of output and error
    stale,    \* per thread: the low descriptor the remapping still has to close
    todo,     \* per thread: ends that are yet to be closed
    child,    \* per thread: the shell's descriptor table once it has started
    opened    \* files the host has opened

vars == <<table, pc, ends, stale, todo, child, opened>>

Entry(file, cloexec) == [file |-> file, cloexec |-> cloexec]
HostFile == <<"host", "file">>
NullFile == <<"host", "null">>
EndFile(t, e) == <<t, e>>

Closed(tab, fds) == [fd \in DOMAIN tab \ fds |-> tab[fd]]
Opened(tab, fd, entry) == [d \in DOMAIN tab \cup {fd} |-> IF d = fd THEN entry ELSE tab[d]]

\* The kernel hands out the lowest free descriptors.
Free(from) == {fd \in Fds : fd >= from} \ DOMAIN table
Lowest(S) == Min(S)

Init ==
    /\ \E open \in HostSets : table = [fd \in open |-> Entry(HostFile, FALSE)]
    /\ pc = [t \in Threads |-> "output"]
    /\ ends = [t \in Threads |-> [e \in Ends |-> NoFd]]
    /\ stale = [t \in Threads |-> NoFd]
    /\ todo = [t \in Threads |-> <<>>]
    /\ child = [t \in Threads |-> <<>>]
    /\ opened = 0

Goto(t, next) == pc' = [pc EXCEPT ![t] = next]

\* pipe2(O_CLOEXEC) in Pipe::Pipe.
Pipe2(t, r, w, remap, next) ==
    /\ IF Cardinality(Free(0)) < 2
       THEN UNCHANGED <<table, ends>> /\ Goto(t, next)
       ELSE LET a == Lowest(Free(0))
                b == Lowest(Free(0) \ {a})
            IN  /\ table' = Opened(Opened(table, a, Entry(EndFile(t, r), TRUE)), b, Entry(EndFile(t, w), TRUE))
                /\ ends' = [ends EXCEPT ![t] = [@ EXCEPT ![r] = a, ![w] = b]]
                /\ Goto(t, remap)
    /\ UNCHANGED <<stale, todo, child, opened>>

CreateOutput(t) == pc[t] = "output" /\ Pipe2(t, "out.r", "out.w", "remap out.r", "error")
CreateError(t) == pc[t] = "error" /\ Pipe2(t, "err.r", "err.w", "remap err.r", "configure")

Remapping(e) ==
    CASE e = "out.r" -> "remap out.r"
      [] e = "out.w" -> "remap out.w"
      [] e = "err.r" -> "remap err.r"
      [] e = "err.w" -> "remap err.w"
Dropping(e) ==
    CASE e = "out.r" -> "drop out.r"
      [] e = "out.w" -> "drop out.w"
      [] e = "err.r" -> "drop err.r"
      [] e = "err.w" -> "drop err.w"
AfterRemap(e) ==
    CASE e = "out.r" -> "remap out.w"
      [] e = "out.w" -> "error"
      [] e = "err.r" -> "remap err.w"
      [] e = "err.w" -> "configure"

\* Mutant of Low: no end is moved.
LowNever(fd) == FALSE

Low(fd) == fd < 3

\* Mutant of Replacement: F_DUPFD, so that the duplicate is inherited.
ReplacementInherited(entry) == Entry(entry.file, FALSE)

Replacement(entry) == Entry(entry.file, TRUE)

\* fcntl(descriptor, F_DUPFD_CLOEXEC, 3): the duplicate, or -1 when there is no room.
Remap(t, e) ==
    /\ pc[t] = Remapping(e)
    /\ LET fd == ends[t][e]
       IN  IF ~Low(fd)
           THEN Goto(t, AfterRemap(e)) /\ UNCHANGED <<table, ends, stale>>
           ELSE /\ stale' = [stale EXCEPT ![t] = fd]
                /\ Goto(t, Dropping(e))
                /\ IF Free(3) = {}
                   THEN ends' = [ends EXCEPT ![t][e] = NoFd] /\ UNCHANGED table
                   ELSE /\ ends' = [ends EXCEPT ![t][e] = Lowest(Free(3))]
                        /\ table' = Opened(table, Lowest(Free(3)), Replacement(table[fd]))
    /\ UNCHANGED <<todo, child, opened>>

\* close(descriptor) after the duplication, also after one that failed.
DropLow(t, e) ==
    /\ pc[t] = Dropping(e)
    /\ table' = Closed(table, {stale[t]})
    /\ stale' = [stale EXCEPT ![t] = NoFd]
    /\ Goto(t, AfterRemap(e))
    /\ UNCHANGED <<ends, todo, child, opened>>

\* Mutant of Destruction: the destructor relies on the writers being closed.
DestructionOfReaders == <<"err.r", "out.r">>

\* ~Pipe of error, then of output.
Destruction == <<"err.r", "err.w", "out.r", "out.w">>

\* The shell, in the order of the file actions: open /dev/null, then redirect twice.
Redirect(tab, mine, r, w, destination) ==
    Closed(Opened(tab, destination, Entry(tab[mine[w]].file, FALSE)), {mine[r], mine[w]})

FileActions(mine) ==
    LET null == Opened(table, 0, Entry(NullFile, FALSE))
    IN  Redirect(Redirect(null, mine, "out.r", "out.w", 1), mine, "err.r", "err.w", 2)

\* exec closes what is marked so.
Exec(tab) == Closed(tab, {fd \in DOMAIN tab : tab[fd].cloexec})

Writers == <<"out.w", "err.w">>

\* valid() of both pipes, then posix_spawn.
Spawn(t) ==
    /\ pc[t] = "configure"
    /\ \A e \in Ends : ends[t][e] # NoFd
    /\ child' = [child EXCEPT ![t] = Exec(FileActions(ends[t]))]
    /\ todo' = [todo EXCEPT ![t] = Writers]
    /\ Goto(t, "writers")
    /\ UNCHANGED <<table, ends, stale, opened>>

\* A pipe is not valid, or configure or posix_spawn fails: return.
SpawnFails(t) ==
    /\ pc[t] = "configure"
    /\ todo' = [todo EXCEPT ![t] = Destruction]
    /\ Goto(t, "destroy")
    /\ UNCHANGED <<table, ends, stale, child, opened>>

\* Mutant of Forget: close_descriptor leaves the number in place.
ForgetNot(fd) == fd

Forget(fd) == NoFd

\* close_descriptor of the next end, if it is open.
CloseEnd(t) ==
    /\ pc[t] \in {"writers", "destroy"}
    /\ todo[t] # <<>>
    /\ LET e == Head(todo[t])
       IN  /\ table' = Closed(table, {ends[t][e]})
           /\ ends' = [ends EXCEPT ![t][e] = Forget(@)]
    /\ todo' = [todo EXCEPT ![t] = Tail(@)]
    /\ UNCHANGED <<pc, stale, child, opened>>

WritersClosed(t) ==
    /\ pc[t] = "writers"
    /\ todo[t] = <<>>
    /\ Goto(t, "reading")
    /\ UNCHANGED <<table, ends, stale, todo, child, opened>>

\* drain meets the end of file of one pipe.
EndOfFile(t, e) ==
    /\ pc[t] = "reading"
    /\ ends[t][e] # NoFd
    /\ table' = Closed(table, {ends[t][e]})
    /\ ends' = [ends EXCEPT ![t][e] = Forget(@)]
    /\ UNCHANGED <<pc, stale, todo, child, opened>>

\* The call returns, with or without having seen the ends of file.
Return(t) ==
    /\ pc[t] = "reading"
    /\ todo' = [todo EXCEPT ![t] = Destruction]
    /\ Goto(t, "destroy")
    /\ UNCHANGED <<table, ends, stale, child, opened>>

Destroyed(t) ==
    /\ pc[t] = "destroy"
    /\ todo[t] = <<>>
    /\ Goto(t, "done")
    /\ UNCHANGED <<table, ends, stale, todo, child, opened>>

\* Another thread of the host opens a file.
HostOpens ==
    /\ opened < HostFiles
    /\ Free(0) # {}
    /\ opened' = opened + 1
    /\ table' = Opened(table, Lowest(Free(0)), Entry(HostFile, TRUE))
    /\ UNCHANGED <<pc, ends, stale, todo, child>>

Call(t) ==
    \/ CreateOutput(t) \/ CreateError(t) \/ Spawn(t) \/ SpawnFails(t)
    \/ \E e \in Ends : Remap(t, e) \/ DropLow(t, e)
    \/ CloseEnd(t) \/ WritersClosed(t) \/ Return(t) \/ Destroyed(t)
    \/ \E e \in {"out.r", "err.r"} : EndOfFile(t, e)

AllDone ==
    /\ \A t \in Threads : pc[t] = "done"
    /\ UNCHANGED vars

Next == (\E t \in Threads : Call(t)) \/ HostOpens \/ AllDone

Spec == Init /\ [][Next]_vars
-----------------------------------------------------------------------------
Started(t) == child[t] # <<>>

\* A probe reads /dev/null and writes to its own two pipes, whichever standard
\* streams the host had closed and whatever other threads open meanwhile.
ChildStreams ==
    \A t \in Threads : Started(t) =>
        /\ {0, 1, 2} \subseteq DOMAIN child[t]
        /\ child[t][0].file = NullFile
        /\ child[t][1].file = EndFile(t, "out.w")
        /\ child[t][2].file = EndFile(t, "err.w")

WriteEnds(t) == {EndFile(t, "out.w"), EndFile(t, "err.w")}

\* While a call reads, nobody but its probe holds a write end of its pipes, neither the
\* host nor a shell that another thread started since the ends were made: the end of file
\* arrives when the processes of the probe are gone.
OnlyProbeWrites ==
    \A t \in Threads : pc[t] = "reading" =>
        /\ \A fd \in DOMAIN table : table[fd].file \notin WriteEnds(t)
        /\ \A u \in Threads \ {t} : \A fd \in DOMAIN child[u] : child[u][fd].file \notin WriteEnds(t)

\* A thread works with its own pipe ends only: the number it remembers for an end
\* refers to that end, however often numbers are closed and given out again, so no
\* call closes a file of the host or of another thread.
Owned ==
    \A t \in Threads : \A e \in Ends :
        ends[t][e] # NoFd =>
            /\ ends[t][e] \in DOMAIN table
            /\ table[ends[t][e]].file = EndFile(t, e)

\* A call that has returned, for whichever reason, leaves no pipe end open.
NoDescriptorLeft ==
    \A t \in Threads : pc[t] = "done" => \A fd \in DOMAIN table : table[fd].file[1] # t
=============================================================================
