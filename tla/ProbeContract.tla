--------------------------- MODULE ProbeContract ---------------------------
(***************************************************************************)
(* What execute_command promises its callers in reader/linux, with no pipe,*)
(* process or signal in it: the probe produces output, the call collects a *)
(* part of it within the limit, and the one answer it gives says how much  *)
(* of the output the caller got.                                           *)
(***************************************************************************)
EXTENDS Naturals

CONSTANTS
    Streams,    \* stdout and stderr
    Limit       \* CommandOptions.output_limit

VARIABLES
    produced,   \* bytes the probe wrote to each stream
    collected,  \* bytes of each stream that are in the result
    answer      \* "pending" or the status of the result

vars == <<produced, collected, answer>>

Complete == {"Success", "Failed"}
Errors   == {"SpawnError", "TimedOut", "OutputLimit", "ReadError"}

Init ==
    /\ produced = [s \in Streams |-> 0]
    /\ collected = [s \in Streams |-> 0]
    /\ answer = "pending"

Produce(s) ==
    /\ answer = "pending"
    /\ produced' = [produced EXCEPT ![s] = @ + 1]
    /\ UNCHANGED <<collected, answer>>

Collect(s) ==
    /\ answer = "pending"
    /\ \E n \in 1 .. Limit :
         /\ n > collected[s]
         /\ n <= produced[s]
         /\ collected' = [collected EXCEPT ![s] = n]
    /\ UNCHANGED <<produced, answer>>

\* A complete answer is final and lacks nothing; an overrun is reported only
\* when there is one.
Answer(a) ==
    /\ answer = "pending"
    /\ a \in Complete => collected = produced
    /\ a = "OutputLimit" => \E s \in Streams : produced[s] > Limit
    /\ answer' = a
    /\ UNCHANGED <<produced, collected>>

Next ==
    \/ \E s \in Streams : Produce(s) \/ Collect(s)
    \/ \E a \in Complete \cup Errors : Answer(a)

Spec == Init /\ [][Next]_vars

\* The caller gets its answer.
FairSpec == Spec /\ WF_vars(\E a \in Complete \cup Errors : Answer(a))
=============================================================================
