------------------------- MODULE CommandRefinement -------------------------
(***************************************************************************)
(* execute_command implements ProbeContract: the bytes still in a pipe,    *)
(* the processes and the steps of the loop are hidden, the answer appears  *)
(* when the call returns.                                                  *)
(***************************************************************************)
EXTENDS Command

Contract == INSTANCE ProbeContract WITH
    produced  <- written,
    collected <- received,
    answer    <- IF pc = "returned" THEN status ELSE "pending"

\* Every step of the supervision of execute_command is a step of the contract or
\* invisible to the caller: nothing is collected twice, lost without an error,
\* or changed after the answer.
ImplementsContract == Contract!Spec

\* Under the scheduling, time and signal delivery Fairness states, the caller of
\* execute_command gets the one answer of the contract.
ImplementsFairContract == Contract!FairSpec
=============================================================================
