---------------------------- MODULE Enumeration ----------------------------
(***************************************************************************)
(* What inventory_entries may make of a directory whose entries come and   *)
(* go while it is listed, and what report() makes of that.                 *)
(***************************************************************************)
EXTENDS SequencesExt

\* A stream over a directory returns, in any order, what is there all the time and any
\* part of what is there at some time; an error keeps the entries read before it.
Listings(always, ever) ==
    {[names |-> names, error |-> FALSE] : names \in UNION {SetToSeqs(S) : S \in {T \in SUBSET ever : always \subseteq T}}}
      \cup {[names |-> names, error |-> TRUE] : names \in UNION {SetToSeqs(S) : S \in SUBSET ever}}

\* Mutant of StatusOf: an error in the middle is taken for the end.
StatusOfQuietly(found) == IF found.names = <<>> /\ found.error THEN "Failed" ELSE "Success"

\* InventoryEnumeration::status
StatusOf(found) ==
    IF ~found.error THEN "Success" ELSE IF found.names = <<>> THEN "Failed" ELSE "Partial"

\* InventoryReport::completeness of what is in the model, without and with an enumeration.
Observed(members) == IF members = {} THEN "Unknown" ELSE "Partial"
Completeness(status, names, members) ==
    IF status = "Success" /\ Range(names) = members THEN "Complete" ELSE Observed(members)
=============================================================================
