------------------------- MODULE MCSpawnDescriptors -------------------------
(***************************************************************************)
(* Small instances of SpawnDescriptors for TLC: every subset of the        *)
(* standard streams may be closed in the host.                             *)
(***************************************************************************)
EXTENDS SpawnDescriptors, TLC

CONSTANTS t1, t2

TwoThreads == {t1, t2}
AnyStreams == SUBSET (0 .. 2)
ThreadSymmetry == Permutations(TwoThreads)
=============================================================================
