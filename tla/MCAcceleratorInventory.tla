----------------------- MODULE MCAcceleratorInventory -----------------------
(***************************************************************************)
(* Small instances of AcceleratorInventory for TLC: two NVIDIA GPUs, the   *)
(* first partitioned into two instances, and an AMD GPU.                   *)
(***************************************************************************)
EXTENDS AcceleratorInventory, TLC

CONSTANTS g1, g2, a1, m1, m2

TwoGpus == <<g1, g2>>
TwoMigs == <<m1, m2>>
OneAmd == <<a1>>
Listed == <<g1, m1, m2, g2>>
Computed == <<m1, m2, g2>>
Parents == (m1 :> g1) @@ (m2 :> g1)
Instances == (m1 :> 1) @@ (m2 :> 2)

Missing(rows, fields) == [rows |-> rows, fields |-> fields]

AnyRow == Elements(Evidence)
AnyField == {"nvml", "smi"} \X {"uuid", "pci", "mig uuid", "instance"}
Uuids == {"nvml", "smi"} \X {"uuid"}

\* Any row and any field; any row and the UUIDs of GPUs; any but what NVML says of
\* the partitioned GPU.
AnyGaps == {
    Missing(AnyRow, AnyField),
    Missing(AnyRow, Uuids),
    Missing(AnyRow \ {[backend |-> "nvml", device |-> g1]}, AnyField \ ({"nvml"} \X {"uuid", "pci"}))}

NoUuids == {Missing(AnyRow, Uuids)}
=============================================================================
