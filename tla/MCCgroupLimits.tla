--------------------------- MODULE MCCgroupLimits ---------------------------
(***************************************************************************)
(* Small instances of CgroupLimits for TLC.                                *)
(***************************************************************************)
EXTENDS CgroupLimits

\* The process, the mount and the root of the cgroup namespace anywhere on the way.
AnyPlace ==
    {p \in [process : Levels, mount : Levels, namespace : Levels] : p.namespace <= p.process}

\* A new cgroup namespace in which the hierarchy of the host is still mounted.
MountedAbove == {p \in AnyPlace : p.mount < p.namespace}

AllKinds == {"cpu.max", "cpu.cfs_quota_us", "memory.max", "memory.limit_in_bytes"}
=============================================================================
