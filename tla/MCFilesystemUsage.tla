------------------------- MODULE MCFilesystemUsage -------------------------
(***************************************************************************)
(* Small instances of FilesystemUsage for TLC: a local filesystem, a       *)
(* remote one and automounts of both sorts, anywhere on a path of two      *)
(* components.                                                             *)
(***************************************************************************)
EXTENDS FilesystemUsage, TLC

CONSTANTS root, disk, remote, trigger, map, rootfs, data, export, direct, indirect

SomeMounts == {root, disk, remote, trigger, map}
Filesystem ==
    (root :> rootfs) @@ (disk :> data) @@ (remote :> export) @@ (trigger :> direct) @@ (map :> indirect)
Kind ==
    (rootfs :> "Local") @@ (data :> "Local") @@ (export :> "Network")
      @@ (direct :> "Direct") @@ (indirect :> "Indirect")
AnyPolicy == {"None", "Local", "AllMounted"}
=============================================================================
