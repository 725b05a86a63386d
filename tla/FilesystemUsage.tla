--------------------------- MODULE FilesystemUsage ---------------------------
(***************************************************************************)
(* read_filesystems: the mounts that mountinfo lists, grouped by           *)
(* filesystem; which of them the policy allows to query; and the walk of   *)
(* read_filesystem_statistics from "/" to a mount point, descriptor by     *)
(* descriptor, while others mount and unmount along that path.             *)
(*                                                                         *)
(* One path is modelled; a mount sits at a depth of it, on another mount,  *)
(* and may cover or be covered by others at the same depth.  A filesystem  *)
(* stands for its device number.                                           *)
(***************************************************************************)
EXTENDS Naturals, FiniteSets

CONSTANTS
    Mounts,        \* mounts there may be, the one at "/" among them
    Root,          \* the mount at "/"
    Depth,         \* bound: components of the path
    FsOf,          \* mount -> its filesystem
    KindOf,        \* filesystem -> "Local" or "Network"; autofs is "Indirect" or "Direct"
    Policies,      \* FilesystemQuery
    MaxChanges,    \* bound: changes along the path after mountinfo was read
    None           \* no mount, no filesystem

Filesystems == {FsOf[m] : m \in Mounts}

ASSUME FilesystemAssumption ==
    /\ Root \in Mounts /\ None \notin Mounts
    /\ Depth \in Nat /\ MaxChanges \in Nat
    /\ None \notin Filesystems
    /\ \A f \in Filesystems : KindOf[f] \in {"Local", "Network", "Indirect", "Direct"}
    /\ Policies \subseteq {"None", "Local", "AllMounted"}

VARIABLES
    tree,       \* per mount: the mount it is on and the depth of its mount point
    entries,    \* per depth: what a directory has there where nothing is mounted
    automounts, \* how mounting was triggered: by a lookup "inside" autofs, or "opened"
    changes,    \* changes along the path since mountinfo was read
    policy,     \* CollectOptions::filesystems
    listed,     \* /proc/self/mountinfo: mount -> depth of its path
    target,     \* the mount whose statistics are being read
    fd,         \* PathDescriptor: the mount and the depth it is at
    pc,         \* "mountinfo", "next", "check", "open", "stat"
    reports     \* RawSource::FilesystemUsage: filesystem -> its report

namespace == <<tree, entries, automounts, changes>>
vars == <<namespace, policy, listed, target, fd, pc, reports>>

Others == Mounts \ {Root}
Nowhere == [on |-> None, at |-> 0]
Attached(m) == m \in {Root} \cup {c \in Others : tree[c] # Nowhere}
DepthOf(m) == IF m = Root THEN 0 ELSE tree[m].at
On(m, d) == {c \in Others : tree[c].on = m /\ tree[c].at = d}

\* The topmost of the mounts stacked on depth d of mount m.
Top(m, d) ==
    LET top[x \in Mounts] == IF On(x, d) = {} THEN x ELSE top[CHOOSE c \in On(x, d) : TRUE]
    IN  top[m]

\* An indirect map mounts what is looked up inside it, a direct map is a trigger itself.
Direct(m) == KindOf[FsOf[m]] = "Direct"
Autofs(m) == Direct(m) \/ KindOf[FsOf[m]] = "Indirect"

\* The mounts the path leads through now, and whether it leads there.
Visible[d \in 0 .. Depth] == IF d = 0 THEN Root ELSE Top(Visible[d - 1], d)

Walkable(d) ==
    \A e \in 1 .. d : Visible[e] = Visible[e - 1] => entries[e] = "directory" /\ ~Direct(Visible[e - 1])

NoDescriptor == [mount |-> None, depth |-> 0]
Report(status, usage, m) == [status |-> status, usage |-> usage, of |-> m]

Init ==
    /\ tree = [m \in Others |-> Nowhere]
    /\ entries = [d \in 1 .. Depth |-> "directory"]
    /\ automounts = {} /\ changes = 0
    /\ policy \in Policies
    /\ listed = [m \in {} |-> 0]
    /\ target = None /\ fd = NoDescriptor /\ pc = "mountinfo"
    /\ reports = [f \in {} |-> Report("Success", None, None)]
-----------------------------------------------------------------------------
\* The rest of the host: up to the reading of mountinfo anything may be mounted.
Changes ==
    /\ pc = "mountinfo" \/ changes < MaxChanges
    /\ changes' = IF pc = "mountinfo" THEN 0 ELSE changes + 1
    /\ UNCHANGED <<automounts, policy, listed, target, fd, pc, reports>>

Mounted(m, on, d) == [tree EXCEPT ![m] = [on |-> on, at |-> d]]

Mount ==
    /\ \E m \in Others, d \in 1 .. Depth :
         /\ ~Attached(m) /\ Walkable(d)
         /\ tree' = Mounted(m, Visible[d], d)
    /\ UNCHANGED entries
    /\ Changes

Unmount ==
    /\ \E m \in Others :
         /\ Attached(m) /\ \A d \in 1 .. Depth : On(m, d) = {}
         /\ tree' = [tree EXCEPT ![m] = Nowhere]
    /\ UNCHANGED entries
    /\ Changes

Replace ==
    /\ \E d \in 1 .. Depth, entry \in {"directory", "symlink", "absent"} :
         /\ \A m \in Others : tree[m].at < d
         /\ entries' = [entries EXCEPT ![d] = entry]
    /\ UNCHANGED tree
    /\ Changes
-----------------------------------------------------------------------------
\* read_storage's record of /proc/self/mountinfo.
ReadMountInfo ==
    /\ pc = "mountinfo"
    /\ listed' = [m \in {m \in Mounts : Attached(m)} |-> DepthOf(m)]
    /\ pc' = "next"
    /\ UNCHANGED <<namespace, policy, target, fd, reports>>

Groups == {FsOf[m] : m \in DOMAIN listed}
Pending == Groups \ DOMAIN reports

\* The groups are queried in the order of their device numbers, whatever it is.
Turn == CHOOSE f \in Pending : TRUE

\* query: kinds without capacity, and what the policy leaves out.
Excluded(f) ==
    \/ KindOf[f] \in {"Indirect", "Direct"}
    \/ policy = "None"
    \/ policy = "Local" /\ KindOf[f] # "Local"

Reported(f, report) ==
    [g \in DOMAIN reports \cup {f} |-> IF g = f THEN report ELSE reports[g]]

SkipFilesystem ==
    /\ pc = "next"
    /\ Pending # {} /\ Excluded(Turn)
    /\ reports' = Reported(Turn, Report("NotCollected", None, None))
    /\ UNCHANGED <<namespace, policy, listed, target, fd, pc>>

\* The mount at "/" if it is one of the group, else the first that is listed.
Query ==
    /\ pc = "next"
    /\ Pending # {} /\ ~Excluded(Turn)
    /\ target' \in IF FsOf[Root] = Turn THEN {Root} ELSE {m \in DOMAIN listed : FsOf[m] = Turn}
    /\ fd' = [mount |-> Root, depth |-> 0]
    /\ pc' = "check"
    /\ UNCHANGED <<namespace, policy, listed, reports>>

\* read_filesystem_statistics returns; the descriptor is closed.
Return(status, usage) ==
    /\ reports' = Reported(FsOf[target], Report(status, usage, target))
    /\ target' = None /\ fd' = NoDescriptor /\ pc' = "next"
    /\ UNCHANGED <<policy, listed>>

\* Mutant of Last: the walk stops one component short.
LastEarly == fd.depth + 1 >= listed[target]

\* The loop over the components has ended.
Last == fd.depth = listed[target]

\* Mutant of Queryable: only the mount point itself is checked for autofs.
QueryableAtEnd == fd.depth < listed[target] \/ ~Autofs(fd.mount)

\* queryable: the descriptor is not in an automount filesystem.
Queryable == ~Autofs(fd.mount)

Check ==
    /\ pc = "check"
    /\ \/ /\ Queryable
          /\ pc' = IF Last THEN "stat" ELSE "open"
          /\ UNCHANGED <<policy, listed, target, fd, reports>>
       \/ ~Queryable /\ Return("NotCollected", None)
       \/ Return("IoError", None)
    /\ UNCHANGED namespace

Component == fd.depth + 1
Found == Top(fd.mount, Component)
Covered == Found # fd.mount
Entry == IF Covered THEN "directory" ELSE entries[Component]

\* O_DIRECTORY, for every component but the last.
Directory == Component < listed[target]

\* The kernel activates what is looked up inside autofs and not yet mounted, and a
\* trigger that is opened as a directory; O_PATH alone leaves the trigger alone.
Activates ==
    (IF Autofs(fd.mount) /\ ~Covered THEN {"inside"} ELSE {})
      \cup (IF Covered /\ Direct(Found) /\ Directory THEN {"opened"} ELSE {})

\* openat with O_PATH | O_NOFOLLOW of the next component.
Open ==
    /\ pc = "open"
    /\ Entry = "directory" \/ (Entry = "symlink" /\ ~Directory)
    /\ Activates = {}
    /\ fd' = [mount |-> Found, depth |-> Component]
    /\ pc' = "check"
    /\ UNCHANGED <<namespace, policy, listed, target, reports>>

OpenFails ==
    /\ pc = "open"
    /\ Return(IF Entry = "absent" \/ (Entry = "symlink" /\ Directory) THEN "NotPresent" ELSE "IoError", None)
    /\ UNCHANGED namespace

\* The automount daemon answers with a mount, which the descriptor is then in.
OpenActivates ==
    /\ pc = "open"
    /\ Entry = "directory" /\ Activates # {}
    /\ automounts' = automounts \cup Activates
    /\ \E m \in {m \in Others : ~Attached(m) /\ ~Autofs(m)} :
         /\ tree' = Mounted(m, Found, Component)
         /\ fd' = [mount |-> m, depth |-> Component]
    /\ pc' = "check"
    /\ UNCHANGED <<entries, changes, policy, listed, target, reports>>

Link == fd.depth > 0 /\ entries[fd.depth] = "symlink"

\* Mutant of OtherDevice: the device number is not compared.
OtherDeviceNever == FALSE

OtherDevice == FsOf[fd.mount] # FsOf[target]

Stat ==
    /\ pc = "stat"
    /\ \/ Return("IoError", None)
       \/ Link /\ Return("Unsupported", None)
       \/ ~Link /\ OtherDevice /\ Return("NotPresent", None)
       \/ ~Link /\ ~OtherDevice /\ Return("Success", FsOf[fd.mount])
    /\ UNCHANGED namespace

Done == pc = "next" /\ Pending = {} /\ UNCHANGED vars

Next ==
    \/ Mount \/ Unmount \/ Replace
    \/ ReadMountInfo \/ SkipFilesystem \/ Query \/ Check
    \/ Open \/ OpenFails \/ OpenActivates \/ Stat \/ Done

Spec == Init /\ [][Next]_vars
-----------------------------------------------------------------------------
\* Capacity is reported for the filesystem it is that of, whatever was mounted over or
\* unmounted from the path between mountinfo and fstatvfs.
RightFilesystem ==
    \A f \in DOMAIN reports : reports[f].status = "Success" => reports[f].usage = f

\* No component is looked up inside an automount filesystem.
NoLookupInAutofs == "inside" \notin automounts

\* The path leads to mount m, and not through autofs.
Leads(m) ==
    /\ Walkable(listed[m]) /\ FsOf[Visible[listed[m]]] = FsOf[m]
    /\ \A d \in 0 .. listed[m] : ~Autofs(Visible[d])

\* With nothing mounted meanwhile, a filesystem is "changed or covered" only if its
\* mount is covered.
ChangedOrCovered ==
    changes = 0 =>
        \A f \in DOMAIN reports : reports[f].status \in {"NotPresent", "Unsupported"} => ~Leads(reports[f].of)
=============================================================================
