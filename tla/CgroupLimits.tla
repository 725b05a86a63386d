---------------------------- MODULE CgroupLimits ----------------------------
(***************************************************************************)
(* read_cgroup_limits and parse_cgroup_limits for one controller of one    *)
(* mount: where the reader believes the process's own group to be, the     *)
(* walk from there to the mount, file by file, while the administrator     *)
(* changes limits or moves the process, and the strictest limit the parser *)
(* makes of it.                                                            *)
(*                                                                         *)
(* The groups on the way from the root of the hierarchy to the process are *)
(* levels 0, 1, ...; a limit is a quota per period, a memory limit has     *)
(* period 1.                                                               *)
(***************************************************************************)
EXTENDS Integers, Sequences, FiniteSets

CONSTANTS
    Kinds,        \* files modelled: "cpu.max", "cpu.cfs_quota_us", "memory.max", "memory.limit_in_bytes"
    Depth,        \* bound: levels below the root of the hierarchy
    Quotas,       \* bound: finite quotas
    Periods,      \* bound: periods of a CPU quota
    Placements,   \* bound: where the process, the mount and the namespace root may be
    MaxUnreadable,\* bound: levels whose files cannot be read
    MaxChanges    \* bound: limits written during the walk, a move of the process included

Levels == 0 .. Depth
NoLevel == -1
Unlimited == 0            \* "max", -1, or v1 memory's sentinel; no quota is 0

ASSUME CgroupAssumption ==
    /\ Depth \in Nat
    /\ Quotas \subseteq Nat \ {0} /\ Periods \subseteq Nat \ {0} /\ 1 \in Periods
    /\ Placements \subseteq [process : Levels, mount : Levels, namespace : Levels]
    /\ \A p \in Placements : p.namespace <= p.process
    /\ MaxChanges \in Nat

VARIABLES
    kind,      \* the file that holds the limit
    place,     \* levels of the process, of the mount and of the cgroup namespace's root
    limits,    \* what the files say now
    enabled,   \* v2: the last level at which the controller is enabled
    hierarchy, \* v1 memory: the first level whose memory.use_hierarchy is 1
    denied,    \* levels whose files cannot be read
    offset,    \* the reader's leaf: so many directories below the mount
    slash,     \* the leaf is the mount, but its path ends in "/"
    pc,        \* "find", "walk", "period", "parse", "done"
    records,   \* RawSource::CgroupFile
    parsed,    \* records the parser has taken
    summary,   \* LimitSummary
    changes,   \* limits written, and moves, since the walk began
    moved,     \* the process was moved
    held,      \* history: limits the files of each level held since the walk began
    attained   \* history: limits in force for the process at some moment of the walk

administered == <<kind, enabled, hierarchy, denied>>
world == <<administered, place, moved>>
leaf == <<offset, slash>>
parser == <<parsed, summary>>
history == <<changes, held, attained>>
vars == <<world, limits, leaf, pc, records, parser, history>>

Unified == kind \in {"cpu.max", "memory.max"}
Cpu == kind \in {"cpu.max", "cpu.cfs_quota_us"}

Limit(quota, period) == [quota |-> quota, period |-> period]
Writable ==
    {Limit(q, p) : q \in Quotas \cup {Unlimited}, p \in IF Cpu THEN Periods ELSE {1}}

\* CpuBudget and MemoryLimit: operator<.
Stricter(a, b) ==
    a.quota # Unlimited /\ (b.quota = Unlimited \/ a.quota * b.period < b.quota * a.period)

Same(a, b) == ~Stricter(a, b) /\ ~Stricter(b, a)

\* v2 has no quota files in the root, nor where the controller is not enabled.
Exists(k) == Unified => k \in 1 .. enabled

\* The limit of an ancestor holds for its descendants.
Binds(k) == kind = "memory.limit_in_bytes" => k >= hierarchy

\* Mutant of UsesHierarchy: memory.use_hierarchy is not looked at.
UsesHierarchyAlways(k) == TRUE

\* memory.use_hierarchy as the reader finds it: only a "0" lets it pass over the level.
UsesHierarchy(k) == Binds(k) \/ k = NoLevel \/ k \in denied

\* Levels with a limit that the reader or the process could meet.
Matters == {k \in Levels : Exists(k) /\ k >= place.mount /\ (k <= place.process \/ k = place.mount)}

Strictest(S) == CHOOSE l \in S : \A m \in S : ~Stricter(m, l)

\* Levels whose limits hold for a process, as far as the mount shows them.
Holding(process) == {k \in place.mount .. process : Exists(k) /\ (k = process \/ Binds(k))}

\* What the kernel enforces on the process.
InForce(lim, process) ==
    Strictest({lim[k] : k \in Holding(process)} \cup {Limit(Unlimited, 1)})

Init ==
    /\ kind \in Kinds
    /\ place \in Placements
    /\ enabled \in IF Unified THEN Levels ELSE {Depth}
    /\ hierarchy \in IF kind = "memory.limit_in_bytes" THEN 0 .. Depth + 1 ELSE {0}
    /\ limits \in {f \in [Levels -> Writable] : \A k \in Levels \ Matters : f[k] = Limit(Unlimited, 1)}
    /\ denied \in {S \in SUBSET Matters : Cardinality(S) <= MaxUnreadable}
    /\ offset = 0 /\ slash = FALSE
    /\ pc = "find"
    /\ records = <<>>
    /\ parsed = 0
    /\ summary = [state |-> "Unknown", value |-> Limit(Unlimited, 1)]
    /\ changes = 0 /\ moved = FALSE
    /\ held = [k \in Levels |-> {limits[k]}]
    /\ attained = {InForce(limits, place.process)}
-----------------------------------------------------------------------------
\* /proc/self/cgroup names the group relative to the namespace's root; so does
\* /proc/self/mountinfo the mount, but "/.." is normalised to "/".
Path == place.process - place.namespace
Root == IF place.mount > place.namespace THEN place.mount - place.namespace ELSE 0

\* The relative path begins with "..": the mount does not show the group.
Outside == Path # 0 /\ Path < Root

\* Without a relative path the leaf is "<mount>/", which is another path than the mount.
Find ==
    /\ pc = "find"
    /\ IF Outside
       THEN pc' = "parse" /\ UNCHANGED leaf
       ELSE /\ pc' = "walk"
            /\ offset' = IF Path = 0 THEN 0 ELSE Path - Root
            /\ slash' = (offset' = 0)
    /\ UNCHANGED <<world, limits, records, parser, history>>

\* The group at the reader's leaf: below a mount outside the namespace there is no
\* directory of that name.
Group ==
    IF place.mount >= place.namespace \/ offset = 0 THEN place.mount + offset ELSE NoLevel

Current == records = <<>>
AtMount == offset = 0 /\ ~slash

Readable == Group # NoLevel /\ Exists(Group) /\ Group \notin denied
Absent == Group = NoLevel \/ ~Exists(Group)

\* read_hierarchy: a file that is not in the mount's root is no failure, unless the
\* process is in that group.
Status ==
    IF Readable THEN "Success"
    ELSE IF ~Current /\ AtMount /\ Absent THEN "NotCollected" ELSE "Failed"

Record(status, limit) == [group |-> Group, status |-> status, limit |-> limit]
Seen == IF Readable THEN limits[Group] ELSE Limit(Unlimited, 1)

\* The parent of "<mount>/" is the mount: its files are read once more.
Up ==
    IF AtMount THEN pc' = "parse" /\ UNCHANGED leaf
    ELSE /\ pc' = "walk" /\ slash' = FALSE
         /\ offset' = IF slash THEN offset ELSE offset - 1

\* An ancestor that does not limit its descendants.  The level below it left a record.
Skip ==
    /\ pc = "walk"
    /\ ~Current /\ ~UsesHierarchy(Group)
    /\ Up
    /\ UNCHANGED <<world, limits, records, parser, history>>

ReadFile ==
    /\ pc = "walk"
    /\ Current \/ UsesHierarchy(Group)
    /\ records' = Append(records, Record(Status, Seen))
    /\ IF kind = "cpu.cfs_quota_us" THEN pc' = "period" /\ UNCHANGED leaf ELSE Up
    /\ UNCHANGED <<world, limits, parser, history>>

\* v1 keeps the period in a file of its own, which is read after the quota.
ReadPeriod ==
    /\ pc = "period"
    /\ records' = [records EXCEPT ![Len(records)].limit.period = Seen.period]
    /\ Up
    /\ UNCHANGED <<world, limits, parser, history>>

\* Mutant of Adopted: a finite limit makes up for a level that could not be read.
AdoptedAnyway(sum, limit) ==
    [state |-> "Finite", value |-> IF Stricter(limit, sum.value) THEN limit ELSE sum.value]

\* LimitSummary::adopt.
Adopted(sum, limit) ==
    [state |-> IF sum.state = "Incomplete" THEN "Incomplete" ELSE "Finite",
     value |-> IF Stricter(limit, sum.value) THEN limit ELSE sum.value]

\* LimitSummary::unreadable, unlimited and adopt by record.
Taken(sum, record) ==
    CASE record.status = "NotCollected" -> sum
      [] record.status = "Failed" -> [sum EXCEPT !.state = "Incomplete"]
      [] record.status = "Success" /\ record.limit.quota = Unlimited ->
            [sum EXCEPT !.state = IF @ = "Unknown" THEN "Unlimited" ELSE @]
      [] OTHER -> Adopted(sum, record.limit)

\* Records of a group whose file was read.
ReadOf(group) ==
    {i \in DOMAIN records : records[i].group = group /\ records[i].status = "Success"}

\* The parser keeps the first period it finds under a path, so that every quota of v1 is
\* joined to the period that was read first for its group.
Paired(i) ==
    IF kind = "cpu.cfs_quota_us" /\ records[i].status = "Success"
    THEN LET first == CHOOSE j \in ReadOf(records[i].group) :
                         \A m \in ReadOf(records[i].group) : j <= m
         IN [records[i] EXCEPT !.limit.period = records[first].limit.period]
    ELSE records[i]

\* The parser's loop over the records.
Parse ==
    /\ pc = "parse" /\ parsed < Len(records)
    /\ parsed' = parsed + 1
    /\ summary' = Taken(summary, Paired(parsed'))
    /\ UNCHANGED <<world, limits, leaf, pc, records, history>>

Finish ==
    /\ pc = "parse" /\ parsed = Len(records)
    /\ pc' = "done"
    /\ UNCHANGED <<world, limits, leaf, records, parser, history>>

\* Until the last file is read, limits and membership may change.
Open == pc \in {"find", "walk", "period"}

\* The administrator writes one file: v1 keeps quota and period apart.  What is written
\* after a move may be of a group the process has left; that is left out.
Write ==
    /\ Open /\ changes < MaxChanges /\ ~moved
    /\ \E k \in Matters, l \in Writable :
         /\ l # limits[k]
         /\ kind = "cpu.cfs_quota_us" => l.quota = limits[k].quota \/ l.period = limits[k].period
         /\ limits' = [limits EXCEPT ![k] = l]
         /\ attained' = attained \cup {InForce(limits', place.process)}
         /\ held' = [held EXCEPT ![k] = @ \cup {l}]
    /\ changes' = changes + 1
    /\ UNCHANGED <<world, leaf, pc, records, parser>>

\* Where the reader finds the process's own group: the mount is at or above it, and
\* not above the root of the cgroup namespace.
Placed == place.namespace <= place.mount /\ place.mount <= place.process

\* The process is moved from one group that the mount shows to another.
Move ==
    /\ Open /\ changes < MaxChanges /\ ~moved
    /\ Placed
    /\ \E q \in (place.mount .. Depth) \ {place.process} :
         /\ place' = [place EXCEPT !.process = q]
         /\ attained' = attained \cup {InForce(limits, q)}
    /\ changes' = changes + 1 /\ moved' = TRUE
    /\ UNCHANGED <<administered, limits, leaf, pc, records, parser, held>>

Done == pc = "done" /\ UNCHANGED vars

Next == Find \/ Skip \/ ReadFile \/ ReadPeriod \/ Parse \/ Finish \/ Write \/ Move \/ Done

Spec == Init /\ [][Next]_vars
-----------------------------------------------------------------------------
Known == summary.state \in {"Unlimited", "Finite"}
Reported == summary.value

\* A limit reported as known was in force for the process at a moment of the walk,
\* although its files are read one after the other and the mount's sometimes twice, if at
\* most one limit was written or the process moved once meanwhile.
Attained ==
    pc = "done" /\ Known /\ Placed /\ changes <= 1 =>
        \E l \in attained : Same(l, Reported)

\* A v1 quota was joined to a period beside which it never stood in the files of its group.
Torn ==
    \E i \in DOMAIN records :
        records[i].status = "Success" /\ Paired(i).limit \notin held[records[i].group]

\* Whatever is written meanwhile, and wherever the process is moved, the limit reported,
\* known or not, is never stricter than every limit that was in force: it is an upper
\* bound, as the warning says; but two writes to one group may tear its quota and period
\* apart.
UpperBound ==
    pc = "done" /\ Reported.quota # Unlimited /\ (changes > 1 => ~Torn)
      /\ place.mount <= place.process /\ (Placed \/ Binds(place.mount)) =>
        \E l \in attained : ~Stricter(Reported, l)

\* reader/linux/cgroup.hpp:7, "Read the current cgroup and its mounted ancestors": a
\* limit reported as known takes account of the process's own group.
OwnGroupRead ==
    pc = "done" /\ Known =>
        \E i \in DOMAIN records : records[i].group = place.process /\ records[i].status = "Success"
=============================================================================
