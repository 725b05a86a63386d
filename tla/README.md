# A formal model of sysal

sysal is a C++20 library that takes a snapshot of a Linux host: CPU, memory, PCI,
network, storage, accelerators, sensors, software and the limits of the calling process.
This directory holds TLA+ modules for the parts of it where order, concurrency, partial
failure or identity decide whether a snapshot is right, TLC configurations for small
instances of them, and TLAPS proofs about eight of the parts: Command, SpawnDescriptors,
Pipeline, AcceleratorInventory, CgroupLimits, FilesystemUsage, HostSnapshot and Snapshot.

Paths are relative to the repository unless they name a module here.

1. [The system](#1-the-system)
2. [What is modelled](#2-what-is-modelled)
3. [The runs, their bounds and what they show](#3-the-runs)
4. [Fairness](#4-fairness)
5. [What is proved](#5-what-is-proved)
6. [Where the code and its documents disagree](#6-findings)
7. [Limits of the models](#7-limits)
8. [Not modelled](#8-not-modelled)
9. [Plan](#9-plan)

## 1. The system

    System::collect(flags, options)          src/api/system.cpp
      `- run_pipeline                        src/pipeline/pipeline.cpp
           |- Reader    read_procfs, read_sysfs, probes    src/reader/linux
           |     -> RawStore: records (source, path, payload, status, failure), enumerations
           |- Parser    one function per domain            src/parser
           |     -> ParseResult: an optional per domain
           |- Resolver  joins, visibility, completeness, health    src/resolver
           |     -> SystemInfo, warnings
           `- SnapshotMeta: what was requested, what succeeded, what failed

The Reader is the only layer that touches the host. It never throws for a source that is
missing: it stores a record with a status. A parser sees records only, so a stored
RawStore can be *replayed* (`test::collect_from_raw`) without the host. The Resolver
combines domains. A caller holds one `System` and may call `refresh`, which collects again
under the scope and policy of the snapshot it has. All calls are synchronous; the library
has no threads of its own, but it starts processes, several host threads may collect at
once, and the host changes while it is being read.

| Component | State | Operations | Hard behaviour | What makes it correct |
|---|---|---|---|---|
| Command supervision (`reader/linux/command.cpp`) | two pipes, child pid and group, deadline, result | spawn `sh -c`, poll, drain, wait, kill | the shell, its descendants, the clock and the kernel interleave; output limit; SIGCHLD ignored by the host | an answer that is no error is complete; a call always returns; nothing of it is left running |
| Descriptors of a probe (same file) | host descriptor table | pipe2, F_DUPFD above 2, file actions, close | closed standard streams, other threads, a full table | the shell gets its own ends; nobody else does; nothing leaks or is closed twice |
| Pipeline and API (`pipeline.cpp`, `api/`) | the caller's System, RawStore of the call | collect, refresh, replay | 4096 scopes share sources; sources fail; calls throw half way | one call per snapshot; every parser finds its evidence; scope and policy survive a refresh |
| Accelerator inventory (`parser/accelerator*.cpp`) | list of devices with ids | merge of NVML, nvidia-smi, MIG list, CUDA, HIP, DRM | each backend lacks something; identity by UUID, address or ordinal | unique ids; one entry per device, one device per entry; ordinals keep their meaning |
| Accelerator visibility (`resolver/accelerator_*.cpp`) | visible set, restricted flag, published index | selection variables, runtime enumerations | variables of several vendors, partial enumerations, uninterpretable filters | hidden only for a reason; enumerations outrank variables |
| Cgroup limits (`reader/linux/cgroup.cpp`, `parser/cgroup.cpp`) | records of a walk up the hierarchy | find mount, walk, reduce | limits change and the process is moved during the walk; namespaces; unreadable levels | a known limit was in force; any limit is an upper bound |
| Filesystem capacity (`reader/linux/filesystem*.cpp`) | a descriptor that walks a path | group mounts, policy, walk, fstatvfs | mounts move during the walk; automounts | capacity of the right filesystem; no automount is triggered |
| Resolver joins, CPU visibility (`resolver/resolve.cpp`) | SystemInfo | NUMA and PCI joins, cpuset, cross-checks | order of joins; ids in one domain only | no node is lost or invented |
| Inventory completeness (`resolver/inventory.cpp`, `file_utils.hpp`) | enumerations | enumerate, read, compare names | hotplug between steps; truncated listings | Complete means complete |
| Storage health, sensors (`storage_health.cpp`, `sensors.cpp`, `hardware_health.cpp`) | reports, alerts, coverage | smartctl with fallback, limits, alarms | findings and failures share exit bits | partial evidence is never called available |
| Storage graph, CPU, memory, network, PCI, software parsers | none beyond the result | text to values | merging of sources | values or unknown, never guesses |
| Serialization (`src/serialization`) | none | JSON both ways, version gate, replay files | optional fields, encodings | a stored snapshot loads as itself |

PROJECT.json lists these components with their sources and their state, and under
"hazards" the places of the code that are hard to test, each with the properties that
watch over it, or the reason why none does.

Interactions: the Reader runs `lspci`, `udevadm`, `nvidia-smi`, `ethtool`, `smartctl`, `nvme`
and the compiler and MPI queries through the command supervision, and loads the accelerator
runtimes as shared libraries; the pipeline hands the store to the parsers and the parse
result to the resolver; accelerator visibility uses the inventory, the
runtime enumerations in the store, and the environment parsed by Execution.

## 2. What is modelled

One module per component, an `MC...` module that gives the constants small values, and a
.cfg per question. `Next` of each module is the disjunction of the code's steps; data is
reduced to what properties tell apart (a payload to which call read it, a byte string to
its length, a device to its UUID and its address).

**Command** - one call of `execute_command`. `pc` is the place of the supervising thread:
`start`, `setup` (non-blocking reads), `check`, `poll`, `out`, `err` (the two drains),
`wait` (waitpid WNOHANG), `settle`, `reap` (terminate), `finish`, `abandon`, `destroy`
(~ChildProcess), `returned`. `received`, `reads`, `reaped`, `waited` and `status` are the
members and locals of those names. The environment is the shell and its descendants, which
write, close streams, fork, call setsid, end in any way or go on for ever; the deadline,
which may pass at any step; a host that ignores SIGCHLD, so that waitpid fails; and the
reuse of a process group number by another program. A pipe is a FIFO, so bytes are
counted, not stored.

**ProbeContract** - what the callers of `execute_command` rely on, without pipes,
processes or signals: output is produced and collected until one final answer, which is
complete when it says so. **CommandRefinement** maps Command to it.

**SpawnDescriptors** - the same call seen by the kernel's descriptor table, system call by
system call: `pipe2`, the F_DUPFD_CLOEXEC that moves an end off descriptors 0 to 2 and the
close of the low one, the file actions of posix_spawn, the closes of both pipes in the
order of their destructors, in several threads, with files opened by the host in between.
It establishes what Command assumes: write ends are held by the probe's processes only, not
by the host and not by the shell of another thread, whose table at exec is a copy of the
host's less what is marked close-on-exec.

**Pipeline** - `collect`, `refresh` and `collect_from_raw` on one handle. `Plan` lists the
calls of read_procfs and read_sysfs in order, each with the flags that ask for it and the
flags under which an earlier call has read it. A source's reading carries the number of
the call and the policy it was made under; a domain of a snapshot is the set of readings
it was made from, so that "which data is in this snapshot" is a question about the state.
Any set of sources of `Failures` may fail and an exception may leave a call after any
reading; the caller's snapshot is then what the code leaves.

**AcceleratorInventory** - `parse_accelerator` row by row: NVML, nvidia-smi, the MIG list
of `nvidia-smi -L`, CUDA and HIP enumerations, DRM. `Add` is `AcceleratorInventory::add`
with its `same_device` rule, its filling of gaps and its renumbering of an instance that
holds a physical device's ordinal. Rows and fields may be missing as `Gaps` says; an
instance in the listing of `nvidia-smi -L` is under the line of its own GPU, or of none.

**CgroupLimits** - one limit (cpu v1/v2, memory v1/v2) of a process in a hierarchy: where
the reader takes its own group to be, the walk to the mount, one file at a time, while an
administrator writes limits or moves the process, and the parser's loop over the records
with `LimitSummary::adopt`. Where the group is the mount's own, the leaf is "<mount>/",
which is not equal to the mount, so its files are read twice (`slash`); the parser joins
every v1 quota to the first period of its group (`Paired`).

**FilesystemUsage** - mountinfo, the policy, and the walk of `read_filesystem_statistics`
along one path, descriptor by descriptor, with mounts, unmounts, symlinks and automounts
set up by others.

**HostSnapshot** composes five modules that share the requested domains and a budget of
hardware changes. The first three read the host, one file or directory at a time, in the
order of read_sysfs, while the hardware changes under them:

- **CpuInventory** - /proc/cpuinfo, the affinity mask, the online list, the directory of
  CPUs and the topology files of each, while CPUs are plugged, unplugged and switched on
  and off; then the merged list of CPUs with their places, the visibility of each and the
  reports of CPUs and cores.
- **DeviceDirectory** - one of the directories of network interfaces, block devices, PCI
  functions (listed by lspci as well) or NUMA nodes, while devices leave and take names;
  then the entries of the model, the kinds of interfaces and the report.
- **DriveHealth** - the directories of NVMe controllers and of disks, one query of
  smartctl per drive with its exit bits, the fallback to nvme-cli, while drives come and
  go; then critical findings and the coverage. A drive whose entry cannot be looked at is
  passed over without a record, as in the code (`readable`).
- **Locality** - the order of the joins in `resolve`: nodes handed on from PCI to memory
  controllers, DIMMs and EDAC devices, and to drives, interfaces and adapters; and the
  association of DIMMs by label and capacity. It has no actions: the records are constant.
- **AcceleratorVisibility** - `resolve_accelerator_visibility`: the baseline, one step per
  vendor, and the publication of the index. A token of a selection variable is a record of
  what it names.

**Enumeration** holds what they share: what a stream over a changing directory may return
(`Listings`: any set between what was there all the time and what was there at some
time, in any order, or any part of it and an error), the status `inventory_entries` makes
of it, and `report()` of the resolver.

**Snapshot** - a value of one of the 88 record types of the public model is written as
JSON, to a string or a file, read back, perhaps by another release, and written again.
**Codec** says what the helpers of json_values.hpp do with a member of each kind;
**SchemaEvidence**, **SchemaCompute**, **SchemaDevices** and **SchemaHost** state for each
type its struct, its writer and its reader as three separate tables, translated from three
files, so that nothing but the code makes them agree. The value of a member is a code: 0,
1 and the maximum of its type, unset, an empty list, text that is not UTF-8. A file may be
cut off by a full disk or by the end of the program at every step of `save_raw_store`.

**CommandProofs**, **SpawnProofs**, **PipelineProofs**, **InventoryProofs**, **CgroupProofs**,
**FilesystemProofs**, **HostProofs**, **SnapshotProofs** - the theorems of section 5.

A definition that exists only as the plausible mistake a property must detect (a dropped
guard, a swapped order) stands before the definition it would replace and is named in
PROJECT.json "mutants". PROJECT.json "map" gives the lines each definition stands for.

## 3. The runs

| Run | Instance | What it shows |
|---|---|---|
| `command` | shell and one descendant, limit 1 byte, pipe and read buffer of 2, 2 reads per drain, 2 bytes per stream; 441,000 states | TypeOK, WholeOutput, LimitIsExact, NoShellLeft, AbortKillsGroup; under fairness ImplementsFairContract, of which "every call returns" is a part |
| `command_stranger` | the same with single bytes | violation: a group kill after the shell was reaped |
| `spawn` | 2 threads (symmetric), 9 descriptors, any subset of 0..2 open, 1 host file; 1.3 million states | ChildStreams, OnlyProbeWrites, Owned, NoDescriptorLeft |
| `pipeline` | 10 scopes, 2 failure sets, 3 calls; 370,000 states | TypeOK, OneReading, SharedSupplied, LocalityJoined, OneCall, ScopeKept |
| `pipeline_marker` | all scopes of Platform, Cpu, Execution | violation: Execution without its container marker |
| `inventory` | 2 NVIDIA GPUs, the first in 2 instances, 1 AMD GPU, any row and field missing; 373,000 states | UniqueIds, OneToOne, OrdinalNames, IdKept |
| `inventory_instance` | any row missing, and GPU UUIDs | violation: an instance listed as a physical GPU |
| `cgroup` | 3 levels, all placements, 2 quotas, 2 periods, 1 unreadable level, 2 changes; 4.8 million states | Attained, UpperBound |
| `cgroup_own` | namespace root below the mount's, no changes | violation: a known limit of another group |
| `filesystems` | 5 mounts, path of 2 components, 2 changes; 513,000 states | RightFilesystem, NoLookupInAutofs, ChangedOrCovered |
| `host` | see below; 936,000 states | CompleteIsAll, KindRight, CoresComplete, VisibilityRight, HealthAvailableIsComplete, FailingFound, NumaHandedOn, HiddenForReason, RuntimeDecides, SelectionInOrder, UnreadableHidesNothing |
| `snapshot` | 88 types, every value that differs from a default or from a full one in one member; 66,000 states | Agreement, RoundTrip, MissingIsUnknown, SavedIsWhole |

What the properties say, where the name does not:

- *ImplementsFairContract*: Command, with its fairness, is a behaviour of ProbeContract.
- *SharedSupplied, LocalityJoined*: a parser finds the evidence another domain would have
  read; collected network and storage domains have PCI locality.
- *OneToOne*: no two entries are one device where addresses are known, and no entry mixes
  two. *OrdinalNames*: a runtime's ordinal keeps naming the GPU it named.
- *Attained*: a limit reported as known was in force for the process at some moment of
  the walk, with one write or one move of the process meanwhile. *UpperBound*: no limit
  reported, known or not, is stricter than all that were in force, with two changes,
  unless they left a v1 quota joined to a period beside which it never stood (`Torn`): with
  quota 2 and period 2, writing period 1 and then quota 1 between the two readings of the
  mount reports 1/2, although 1, 2 and 1 were in force.
- *OnlyProbeWrites*: while a call reads, neither the host nor the shell of another thread
  holds a write end of its pipes.
- *CompleteIsAll*: a list called complete has every CPU, node, interface, block device or
  PCI function that was there all the time, and no name that nothing bore.
  *CoresComplete*: cores called complete are cores of the machine, without a default.
- *KindRight*: a known kind is the kind of an interface that bore the name; only one that
  went away while it was read may be called virtual instead.
- *VisibilityRight*: a visible CPU is allowed and ran, a hidden one was not allowed or did
  not run, and no CPU that ran is reported missing from the model.
- *HealthAvailableIsComplete*, *FailingFound*: an available storage health covers every
  drive that was there all the time and whose entry could be read; a drive whose tool said
  that it fails is critical, and no other is.
- *NumaHandedOn*: a node is right or unknown, and known when what a part sits on is.
- *HiddenForReason, RuntimeDecides, SelectionInOrder, UnreadableHidesNothing*: why an
  accelerator is hidden, what an enumeration outranks, which device an ordinal or a UUID
  prefix names, and that an unreadable selector hides nothing.
- *Agreement*: struct, writer and reader of a type are about the same members within the
  same bounds. *RoundTrip*: what was written whole is read as it was, up to a fraction of
  a millisecond. *MissingIsUnknown*: members that an older release did not write are
  unknown. *SavedIsWhole*: no file that was cut short is taken for a store.

Why these bounds are enough for the questions asked:

- *Command.* With a limit of 1 and 2 bytes a stream is below, at and above its limit; with
  2 reads a drain ends both at end of file and at its budget. One descendant is enough to
  hold a pipe after the shell has gone, to leave the group, and to outlive a kill; a second
  adds another process of the same kind. The proofs cover every number of descendants,
  limit and buffer.
- *SpawnDescriptors.* Nine descriptors are too few for two calls with their replacements,
  so pipe2 and F_DUPFD also fail half way through the setup. Two threads are what a
  descriptor can be confused between.
- *Pipeline.* Three calls are collect, refresh and refresh again (or a replay of either).
  The ten scopes are everything, nothing, single domains that depend on a source of
  another (Cpu, Network, Storage, Execution), and combinations in which the dependency is
  met by the other domain. Every property of the run is also a theorem, for all 4096
  scopes and any number of calls.
- *AcceleratorInventory.* A partitioned GPU before an unpartitioned one is what makes
  CUDA's order and NVML's differ, two instances are what must be told apart.
- *CgroupLimits.* Three levels give a process a parent and a grandparent, and put the
  mount and the namespace root above, at and below each other. Attained speaks of one
  change, since with two a mixture is unavoidable for any reader of several files;
  UpperBound holds for both. Nothing is written after a move: the walk then reads the
  group the process has left, and a limit written there never was its limit.
- *FilesystemUsage.* Two components are a directory that is passed and one that is
  reported; of five mounts one is remote and two are autofs, direct and indirect.
- *HostSnapshot.* Each host asks for the domains of one part and is quiet in the others;
  a last one asks for everything at once, to run the parts after each other. Three CPUs
  (one always on, its sibling, one absent or with the core number that the default of
  another would take), 3 machines, 2 changes. Two names with a device of every nature or
  none: 2 changes of block devices, PCI functions and nodes, and of interfaces 1 change of
  two names (a rename included) and 2 of one (gone and replaced between two looks). Two or three drives
  of different buses, failing or not, readable or not, 1 change, exit codes {0, 1, 2, 3, 4, 5, 8, 12, 127},
  which are every bit the code tells apart, alone and combined. Two sockets, 4 slots of
  which two bear one label, any subset of them reported by EDAC, nodes missing at each
  step. Four inventories of accelerators, 136 environments, 10 sets of enumerations.
- *Snapshot.* A reader decides member by member, so that values with one unusual member
  reach every decision of every type; that this is enough for all combinations is proved.

CHECK_DEADLOCK is off in `snapshot` only, where the life of a text may end at any point;
the other modules state with `Done`, `Finished` or `Idle` where a behaviour may end.

## 4. Fairness

Only Command has a liveness property: under `Fairness` it implements ProbeContract with
the contract's own fairness, which is that an answer is given at last. `Fairness` asks for
three things:

- the supervising thread takes its next step when it can (`Supervise`): the operating
  system schedules it, and poll has a timeout, so it is never blocked for good;
- the deadline passes (`Expire`): steady_clock runs;
- a process with a pending SIGKILL dies (`Die`), which is what the blocking waitpid in
  terminate() relies on. A process in uninterruptible sleep would delay it; see section 7.

The probe has no obligation: a shell that prints for ever or sleeps for ever is among
the behaviours. The other modules are safety only: their calls are bounded loops over
finite lists and end by construction.

## 5. What is proved

By TLAPS, for every value of the constants that satisfies the assumptions of the module
(`CommandAssumption`, `SpawnAssumption`, `PipelineAssumption`, `InventoryAssumption`,
`CgroupAssumption`, `FilesystemAssumption`, `HostsAssumption`, `InputsLegal`: naturals,
positive where the code uses a positive constant; mounts, values and hosts of the right
shape). `HostsAssumption` says of the hardware what the kernel's files rest on: a CPU has
one package and one core, slots are told apart, EDAC and PCI report no node but a
controller's own, and accelerators differ in their ids. `InventoryAssumption` says that
an instance has numbers of its own within its GPU, that `nvidia-smi -L` lists GPUs and
instances, and that CUDA enumerates the instances of a partitioned GPU and not the GPU.
TLC evaluates each of them.

**CommandProofs**: `TypeCorrect`, `WholeOutputAlways`, `LimitIsExactAlways`,
`NoShellLeftAlways`, `AbortKillsGroupAlways`, `Implements`.
WholeOutput speaks of a call that has returned and is not inductive. `Supervised` says
what makes it true at every step: bytes written are bytes in the pipe plus bytes in the
result (`Accounted`), a stream the loop no longer reads is at its end for good
(`ClosedAtEnd`: no process holds its write end, and a process gets a write end only by fork
from one that has it), and the status at each place of the code (`StatusFits`). `Contained`
adds that the shell is gone where `reaped_` says so and that the group is killed from
terminate() on and stays so: a process with a pending SIGKILL cannot fork, so no unkilled
member appears. `Implements` follows step by step: draining collects, writing produces,
returning answers, all other steps are invisible.

**SpawnProofs**: `OwnedAlways`, `ChildStreamsAlways`, `OnlyProbeWritesAlways`,
`NoDescriptorLeftAlways`, for any number of threads, any size of the table and any files
that are open at first. What a thread remembers is its own (`Owned`) because nobody else
closes it; that nothing is left open needs the converse, that every open end is remembered
(`Accounted`), also while a low descriptor and its duplicate are both open (`StaleOwned`).
`Progress` says for each place of the code which ends exist already, which are above 2 and
which are still to be closed, so that the file actions find descriptors that do not collide
with 0, 1 and 2. *OnlyProbeWrites* speaks of the shells of other threads as well: every pipe
end in the host's table is marked close-on-exec, duplicates included (`Marked`), hence a
shell has no ends but those its own file actions made (`Apart`).

**PipelineProofs**: `TypeCorrect`, `OneCallAlways`, `OneCallPerStoreAlways`,
`ScopeKeptAlways`, `OneReadingAlways`, `SharedSuppliedAlways`, `LocalityJoinedAlways`, for
all 4096 scopes. `StoreInv` strengthens OneCall by OneCallPerStore: the store under
construction and every kept store hold readings of one call, whatever failed or was
thrown. `ScopeInv` records that a handle or a store carries one request, and that a
refresh in progress runs with the handle's own flags and policy.
`ReadInv` says that a source has been read exactly if a row before the
cursor wants it, and once. That it is never read twice is `Exclusive`: of two rows of one
source, the later one is for the scopes in which the earlier one does not read. That a
parser finds its source is `Supplied`, domain by domain. Locality follows from `WithPci`:
a store with network or storage records has PCI records, and parsing either domain parses
PCI.

**InventoryProofs**: `UniqueIdsAlways`, `IdKeptAlways`, `OrdinalNamesAlways`,
`OneToOneAlways`, for any GPUs and instances and any rows and fields that are missing. Ids
are unique (`TypeInv`) because a new entry gets a number nobody has: of Len + 1 numbers
one is unused (`NextIdIs`). *OrdinalNames* and the first half of *OneToOne*, that no entry
mixes devices, need to say of every entry which device it is (`Seen`). As long as only
decoders report that number GPUs (`Early`), ids are ordinals, so that two reports of a GPU
meet by UUID, by address or by ordinal; what is reported later has a number nobody has and
meets by UUID or address only, or is a new entry. An ordinal an instance holds is given
back when its GPU arrives (`NumberedIn`). The second half, that no device has two entries,
is `Known`: where every backend reports addresses, what is at a place has its UUID, and
two entries are apart in one of them.

**CgroupProofs**: `UpperBoundAlways`, `AttainedAlways`, for hierarchies of any depth, any
limits and periods. Both rest on the order of limits: a budget is compared over the product
of the periods, which is transitive (`StricterTransitive`), so that a finite set of limits
has a strictest one (`StrictestExists`) and the parser's summary is not above any limit it
took (`Summed`). What a record can say is bounded by what the files of its group held since
the walk began (`Stood`, `Written`).
*UpperBound* goes record by record: what the walk is about to read holds for the process, or
was covered by a limit in force before the process was moved (`AheadCovered`), hence so is
what it has read in one file (`BehindCovered`) and, where a limit joins two files or two
readings, every budget its group held (`HeldCovered`). A record whose period is still to be
read is of the group the walk is at (`HalfRead`).
*Attained* needs one moment for all records: `Snap(L, p)` says that everything read, and
everything still to be read, is as in the limits L of a moment when the process was at level
p, and that nothing that held for it is left out. The one change that is allowed chooses the
moment: it is the one before a write if that level was read and the one after it if not
(`SnapWrite`), and the one before a move once the reader has found the process (`SnapMove`).
`Descending` tells the levels that were read from the others. Where the mount is read twice
there may be no such moment, since the write may fall between the two; but then all records
are of the mount's group (`MountTwice`), and each limit it held was in force
(`MountAttained`).

**FilesystemProofs**: `RightFilesystemAlways`, `NoLookupInAutofsAlways`,
`ChangedOrCoveredAlways`, for any mounts, depth and number of changes. The first holds because only what the descriptor is on is
compared and reported, never what the path led to; the second from `CheckedBeforeOpen`:
between the check of a descriptor and the lookup from it nothing can move that descriptor
into autofs. *ChangedOrCovered* relates a report to the path as it is later, when other
walks may have activated automounts. `TreeInv` says that mounts are stacked one on the
other, each stack with an end (`WellStacked`), on directories only; from it, `TopIs` and
`VisibleIs` find out what the recursive functions Top and Visible are, by the least set
closed under "mounted on it" and by the least depth at which two paths differ. `PathInv`
says that, while nobody mounts, the descriptor is where the path is (`Followed`), and that
a mount reported as changed or covered is one the path misses (`Missed`): a component is no
directory or the end is another filesystem, with no autofs on the way. An automount is
activated only where autofs is on the path, hence below whatever made it miss the mount
(`PathOpenActivates`).

**HostProofs**: `CompleteIsAllAlways`, `KindRightAlways`, `CoresCompleteAlways`,
`VisibilityRightAlways`, `HealthAvailableAlways`, `FailingFoundAlways`,
`NumaHandedOnAlways`, `HiddenForReasonAlways`, `RuntimeDecidesAlways`,
`SelectionInOrderAlways`, `UnreadableHidesNothingAlways`, for any hosts the assumption
describes and any number of changes.
`HostInv` has a part for each of the four readers, of one form: what was there all the time,
what was there at some time and what is there now enclose each other (`CpuSpans`, `Steady`,
`DriveSpans`); a listing that did not break off lies between the first two, from when it was
opened to when it is closed (`CpuListed`, `DirectoryListed`, `Scanned`); and what was read of
an entry was true of the machine then (`CpuFiles`, `FilesSeen`, `Answered`). A later change
only widens what is enclosed, so each part survives hotplug at any step. `BoardInv` carries
the assumption about the board to the joins, which are functions of it. `VisibleInv` says of
each vendor that its devices are as the baseline left them while it is still to be resolved
and as its deciding list says afterwards (`Settled`): resolving one vendor touches no device
of another. The four theorems follow from what that list is, a selection variable cut off at
its first uninterpretable token or an association of the runtime's enumeration.

**SnapshotProofs**: `AgreementRoundTrip`, `RoundTripAlways`, `MissingIsUnknownAlways`,
`SavedIsWholeAlways`. The last three assume `\A t \in Types : Agrees(Schemas[t])`, which is a fact about the tables
and not about their behaviour: the run `snapshot` evaluates it for every type (Agreement),
the prover need not look into 88 tables. From it, member by member: what is written is
accepted (`LoadsWritten`), what is left out has the value absence stands for
(`OmittedMember`, `DefaultTaken`). `IInv` then follows the text through its life: what is
in it is what was written of the original, less what was removed, whether the file was cut
off, aged or written a second time; `RInv` what was read of it. This closes the gap that
the run leaves, where values have one unusual member. `FileInv` adds what a file has been
through: what a call of save_raw_store reports as saved, and what a load returns, was
written whole.

Only model-checked:

- liveness, which is out of the prover's reach, as is ENABLED;
- Agreement of Snapshot: a fact about 88 tables, without states; the run evaluates it for
  all of them, and the tables are built with operators the prover does not read. The
  theorems about Snapshot have it as their hypothesis.

## 6. Findings

Each is a run that must be violated; PROJECT.json "findings" quotes the sentence of the
repository that says otherwise.

1. `command_stranger`, `reader/linux/command.cpp:141`. terminate() signals the group
   `-pid_` even after the shell was reaped. With a descendant that left the group and kept
   a pipe open, the number may belong to another program by then.
2. `pipeline_marker`, `reader/linux/procfs.cpp:197`. `/.dockerenv` is read for Platform
   only, although Execution looks it up first: `collect(Execution)` alone can miss a
   container that `collect(Platform | Execution)` finds.
3. `inventory_instance`, `parser/accelerator.cpp:335`. Without a UUID of the parent GPU
   from another backend, the first MIG instance CUDA lists becomes a physical GPU.
4. `cgroup_own`, `reader/linux/cgroup.cpp:123`. At the root of a cgroup namespace whose
   hierarchy is mounted from above, the limit of another group is reported as known.

Seen while reading, without a run:

- Serialization: `dump()` throws nlohmann's type_error for text that is not UTF-8 (a
  payload, a mount point), not the SysalError that `replay.hpp:26` promises, and
  `save_raw_store` has truncated the old file by then. Bytes that are lost when the stream
  is closed are not noticed. `System sys;` leaves `SnapshotMeta::collect_duration`
  indeterminate when the text has no "meta". Time points lose what is below a millisecond.
- Hardware health: only `Failed` records count against the coverage of sensors
  (`hardware_health.cpp`), but a hwmon enumeration that broke off is `Partial`, so partial
  evidence may be called available; the same holds of an EDAC root whose enumeration broke off
  after its controllers were read. An md array whose level and degradation are unreadable
  is not counted as incomplete.
- An interface that goes away between the checks of `sysfs.cpp:230-232` is listed, with kind
  "virtual"; a block device that goes away while it is read stays listed by its
  "loop_present" record. KindRight states the first as the only way a known kind is wrong.
- `build_numa_mapping` stops at 1024 CPUs; a memory-only node (empty cpulist) keeps the list
  of nodes at Partial, an offline CPU without topology files the list of CPUs.
- A CPU that goes offline between cpuinfo and its topology files gets package 0 and its
  own number as core, which may be the number of another core. `topology_known` keeps
  such cores from being called complete, as CoresComplete confirms.
- A drive whose link, `partition` or `device/type` cannot be read (no descriptor left, no
  permission, an I/O error) is passed over without a record (`storage_health.cpp:79-80, 91,
  93-94, 106-108`), so that "Available" may omit it. `docs/design/data_model/sensors.md:21`
  does not promise all hardware; HealthAvailableIsComplete speaks of the other drives.
- The files of a cgroup mount are read twice where the process is in the mount's own group:
  the leaf ends in "/" (`cgroup.cpp:129`) and is not equal to the mount (`:65`). In v1 the
  first period is joined to both quotas (`parser/cgroup.cpp:121`), so that two writes in
  between make a budget that was never in force; UpperBound excepts it.
- Disks on virtio and other buses without a SCSI type are silently outside storage health.
- `display_device` takes `substr(2)` of a class file, which throws when it is shorter.
- A process in the root group of a v2 hierarchy gets a Failed record, so an unknown limit,
  where the comment at `cgroup.cpp:56` treats an absent file as no failure.
- `filesystem_stats.cpp:91` opens a directory component with O_DIRECTORY, which activates
  a direct automount that covers it, if the kernel follows it.
- `!opencl:*` in ONEAPI_DEVICE_SELECTOR hides every Intel GPU, also those Level Zero
  offers (`accelerator_selection.cpp:164`); `docs/issues.md` names the limit.
- `collect(Execution)` without Cpu, under a cpuset, warns about each visible CPU that it
  does not exist in the model (`resolve.cpp:76`): no CPUs were collected. With Cpu, so
  does a mask that names CPUs which are possible but absent.

## 7. Limits

- Command: a descendant that calls setsid leaves the group and is not killed, by design of
  the code; AbortKillsGroup speaks of the group. A process in uninterruptible sleep, EINTR
  storms and clock jumps are not modelled.
- SpawnDescriptors: descriptors the host inherits to every child (no close-on-exec) are
  the host's business. posix_spawn is one step: the child's copy of the ends that are
  marked close-on-exec, between its fork and its exec, is not modelled.
- Pipeline: which records a source yields, and the parsing of each, are abstracted to
  success and failure; a parser has no side effects on the store.
- AcceleratorInventory: one host whose devices do not change during the call.
- CgroupLimits: one controller of one mount. A write that follows a move of the process is
  left out, as is the second reading of the membership for the record (`procfs.cpp:313`).
  UpperBound excludes a v1 quota joined to a period beside which it never stood, which
  takes two writes and which the code cannot notice.
- FilesystemUsage: one path; the block arithmetic (values times block size may exceed 64
  bits, free and available may contradict the total); an openat or fstatvfs that hangs on
  a dead server (the one hazard without a property: the code has no timeout there).
- HostSnapshot: one directory of devices per host; the directories are read independently
  of each other. Device numbers and names are what the files are called, so that a
  replaced device of the same nature is the same one. A listing returns what was there all
  the time (POSIX leaves open only what is added or removed meanwhile). lspci, which runs
  before all of sysfs, is placed next to the directory it is merged with; nothing between
  them looks at PCI functions. In DriveHealth, drives on USB are those the reader passes
  over with a note, and findings below critical are left out; in Locality, the board does
  not change, because all of its files are read by then.
- AcceleratorVisibility: the texts of warnings, the grammar of a clause beyond "supported
  or not", devices per SYCL backend.
- Snapshot: one record at a time; a nested record is default constructed or not, and its
  own members are those of its own type. The JSON parser and printer are taken to be
  inverse on their common domain. A prefix of a text is never a text (it is an object).

## 8. Not modelled

What is left has no state, no order and no partial failure beyond "a record is missing":
each is one pass over records that are complete by then, from text to values, and a model
would say the text of the code again.

- Sensors and the coverage of hardware health: limits and alarms are compared where they
  are read. The coverage has the form of storage health; its two gaps are in section 6.
- The storage graph (partitions, device mapper, md), the classification of devices and the
  attribution of mounts: a search over names in one constant set of records.
- CPU caches, frequencies and features; sizes and error counts of memory; addresses, VLAN,
  RDMA ports and link settings of interfaces; links and classes of PCI functions.
- Platform, software and execution parsers. What they need from shared records is
  SharedSupplied and ContainerMarkerSupplied.
- `shared_library.hpp`, the ethtool ioctl, dlopen of the accelerator runtimes: pure I/O,
  whose outcomes are the inputs of AcceleratorInventory and AcceleratorVisibility.
- The example program, which prints a snapshot, and the unit tests.

## 9. Plan

Done: Command with its contract, refinement and proofs; SpawnDescriptors, Pipeline,
AcceleratorInventory, CgroupLimits and FilesystemUsage with proofs; HostSnapshot, which
composes CPUs, directories of devices, drives, the resolver's joins and accelerator
visibility, with proofs; Snapshot, the schemas of all records, with proofs. Every safety
property of a run but Agreement is a theorem.

What is worth proving next: Agreement, once the tables of the schemas are functions whose
domains the prover can enumerate type by type.

What would be worth modelling with more room: several mounts of one cgroup hierarchy, and
the storage graph against a reference definition by transitive closure.
