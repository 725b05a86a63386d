---------------------------- MODULE DriveHealth ----------------------------
(***************************************************************************)
(* The health of drives.  NVMe controllers and disks are listed from two   *)
(* directories, each is asked by smartctl (an NVMe drive by nvme-cli where *)
(* that is missing), and the answers become findings and a statement of    *)
(* how much they cover.  Drives come and go meanwhile.                     *)
(*                                                                         *)
(* A drive is a number, in the order of the names, and stands for its      *)
(* controller, its block device and the target of its query.  Drives on    *)
(* other buses have no SCSI type and are passed over; they are left out.   *)
(* A drive is readable when its entry can be looked at: the link, whether  *)
(* it is a partition, and the SCSI type of a disk.                         *)
(***************************************************************************)
EXTENDS Integers, FiniteSetsExt

CONSTANTS
    None,          \* a missing optional, or no answer
    ExitCodes      \* the exit codes of smartctl that are tried

VARIABLES
    requested,     \* the domains of the call
    drives,        \* drive -> [kind, failing, readable]
    attached,      \* drives that are there
    budget,        \* how many more changes of the hardware there will be
    stage,         \* what is read next
    targets,       \* drives to ask
    broken,        \* a record of StorageHealthSysfs is not a success
    answers,       \* drive -> what smartctl returned
    fallbacks,     \* drive -> what nvme-cli returned
    span,          \* drives attached all the time, and at some time, of a listing
    kept           \* drives attached all the time of the call

bay == <<attached, budget, span, kept>>

Drives == DOMAIN drives
Of(kinds) == {d \in Drives : drives[d].kind \in kinds}

Start ==
    /\ stage = "nvme directory"
    /\ targets = {} /\ broken = FALSE
    /\ answers = [d \in Drives |-> None] /\ fallbacks = [d \in Drives |-> None]
    /\ span = [always |-> attached, ever |-> attached] /\ kept = attached

Asked == {d \in targets : answers[d] # None}
Collecting == "StorageHealth" \in requested /\ ~(stage = "query" /\ Asked = targets)

\* The hardware changes under the reader: a drive goes, or comes.
Swap ==
    /\ Collecting /\ budget > 0
    /\ \E d \in Drives : attached' = (attached \ {d}) \cup ({d} \ attached)
    /\ budget' = budget - 1
    /\ span' = [always |-> span.always \cap attached', ever |-> span.ever \cup attached']
    /\ kept' = kept \cap attached'
    /\ UNCHANGED <<requested, drives, stage, targets, broken, answers, fallbacks>>

Open ==
    /\ Collecting
    /\ \E next \in {<<"nvme directory", "controllers">>, <<"block directory", "disks">>} :
         stage = next[1] /\ stage' = next[2]
    /\ span' = [always |-> attached, ever |-> attached]
    /\ UNCHANGED <<requested, drives, attached, budget, kept, targets, broken, answers, fallbacks>>

\* An entry whose link or type cannot be read, or that cannot be told from a partition, is
\* passed over, and leaves no record.
Readable(kinds) == {d \in Of(kinds) : drives[d].readable}

\* What a listing may find: a part of the entries after an error, and not a drive that
\* goes before its link is resolved.
Listed(found, kinds, error) ==
    /\ found \subseteq Readable(kinds) \cap span.ever
    /\ error \/ Readable(kinds) \cap span.always \subseteq found

\* Mutant of Deficient: the error of an enumeration leaves no record.
DeficientWithoutError(found, error) == found \cap Of({"usb"}) # {}

\* A listing leaves a record that is no success: of its error, or of a disk on USB.
Deficient(found, error) == error \/ found \cap Of({"usb"}) # {}

\* read_storage_health: controllers first, then the disks of SCSI type 0.
List ==
    /\ \E scan \in {<<"controllers", {"nvme"}, "block directory">>, <<"disks", {"ata", "scsi", "usb"}, "query">>} :
         /\ stage = scan[1]
         /\ \E found \in SUBSET Drives, error \in BOOLEAN :
              /\ Listed(found, scan[2], error)
              /\ targets' = targets \cup (found \ Of({"usb"}))
              /\ broken' = (broken \/ Deficient(found, error))
         /\ stage' = scan[3]
    /\ UNCHANGED <<requested, drives, bay, answers, fallbacks>>

\* smartctl: bits 0 and 1 of the exit code say that it could not ask, bit 2 that a log
\* or a command failed, bit 3 that the drive is failing.  Without the first two its
\* object has an assessment, warnings and readings, or lacks some of them.
Exits(d) ==
    {[end |-> "exited", code |-> code, object |-> object, passed |-> passed, warning |-> warning, readings |-> readings] :
        code \in ExitCodes, object \in BOOLEAN, passed \in BOOLEAN \cup {None}, warning \in BOOLEAN \cup {None},
        readings \in BOOLEAN}
Truthful(d, a) ==
    /\ a.code % 4 # 0 \/ ~a.object => a.passed = None /\ a.warning = None /\ ~a.readings
    /\ d \notin attached => a.code % 4 # 0
    /\ a.passed \in {None, ~drives[d].failing}
    /\ a.warning \in IF drives[d].kind = "nvme" THEN {None, drives[d].failing} ELSE {None}
    /\ a.object => ((a.code \div 8) % 2 = 1 <=> a.passed = FALSE)
Answer(d) ==
    {a \in Exits(d) : Truthful(d, a)}
      \cup {[end |-> end, code |-> None, object |-> TRUE, passed |-> ~drives[d].failing, warning |-> None,
              readings |-> TRUE] : end \in {"timed out", "other"}}

\* nvme-cli: it fails, or its object has the warnings of the drive, or lacks them.
SecondAnswer(d) ==
    {[object |-> FALSE, warning |-> None, readings |-> FALSE]}
      \cup {[object |-> TRUE, warning |-> warning, readings |-> readings] :
              warning \in IF d \in attached THEN {None, drives[d].failing} ELSE {}, readings \in BOOLEAN}

\* Mutant of Outcome: any exit code but zero is a failure.
OutcomeAtZero(a, protocol) ==
    IF a.end = "exited" /\ a.object /\ a.code = 0 THEN "Success" ELSE "Failed"

\* query(): the status of the record of an answer.
Outcome(a, protocol) ==
    IF a.end # "exited" \/ ~a.object THEN "Failed"
    ELSE IF <<protocol, a.code>> \in {<<"ata", 3>>, <<"scsi", 3>>, <<"ata", 5>>} THEN "NotCollected"
    ELSE IF a.code % 8 = 0 THEN "Success"
    ELSE IF a.code % 4 # 0 THEN "Failed" ELSE "Partial"

\* The next target in the order of the names, and the other tool where this one is missing.
Query ==
    /\ stage = "query" /\ Asked # targets
    /\ LET d == Min(targets \ Asked)
       IN  \E a \in Answer(d) :
             /\ answers' = [answers EXCEPT ![d] = a]
             /\ IF drives[d].kind = "nvme" /\ a.code = 127 /\ ~a.object
                THEN \E b \in SecondAnswer(d) : fallbacks' = [fallbacks EXCEPT ![d] = b]
                ELSE UNCHANGED fallbacks
    /\ UNCHANGED <<requested, drives, bay, stage, targets, broken>>

Read == Collecting /\ (Open \/ List \/ Query)
-----------------------------------------------------------------------------
\* parse_storage_health: the later record of a target replaces the earlier one, and only
\* the object of a success or of a part of one is read.
Report(d) ==
    LET a == answers[d]
        b == fallbacks[d]
        state == Outcome(a, drives[d].kind)
        of(status, passed, warning, readings) ==
            [status |-> status, passed |-> passed, warning |-> warning, readings |-> readings]
    IN  IF b # None THEN of(IF b.object THEN "Success" ELSE "Failed", None, b.warning, b.readings)
        ELSE IF state \in {"Success", "Partial"} THEN of(state, a.passed, a.warning, a.readings)
        ELSE of(state, None, None, FALSE)

\* evidence(): an assessment, a warning, or any of the readings that count.
HasEvidence(report) == report.passed # None \/ report.warning # None \/ report.readings

\* storage_findings: the critical ones.
Critical(d) == Report(d).passed = FALSE \/ Report(d).warning = TRUE

Incomplete == broken \/ \E d \in targets : Report(d).status # "Success" \/ ~HasEvidence(Report(d))

Coverage ==
    IF "StorageHealth" \notin requested THEN "NotRequested"
    ELSE IF \A d \in targets : ~HasEvidence(Report(d)) THEN "Unavailable"
    ELSE IF Incomplete THEN "Partial" ELSE "Available"
-----------------------------------------------------------------------------
\* What is called available covers every drive that was there all the time and whose entry
\* could be read: none was missed by a listing that broke off, none is on USB, and each
\* answered as a whole.  Of a drive that read_storage_health passes over in silence it says
\* nothing.
HealthAvailableIsComplete ==
    ~Collecting /\ Coverage = "Available" =>
        \A d \in kept : drives[d].readable =>
            /\ drives[d].kind # "usb" /\ d \in targets
            /\ \/ fallbacks[d] # None /\ (fallbacks[d].warning # None \/ fallbacks[d].readings)
               \/ answers[d].end = "exited" /\ answers[d].code % 8 = 0 /\ HasEvidence(answers[d])

\* A failing drive whose tool said so is reported as critical, although its exit code is
\* not zero and some log may have failed; and no other drive is.  A query that timed out
\* says nothing.
FailingFound ==
    ~Collecting => \A d \in targets :
        /\ Critical(d) => drives[d].failing /\ answers[d].end = "exited"
        /\ drives[d].failing /\ answers[d].end = "exited" /\ answers[d].code % 4 = 0
             /\ (answers[d].passed # None \/ answers[d].warning # None) => Critical(d)
=============================================================================
