------------------------------ MODULE Backups ------------------------------
(***************************************************************************)
(* Backups of the server's own databases and their restore (internal/      *)
(* backup, internal/api/backups.go, internal/configdb/backups.go,          *)
(* cmd/restore.go).                                                        *)
(*                                                                         *)
(* The server copies its files one by one into a directory that it renames *)
(* when the manifest is written, then removes the oldest backups and last  *)
(* records the run in config.db, where the schedule looks for it.  The     *)
(* restore is another process, for a server that is stopped: it takes a    *)
(* backup, copies the old files next to the present ones, and swaps them   *)
(* in one by one.  Each can stop between any two steps, and the server can *)
(* be started again in the middle of a restore.                            *)
(***************************************************************************)
EXTENDS Integers, Sequences, FiniteSets

CONSTANTS
    Setting, FirstSetting,      \* what can be configured: [enabled, mode, keep], and what is at first
    Day, Step, Retry,   \* times: between two slots, EveryHours, backupRetryAfterFailure
    RunsKept,           \* backupRunsKept, the rows of the table of runs
    None,
    MaxClock, MaxWrites, MaxBackups, MaxChanges    \* bounds

Never == -1
NoRuns == [last |-> Never, failures |-> 0]

(* Of the four files, the one with the settings and the runs, and another. *)
Files == <<"config", "library">>
File == {"config", "library"}

VARIABLES
    clock,
    up,         \* the server runs
    live,       \* File -> the version of the file
    stale,      \* the files that were replaced under the running server
    setting, runs,      \* tables of config.db: the settings, and [last, failures]: the start of the last run
                        \* that succeeded, and how many failed since
    due,        \* what the schedule has found due: [passed, raced], or None
    failed,     \* lastFailure, in memory
    dir,        \* the backup folder: name -> [whole, created, files, runs, setting]
    names,      \* names so far
    job,        \* the backup that runs, or None
    removing,   \* the name that a deletion has found free of checks, or None
    verify,     \* name -> "running", "ok", "failed", in memory
    restore,    \* the restore that runs, or None
    writes, changes,    \* bounds: so far
    lastDone,   \* ghost: the start of the last backup that was finished
    excused,    \* ghost: its record is lost, the schedule did not see it, or the settings changed since
    cut,        \* ghost: the backups whose removal was cut short
    before      \* ghost: the files when the first of them was swapped, and their backup, or None

vars == <<clock, up, live, stale, setting, runs, due, failed, dir, names, job, removing, verify, restore, writes, changes,
          lastDone, excused, cut, before>>
World == <<clock, live, stale, setting, runs, writes, changes>>
Ghosts == <<lastDone, excused, cut, before>>

(*************************** The folder *************************************)

(* List: what has a manifest. *)
Listed == {n \in DOMAIN dir : dir[n].whole}
Intact(n) == n \in Listed /\ DOMAIN dir[n].files = dir[n].manifest

(* Built in place, under its own name. *)
EntryInPlace(whole, files) ==
    [whole |-> TRUE, created |-> clock, files |-> files, manifest |-> DOMAIN files, runs |-> runs, setting |-> setting]
(* A name that is not there, whole or partial. *)
Entry(whole, files) ==
    [whole |-> whole, created |-> clock, files |-> files, manifest |-> DOMAIN files, runs |-> runs, setting |-> setting]
With(n, e) == [x \in DOMAIN dir \union {n} |-> IF x = n THEN e ELSE dir[x]]
Without(gone) == [x \in DOMAIN dir \ gone |-> dir[x]]

(* os.RemoveAll removes file after file: a crash leaves some of them. *)
CutShort(n, left) == With(n, [dir[n] EXCEPT !.files = [f \in left |-> dir[n].files[f]]])

(* Prune: the newest are kept; two of one second come in any order. *)
Kept(of, keep) ==
    {s \in SUBSET of : Cardinality(s) = (IF Cardinality(of) < keep THEN Cardinality(of) ELSE keep)
        /\ \A n \in s, o \in of \ s : dir[n].created >= dir[o].created}

(*************************** The schedule ***********************************)

(* Schedule.NextRun. *)
Slot(t) == t \div Day
Due(last) ==
    \/ last = Never
    \/ setting.mode = "interval" /\ last + Step <= clock
    \/ setting.mode = "daily" /\ Slot(last) < Slot(clock)
RecentFail == failed # Never /\ clock - failed < Retry

(* runBackup, if no other runs: the settings are read, and the folder is made. *)
Begin(trigger) ==
    /\ up /\ job = None /\ names < MaxBackups /\ names' = names + 1
    /\ job' = [trigger |-> trigger, started |-> clock, keep |-> setting.keep, name |-> names', left |-> Files]
    /\ dir' = With(names', Entry(FALSE, <<>>))
    /\ UNCHANGED <<World, up, failed, removing, verify, restore, lastDone, cut, before>>

HandleBackupRun == Begin("manual") /\ UNCHANGED <<due, excused>>

(* It is whole, and not in the table yet. *)
Unrecorded == job # None /\ Head(job.left) \in {"prune", "record"}

(* backupTick reads when the last run was, takes a table that it cannot read for an
   empty one, looks for a recent failure, and only then takes the flag of the runs;
   it waits for the run that it starts.  A run may end meanwhile. *)
BackupTick ==
    /\ up /\ due = None /\ setting.enabled /\ (job # None => job.trigger # "schedule")
    /\ \E last \in {runs.last, Never} :
        Due(last) /\ due' = [passed |-> FALSE, raced |-> Unrecorded \/ last # runs.last]
    /\ UNCHANGED <<World, up, failed, dir, names, job, removing, verify, restore, Ghosts>>

FindNoFailure ==
    /\ due # None /\ ~due.passed /\ ~RecentFail
    /\ due' = [due EXCEPT !.passed = TRUE]
    /\ UNCHANGED <<World, up, failed, dir, names, job, removing, verify, restore, Ghosts>>

(* For a recent failure, a sync of some device, or a run. *)
Wait ==
    /\ due # None /\ (due.passed \/ RecentFail) /\ due' = None
    /\ UNCHANGED <<World, up, failed, dir, names, job, removing, verify, restore, Ghosts>>

RunScheduled ==
    /\ due # None /\ due.passed /\ due' = None
    /\ Begin("schedule") /\ excused' = (excused \/ due.raced)

Phase(left) == job # None /\ job.left = left

(* VACUUM INTO, or the copy; it ends the run if it fails.  Of a file that was
   replaced under the server it is the old one, whose version is not followed. *)
Read(f) == IF f \in stale THEN None ELSE live[f]
Snapshot ==
    /\ job # None /\ job.left # <<>> /\ Head(job.left) \in File
    /\ LET f == Head(job.left)
           e == dir[job.name]
           files == [g \in DOMAIN e.files \union {f} |-> IF g = f THEN Read(f) ELSE e.files[g]]
       IN  dir' = With(job.name, IF f = "config" THEN [e EXCEPT !.files = files, !.runs = runs, !.setting = setting]
                                 ELSE [e EXCEPT !.files = files])
    /\ job' = [job EXCEPT !.left = IF Len(@) = 1 THEN <<"manifest">> ELSE Tail(@)]
    /\ UNCHANGED <<World, up, due, failed, names, removing, verify, restore, Ghosts>>

(* AddBackupRun keeps the newest rows; that it fails is only logged. *)
OneMoreFailed ==
    IF runs.last = Never \/ runs.failures + 1 = RunsKept THEN NoRuns ELSE [runs EXCEPT !.failures = @ + 1]

Fail ==
    /\ job # None /\ Head(job.left) \in File \union {"manifest"}
    /\ dir' = Without({job.name}) /\ job' = None /\ failed' = clock
    /\ runs' = runs \/ ("config" \notin stale /\ runs' = OneMoreFailed)
    /\ excused' = (excused \/ runs'.last # runs.last)
    /\ UNCHANGED <<clock, live, stale, setting, writes, changes, up, due, names, removing, verify, restore, lastDone, cut, before>>

(* The manifest, and the rename. *)
Manifest(e) == [e EXCEPT !.whole = TRUE, !.manifest = File]
Finish ==
    /\ Phase(<<"manifest">>)
    /\ dir' = With(job.name, Manifest(dir[job.name]))
    /\ job' = [job EXCEPT !.left = <<"prune">>]
    /\ lastDone' = job.started /\ excused' = FALSE
    /\ due' = IF due = None THEN None ELSE [due EXCEPT !.raced = TRUE]
    /\ UNCHANGED <<World, up, failed, names, removing, verify, restore, cut, before>>

(* The restore's own backup may be among those that are removed. *)
ForgetsBackup(gone) == before' = IF before # None /\ before.name \in gone THEN None ELSE before

Prune ==
    /\ Phase(<<"prune">>)
    /\ \E s \in Kept(Listed, job.keep) :
        dir' = Without(Listed \ s) /\ ForgetsBackup(Listed \ s)
    /\ job' = [job EXCEPT !.left = <<"record">>]
    /\ UNCHANGED <<World, up, due, failed, names, removing, verify, restore, lastDone, excused, cut>>

(* A config.db that was replaced takes no record. *)
Record ==
    /\ Phase(<<"record">>)
    /\ job' = None /\ failed' = Never
    /\ \/ "config" \notin stale /\ runs' = [last |-> job.started, failures |-> 0] /\ UNCHANGED excused
       \/ UNCHANGED runs /\ excused' = TRUE
    /\ UNCHANGED <<clock, live, stale, setting, writes, changes, up, due, names, dir, removing, verify, restore, lastDone, cut, before>>

(*************************** Checks and deletions ***************************)

(* handleBackupVerify, and its goroutine. *)
HandleBackupVerify(n) ==
    /\ up /\ n \in Listed /\ changes < MaxChanges /\ changes' = changes + 1
    /\ n \in DOMAIN verify => verify[n] # "running"
    /\ verify' = [x \in DOMAIN verify \union {n} |-> IF x = n THEN "running" ELSE verify[x]]
    /\ UNCHANGED <<clock, live, stale, setting, runs, writes, up, due, failed, dir, names, job, removing, restore, Ghosts>>

EndVerify(n) ==
    /\ n \in DOMAIN verify /\ verify[n] = "running"
    /\ verify' = [verify EXCEPT ![n] = IF Intact(n) THEN "ok" ELSE "failed"]
    /\ UNCHANGED <<World, up, due, failed, dir, names, job, removing, restore, Ghosts>>

(* handleBackupDelete: the look for a check, and then the removal. *)
HandleBackupDelete(n) ==
    /\ up /\ n \in Listed /\ removing = None /\ changes < MaxChanges /\ changes' = changes + 1
    /\ n \in DOMAIN verify => verify[n] # "running"
    /\ removing' = n
    /\ UNCHANGED <<clock, live, stale, setting, runs, writes, up, due, failed, dir, names, job, verify, restore, Ghosts>>

Delete ==
    /\ removing # None /\ removing' = None
    /\ dir' = Without({removing} \intersect Listed) /\ ForgetsBackup({removing})
    /\ verify' = [x \in (DOMAIN verify) \ {removing} |-> verify[x]]
    /\ UNCHANGED <<World, up, due, failed, names, job, restore, lastDone, excused, cut>>

(*************************** The server *************************************)

Tick ==
    /\ clock < MaxClock /\ clock' = clock + 1
    /\ UNCHANGED <<live, stale, setting, runs, writes, changes, up, due, failed, dir, names, job, removing, verify, restore, Ghosts>>

(* What is written to a file that was replaced is gone with it. *)
Write(f) ==
    /\ up /\ writes < MaxWrites /\ writes' = writes + 1
    /\ live' = IF f \in stale THEN live ELSE [live EXCEPT ![f] = writes']
    /\ before' = None
    /\ UNCHANGED <<clock, stale, setting, runs, changes, up, due, failed, dir, names, job, removing, verify, restore, lastDone, excused, cut>>

(* handleBackupSettings. *)
HandleBackupSettings(s) ==
    /\ up /\ "config" \notin stale /\ s # setting /\ changes < MaxChanges /\ changes' = changes + 1
    /\ setting' = s /\ excused' = TRUE
    /\ UNCHANGED <<clock, live, stale, runs, writes, up, due, failed, dir, names, job, removing, verify, restore, lastDone, cut, before>>

(* The server stops; a run is left as it is, and a removal perhaps half done. *)
Stop ==
    /\ up /\ up' = FALSE
    /\ stale' = {} /\ failed' = Never /\ due' = None /\ job' = None /\ removing' = None /\ verify' = <<>>
    /\ excused' = (excused \/ Unrecorded)
    /\ \/ UNCHANGED <<dir, cut, before>>
       \/ \E n \in Listed, left \in SUBSET {"config"} :
            /\ n = removing \/ (Phase(<<"prune">>) /\ \E s \in Kept(Listed, job.keep) : n \notin s)
            /\ dir' = CutShort(n, left \intersect DOMAIN dir[n].files) /\ cut' = cut \union {n} /\ ForgetsBackup({n})
    /\ UNCHANGED <<clock, live, setting, runs, writes, changes, names, restore, lastDone>>

(* It can be started while a restore runs; then it writes to what is replaced. *)
Start ==
    /\ ~up /\ up' = TRUE
    /\ excused' = (excused \/ restore # None)
    /\ before' = IF restore # None THEN None ELSE before
    /\ restore' = IF restore # None THEN [restore EXCEPT !.raced = TRUE] ELSE None
    /\ UNCHANGED <<World, due, failed, dir, names, job, removing, verify, lastDone, cut>>

(*************************** The restore ************************************)

(* PlanRestore with its check of the sums, and the look for the server. *)
PlanRestore(n) ==
    /\ ~up /\ restore = None /\ Intact(n) /\ changes < MaxChanges /\ changes' = changes + 1
    /\ restore' = [name |-> n, left |-> <<"safety">>, pre |-> None, staged |-> <<>>, runs |-> NoRuns, setting |-> setting, raced |-> FALSE]
    /\ UNCHANGED <<clock, live, stale, setting, runs, writes, up, due, failed, dir, names, job, removing, verify, Ghosts>>

(* The process stops, or fails before the swaps. *)
Abandon ==
    /\ restore # None /\ restore' = None
    /\ UNCHANGED <<World, up, due, failed, dir, names, job, removing, verify, Ghosts>>

(* Of the database with the settings alone. *)
ConfigAlone == [f \in {"config"} |-> live[f]]
Targets == live

(* A backup of the files there are, without pruning. *)
Safety ==
    /\ restore # None /\ restore.left = <<"safety">> /\ names < MaxBackups /\ names' = names + 1
    /\ dir' = With(names', Entry(TRUE, Targets))
    /\ restore' = [restore EXCEPT !.left = <<"stage">>, !.pre = names']
    /\ UNCHANGED <<World, up, due, failed, job, removing, verify, Ghosts>>

(* carryTables: the settings and runs that there are now. *)
CarriedNot(e) == [runs |-> e.runs, setting |-> e.setting]
Carried(e) == [runs |-> runs, setting |-> setting]

(* The copies are checked, and the files that changed since are not theirs. *)
Stage ==
    /\ restore # None /\ restore.left = <<"stage">> /\ Intact(restore.name)
    /\ LET kept == Carried(dir[restore.name]) IN
       restore' = [restore EXCEPT !.left = Files, !.staged = dir[restore.name].files, !.runs = kept.runs, !.setting = kept.setting]
    /\ before' = IF restore.raced \/ ~Intact(restore.pre) THEN None ELSE [name |-> restore.pre, files |-> live]
    /\ UNCHANGED <<World, up, due, failed, dir, names, job, removing, verify, lastDone, excused, cut>>

Swap ==
    /\ restore # None /\ restore.left # <<>> /\ Head(restore.left) \in File
    /\ LET f == Head(restore.left) IN
       /\ live' = [live EXCEPT ![f] = restore.staged[f]]
       /\ stale' = IF up THEN stale \union {f} ELSE stale
       /\ IF f = "config" THEN runs' = restore.runs /\ setting' = restore.setting ELSE UNCHANGED <<runs, setting>>
    /\ excused' = (excused \/ (restore.raced /\ <<runs', setting'>> # <<runs, setting>>))
    /\ restore' = IF Len(restore.left) = 1 THEN None ELSE [restore EXCEPT !.left = Tail(@)]
    /\ UNCHANGED <<clock, writes, changes, up, due, failed, dir, names, job, removing, verify, lastDone, cut, before>>

Init ==
    /\ clock = 0 /\ up = TRUE /\ live = [f \in File |-> 0] /\ stale = {} /\ setting = FirstSetting /\ runs = NoRuns /\ due = None /\ failed = Never
    /\ dir = <<>> /\ names = 0 /\ job = None /\ removing = None /\ verify = <<>> /\ restore = None /\ writes = 0 /\ changes = 0
    /\ lastDone = Never /\ excused = FALSE /\ cut = {} /\ before = None

Next ==
    \/ BackupTick \/ FindNoFailure \/ Wait \/ RunScheduled \/ HandleBackupRun \/ Snapshot \/ Fail \/ Finish \/ Prune \/ Record \/ Delete
    \/ Tick \/ Stop \/ Start \/ Abandon \/ Safety \/ Stage \/ Swap
    \/ \E f \in File : Write(f)
    \/ \E s \in Setting : HandleBackupSettings(s)
    \/ \E n \in DOMAIN dir : HandleBackupVerify(n) \/ HandleBackupDelete(n) \/ PlanRestore(n)
    \/ \E n \in DOMAIN verify : EndVerify(n)

Spec == Init /\ [][Next]_vars

(*************************** Properties *************************************)

(* A folder and its manifest, the outcome of a check, and a restore. *)
Backup(e) == DOMAIN e.files \subseteq File /\ e.manifest \subseteq File /\ e.created \in 0 .. clock
Verdict == {"running", "ok", "failed"}
Restoring(r) ==
    /\ r.name \in 1 .. names /\ r.pre \in (1 .. names) \union {None}
    /\ DOMAIN r.staged \subseteq File /\ r.setting \in Setting /\ r.raced \in BOOLEAN

TypeOK ==
    /\ clock \in 0 .. MaxClock /\ runs.last \in Never .. clock /\ runs.failures \in 0 .. RunsKept - 1 /\ failed \in Never .. clock
    /\ \A n \in DOMAIN dir : n \in 1 .. names /\ Backup(dir[n])
    /\ \A n \in DOMAIN verify : verify[n] \in Verdict
    /\ restore # None => Restoring(restore)
    /\ stale \subseteq File /\ setting \in Setting

(* What is listed is a complete backup, whenever the server or the restore was
   stopped, except one of which a removal was cut short; and what a restore puts
   in place is never one of these. *)
ListedIsWhole ==
    /\ \A n \in Listed \ cut : DOMAIN dir[n].files = File
    /\ restore # None /\ Head(restore.left) \in File => DOMAIN restore.staged = File

(* The schedule makes no second backup in the slot of one that was finished, by
   hand or by itself, across restarts and restores of an old config.db; unless the
   settings were changed, or it does not see that run, because
   - its record was lost: by a failing write, by a server that ended between the
     rename and the record, by a restore beside which the server was started, or
     by RunsKept failed runs after it, which push it out of the table;
   - the table could not be read; or
   - the run was finished but not yet recorded when the schedule looked, or was
     finished between that look and the start of the schedule's own run. *)
OncePerSlot ==
    job # None /\ job.trigger = "schedule" /\ ~excused /\ Head(job.left) \in File /\ lastDone # Never =>
        IF setting.mode = "daily" THEN Slot(lastDone) # Slot(job.started) ELSE lastDone + Step <= job.started

Versions(n) == {[file |-> f, version |-> dir[n].files[f]] : f \in DOMAIN dir[n].files}

(* From the first swap of a restore on, and after it stopped anywhere, each file is
   as it was, or as the safety backup has it. *)
RestoreCanBeUndone ==
    before # None => Intact(before.name)
        /\ \A f \in File : before.files[f] = live[f] \/ [file |-> f, version |-> before.files[f]] \in Versions(before.name)
=============================================================================
