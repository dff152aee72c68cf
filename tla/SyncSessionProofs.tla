--------------------------- MODULE SyncSessionProofs ---------------------------
(***************************************************************************)
(* What a sync session never does and what it leaves behind, for any       *)
(* books, devices, names and bounds: its types, the copies it keeps, the   *)
(* mirror a session without errors leaves, and the reading progress of a   *)
(* single device.                                                          *)
(***************************************************************************)
EXTENDS SyncSession, TLAPS

(* The marks for what is not there are none of the values they stand beside. *)
MarksApart ==
    /\ NoBook \notin Book /\ NoDevice \notin Device
    /\ NoFile \notin Content \cup Label \cup {Garbled, Partial}
    /\ Garbled \notin Label /\ NoSidecar \notin Label

(* No two books have the same base name. *)
OneNameEach == \A b, c \in Book : NameOf[b] = NameOf[c] => b = c

(* Where a session can be; from its plan on it is active, and most of that   *)
(* time within an operation.                                                 *)
Steps == {"off", "list", "reverse", "plan", "next", "unlink", "unlabel", "exists", "clear", "send", "label", "failed"}
OpSteps == {"unlink", "unlabel", "exists", "clear", "send", "label", "failed"}
Active == step = "next" \/ step \in OpSteps

(* The parts of the type invariant; within an operation there is a job, and  *)
(* within a session a device.                                                *)
WorldType ==
    /\ lib \in [Book -> Meta]
    /\ want \in [Device -> SUBSET Book]
    /\ file \in [Device -> [Name -> Content \cup {NoFile, Partial}]]
    /\ side \in [Device -> [Name -> Label \cup {NoSidecar, Garbled}]]
    /\ info \in [Device -> SUBSET Book]

SessionType ==
    /\ step \in Steps
    /\ step # "off" => dev \in Device
    /\ dev \in Device \cup {NoDevice}
    /\ listed \in [Name -> Label \cup {NoFile, Garbled}]
    /\ wanted \in SUBSET Book
    /\ planned \in [Book -> Meta]
    /\ todo \in SUBSET Job
    /\ job \in Job \cup {NoJob}
    /\ step \in OpSteps => job \in Job
    /\ redone \in BOOLEAN /\ errs \in BOOLEAN
    /\ written \in SUBSET Name

(* Each statement belongs to an operation that has it. *)
StepFits ==
    /\ step \in {"exists", "clear", "send"} => job.type \in {"add", "update"}
    /\ step \in {"unlink", "unlabel"} => job.type \in {"update", "delete"}
    /\ step = "label" => job.type \in {"add", "update", "meta"}

(* Sidecars lie where their books' names say. *)
InPlace ==
    /\ \A d \in Device, n \in Name : side[d][n] \in Label => NameOf[side[d][n].book] = n
    /\ \A n \in Name : listed[n] \in Label => NameOf[listed[n].book] = n

(* Between the listing and the plan, the device is as it was listed. *)
Seen == step \in {"reverse", "plan"} => \A n \in Name :
    /\ listed[n] = NoFile <=> file[dev][n] = NoFile
    /\ listed[n] \in Label => listed[n] = side[dev][n]

(* What an operation was planned for. *)
Good(j) ==
    /\ j.type # "delete" => j.book \in wanted /\ j.name = NameOf[j.book]
    /\ j.type = "add" => \A n \in Name : ~ OnDevice(j.book, n)
    /\ j.type \in {"update", "meta"} => OnDevice(j.book, j.name)
    /\ j.type = "update" => listed[j.name].meta.pageCount # planned[j.book].pageCount
    /\ j.type = "meta" => listed[j.name].meta.pageCount = planned[j.book].pageCount
    /\ j.type = "delete" => j.book = NoBook /\ \A b \in wanted : ~ OnDevice(b, j.name)

(* The operations that are not over. *)
Pending == todo \cup (IF step \in OpSteps THEN {job} ELSE {})
JobsGood == Active => \A j \in Pending : Good(j)

(* The invariant on which the others build. *)
BaseInv == WorldType /\ SessionType /\ StepFits /\ InPlace /\ Seen /\ JobsGood

(* While no error is recorded: a wanted book without a pending operation is   *)
(* there, under the plan's metadata,                                         *)
Waits(b) == \E j \in Pending : j.book = b

DoneIsThere == \A b \in wanted : ~ Waits(b) =>
    /\ Labelled(dev, b, planned[b])
    /\ OnDevice(b, NameOf[b]) \/ NameOf[b] \in written

(* an archive that is not wanted waits for its delete, *)
NothingElse == \A n \in Name : file[dev][n] # NoFile =>
    \/ \E b \in wanted : n = NameOf[b]
    \/ \E j \in Pending : j.type = "delete" /\ j.name = n

(* no name was written but for a wanted book, *)
WrittenWanted == \A n \in written : \E b \in wanted : n = NameOf[b]

(* and an operation finds what the statements before it have left. *)
Underway ==
    /\ \A j \in Pending : j.type = "meta" => file[dev][j.name] # NoFile
    /\ step \in OpSteps => job \notin todo /\ (job.type = "delete" => job.name \notin written)
    /\ step = "label" => file[dev][Target] # NoFile
    /\ step = "unlabel" => file[dev][Target] = NoFile

Kept == Active /\ ~ errs => DoneIsThere /\ NothingElse /\ WrittenWanted /\ Underway

(* A session has written nothing before its plan. *)
NothingWritten == step \in {"off", "list", "reverse", "plan"} => written = {}

CleanInv == BaseInv /\ NothingWritten /\ Kept

-----------------------------------------------------------------------------
(* One device: with two, an older page of one may replace a newer one of the other. *)
OneDevice == \A d, e \in Device : d = e

(* No sidecar that counts is behind its reader, *)
SidecarsAhead == \A d \in Device, n \in Name :
    side[d][n] \in Label /\ side[d][n].book \notin missed =>
        side[d][n].meta.currentPage >= furthest[side[d][n].book]

(* and the library is not behind, or a session will list the sidecar that is not, *)
AheadOrListed == step \in {"off", "list", "reverse"} => \A b \in Book \ missed :
    \/ lib[b].currentPage >= furthest[b]
    \/ \E d \in Device : /\ file[d][NameOf[b]] # NoFile
                         /\ side[d][NameOf[b]] \in Label /\ side[d][NameOf[b]].book = b

(* or has listed it; *)
ListedOrMissed == step = "reverse" => \A n \in Name :
    file[dev][n] # NoFile /\ side[dev][n] \in Label =>
        listed[n] = side[dev][n] \/ side[dev][n].book \in missed

(* once it was taken over, neither the library nor the plan is behind. *)
TakenOver ==
    /\ step = "plan" \/ Active => \A b \in Book \ missed : lib[b].currentPage >= furthest[b]
    /\ Active => \A b \in Book \ missed : planned[b].currentPage >= furthest[b]

(* The types of the ghosts. *)
Counted == furthest \in [Book -> Nat] /\ missed \subseteq Book

ProgressInv == BaseInv /\ Counted /\ SidecarsAhead /\ AheadOrListed /\ ListedOrMissed /\ TakenOver

-----------------------------------------------------------------------------
(* Setting the current page of a label sets nothing else. *)
LEMMA OneLabel ==
  ASSUME NEW x \in Label, NEW k \in Nat
  PROVE [x EXCEPT !.meta.currentPage = k] =
          [book |-> x.book,
           meta |-> [pageCount |-> x.meta.pageCount, title |-> x.meta.title, currentPage |-> k]]
<1> DEFINE m == x.meta
<1>1. m \in Meta /\ x = [book |-> x.book, meta |-> m]
  BY DEF Label
<1>2. [m EXCEPT !.currentPage = k] = [pageCount |-> m.pageCount, title |-> m.title, currentPage |-> k]
  BY <1>1 DEF Meta
<1>3. [x EXCEPT !.meta.currentPage = k] = [x EXCEPT !.meta = [m EXCEPT !.currentPage = k]]
  BY <1>1
<1>4. [x EXCEPT !.meta = [m EXCEPT !.currentPage = k]] = [book |-> x.book, meta |-> [m EXCEPT !.currentPage = k]]
  BY <1>1
<1> QED
  BY <1>2, <1>3, <1>4

(* A turned page changes one sidecar, which keeps its book. *)
LEMMA PageTurned ==
  ASSUME WorldType, NEW d \in Device, NEW n \in Name, Read(d, n)
  PROVE \E y \in Label : /\ y.book = side[d][n].book /\ y.meta.currentPage = side[d][n].meta.currentPage + 1
                         /\ side' = [side EXCEPT ![d] = [side[d] EXCEPT ![n] = y]]
<1> DEFINE x == side[d][n]
           k == x.meta.currentPage + 1
           y == [book |-> x.book, meta |-> [pageCount |-> x.meta.pageCount, title |-> x.meta.title, currentPage |-> k]]
<1>1. x \in Label /\ k \in Nat
  BY DEF Read, Label, Meta
<1>2. y \in Label /\ y.book = x.book /\ y.meta.currentPage = x.meta.currentPage + 1
  BY <1>1 DEF Label, Meta
<1>3. [x EXCEPT !.meta.currentPage = @ + 1] = y
  BY <1>1, OneLabel
<1>4. side' = [side EXCEPT ![d] = [side[d] EXCEPT ![n] = [x EXCEPT !.meta.currentPage = @ + 1]]]
  BY DEF Read, WorldType
<1> HIDE DEF y
<1> QED
  BY <1>2, <1>3, <1>4

(* What a process starts with. *)
LEMMA BlankType == Blank \in [Book -> Meta]
BY DEF Blank, Meta

LEMMA InitBase == ASSUME MarksApart, Init PROVE BaseInv
BY BlankType DEF Init, BaseInv, WorldType, SessionType, StepFits, InPlace, Seen, JobsGood, Active, MarksApart,
   Steps, OpSteps, Job, NoJob

-----------------------------------------------------------------------------
(* What the plan is made of. *)
AddJob(b) == [type |-> "add", book |-> b, name |-> NameOf[b]]
PairJob(t, b, n) == [type |-> t, book |-> b, name |-> n]
DeleteJob(n) == [type |-> "delete", book |-> NoBook, name |-> n]

LEMMA PlanSets ==
  ASSUME NEW selected
  PROVE /\ \A j \in SyncPlan(selected) :
              \/ \E b \in selected : j = AddJob(b) /\ \A n \in Name : ~ OnDevice(b, n)
              \/ \E b \in selected, n \in Name : OnDevice(b, n) /\ \E t \in CompareBooks(b, n) : j = PairJob(t, b, n)
              \/ \E n \in Name : listed[n] # NoFile /\ j = DeleteJob(n) /\ \A b \in selected : ~ OnDevice(b, n)
        /\ \A b \in selected : (\A n \in Name : ~ OnDevice(b, n)) => AddJob(b) \in SyncPlan(selected)
        /\ \A b \in selected, n \in Name : OnDevice(b, n) =>
              \A t \in CompareBooks(b, n) : PairJob(t, b, n) \in SyncPlan(selected)
        /\ \A n \in Name : listed[n] # NoFile /\ (\A b \in selected : ~ OnDevice(b, n)) => DeleteJob(n) \in SyncPlan(selected)
<1> DEFINE adds == {[type |-> "add", book |-> b, name |-> NameOf[b]] : b \in {c \in selected : \A n \in Name : ~ OnDevice(c, n)}}
           pairs == {q \in selected \X Name : OnDevice(q[1], q[2])}
           of(p) == {[type |-> t, book |-> p[1], name |-> p[2]] : t \in CompareBooks(p[1], p[2])}
           compared == UNION {of(p) : p \in pairs}
           deletes == {[type |-> "delete", book |-> NoBook, name |-> n] : n \in {m \in Name : listed[m] # NoFile /\ \A b \in selected : ~ OnDevice(b, m)}}
<1>1. SyncPlan(selected) = adds \cup compared \cup deletes
  BY DEF SyncPlan
<1>2. \A j \in adds : \E b \in selected : j = AddJob(b) /\ \A n \in Name : ~ OnDevice(b, n)
  BY DEF AddJob
<1>3. ASSUME NEW j \in compared
      PROVE \E b \in selected, n \in Name : OnDevice(b, n) /\ \E t \in CompareBooks(b, n) : j = PairJob(t, b, n)
  <2>1. PICK p \in pairs : j \in of(p)
    OBVIOUS
  <2>2. p[1] \in selected /\ p[2] \in Name /\ OnDevice(p[1], p[2])
    OBVIOUS
  <2>3. \E t \in CompareBooks(p[1], p[2]) : j = PairJob(t, p[1], p[2])
    BY <2>1 DEF PairJob
  <2> QED
    BY <2>2, <2>3
<1>4. \A j \in deletes : \E n \in Name : listed[n] # NoFile /\ j = DeleteJob(n) /\ \A b \in selected : ~ OnDevice(b, n)
  BY DEF DeleteJob
<1>5. ASSUME NEW b \in selected, NEW n \in Name, OnDevice(b, n), NEW t \in CompareBooks(b, n)
      PROVE PairJob(t, b, n) \in compared
  <2>1. <<b, n>> \in pairs
    BY <1>5
  <2>2. PairJob(t, b, n) \in of(<<b, n>>)
    BY DEF PairJob
  <2> HIDE DEF pairs, of
  <2> QED
    BY <2>1, <2>2
<1>6. \A b \in selected : (\A n \in Name : ~ OnDevice(b, n)) => AddJob(b) \in adds
  BY DEF AddJob
<1>7. \A n \in Name : listed[n] # NoFile /\ (\A b \in selected : ~ OnDevice(b, n)) => DeleteJob(n) \in deletes
  BY DEF DeleteJob
<1> HIDE DEF adds, compared, deletes
<1> QED
  BY <1>1, <1>2, <1>3, <1>4, <1>5, <1>6, <1>7

(* Every operation of a plan is one for its book or file. *)
LEMMA PlanIsGood ==
  ASSUME BaseInv, step = "plan", ComputeSyncPlan, NEW j \in todo'
  PROVE j \in Job /\ Good(j)'
<1>1. PICK selected \in SUBSET Book : wanted' = selected /\ todo' = SyncPlan(selected) /\ planned' = lib /\ listed' = listed
  <2>1. want[dev] \subseteq Book
    BY DEF BaseInv, WorldType, SessionType
  <2> QED
    BY <2>1 DEF ComputeSyncPlan
<1>2. \A b, n : OnDevice(b, n)' <=> OnDevice(b, n)
  BY <1>1 DEF OnDevice
<1>3. CASE \E b \in selected : j = AddJob(b) /\ \A n \in Name : ~ OnDevice(b, n)
  BY <1>1, <1>2, <1>3, NameOfAssumption DEF AddJob, Job, Good
<1>4. CASE \E b \in selected, n \in Name : OnDevice(b, n) /\ \E t \in CompareBooks(b, n) : j = PairJob(t, b, n)
  <2>0. PICK b \in selected, n \in Name : OnDevice(b, n) /\ \E t \in CompareBooks(b, n) : j = PairJob(t, b, n)
    BY <1>4
  <2>1. PICK t \in CompareBooks(b, n) : OnDevice(b, n) /\ j = PairJob(t, b, n)
    BY <2>0
  <2>2. NameOf[b] = n
    BY <2>1 DEF BaseInv, InPlace, OnDevice
  <2>3. /\ t \in {"update", "meta"}
        /\ t = "update" => listed[n].meta.pageCount # lib[b].pageCount
        /\ t = "meta" => listed[n].meta.pageCount = lib[b].pageCount
    BY DEF CompareBooks
  <2> QED
    BY <1>1, <1>2, <2>1, <2>2, <2>3 DEF PairJob, Job, Good
<1>5. CASE \E n \in Name : listed[n] # NoFile /\ j = DeleteJob(n) /\ \A b \in selected : ~ OnDevice(b, n)
  BY <1>1, <1>2, <1>5 DEF DeleteJob, Job, Good
<1> QED
  BY <1>1, <1>3, <1>4, <1>5, PlanSets

-----------------------------------------------------------------------------
(* What an operation works on has a place. *)
LEMMA TargetPlace ==
  ASSUME BaseInv, step \in OpSteps
  PROVE /\ dev \in Device /\ job \in Job /\ Good(job) /\ Target \in Name
        /\ job.type = "delete" => Target = job.name
        /\ job.type # "delete" => job.book \in Book /\ job.book \in wanted /\ Target = NameOf[job.book] /\ job.name = Target
<1>1. dev \in Device /\ job \in Job
  BY DEF BaseInv, SessionType, OpSteps
<1>2. Good(job)
  BY DEF BaseInv, JobsGood, Active, Pending
<1>3. job.type \in {"add", "update", "meta", "delete"} /\ job.name \in Name
  BY <1>1 DEF Job
<1>4. job.type # "delete" => job.book \in Book /\ job.book \in wanted /\ job.name = NameOf[job.book]
  BY <1>2 DEF Good, BaseInv, SessionType
<1> QED
  BY <1>1, <1>2, <1>3, <1>4 DEF Target

(* What one write to the device changes. *)
LEMMA OneFile ==
  ASSUME WorldType, dev \in Device, NEW n \in Name, NEW to, SetFile(n, to)
  PROVE /\ to \in Content \cup {NoFile, Partial} => file' \in [Device -> [Name -> Content \cup {NoFile, Partial}]]
        /\ file'[dev][n] = to
        /\ \A m \in Name : m # n => file'[dev][m] = file[dev][m]
BY DEF WorldType, SetFile

LEMMA OneSide ==
  ASSUME WorldType, dev \in Device, NEW n \in Name, NEW to, SetSide(n, to)
  PROVE /\ to \in Label \cup {NoSidecar, Garbled} => side' \in [Device -> [Name -> Label \cup {NoSidecar, Garbled}]]
        /\ side'[dev][n] = to
        /\ \A m \in Name : m # n => side'[dev][m] = side[dev][m]
        /\ \A d \in Device, m \in Name : side'[d][m] # side[d][m] => d = dev /\ m = n
BY DEF WorldType, SetSide

(* How an operation goes on: to its next statement, to its failure or to its end. *)
GoesOn ==
    /\ UNCHANGED <<todo, job, planVars, dev>>
    /\ \/ step' = "next" /\ redone' = redone /\ errs' = errs
          /\ written' = IF job.type \in {"add", "update"} THEN written \cup {NameOf[job.book]} ELSE written
       \/ step' = "next" /\ errs' /\ errs' \in BOOLEAN /\ UNCHANGED <<redone, written>>
       \/ step' \in OpSteps /\ redone' \in BOOLEAN /\ UNCHANGED <<errs, written>>

(* What such a step leaves as it is. *)
LEMMA OperationGoesOn ==
  ASSUME BaseInv, step \in OpSteps, GoesOn
  PROVE /\ SessionType' /\ JobsGood' /\ Active' /\ Seen'
        /\ Pending' \subseteq Pending
<1>1. SessionType'
  <2>1. job.type \in {"add", "update"} => NameOf[job.book] \in Name
    BY TargetPlace, NameOfAssumption
  <2> QED
    BY <2>1 DEF GoesOn, BaseInv, SessionType, OpSteps, Steps, planVars
<1>2. Active' /\ Pending' \subseteq Pending
  BY DEF GoesOn, Active, Pending
<1>3. \A j : Good(j)' <=> Good(j)
  BY DEF GoesOn, planVars, Good, OnDevice
<1>4. JobsGood'
  BY <1>2, <1>3 DEF BaseInv, JobsGood, Active
<1>5. Seen'
  BY DEF GoesOn, Seen, OpSteps
<1> QED
  BY <1>1, <1>2, <1>4, <1>5

(* What the commands have in common. *)
Command ==
    \/ DeleteArchive \/ DeleteSidecar \/ FileExists \/ DeleteExisting
    \/ WriteArchive \/ WriteSidecar \/ RedoOperation \/ SkipOperation

(* Every command is a step of an operation and goes on in one of these ways. *)
LEMMA CommandGoesOn ==
  ASSUME BaseInv, Command
  PROVE step \in OpSteps /\ GoesOn /\ UNCHANGED <<lib, want, info>> /\ StepFits'
<1>1. step \in OpSteps
  BY DEF Command, DeleteArchive, DeleteSidecar, FileExists, DeleteExisting, WriteArchive, WriteSidecar, RedoOperation,
     SkipOperation, OpSteps
<1>2. job \in Job /\ job.type \in {"add", "update", "meta", "delete"}
  BY <1>1, TargetPlace DEF Job
<1> DEFINE same == UNCHANGED <<lib, want, info>>
<1>3. ASSUME opFrame' = opFrame PROVE same /\ UNCHANGED <<planVars, dev>>
  BY <1>3 DEF opFrame
<1>4. CASE DeleteArchive
  BY <1>1, <1>2, <1>3, <1>4 DEF DeleteArchive, Proceed, Fail, GoesOn, opVars, OpSteps, StepFits, BaseInv, SessionType
<1>5. CASE DeleteSidecar
  BY <1>1, <1>2, <1>3, <1>5 DEF DeleteSidecar, Succeed, GoesOn, opVars, OpSteps, StepFits, BaseInv, SessionType
<1>6. CASE FileExists
  BY <1>1, <1>2, <1>3, <1>6 DEF FileExists, Proceed, Fail, GoesOn, opVars, OpSteps, StepFits, BaseInv, SessionType
<1>7. CASE DeleteExisting
  BY <1>1, <1>2, <1>3, <1>7 DEF DeleteExisting, Proceed, Fail, GoesOn, opVars, OpSteps, StepFits, BaseInv, SessionType
<1>8. CASE WriteArchive
  BY <1>1, <1>2, <1>3, <1>8 DEF WriteArchive, Proceed, Fail, GoesOn, opVars, OpSteps, StepFits, BaseInv, SessionType
<1>9. CASE WriteSidecar
  BY <1>1, <1>2, <1>3, <1>9 DEF WriteSidecar, Succeed, Fail, GoesOn, opVars, OpSteps, StepFits, BaseInv, SessionType
<1>10. CASE RedoOperation
  <2>1. FirstStep(job) \in OpSteps /\ StepFits'
    BY <1>2, <1>10 DEF RedoOperation, FirstStep, OpSteps, StepFits
  <2> QED
    BY <1>1, <1>3, <1>10, <2>1 DEF RedoOperation, GoesOn
<1>11. CASE SkipOperation
  BY <1>1, <1>2, <1>3, <1>11 DEF SkipOperation, GoesOn, OpSteps, StepFits
<1> QED
  BY <1>4, <1>5, <1>6, <1>7, <1>8, <1>9, <1>10, <1>11 DEF Command

(* Where the commands write. *)
LEMMA CommandWrites ==
  ASSUME BaseInv, Command
  PROVE /\ \A n \in Name : n # Target => file'[dev][n] = file[dev][n] /\ side'[dev][n] = side[dev][n]
        /\ \A d \in Device, n \in Name : side'[d][n] # side[d][n] => d = dev /\ n = Target
        /\ file' # file => job.type \in {"add", "update", "delete"}
        /\ side'[dev][Target] = side[dev][Target]
           \/ side'[dev][Target] \in {NoSidecar, Garbled}
           \/ (job.type # "delete" /\ side'[dev][Target] = [book |-> job.book, meta |-> planned[job.book]])
        /\ file' \in [Device -> [Name -> Content \cup {NoFile, Partial}]]
        /\ side' \in [Device -> [Name -> Label \cup {NoSidecar, Garbled}]]
<1>1. step \in OpSteps
  BY CommandGoesOn
<1>2. WorldType /\ StepFits /\ dev \in Device /\ Target \in Name
  BY <1>1, TargetPlace DEF BaseInv
<1>3. /\ job.type = "delete" => Target = job.name
      /\ job.type # "delete" => job.name = Target /\ job.book \in Book
      /\ job.type \in {"add", "update", "meta", "delete"}
  BY <1>1, TargetPlace DEF Job
<1>4. CASE DeleteArchive
  <2>1. UNCHANGED side /\ job.type \in {"update", "delete"}
    BY <1>2, <1>4 DEF DeleteArchive, StepFits
  <2>2. UNCHANGED file \/ SetFile(Target, NoFile)
    BY <1>3, <1>4 DEF DeleteArchive
  <2> QED
    BY <1>2, <1>3, <2>1, <2>2, OneFile DEF WorldType
<1>5. CASE DeleteSidecar
  <2>1. UNCHANGED file
    BY <1>5 DEF DeleteSidecar
  <2>2. UNCHANGED side \/ SetSide(Target, NoSidecar)
    BY <1>3, <1>5 DEF DeleteSidecar
  <2> QED
    BY <1>2, <2>1, <2>2, OneSide DEF WorldType
<1>6. CASE FileExists \/ RedoOperation \/ SkipOperation
  <2>1. UNCHANGED <<file, side>>
    BY <1>6 DEF FileExists, RedoOperation, SkipOperation
  <2> QED
    BY <1>2, <2>1 DEF WorldType
<1>7. CASE DeleteExisting
  <2>1. UNCHANGED side /\ job.type \in {"add", "update"} /\ (UNCHANGED file \/ SetFile(Target, NoFile))
    BY <1>2, <1>7 DEF DeleteExisting, StepFits
  <2> QED
    BY <1>2, <2>1, OneFile DEF WorldType
<1>8. CASE WriteArchive
  <2> DEFINE whole == [book |-> job.book, pageCount |-> lib[job.book].pageCount]
  <2>1. UNCHANGED side /\ job.type \in {"add", "update"}
    BY <1>2, <1>8 DEF WriteArchive, StepFits
  <2>2. UNCHANGED file \/ SetFile(Target, Partial) \/ SetFile(Target, whole)
    BY <1>8 DEF WriteArchive
  <2>3. whole \in Content
    BY <1>2, <1>3, <2>1 DEF WorldType, Meta, Content
  <2> HIDE DEF whole
  <2> QED
    BY <1>2, <2>1, <2>2, <2>3, OneFile DEF WorldType
<1>9. CASE WriteSidecar
  <2> DEFINE label == [book |-> job.book, meta |-> planned[job.book]]
  <2>1. UNCHANGED file /\ job.type # "delete"
    BY <1>2, <1>9 DEF WriteSidecar, StepFits
  <2>2. UNCHANGED side \/ SetSide(Target, Garbled) \/ SetSide(Target, label)
    BY <1>3, <1>9, <2>1 DEF WriteSidecar
  <2>3. label \in Label
    BY <1>3, <2>1 DEF BaseInv, SessionType, Label
  <2> QED
    BY <1>2, <2>1, <2>2, <2>3, OneSide DEF WorldType
<1> QED
  BY <1>4, <1>5, <1>6, <1>7, <1>8, <1>9 DEF Command

(* No command disturbs the base. *)
LEMMA CommandKeepsBase == ASSUME MarksApart, BaseInv, Command PROVE BaseInv'
<1>1. step \in OpSteps /\ UNCHANGED <<lib, want, info, planVars, dev>> /\ StepFits'
  BY CommandGoesOn DEF GoesOn
<1>2. SessionType' /\ JobsGood' /\ Seen'
  BY CommandGoesOn, OperationGoesOn
<1>3. WorldType'
  BY <1>1, CommandWrites DEF BaseInv, WorldType
<1>4. InPlace'
  <2>1. ASSUME NEW d \in Device, NEW n \in Name, side'[d][n] \in Label
        PROVE NameOf[side'[d][n].book] = n
    <3>1. CASE side'[d][n] = side[d][n]
      BY <2>1, <3>1 DEF BaseInv, InPlace
    <3>2. CASE side'[d][n] # side[d][n]
      <4>1. d = dev /\ n = Target
        BY <3>2, CommandWrites
      <4>2. job.type # "delete" /\ side'[d][n] = [book |-> job.book, meta |-> planned[job.book]]
        BY <2>1, <3>2, <4>1, CommandWrites DEF MarksApart
      <4> QED
        BY <1>1, <4>1, <4>2, TargetPlace
    <3> QED
      BY <3>1, <3>2
  <2>2. \A n \in Name : listed'[n] \in Label => NameOf[listed'[n].book] = n
    BY <1>1 DEF BaseInv, InPlace, planVars
  <2> QED
    BY <2>1, <2>2 DEF InPlace
<1> QED
  BY <1>1, <1>2, <1>3, <1>4 DEF BaseInv

-----------------------------------------------------------------------------
(* No step does. *)
LEMMA BaseStep == ASSUME MarksApart, BaseInv, [Next]_vars PROVE BaseInv'
<1>a. UNCHANGED <<lib, want, deviceVars>> => WorldType'
  BY DEF BaseInv, WorldType, deviceVars
<1>b. UNCHANGED <<dev, step, planVars, opVars>> => SessionType' /\ StepFits' /\ JobsGood'
  <2> SUFFICES ASSUME UNCHANGED <<dev, step, planVars, opVars>> PROVE SessionType' /\ StepFits' /\ JobsGood'
    OBVIOUS
  <2>1. \A j : Good(j)' <=> Good(j)
    BY DEF planVars, Good, OnDevice
  <2> QED
    BY <2>1 DEF BaseInv, SessionType, StepFits, JobsGood, Active, Pending, planVars, opVars
<1>c. EndSession => SessionType' /\ StepFits' /\ JobsGood' /\ Seen' /\ \A n \in Name : listed'[n] = NoFile
  BY BlankType DEF EndSession, SessionType, StepFits, JobsGood, Active, Seen, Steps, OpSteps
<1>d. UNCHANGED <<side, listed>> => InPlace'
  BY DEF BaseInv, InPlace
<1>e. UNCHANGED side /\ EndSession => InPlace'
  BY <1>c DEF BaseInv, InPlace, MarksApart
<1>g. UNCHANGED <<dev, step, listed, file, side>> => Seen'
  BY DEF BaseInv, Seen
<1>1. ASSUME NEW d \in Device, BeginSession(d) PROVE BaseInv'
  <2>1. SessionType' /\ StepFits' /\ JobsGood' /\ Seen'
    BY <1>1 DEF BeginSession, BaseInv, SessionType, StepFits, JobsGood, Active, Seen, Steps, OpSteps, planVars, opVars
  <2> QED
    BY <1>1, <2>1, <1>a, <1>d DEF BeginSession, BaseInv, deviceVars, planVars
<1>2. CASE Interrupt
  BY <1>2, <1>a, <1>c, <1>e DEF Interrupt, BaseInv, deviceVars
<1>3. CASE FinishSession
  <2>1. WorldType'
    BY <1>3 DEF FinishSession, BaseInv, WorldType, SessionType
  <2> QED
    BY <1>3, <2>1, <1>c, <1>e DEF FinishSession, BaseInv
<1>4. ASSUME NEW b \in Book, EditBook(b) PROVE BaseInv'
  <2>1. lib' \in [Book -> Meta]
    <3>1. lib[b] \in Meta
      BY DEF BaseInv, WorldType
    <3>2. /\ [lib[b] EXCEPT !.pageCount = @ + 1] \in Meta
          /\ [lib[b] EXCEPT !.title = @ + 1] \in Meta
      BY <3>1 DEF Meta
    <3>3. \/ lib' = [lib EXCEPT ![b] = [lib[b] EXCEPT !.pageCount = @ + 1]]
          \/ lib' = [lib EXCEPT ![b] = [lib[b] EXCEPT !.title = @ + 1]]
      BY <1>4, <3>1 DEF EditBook, BaseInv, WorldType
    <3> QED
      BY <3>2, <3>3 DEF BaseInv, WorldType
  <2>2. WorldType'
    BY <1>4, <2>1 DEF EditBook, BaseInv, WorldType, deviceVars
  <2> QED
    BY <1>4, <2>2, <1>b, <1>d, <1>g DEF EditBook, BaseInv, deviceVars, planVars
<1>5. ASSUME NEW d \in Device, NEW b \in Book, Reassign(d, b) PROVE BaseInv'
  <2>1. WorldType'
    BY <1>5 DEF Reassign, BaseInv, WorldType, deviceVars
  <2> QED
    BY <1>5, <2>1, <1>b, <1>d, <1>g DEF Reassign, BaseInv, deviceVars, planVars
<1>6. ASSUME NEW d \in Device, NEW n \in Name, Read(d, n) PROVE BaseInv'
  <2>1. PICK y \in Label : y.book = side[d][n].book /\ side' = [side EXCEPT ![d] = [side[d] EXCEPT ![n] = y]]
    BY <1>6, PageTurned DEF BaseInv
  <2>2. WorldType'
    <3>1. side \in [Device -> [Name -> Label \cup {NoSidecar, Garbled}]]
      BY DEF BaseInv, WorldType
    <3>2. side' \in [Device -> [Name -> Label \cup {NoSidecar, Garbled}]]
      BY <2>1, <3>1
    <3> QED
      BY <1>6, <3>2 DEF Read, BaseInv, WorldType
  <2>3. \A e \in Device, m \in Name : side'[e][m] = side[e][m] \/ (side'[e][m] = y /\ m = n /\ e = d)
    BY <2>1 DEF BaseInv, WorldType
  <2>4. InPlace'
    BY <1>6, <2>1, <2>3 DEF Read, BaseInv, InPlace, planVars
  <2>5. Seen'
    BY <1>6, <2>3 DEF Read, BaseInv, SessionType, Seen, planVars
  <2> QED
    BY <1>6, <2>2, <2>4, <2>5, <1>b DEF Read, BaseInv
<1>7. CASE GetDeviceBooks
  <2>1. PICK unread \in SUBSET {n \in Name : ReadSidecar(n) \in Label} :
           LET books == [n \in Name |-> IF n \in unread THEN Garbled ELSE ReadSidecar(n)]
           IN  IF Refused(books) THEN EndSession
               ELSE listed' = books /\ step' = "reverse" /\ UNCHANGED <<dev, wanted, planned, opVars>>
    BY <1>7 DEF GetDeviceBooks
  <2>2. UNCHANGED <<lib, want, deviceVars>> /\ step = "list"
    BY <1>7 DEF GetDeviceBooks
  <2>3. CASE EndSession
    BY <2>2, <2>3, <1>a, <1>c, <1>e DEF BaseInv, deviceVars
  <2>4. CASE /\ listed' = [n \in Name |-> IF n \in unread THEN Garbled ELSE ReadSidecar(n)]
             /\ step' = "reverse" /\ UNCHANGED <<dev, wanted, planned, opVars>>
    <3>1. dev \in Device
      BY <2>2 DEF BaseInv, SessionType
    <3>2. \A n \in Name : /\ ReadSidecar(n) \in Label \cup {NoFile, Garbled}
                          /\ ReadSidecar(n) = NoFile <=> file[dev][n] = NoFile
                          /\ ReadSidecar(n) \in Label => ReadSidecar(n) = side[dev][n]
      BY <3>1 DEF MarksApart, ReadSidecar
    <3>3. \A n \in Name : /\ listed'[n] \in Label \cup {NoFile, Garbled}
                          /\ listed'[n] = NoFile <=> file[dev][n] = NoFile
                          /\ listed'[n] \in Label => listed'[n] = side[dev][n]
      <4>1. ASSUME NEW n \in Name, n \in unread PROVE listed'[n] = Garbled /\ file[dev][n] # NoFile
        BY <2>4, <3>2, <4>1 DEF MarksApart
      <4>2. ASSUME NEW n \in Name, n \notin unread PROVE listed'[n] = ReadSidecar(n)
        BY <2>4, <4>2
      <4> QED
        BY <3>2, <4>1, <4>2 DEF MarksApart
    <3>4. SessionType' /\ StepFits' /\ JobsGood'
      BY <2>2, <2>4, <3>1, <3>3 DEF BaseInv, SessionType, StepFits, JobsGood, Active, Steps, OpSteps, opVars
    <3>5. Seen' /\ InPlace'
      BY <2>2, <2>4, <3>1, <3>3 DEF BaseInv, Seen, InPlace, deviceVars
    <3> QED
      BY <2>2, <3>4, <3>5, <1>a DEF BaseInv
  <2> QED
    BY <2>1, <2>3, <2>4
<1>8. CASE UpdateLibraryReadingState
  <2>1. lib' \in [Book -> Meta]
    <3> DEFINE taken == {n \in Name : listed[n] \in Label}
               from(b) == {n \in taken : listed[n].book = b}
               page(b) == listed[CHOOSE n \in from(b) : TRUE].meta.currentPage
    <3>1. ASSUME NEW b \in Book, from(b) # {} PROVE page(b) \in Nat
      <4>1. (CHOOSE n \in from(b) : TRUE) \in from(b)
        BY <3>1
      <4> QED
        BY <4>1 DEF Label, Meta
    <3>2. \A m \in Meta, k \in Nat : [m EXCEPT !.currentPage = k] \in Meta
      BY DEF Meta
    <3>3. \/ lib' = [b \in Book |-> IF from(b) = {} THEN lib[b] ELSE [lib[b] EXCEPT !.currentPage = page(b)]]
          \/ UNCHANGED lib
      BY <1>8 DEF UpdateLibraryReadingState
    <3>4. \A b \in Book : lib[b] \in Meta
      BY DEF BaseInv, WorldType
    <3> HIDE DEF from, page
    <3>5. \A b \in Book : from(b) # {} => [lib[b] EXCEPT !.currentPage = page(b)] \in Meta
      BY <3>1, <3>2, <3>4
    <3> QED
      BY <3>3, <3>4, <3>5 DEF BaseInv, WorldType
  <2>2. SessionType' /\ StepFits' /\ JobsGood' /\ Seen'
    BY <1>8 DEF UpdateLibraryReadingState, BaseInv, SessionType, StepFits, JobsGood, Active, Seen, Steps, OpSteps,
       planVars, opVars, deviceVars
  <2>3. WorldType'
    BY <1>8, <2>1 DEF UpdateLibraryReadingState, BaseInv, WorldType, deviceVars
  <2> QED
    BY <1>8, <2>2, <2>3, <1>d DEF UpdateLibraryReadingState, BaseInv, deviceVars, planVars
<1>9. CASE ComputeSyncPlan
  <2>1. /\ step = "plan" /\ step' = "next" /\ planned' = lib /\ UNCHANGED <<dev, listed, job, redone, errs, written>>
        /\ UNCHANGED <<lib, want, deviceVars>>
    BY <1>9 DEF ComputeSyncPlan
  <2>2. \A j \in todo' : j \in Job /\ Good(j)'
    BY <1>9, <2>1, PlanIsGood
  <2>3. dev \in Device /\ wanted' \in SUBSET Book /\ planned' \in [Book -> Meta]
    <3>1. dev \in Device
      BY <2>1 DEF BaseInv, SessionType
    <3>2. wanted' \subseteq want[dev]
      BY <1>9 DEF ComputeSyncPlan
    <3> QED
      BY <2>1, <3>1, <3>2 DEF BaseInv, WorldType
  <2>4. SessionType' /\ StepFits' /\ Seen'
    BY <2>1, <2>2, <2>3 DEF BaseInv, SessionType, StepFits, Seen, Steps, OpSteps
  <2>5. JobsGood'
    BY <2>1, <2>2 DEF JobsGood, Pending, OpSteps
  <2> QED
    BY <2>1, <2>4, <2>5, <1>a, <1>d DEF BaseInv, deviceVars
<1>10. ASSUME NEW j \in todo, NextOperation(j) PROVE BaseInv'
  <2>1. j \in Job /\ Good(j) /\ dev \in Device
    BY <1>10 DEF NextOperation, BaseInv, SessionType, JobsGood, Active, Pending
  <2>2. /\ FirstStep(j) \in OpSteps \cap Steps
        /\ FirstStep(j) \in {"exists", "clear", "send"} => j.type \in {"add", "update"}
        /\ FirstStep(j) \in {"unlink", "unlabel"} => j.type \in {"update", "delete"}
        /\ FirstStep(j) = "label" => j.type \in {"add", "update", "meta"}
    BY <2>1 DEF FirstStep, Job, OpSteps, Steps
  <2>3. SessionType' /\ StepFits'
    BY <1>10, <2>1, <2>2 DEF NextOperation, BaseInv, SessionType, StepFits, planVars
  <2>4. \A i : Good(i)' <=> Good(i)
    BY <1>10 DEF NextOperation, planVars, Good, OnDevice
  <2>5. Pending' \subseteq Pending /\ step = "next"
    BY <1>10 DEF NextOperation, Pending, OpSteps
  <2>6. JobsGood'
    BY <2>4, <2>5 DEF BaseInv, JobsGood, Active
  <2>7. Seen'
    BY <1>10, <2>2, <2>5 DEF NextOperation, Seen, OpSteps
  <2> QED
    BY <1>10, <2>3, <2>6, <2>7, <1>a, <1>d DEF NextOperation, BaseInv, planVars, deviceVars
<1>11. CASE Command
  BY <1>11, CommandKeepsBase
<1>12. CASE UNCHANGED vars
  BY <1>12, <1>a, <1>b, <1>d, <1>g DEF vars, BaseInv, deviceVars, planVars
<1> QED
  BY <1>1, <1>2, <1>3, <1>4, <1>5, <1>6, <1>7, <1>8, <1>9, <1>10, <1>11, <1>12 DEF Next, SessionStep, Command

-----------------------------------------------------------------------------
(* Only commands change an archive. *)
LEMMA OthersKeepFiles == ASSUME [Next]_vars, ~ Command PROVE UNCHANGED file
BY DEF Next, SessionStep, Command, vars, deviceVars, BeginSession, Interrupt, EditBook, Reassign, Read, GetDeviceBooks,
   UpdateLibraryReadingState, ComputeSyncPlan, NextOperation, FinishSession

(* A copy that matches the plan is the target of no operation that touches archives. *)
LEMMA GoodCopiesStay ==
  ASSUME MarksApart, OneNameEach, BaseInv, [Next]_vars, NEW n \in Name,
         listed[n] \in Label, listed[n].book \in wanted,
         listed[n].meta.pageCount = planned[listed[n].book].pageCount
  PROVE file'[dev][n] = file[dev][n]
<1>1. CASE ~ Command
  BY <1>1, OthersKeepFiles
<1>2. CASE Command /\ (n # Target \/ job.type = "meta")
  BY <1>2, CommandWrites
<1>3. CASE Command /\ n = Target /\ job.type # "meta"
  <2>1. /\ job \in Job /\ Good(job)
        /\ job.type = "delete" => n = job.name
        /\ job.type # "delete" => job.book \in Book /\ n = NameOf[job.book] /\ job.name = n
    BY <1>3, CommandGoesOn, TargetPlace
  <2>2. OnDevice(listed[n].book, n) /\ listed[n].book \in Book /\ n = NameOf[listed[n].book]
    BY DEF OnDevice, Label, BaseInv, InPlace
  <2>3. job.type # "delete"
    BY <2>1, <2>2 DEF Good
  <2>4. job.book = listed[n].book
    BY <2>1, <2>2, <2>3 DEF OneNameEach
  <2>5. job.type \in {"add", "update"}
    BY <1>3, <2>1, <2>3 DEF Job
  <2> QED
    BY <2>1, <2>2, <2>4, <2>5 DEF Good
<1> QED
  BY <1>1, <1>2, <1>3

(* Whatever is wanted and was found as planned, no step of a session touches its *)
(* archive, for any books and devices, if no two books share a file name.        *)
THEOREM GoodCopiesKept == ASSUME MarksApart, OneNameEach PROVE Spec => KeepsGoodCopies
<1>1. Init => BaseInv
  BY InitBase
<1>2. BaseInv /\ [Next]_vars => BaseInv'
  BY BaseStep
<1> DEFINE Same == \A n \in Name :
             (/\ listed[n] \in Label /\ listed[n].book \in wanted
              /\ listed[n].meta.pageCount = planned[listed[n].book].pageCount)
             => file'[dev][n] = file[dev][n]
<1>3. BaseInv /\ [Next]_vars => [Same]_vars
  BY GoodCopiesStay
<1>4. Spec => [][Same]_vars
  <2> HIDE DEF Same
  <2> QED
    BY <1>1, <1>2, <1>3, PTL DEF Spec
<1> QED
  BY <1>4 DEF KeepsGoodCopies

-----------------------------------------------------------------------------
(* Two operations for one book are the same. *)
LEMMA OnePerBook ==
  ASSUME BaseInv, Active, NEW i \in Pending, NEW j \in Pending, i.book = j.book, i.type # "delete", j.type # "delete"
  PROVE i = j
<1>1. i \in Job /\ j \in Job /\ Good(i) /\ Good(j)
  BY DEF BaseInv, SessionType, JobsGood, Pending
<1>2. i.type = j.type
  BY <1>1 DEF Good, Job, BaseInv, SessionType
<1>3. i.name = j.name
  BY <1>1 DEF Good
<1> QED
  BY <1>1, <1>2, <1>3 DEF Job

(* An operation works on no name that belongs to another one, or to a book that is done. *)
LEMMA OwnName ==
  ASSUME MarksApart, OneNameEach, BaseInv, Active, DoneIsThere, Underway, step \in OpSteps
  PROVE /\ \A b \in wanted : ~ Waits(b) => NameOf[b] # Target
        /\ \A j \in Pending : j.type = "meta" /\ j # job => j.name # Target
<1>1. wanted \subseteq Book /\ job \in Pending /\ NoBook \notin Book
  BY DEF BaseInv, SessionType, Pending, MarksApart
<1>2. /\ Good(job)
      /\ job.type = "delete" => Target = job.name
      /\ job.type # "delete" => job.book \in Book /\ Target = NameOf[job.book]
  BY TargetPlace
<1>3. ASSUME NEW b \in wanted, ~ Waits(b), NameOf[b] = Target PROVE FALSE
  <2>1. CASE job.type = "delete"
    BY <1>2, <1>3, <2>1 DEF Good, DoneIsThere, Underway
  <2>2. CASE job.type # "delete"
    BY <1>1, <1>2, <1>3, <2>2 DEF OneNameEach, Waits
  <2> QED
    BY <2>1, <2>2
<1>4. ASSUME NEW j \in Pending, j.type = "meta", j # job, j.name = Target PROVE FALSE
  <2>1. Good(j) /\ j.book \in wanted /\ j.name = NameOf[j.book] /\ OnDevice(j.book, j.name)
    BY <1>4 DEF BaseInv, JobsGood, Good
  <2>2. CASE job.type = "delete"
    BY <1>2, <1>4, <2>1, <2>2 DEF Good
  <2>3. CASE job.type # "delete"
    <3>1. j.book = job.book
      BY <1>1, <1>2, <1>4, <2>1, <2>3 DEF OneNameEach
    <3> QED
      BY <1>1, <1>4, <2>3, <3>1, OnePerBook
  <2> QED
    BY <2>2, <2>3
<1> QED
  BY <1>3, <1>4

-----------------------------------------------------------------------------
(* What a fresh plan promises. *)
LEMMA PlanKeeps ==
  ASSUME MarksApart, BaseInv, NothingWritten, ComputeSyncPlan
  PROVE DoneIsThere' /\ NothingElse' /\ WrittenWanted' /\ Underway'
<1>1. /\ step = "plan" /\ step' = "next" /\ planned' = lib /\ listed' = listed /\ dev' = dev
      /\ UNCHANGED <<file, side, job>> /\ written' = {}
  BY DEF ComputeSyncPlan, deviceVars, NothingWritten
<1>2. PICK selected \in SUBSET Book : wanted' = selected /\ todo' = SyncPlan(selected)
  <2>1. dev \in Device
    BY <1>1 DEF BaseInv, SessionType
  <2>2. want[dev] \subseteq Book
    BY <2>1 DEF BaseInv, WorldType
  <2> QED
    BY <2>2 DEF ComputeSyncPlan
<1>3. Pending' = SyncPlan(selected)
  BY <1>1, <1>2 DEF Pending, OpSteps
<1>4. \A n \in Name : /\ listed[n] = NoFile <=> file[dev][n] = NoFile
                      /\ listed[n] \in Label => listed[n] = side[dev][n] /\ NameOf[listed[n].book] = n
  BY <1>1 DEF BaseInv, Seen, InPlace
<1>5. \A b, n : OnDevice(b, n)' <=> OnDevice(b, n)
  BY <1>1 DEF OnDevice
<1>6. DoneIsThere'
  <2> SUFFICES ASSUME NEW b \in selected, ~ Waits(b)'
               PROVE Labelled(dev, b, planned[b])' /\ OnDevice(b, NameOf[b])'
    BY <1>2 DEF DoneIsThere
  <2>1. \A j \in SyncPlan(selected) : j.book # b
    BY <1>3 DEF Waits
  <2>2. PICK n \in Name : OnDevice(b, n)
    <3>1. (\A n \in Name : ~ OnDevice(b, n)) => AddJob(b) \in SyncPlan(selected)
      BY PlanSets
    <3>2. AddJob(b).book = b
      BY DEF AddJob
    <3> QED
      BY <2>1, <3>1, <3>2
  <2>3. CompareBooks(b, n) = {}
    <3>1. \A t \in CompareBooks(b, n) : PairJob(t, b, n) \in SyncPlan(selected)
      BY <2>2, PlanSets
    <3>2. \A t : PairJob(t, b, n).book = b
      BY DEF PairJob
    <3> QED
      BY <2>1, <3>1, <3>2
  <2>4. listed[n].meta = lib[b]
    BY <2>3 DEF CompareBooks
  <2>5. NameOf[b] = n /\ listed[n] = [book |-> b, meta |-> lib[b]] /\ side[dev][n] = listed[n]
    BY <1>4, <2>2, <2>4 DEF OnDevice, Label
  <2>6. file[dev][n] # NoFile
    BY <1>4, <2>2 DEF OnDevice, MarksApart
  <2> QED
    BY <1>1, <1>5, <2>2, <2>5, <2>6 DEF Labelled
<1>7. NothingElse'
  <2> SUFFICES ASSUME NEW n \in Name, file[dev][n] # NoFile
               PROVE \/ \E b \in selected : n = NameOf[b]
                     \/ \E j \in SyncPlan(selected) : j.type = "delete" /\ j.name = n
    BY <1>1, <1>2, <1>3 DEF NothingElse
  <2>1. CASE \E b \in selected : OnDevice(b, n)
    BY <1>4, <2>1 DEF OnDevice
  <2>2. CASE \A b \in selected : ~ OnDevice(b, n)
    <3>1. DeleteJob(n) \in SyncPlan(selected)
      BY <1>4, <2>2, PlanSets
    <3> QED
      BY <3>1 DEF DeleteJob
  <2> QED
    BY <2>1, <2>2
<1>8. WrittenWanted'
  BY <1>1 DEF WrittenWanted
<1>9. Underway'
  <2>1. ASSUME NEW j \in SyncPlan(selected), j.type = "meta" PROVE file[dev][j.name] # NoFile
    <3>1. j \in Job /\ Good(j)'
      BY <1>1, <1>2, <2>1, PlanIsGood
    <3>2. listed[j.name] \in Label
      BY <1>1, <2>1, <3>1 DEF Good, OnDevice
    <3> QED
      BY <1>4, <3>1, <3>2 DEF Job, MarksApart
  <2> QED
    BY <1>1, <1>3, <2>1 DEF Underway, OpSteps
<1> QED
  BY <1>6, <1>7, <1>8, <1>9

(* Taking the next operation: it moves from todo to job, or is a delete of what was written. *)
LEMMA NextKeeps ==
  ASSUME MarksApart, BaseInv, DoneIsThere, NothingElse, WrittenWanted, Underway, NEW j \in todo, NextOperation(j)
  PROVE DoneIsThere' /\ NothingElse' /\ WrittenWanted' /\ Underway'
<1>1. /\ step = "next" /\ todo' = todo \ {j} /\ UNCHANGED <<written, dev, planned, wanted, listed, file, side>>
      /\ IF j.type = "delete" /\ j.name \in written THEN UNCHANGED <<step, job>> ELSE step' = FirstStep(j) /\ job' = j
  BY DEF NextOperation, planVars, deviceVars
<1>2. j \in Job /\ Good(j) /\ Pending = todo
  BY <1>1 DEF BaseInv, SessionType, JobsGood, Active, Pending, OpSteps
<1>3. /\ \A b : Labelled(dev, b, planned[b])' <=> Labelled(dev, b, planned[b])
      /\ \A b, n : OnDevice(b, n)' <=> OnDevice(b, n)
  BY <1>1 DEF Labelled, OnDevice
<1>4. WrittenWanted'
  BY <1>1 DEF WrittenWanted
<1>5. CASE j.type = "delete" /\ j.name \in written
  <2>1. Pending' = todo \ {j} /\ step' = "next"
    BY <1>1, <1>5 DEF Pending, OpSteps
  <2>2. \A b \in wanted : Waits(b)' <=> Waits(b)
    <3>1. \A b \in wanted : b # j.book
      BY <1>2, <1>5 DEF Good, MarksApart, BaseInv, SessionType
    <3> QED
      BY <1>2, <2>1, <3>1 DEF Waits
  <2>3. DoneIsThere'
    BY <1>1, <1>3, <2>2 DEF DoneIsThere
  <2>4. NothingElse'
    BY <1>1, <1>2, <1>5, <2>1 DEF NothingElse, WrittenWanted
  <2>5. Underway'
    BY <1>1, <1>2, <2>1 DEF Underway, OpSteps
  <2> QED
    BY <1>4, <2>3, <2>4, <2>5
<1>6. CASE ~ (j.type = "delete" /\ j.name \in written)
  <2>1. job' = j /\ step' = FirstStep(j)
    BY <1>1, <1>6
  <2>2. step' \in OpSteps /\ step' # "unlabel" /\ (step' = "label" => j.type = "meta")
    BY <1>2, <2>1 DEF FirstStep, OpSteps, Job
  <2>3. Pending' = Pending
    BY <1>1, <1>2, <2>1, <2>2 DEF Pending
  <2>4. DoneIsThere'
    BY <1>1, <1>3, <2>3 DEF DoneIsThere, Waits
  <2>5. NothingElse'
    BY <1>1, <2>3 DEF NothingElse
  <2>6. j.type = "meta" => Target' = j.name
    BY <1>2, <2>1 DEF Target, Good
  <2>7. Underway'
    BY <1>1, <1>2, <1>6, <2>1, <2>2, <2>3, <2>6 DEF Underway
  <2> QED
    BY <1>4, <2>4, <2>5, <2>7
<1> QED
  BY <1>5, <1>6

-----------------------------------------------------------------------------
(* How far a command has come when it goes on without an error. *)
LEMMA CommandEnds ==
  ASSUME MarksApart, BaseInv, Command, ~ errs'
  PROVE /\ step' = "next" =>
             \/ step = "unlabel" /\ job.type = "delete" /\ file' = file
             \/ /\ step = "label" /\ job.type # "delete" /\ file' = file
                /\ side'[dev][Target] = [book |-> job.book, meta |-> planned[job.book]]
        /\ step' = "label" => file'[dev][Target] # NoFile \/ (job.type = "meta" /\ file' = file)
        /\ step' = "unlabel" => file'[dev][Target] = NoFile
<1>1. step \in OpSteps
  BY CommandGoesOn
<1>2. WorldType /\ StepFits /\ dev \in Device /\ Target \in Name
  BY <1>1, TargetPlace DEF BaseInv
<1>3. /\ job.type = "delete" => Target = job.name
      /\ job.type # "delete" => job.name = Target /\ job.book \in Book
      /\ job.type \in {"add", "update", "meta", "delete"}
  BY <1>1, TargetPlace DEF Job
<1>4. CASE DeleteArchive
  <2>1. step' = "failed" \/ (step' = "unlabel" /\ SetFile(Target, NoFile))
    BY <1>2, <1>3, <1>4 DEF DeleteArchive, StepFits, Proceed, Fail
  <2> QED
    BY <1>2, <2>1, OneFile
<1>5. CASE DeleteSidecar
  BY <1>2, <1>3, <1>5 DEF DeleteSidecar, StepFits, Succeed
<1>6. CASE FileExists
  BY <1>6 DEF FileExists, Proceed, Fail
<1>7. CASE RedoOperation
  BY <1>3, <1>7 DEF RedoOperation, FirstStep
<1>8. CASE SkipOperation
  BY <1>8 DEF SkipOperation
<1>9. CASE DeleteExisting
  BY <1>9 DEF DeleteExisting, Proceed, Fail
<1>10. CASE WriteArchive
  <2> DEFINE whole == [book |-> job.book, pageCount |-> lib[job.book].pageCount]
  <2>1. step' = "failed" \/ (step' = "label" /\ SetFile(Target, whole))
    BY <1>10 DEF WriteArchive, Proceed, Fail
  <2>2. job.type # "delete"
    BY <1>2, <1>10 DEF WriteArchive, StepFits
  <2>3. whole # NoFile
    BY <1>2, <1>3, <2>2 DEF WorldType, Meta, Content, MarksApart
  <2> HIDE DEF whole
  <2> QED
    BY <1>2, <2>1, <2>3, OneFile
<1>11. CASE WriteSidecar
  <2> DEFINE label == [book |-> job.book, meta |-> planned[job.book]]
  <2>1. file' = file /\ step = "label" /\ job.type # "delete"
    BY <1>2, <1>11 DEF WriteSidecar, StepFits
  <2>2. step' = "failed" \/ (step' = "next" /\ SetSide(Target, label))
    BY <1>3, <1>11, <2>1 DEF WriteSidecar, Succeed, Fail
  <2> QED
    BY <1>2, <2>1, <2>2, OneSide
<1> QED
  BY <1>4, <1>5, <1>6, <1>7, <1>8, <1>9, <1>10, <1>11 DEF Command

(* A command keeps the promise of the plan, or records an error. *)
LEMMA CommandKeeps ==
  ASSUME MarksApart, OneNameEach, BaseInv, Active, DoneIsThere, NothingElse, WrittenWanted, Underway, Command, ~ errs'
  PROVE DoneIsThere' /\ NothingElse' /\ WrittenWanted' /\ Underway'
<1>1. step \in OpSteps /\ GoesOn
  BY CommandGoesOn
<1>2. /\ UNCHANGED <<todo, job, dev, listed, wanted, planned>>
      /\ Pending = todo \cup {job}
      /\ step' = "next" \/ step' \in OpSteps
      /\ step' = "next" => Pending' = todo
      /\ step' \in OpSteps => Pending' = Pending /\ written' = written
  BY <1>1 DEF GoesOn, planVars, Pending, OpSteps
<1>3. /\ Good(job) /\ job \in Job /\ Target \in Name
      /\ job.type = "delete" => Target = job.name /\ job.book = NoBook
      /\ job.type # "delete" => job.book \in wanted /\ Target = NameOf[job.book] /\ job.name = Target
  BY <1>1, TargetPlace DEF Good
<1>4. Target' = Target
  BY <1>2 DEF Target
<1>5. /\ written \subseteq written'
      /\ \A n \in written' \ written : n = NameOf[job.book] /\ job.type \in {"add", "update"}
      /\ step' = "next" /\ job.type \in {"add", "update"} => NameOf[job.book] \in written'
  BY <1>1, <1>2 DEF GoesOn, OpSteps
<1>6. wanted \subseteq Book /\ \A b \in wanted : b # NoBook /\ NameOf[b] \in Name
  BY NameOfAssumption DEF BaseInv, SessionType, MarksApart
<1>7. DoneIsThere'
  <2> SUFFICES ASSUME NEW b \in wanted, ~ Waits(b)'
               PROVE Labelled(dev, b, planned[b])' /\ (OnDevice(b, NameOf[b])' \/ NameOf[b] \in written')
    BY <1>2 DEF DoneIsThere
  <2>1. OnDevice(b, NameOf[b])' <=> OnDevice(b, NameOf[b])
    BY <1>2 DEF OnDevice
  <2>2. CASE ~ Waits(b)
    <3>1. NameOf[b] # Target
      BY <1>1, <2>2, OwnName
    <3>2. file'[dev][NameOf[b]] = file[dev][NameOf[b]] /\ side'[dev][NameOf[b]] = side[dev][NameOf[b]]
      BY <1>6, <3>1, CommandWrites
    <3> QED
      BY <1>2, <1>5, <2>1, <2>2, <3>2 DEF DoneIsThere, Labelled
  <2>3. CASE Waits(b)
    <3>1. step' = "next" /\ job.book = b
      BY <1>2, <2>3 DEF Waits
    <3>2. job.type # "delete"
      BY <1>3, <1>6, <3>1
    <3>3. /\ step = "label" /\ file' = file
          /\ side'[dev][NameOf[b]] = [book |-> b, meta |-> planned[b]]
      BY <1>3, <3>1, <3>2, CommandEnds
    <3>4. file[dev][NameOf[b]] # NoFile
      BY <1>3, <3>1, <3>2, <3>3 DEF Underway
    <3>5. OnDevice(b, NameOf[b]) \/ NameOf[b] \in written'
      BY <1>3, <1>5, <3>1, <3>2 DEF Good, Job
    <3> QED
      BY <1>2, <2>1, <3>3, <3>4, <3>5 DEF Labelled
  <2> QED
    BY <2>2, <2>3
<1>8. NothingElse'
  <2> SUFFICES ASSUME NEW n \in Name, file'[dev][n] # NoFile
               PROVE \/ \E b \in wanted : n = NameOf[b]
                     \/ \E j \in Pending' : j.type = "delete" /\ j.name = n
    BY <1>2 DEF NothingElse
  <2>1. CASE n # Target
    <3>1. file[dev][n] # NoFile
      BY <2>1, CommandWrites
    <3>2. ASSUME NEW j \in Pending, j.type = "delete", j.name = n PROVE j \in Pending'
      BY <1>2, <1>3, <2>1, <3>2
    <3> QED
      BY <3>1, <3>2 DEF NothingElse
  <2>2. CASE n = Target /\ job.type # "delete"
    BY <1>3, <2>2
  <2>3. CASE n = Target /\ job.type = "delete"
    <3>1. step' # "next"
      BY <2>3, CommandEnds DEF Underway
    <3> QED
      BY <1>2, <1>3, <2>3, <3>1
  <2> QED
    BY <2>1, <2>2, <2>3
<1>9. WrittenWanted'
  BY <1>2, <1>3, <1>5 DEF WrittenWanted
<1>10. Underway'
  <2>1. ASSUME NEW j \in Pending', j.type = "meta" PROVE file'[dev][j.name] # NoFile
    <3>1. j \in Pending /\ file[dev][j.name] # NoFile
      BY <1>2, <2>1 DEF Underway
    <3>2. CASE j = job
      BY <2>1, <3>1, <3>2, CommandWrites
    <3>3. CASE j # job
      <4>1. j.name # Target /\ j.name \in Name
        BY <1>1, <2>1, <3>1, <3>3, OwnName DEF BaseInv, SessionType, Pending, Job
      <4> QED
        BY <3>1, <4>1, CommandWrites
    <3> QED
      BY <3>2, <3>3
  <2>2. step' \in OpSteps => job' \notin todo' /\ (job'.type = "delete" => job'.name \notin written')
    BY <1>1, <1>2 DEF Underway
  <2>3. step' = "label" => file'[dev][Target] # NoFile
    <3>1. job.type = "meta" => file[dev][Target] # NoFile
      BY <1>2, <1>3 DEF Underway
    <3> QED
      BY <3>1, CommandEnds
  <2>4. step' = "unlabel" => file'[dev][Target] = NoFile
    BY CommandEnds
  <2> QED
    BY <1>2, <1>4, <2>1, <2>2, <2>3, <2>4 DEF Underway
<1> QED
  BY <1>7, <1>8, <1>9, <1>10

(* So does every step. *)
LEMMA CleanStep == ASSUME MarksApart, OneNameEach, CleanInv, [Next]_vars PROVE CleanInv'
<1>1. BaseInv /\ BaseInv' /\ NothingWritten /\ Kept
  BY BaseStep DEF CleanInv
<1> SUFFICES NothingWritten' /\ Kept'
  BY <1>1 DEF CleanInv
<1>a. UNCHANGED <<file, dev, step, planVars, opVars>> /\ (dev \in Device => side'[dev] = side[dev])
      => NothingWritten' /\ Kept'
  <2> SUFFICES ASSUME UNCHANGED <<file, dev, step, planVars, opVars>>, dev \in Device => side'[dev] = side[dev],
                      Active, ~ errs
               PROVE DoneIsThere' /\ NothingElse' /\ WrittenWanted' /\ Underway'
    BY <1>1 DEF NothingWritten, Kept, Active, opVars
  <2>1. DoneIsThere /\ NothingElse /\ WrittenWanted /\ Underway /\ side'[dev] = side[dev]
    BY <1>1 DEF Kept, Active, BaseInv, SessionType, OpSteps
  <2>2. Pending' = Pending /\ Target' = Target
    BY DEF opVars, Pending, Target
  <2>3. \A b : Waits(b)' <=> Waits(b)
    BY <2>2 DEF Waits
  <2>4. DoneIsThere'
    BY <2>1, <2>3 DEF DoneIsThere, Labelled, OnDevice, planVars, opVars
  <2>5. NothingElse' /\ WrittenWanted' /\ Underway'
    BY <2>1, <2>2 DEF NothingElse, WrittenWanted, Underway, planVars, opVars
  <2> QED
    BY <2>4, <2>5
<1>b. EndSession => NothingWritten' /\ Kept'
  BY DEF EndSession, NothingWritten, Kept, Active, OpSteps
<1>2. ASSUME NEW d \in Device, BeginSession(d) PROVE NothingWritten' /\ Kept'
  BY <1>1, <1>2 DEF BeginSession, NothingWritten, Kept, Active, OpSteps, opVars
<1>3. CASE Interrupt \/ FinishSession
  BY <1>3, <1>b DEF Interrupt, FinishSession
<1>4. ASSUME NEW b \in Book, EditBook(b) PROVE NothingWritten' /\ Kept'
  BY <1>4, <1>a DEF EditBook, deviceVars
<1>5. ASSUME NEW d \in Device, NEW b \in Book, Reassign(d, b) PROVE NothingWritten' /\ Kept'
  BY <1>5, <1>a DEF Reassign, deviceVars
<1>6. ASSUME NEW d \in Device, NEW n \in Name, Read(d, n) PROVE NothingWritten' /\ Kept'
  <2>1. dev \in Device => side'[dev] = side[dev]
    <3>1. PICK y \in Label : side' = [side EXCEPT ![d] = [side[d] EXCEPT ![n] = y]]
      BY <1>1, <1>6, PageTurned DEF BaseInv
    <3> QED
      BY <1>1, <1>6, <3>1 DEF Read, BaseInv, WorldType
  <2> QED
    BY <1>6, <2>1, <1>a DEF Read
<1>7. CASE GetDeviceBooks
  <2>1. EndSession \/ (step' = "reverse" /\ step = "list" /\ UNCHANGED opVars)
    BY <1>7 DEF GetDeviceBooks
  <2> QED
    BY <1>1, <1>b, <2>1 DEF NothingWritten, Kept, Active, OpSteps, opVars
<1>8. CASE UpdateLibraryReadingState
  BY <1>1, <1>8 DEF UpdateLibraryReadingState, NothingWritten, Kept, Active, OpSteps, opVars
<1>9. CASE ComputeSyncPlan
  <2>1. DoneIsThere' /\ NothingElse' /\ WrittenWanted' /\ Underway'
    BY <1>1, <1>9, PlanKeeps
  <2> QED
    BY <1>9, <2>1 DEF ComputeSyncPlan, NothingWritten, Kept
<1>10. ASSUME NEW j \in todo, NextOperation(j) PROVE NothingWritten' /\ Kept'
  <2>1. step = "next" /\ errs' = errs /\ step' \notin {"off", "list", "reverse", "plan"}
    BY <1>10 DEF NextOperation, FirstStep
  <2>2. ~ errs => DoneIsThere' /\ NothingElse' /\ WrittenWanted' /\ Underway'
    BY <1>1, <1>10, <2>1, NextKeeps DEF Kept, Active
  <2> QED
    BY <2>1, <2>2 DEF NothingWritten, Kept
<1>11. CASE Command
  <2>1. step \in OpSteps /\ Active /\ (step' = "next" \/ step' \in OpSteps) /\ (errs => errs')
    BY <1>1, <1>11, CommandGoesOn DEF GoesOn, Active
  <2>2. ~ errs' => DoneIsThere' /\ NothingElse' /\ WrittenWanted' /\ Underway'
    BY <1>1, <1>11, <2>1, CommandKeeps DEF Kept
  <2> QED
    BY <2>1, <2>2 DEF NothingWritten, Kept, OpSteps
<1>12. CASE UNCHANGED vars
  BY <1>12, <1>a DEF vars, deviceVars
<1> QED
  BY <1>2, <1>3, <1>4, <1>5, <1>6, <1>7, <1>8, <1>9, <1>10, <1>11, <1>12 DEF Next, SessionStep, Command

(* A session that reports no error has done what it planned: the planned books *)
(* are there under the plan's metadata and no other archive is, for any books  *)
(* and devices and whatever failed and was redone, if no two books share a     *)
(* file name.                                                                  *)
THEOREM CleanSyncs == ASSUME MarksApart, OneNameEach PROVE Spec => []CleanSyncMirrorsPlan
<1>1. Init => CleanInv
  <2>1. Init => NothingWritten /\ Kept
    BY DEF Init, NothingWritten, Kept, Active, OpSteps
  <2> QED
    BY <2>1, InitBase DEF CleanInv
<1>2. CleanInv /\ [Next]_vars => CleanInv'
  BY CleanStep
<1>3. CleanInv => CleanSyncMirrorsPlan
  <2> SUFFICES ASSUME CleanInv, step = "next", todo = {}, ~ errs
               PROVE /\ \A b \in wanted : Labelled(dev, b, planned[b])
                     /\ \A n \in Name : file[dev][n] # NoFile => \E b \in wanted : n = NameOf[b]
    BY DEF CleanSyncMirrorsPlan
  <2>1. Pending = {} /\ DoneIsThere /\ NothingElse
    BY DEF CleanInv, Kept, Active, Pending, OpSteps
  <2> QED
    BY <2>1 DEF DoneIsThere, NothingElse, Waits
<1> QED
  BY <1>1, <1>2, <1>3, PTL DEF Spec

-----------------------------------------------------------------------------
(* Nobody has read anything yet. *)
LEMMA InitProgress == ASSUME MarksApart, Init PROVE ProgressInv
<1>1. BaseInv
  BY InitBase
<1>2. Counted /\ SidecarsAhead /\ ListedOrMissed /\ TakenOver
  BY DEF Init, Counted, SidecarsAhead, ListedOrMissed, TakenOver, MarksApart, Active, OpSteps
<1>3. AheadOrListed
  BY DEF Init, AheadOrListed, Blank
<1> QED
  BY <1>1, <1>2, <1>3 DEF ProgressInv

(* A step that leaves the ghosts, the pages and the phase as they are. *)
LEMMA ProgressKept ==
  ASSUME BaseInv, ProgressInv, UNCHANGED <<deviceVars, ghostVars, dev, listed, planned>>,
         \A b \in Book : lib'[b].currentPage = lib[b].currentPage,
         step' = step \/ (Active /\ Active') \/ (step = "off" /\ step' = "list")
  PROVE (Counted /\ SidecarsAhead /\ AheadOrListed /\ ListedOrMissed /\ TakenOver)'
<1>1. Counted' /\ SidecarsAhead'
  BY DEF ProgressInv, Counted, SidecarsAhead, deviceVars, ghostVars
<1>2. AheadOrListed'
  BY DEF ProgressInv, AheadOrListed, Counted, deviceVars, ghostVars, Active, OpSteps
<1>3. ListedOrMissed'
  BY DEF ProgressInv, ListedOrMissed, deviceVars, ghostVars, Active, OpSteps
<1>4. TakenOver'
  BY DEF ProgressInv, TakenOver, deviceVars, ghostVars, Active, OpSteps
<1> QED
  BY <1>1, <1>2, <1>3, <1>4

(* The end of a session, wherever it comes. *)
LEMMA ProgressAtEnd ==
  ASSUME ProgressInv, EndSession, UNCHANGED <<lib, file, side, furthest>>,
         missed \subseteq missed', missed' \subseteq Book
  PROVE (Counted /\ SidecarsAhead /\ AheadOrListed /\ ListedOrMissed /\ TakenOver)'
<1>1. Counted' /\ SidecarsAhead'
  BY DEF ProgressInv, Counted, SidecarsAhead
<1>2. step' = "off"
  BY DEF EndSession
<1>3. ListedOrMissed' /\ TakenOver'
  BY <1>2 DEF ListedOrMissed, TakenOver, Active, OpSteps
<1>4. AheadOrListed'
  <2> SUFFICES ASSUME NEW b \in Book \ missed
               PROVE \/ lib[b].currentPage >= furthest[b]
                     \/ \E d \in Device : /\ file[d][NameOf[b]] # NoFile
                                          /\ side[d][NameOf[b]] \in Label /\ side[d][NameOf[b]].book = b
    BY DEF AheadOrListed
  <2>1. CASE step \in {"off", "list", "reverse"}
    BY <2>1 DEF ProgressInv, AheadOrListed
  <2>2. CASE step = "plan" \/ Active
    BY <2>2 DEF ProgressInv, TakenOver
  <2> QED
    BY <2>1, <2>2 DEF ProgressInv, BaseInv, SessionType, Steps, OpSteps, Active
<1> QED
  BY <1>1, <1>3, <1>4

(* A turned page: no session is going on, since there is one device. *)
LEMMA ProgressRead ==
  ASSUME MarksApart, OneDevice, ProgressInv, NEW d \in Device, NEW n \in Name, Read(d, n)
  PROVE (Counted /\ SidecarsAhead /\ AheadOrListed /\ ListedOrMissed /\ TakenOver)'
<1>1. PICK y \in Label : /\ y.book = side[d][n].book /\ y.meta.currentPage = side[d][n].meta.currentPage + 1
                         /\ side' = [side EXCEPT ![d] = [side[d] EXCEPT ![n] = y]]
  BY PageTurned DEF ProgressInv, BaseInv
<1> DEFINE b == side[d][n].book
           k == side[d][n].meta.currentPage
<1>2. /\ file[d][n] # NoFile /\ side[d][n] \in Label /\ b \in Book /\ n = NameOf[b] /\ k \in Nat
  BY DEF Read, MarksApart, Label, Meta, ProgressInv, BaseInv, InPlace
<1>3. step = "off" /\ step' = "off"
  BY DEF Read, OneDevice, ProgressInv, BaseInv, SessionType
<1>4. side'[d][n] = y /\ \A e \in Device, m \in Name : m # n => side'[e][m] = side[e][m]
  BY <1>1 DEF ProgressInv, BaseInv, WorldType
<1>5. furthest \in [Book -> Nat] /\ missed \subseteq Book
  BY DEF ProgressInv, Counted
<1>6. /\ furthest' = IF k + 1 > furthest[b] THEN [furthest EXCEPT ![b] = furthest[b] + 1] ELSE furthest
      /\ missed' = missed /\ lib' = lib /\ file' = file
  BY <1>1, <1>4 DEF Read
<1>7. Counted'
  BY <1>2, <1>5, <1>6 DEF Counted
<1>8. \A c \in Book : c # b => furthest'[c] = furthest[c]
  BY <1>2, <1>5, <1>6
<1>9. SidecarsAhead'
  <2> SUFFICES ASSUME NEW e \in Device, NEW m \in Name, side'[e][m] \in Label, side'[e][m].book \notin missed
               PROVE side'[e][m].meta.currentPage >= furthest'[side'[e][m].book]
    BY <1>6 DEF SidecarsAhead
  <2>1. e = d
    BY DEF OneDevice
  <2>2. CASE m = n
    <3>1. b \notin missed /\ side'[e][m] = y
      BY <1>1, <1>4, <2>1, <2>2
    <3>2. k >= furthest[b]
      BY <1>2, <3>1 DEF ProgressInv, SidecarsAhead
    <3>3. furthest'[b] <= k + 1
      BY <1>2, <1>5, <1>6, <3>2
    <3> QED
      BY <1>1, <1>2, <1>5, <3>1, <3>3, <1>7 DEF Counted
  <2>3. CASE m # n
    <3>1. side'[e][m] = side[e][m] /\ NameOf[side[e][m].book] = m /\ side[e][m].book \in Book
      BY <1>4, <2>3 DEF ProgressInv, BaseInv, InPlace, Label
    <3>2. side[e][m].book # b
      BY <1>2, <2>3, <3>1
    <3> QED
      BY <1>8, <3>1, <3>2 DEF ProgressInv, SidecarsAhead
  <2> QED
    BY <2>2, <2>3
<1>10. AheadOrListed'
  <2> SUFFICES ASSUME NEW c \in Book \ missed
               PROVE \/ lib[c].currentPage >= furthest'[c]
                     \/ \E e \in Device : /\ file[e][NameOf[c]] # NoFile
                                          /\ side'[e][NameOf[c]] \in Label /\ side'[e][NameOf[c]].book = c
    BY <1>6 DEF AheadOrListed
  <2>1. CASE c = b
    <3>1. y \in Label /\ y.book = b
      BY <1>1
    <3> HIDE DEF b
    <3> QED
      BY <1>2, <1>4, <2>1, <3>1
  <2>2. CASE c # b
    <3>1. CASE lib[c].currentPage >= furthest[c]
      BY <1>8, <2>2, <3>1
    <3>2. ASSUME NEW e \in Device, file[e][NameOf[c]] # NoFile, side[e][NameOf[c]] \in Label, side[e][NameOf[c]].book = c
          PROVE side'[e][NameOf[c]] = side[e][NameOf[c]]
      <4>1. e = d
        BY DEF OneDevice
      <4>2. NameOf[c] # n
        BY <2>2, <3>2, <4>1
      <4> QED
        BY <1>4, <4>2, NameOfAssumption
    <3> QED
      BY <1>3, <3>1, <3>2 DEF ProgressInv, AheadOrListed
  <2> QED
    BY <2>1, <2>2
<1>11. ListedOrMissed' /\ TakenOver'
  BY <1>3 DEF ListedOrMissed, TakenOver, Active, OpSteps
<1> QED
  BY <1>7, <1>9, <1>10, <1>11

(* The listing: what is not listed is missed. *)
LEMMA ProgressListed ==
  ASSUME MarksApart, OneDevice, ProgressInv, GetDeviceBooks
  PROVE (Counted /\ SidecarsAhead /\ AheadOrListed /\ ListedOrMissed /\ TakenOver)'
<1>1. step = "list" /\ dev \in Device /\ UNCHANGED <<lib, deviceVars, furthest>>
  BY DEF GetDeviceBooks, ProgressInv, BaseInv, SessionType
<1>2. PICK unread \in SUBSET {n \in Name : ReadSidecar(n) \in Label} :
         LET books == [n \in Name |-> IF n \in unread THEN Garbled ELSE ReadSidecar(n)]
         IN  /\ missed' = missed \cup {side[dev][n].book : n \in unread}
             /\ IF Refused(books) THEN EndSession
                ELSE listed' = books /\ step' = "reverse" /\ UNCHANGED <<dev, wanted, planned, opVars>>
  BY DEF GetDeviceBooks
<1>3. missed \subseteq missed' /\ missed' \subseteq Book
  <2>1. \A n \in unread : side[dev][n] \in Label
    BY DEF ReadSidecar, MarksApart
  <2> QED
    BY <1>2, <2>1 DEF ProgressInv, Counted, Label
<1>4. CASE EndSession
  BY <1>1, <1>3, <1>4, ProgressAtEnd DEF deviceVars
<1>5. CASE /\ listed' = [n \in Name |-> IF n \in unread THEN Garbled ELSE ReadSidecar(n)]
           /\ step' = "reverse" /\ UNCHANGED dev
  <2>1. Counted' /\ SidecarsAhead'
    BY <1>1, <1>3 DEF ProgressInv, Counted, SidecarsAhead, deviceVars
  <2>2. AheadOrListed'
    BY <1>1, <1>3 DEF ProgressInv, AheadOrListed, deviceVars
  <2>3. TakenOver'
    BY <1>5 DEF TakenOver, Active, OpSteps
  <2>4. ListedOrMissed'
    <3> SUFFICES ASSUME NEW n \in Name, file[dev][n] # NoFile, side[dev][n] \in Label
                 PROVE listed'[n] = side[dev][n] \/ side[dev][n].book \in missed'
      BY <1>1, <1>5 DEF ListedOrMissed, deviceVars
    <3>1. CASE n \in unread
      BY <1>2, <3>1
    <3>2. CASE n \notin unread
      BY <1>5, <3>2 DEF ReadSidecar
    <3> QED
      BY <3>1, <3>2
  <2> QED
    BY <2>1, <2>2, <2>3, <2>4
<1> QED
  BY <1>2, <1>4, <1>5

(* The reverse half: what was listed is taken over, or missed. *)
LEMMA ProgressTaken ==
  ASSUME MarksApart, OneDevice, ProgressInv, UpdateLibraryReadingState
  PROVE (Counted /\ SidecarsAhead /\ AheadOrListed /\ ListedOrMissed /\ TakenOver)'
<1> DEFINE taken == {n \in Name : listed[n] \in Label}
           from(b) == {n \in taken : listed[n].book = b}
           page(b) == listed[CHOOSE n \in from(b) : TRUE].meta.currentPage
<1>1. /\ step = "reverse" /\ step' = "plan" /\ dev \in Device
      /\ UNCHANGED <<deviceVars, furthest, listed, dev>>
  BY DEF UpdateLibraryReadingState, ProgressInv, BaseInv, SessionType, planVars
<1>2. \/ /\ lib' = [b \in Book |-> IF from(b) = {} THEN lib[b] ELSE [lib[b] EXCEPT !.currentPage = page(b)]]
         /\ missed' = missed
      \/ /\ missed' = missed \cup {listed[n].book : n \in taken}
         /\ lib' = lib
  BY DEF UpdateLibraryReadingState
<1>3. missed \subseteq missed' /\ missed' \subseteq Book
  <2>1. \A n \in taken : listed[n].book \in Book
    BY DEF Label
  <2> HIDE DEF from, page, taken
  <2>2. {listed[n].book : n \in taken} \subseteq Book
    BY <2>1
  <2> QED
    BY <1>2, <2>2 DEF ProgressInv, Counted
<1>4. Counted' /\ SidecarsAhead'
  BY <1>1, <1>3 DEF ProgressInv, Counted, SidecarsAhead, deviceVars
<1>5. AheadOrListed' /\ ListedOrMissed' /\ ~ Active'
  BY <1>1 DEF AheadOrListed, ListedOrMissed, Active, OpSteps
<1>6. ASSUME NEW b \in Book, from(b) # {}, b \notin missed PROVE page(b) >= furthest[b]
  <2>1. PICK n : n = (CHOOSE m \in from(b) : TRUE) /\ n \in from(b)
    BY <1>6
  <2>2. n \in Name /\ listed[n] \in Label /\ listed[n].book = b
    BY <2>1
  <2>3. listed[n] = side[dev][n]
    BY <1>1, <2>2 DEF ProgressInv, BaseInv, Seen
  <2>4. side[dev][n].meta.currentPage >= furthest[b]
    BY <1>1, <1>6, <2>2, <2>3 DEF ProgressInv, SidecarsAhead
  <2> QED
    BY <2>1, <2>3, <2>4
<1>7. ASSUME NEW b \in Book, from(b) = {}, b \notin missed PROVE lib[b].currentPage >= furthest[b]
  <2> SUFFICES ASSUME NEW d \in Device, file[d][NameOf[b]] # NoFile, side[d][NameOf[b]] \in Label,
                      side[d][NameOf[b]].book = b
               PROVE FALSE
    BY <1>1, <1>7 DEF ProgressInv, AheadOrListed
  <2>1. d = dev /\ NameOf[b] \in Name
    BY <1>1, NameOfAssumption DEF OneDevice
  <2>2. listed[NameOf[b]] = side[dev][NameOf[b]]
    BY <1>1, <1>7, <2>1 DEF ProgressInv, ListedOrMissed
  <2>3. NameOf[b] \in from(b)
    BY <2>1, <2>2
  <2> QED
    BY <1>7, <2>3
<1>8. ASSUME NEW b \in Book \ missed' PROVE lib'[b].currentPage >= furthest[b]
  <2>1. b \notin missed /\ lib[b] \in Meta
    BY <1>3 DEF ProgressInv, BaseInv, WorldType
  <2>2. CASE from(b) = {}
    <3>1. lib'[b] = lib[b]
      BY <1>2, <2>2
    <3> QED
      BY <1>7, <2>1, <2>2, <3>1
  <2>3. CASE from(b) # {} /\ lib' = lib
    <3>1. b \in {listed[n].book : n \in taken} /\ from(b) # {}
      BY <2>3
    <3>2. \/ b \in missed'
          \/ lib' = [c \in Book |-> IF from(c) = {} THEN lib[c] ELSE [lib[c] EXCEPT !.currentPage = page(c)]]
      BY <1>2, <3>1
    <3> HIDE DEF from, page
    <3>3. lib'[b].currentPage = page(b)
      BY <1>8, <2>1, <3>1, <3>2 DEF Meta
    <3> QED
      BY <1>6, <2>1, <3>1, <3>3
  <2>4. CASE from(b) # {} /\ lib' # lib
    <3>1. lib' = [c \in Book |-> IF from(c) = {} THEN lib[c] ELSE [lib[c] EXCEPT !.currentPage = page(c)]]
      BY <1>2, <2>4
    <3> HIDE DEF from, page
    <3>2. lib'[b].currentPage = page(b)
      BY <2>1, <2>4, <3>1 DEF Meta
    <3> QED
      BY <1>6, <2>1, <2>4, <3>2
  <2> QED
    BY <2>2, <2>3, <2>4
<1> HIDE DEF from, page
<1>9. TakenOver'
  BY <1>1, <1>5, <1>8 DEF TakenOver
<1> QED
  BY <1>4, <1>5, <1>9

(* A command writes no sidecar that is behind. *)
LEMMA ProgressCommand ==
  ASSUME MarksApart, ProgressInv, Command
  PROVE (Counted /\ SidecarsAhead /\ AheadOrListed /\ ListedOrMissed /\ TakenOver)'
<1>1. step \in OpSteps /\ UNCHANGED <<lib, planVars, dev>> /\ Active' /\ Active /\ dev \in Device
  BY CommandGoesOn, OperationGoesOn, TargetPlace DEF ProgressInv, GoesOn, Active
<1>2. UNCHANGED ghostVars
  BY DEF Command, DeleteArchive, DeleteSidecar, FileExists, DeleteExisting, WriteArchive, WriteSidecar, RedoOperation,
     SkipOperation, opFrame
<1>3. Counted' /\ TakenOver'
  BY <1>1, <1>2 DEF ProgressInv, Counted, TakenOver, ghostVars, planVars
<1>4. AheadOrListed' /\ ListedOrMissed'
  BY <1>1 DEF AheadOrListed, ListedOrMissed, Active, OpSteps
<1>5. SidecarsAhead'
  <2> SUFFICES ASSUME NEW d \in Device, NEW n \in Name, side'[d][n] \in Label, side'[d][n].book \notin missed
               PROVE side'[d][n].meta.currentPage >= furthest[side'[d][n].book]
    BY <1>2 DEF SidecarsAhead, ghostVars
  <2>1. CASE side'[d][n] = side[d][n]
    BY <2>1 DEF ProgressInv, SidecarsAhead
  <2>2. CASE side'[d][n] # side[d][n]
    <3>1. d = dev /\ n = Target
      BY <2>2, CommandWrites DEF ProgressInv
    <3>2. job.type # "delete" /\ side'[d][n] = [book |-> job.book, meta |-> planned[job.book]]
      BY <2>2, <3>1, CommandWrites DEF ProgressInv, MarksApart
    <3>3. job.book \in Book \ missed
      BY <1>1, <3>2, TargetPlace DEF ProgressInv
    <3> QED
      BY <1>1, <3>2, <3>3 DEF ProgressInv, TakenOver
  <2> QED
    BY <2>1, <2>2
<1> QED
  BY <1>3, <1>4, <1>5

(* No step loses progress. *)
LEMMA ProgressStep == ASSUME MarksApart, OneDevice, ProgressInv, [Next]_vars PROVE ProgressInv'
<1> USE DEF ProgressInv
<1> DEFINE Rest == Counted /\ SidecarsAhead /\ AheadOrListed /\ ListedOrMissed /\ TakenOver
<1> SUFFICES Rest'
  BY BaseStep
<1>1. ASSUME NEW d \in Device, BeginSession(d) PROVE Rest'
  <2>1. step = "off" /\ step' = "list" /\ UNCHANGED <<lib, deviceVars, listed, planned, ghostVars>>
    BY <1>1 DEF BeginSession, planVars
  <2>2. Counted' /\ SidecarsAhead' /\ AheadOrListed'
    BY <2>1 DEF Counted, SidecarsAhead, AheadOrListed, deviceVars, ghostVars
  <2> QED
    BY <2>1, <2>2 DEF ListedOrMissed, TakenOver, Active, OpSteps
<1>2. CASE Interrupt
  <2>1. EndSession /\ UNCHANGED <<lib, file, side, furthest, missed>>
    BY <1>2 DEF Interrupt, deviceVars, ghostVars
  <2> QED
    BY <2>1, ProgressAtEnd DEF Counted
<1>3. CASE FinishSession
  <2>1. EndSession /\ UNCHANGED <<lib, file, side, furthest, missed>>
    BY <1>3 DEF FinishSession, ghostVars
  <2> QED
    BY <2>1, ProgressAtEnd DEF Counted
<1>4. ASSUME NEW b \in Book, EditBook(b) PROVE Rest'
  <2>1. \A c \in Book : lib'[c].currentPage = lib[c].currentPage
    <3>1. \A c \in Book : lib[c] \in Meta
      BY DEF BaseInv, WorldType
    <3>2. \/ lib' = [lib EXCEPT ![b] = [lib[b] EXCEPT !.pageCount = @ + 1]]
          \/ lib' = [lib EXCEPT ![b] = [lib[b] EXCEPT !.title = @ + 1]]
      BY <1>4 DEF EditBook, BaseInv, WorldType
    <3>3. /\ [lib[b] EXCEPT !.pageCount = @ + 1].currentPage = lib[b].currentPage
          /\ [lib[b] EXCEPT !.title = @ + 1].currentPage = lib[b].currentPage
      BY <3>1 DEF Meta
    <3> QED
      BY <3>2, <3>3 DEF BaseInv, WorldType
  <2>2. UNCHANGED <<deviceVars, ghostVars, dev, listed, planned, step>>
    BY <1>4 DEF EditBook, planVars
  <2> QED
    BY <2>1, <2>2, ProgressKept
<1>5. ASSUME NEW d \in Device, NEW b \in Book, Reassign(d, b) PROVE Rest'
  BY <1>5, ProgressKept DEF Reassign, planVars
<1>6. ASSUME NEW d \in Device, NEW n \in Name, Read(d, n) PROVE Rest'
  BY <1>6, ProgressRead
<1>7. CASE GetDeviceBooks
  BY <1>7, ProgressListed
<1>8. CASE UpdateLibraryReadingState
  BY <1>8, ProgressTaken
<1>9. CASE ComputeSyncPlan
  <2>1. step = "plan" /\ step' = "next" /\ planned' = lib /\ UNCHANGED <<lib, deviceVars, ghostVars>>
    BY <1>9 DEF ComputeSyncPlan
  <2>2. Counted' /\ SidecarsAhead' /\ TakenOver'
    BY <2>1 DEF Counted, SidecarsAhead, TakenOver, deviceVars, ghostVars
  <2> QED
    BY <2>1, <2>2 DEF AheadOrListed, ListedOrMissed
<1>10. ASSUME NEW j \in todo, NextOperation(j) PROVE Rest'
  <2>1. j \in Job
    BY DEF BaseInv, SessionType
  <2>2. FirstStep(j) \in OpSteps
    BY <2>1 DEF FirstStep, OpSteps, Job
  <2>3. Active /\ Active'
    BY <1>10, <2>2 DEF NextOperation, Active
  <2> QED
    BY <1>10, <2>3, ProgressKept DEF NextOperation, planVars
<1>11. CASE Command
  BY <1>11, ProgressCommand
<1>12. CASE UNCHANGED vars
  BY <1>12, ProgressKept DEF vars, planVars
<1> QED
  BY <1>1, <1>2, <1>3, <1>4, <1>5, <1>6, <1>7, <1>8, <1>9, <1>10, <1>11, <1>12 DEF Next, SessionStep, Command

(* While the library has not taken a page over, the sidecar that has it is  *)
(* still to be listed: no reader's progress is lost by a sync with one      *)
(* device, whatever fails, except where a session said so.                  *)
THEOREM ProgressNotLost == ASSUME MarksApart, OneDevice PROVE Spec => []ProgressHeld
<1>1. Init => ProgressInv
  BY InitProgress
<1>2. ProgressInv /\ [Next]_vars => ProgressInv'
  BY ProgressStep
<1>3. ProgressInv => ProgressHeld
  <2> SUFFICES ASSUME ProgressInv, NEW b \in Book \ missed
               PROVE \/ lib[b].currentPage >= furthest[b]
                     \/ \E d \in Device, n \in Name :
                           side[d][n] \in Label /\ side[d][n].book = b /\ side[d][n].meta.currentPage >= furthest[b]
    BY DEF ProgressHeld
  <2>1. CASE step = "plan" \/ Active
    BY <2>1 DEF ProgressInv, TakenOver
  <2>2. CASE step \in {"off", "list", "reverse"} /\ ~ lib[b].currentPage >= furthest[b]
    <3>1. PICK d \in Device : side[d][NameOf[b]] \in Label /\ side[d][NameOf[b]].book = b
      BY <2>2 DEF ProgressInv, AheadOrListed
    <3>2. NameOf[b] \in Name
      BY NameOfAssumption
    <3> QED
      BY <3>1, <3>2 DEF ProgressInv, SidecarsAhead
  <2> QED
    BY <2>1, <2>2 DEF ProgressInv, BaseInv, SessionType, Steps, OpSteps, Active
<1> QED
  BY <1>1, <1>2, <1>3, PTL DEF Spec

-----------------------------------------------------------------------------
Bounded == faults \in 0 .. MaxFaults /\ edits \in 0 .. MaxEdits

(* The counters of the bounds, and the ghosts, keep their types. *)
LEMMA BoundedStep == ASSUME BaseInv, Bounded, [Next]_vars PROVE Bounded'
<1> DEFINE f == faults' = faults \/ Fault
           e == edits' = edits \/ (edits < MaxEdits /\ edits' = edits + 1)
<1>1. ASSUME f, e PROVE Bounded'
  BY <1>1, BoundsAssumption DEF Bounded, Fault, CanFail
<1> HIDE DEF f, e
<1> SUFFICES f /\ e
  BY <1>1
<1> USE DEF f, e, Fault, Flaky
<1>2. ASSUME NEW d \in Device, BeginSession(d) PROVE f /\ e
  BY <1>2 DEF BeginSession
<1>3. CASE Interrupt \/ FinishSession
  BY <1>3 DEF Interrupt, FinishSession
<1>4. ASSUME NEW b \in Book, EditBook(b) PROVE f /\ e
  BY <1>4 DEF EditBook
<1>5. ASSUME NEW d \in Device, NEW b \in Book, Reassign(d, b) PROVE f /\ e
  BY <1>5 DEF Reassign
<1>6. ASSUME NEW d \in Device, NEW n \in Name, Read(d, n) PROVE f /\ e
  BY <1>6 DEF Read
<1>7. CASE GetDeviceBooks \/ UpdateLibraryReadingState \/ ComputeSyncPlan
  BY <1>7 DEF GetDeviceBooks, UpdateLibraryReadingState, ComputeSyncPlan
<1>8. ASSUME NEW j \in todo, NextOperation(j) PROVE f /\ e
  BY <1>8 DEF NextOperation
<1>9. CASE Command
  BY <1>9 DEF Command, DeleteArchive, DeleteSidecar, FileExists, DeleteExisting, WriteArchive, WriteSidecar,
     RedoOperation, SkipOperation, opFrame, Fail, Proceed
<1>10. CASE UNCHANGED vars
  BY <1>10 DEF vars
<1> QED
  BY <1>2, <1>3, <1>4, <1>5, <1>6, <1>7, <1>8, <1>9, <1>10 DEF Next, SessionStep, Command

LEMMA CountedStep == ASSUME MarksApart, BaseInv, Counted, [Next]_vars PROVE Counted'
<1>a. UNCHANGED ghostVars => Counted'
  BY DEF Counted, ghostVars
<1>1. ASSUME NEW d \in Device, BeginSession(d) PROVE Counted'
  BY <1>1, <1>a DEF BeginSession
<1>2. CASE Interrupt \/ FinishSession
  BY <1>2, <1>a DEF Interrupt, FinishSession
<1>3. ASSUME NEW b \in Book, EditBook(b) PROVE Counted'
  BY <1>3, <1>a DEF EditBook
<1>4. ASSUME NEW d \in Device, NEW b \in Book, Reassign(d, b) PROVE Counted'
  BY <1>4, <1>a DEF Reassign
<1>5. ASSUME NEW d \in Device, NEW n \in Name, Read(d, n) PROVE Counted'
  <2> DEFINE b == side[d][n].book
  <2>1. furthest' = furthest \/ furthest' = [furthest EXCEPT ![b] = @ + 1]
    BY <1>5 DEF Read
  <2>2. b \in Book /\ missed' = missed
    BY <1>5 DEF Read, Label
  <2> QED
    BY <2>1, <2>2 DEF Counted
<1>6. CASE GetDeviceBooks
  <2>1. PICK unread \in SUBSET {n \in Name : ReadSidecar(n) \in Label} :
           missed' = missed \cup {side[dev][n].book : n \in unread}
    BY <1>6 DEF GetDeviceBooks
  <2>2. \A n \in unread : side[dev][n].book \in Book
    <3>1. ASSUME NEW n \in unread PROVE side[dev][n] \in Label
      BY DEF ReadSidecar, MarksApart
    <3> QED
      BY <3>1 DEF Label
  <2>3. UNCHANGED furthest
    BY <1>6 DEF GetDeviceBooks
  <2> QED
    BY <2>1, <2>2, <2>3 DEF Counted
<1>7. CASE UpdateLibraryReadingState
  <2> DEFINE taken == {n \in Name : listed[n] \in Label}
  <2>1. UNCHANGED furthest /\ (missed' = missed \/ missed' = missed \cup {listed[n].book : n \in taken})
    BY <1>7 DEF UpdateLibraryReadingState
  <2>2. \A n \in taken : listed[n].book \in Book
    BY DEF Label
  <2> QED
    BY <2>1, <2>2 DEF Counted
<1>8. CASE ComputeSyncPlan
  BY <1>8, <1>a DEF ComputeSyncPlan
<1>9. ASSUME NEW j \in todo, NextOperation(j) PROVE Counted'
  BY <1>9, <1>a DEF NextOperation
<1>10. CASE Command
  BY <1>10, <1>a DEF Command, DeleteArchive, DeleteSidecar, FileExists, DeleteExisting, WriteArchive, WriteSidecar,
     RedoOperation, SkipOperation, opFrame
<1>11. CASE UNCHANGED vars
  BY <1>11, <1>a DEF vars
<1> QED
  BY <1>1, <1>2, <1>3, <1>4, <1>5, <1>6, <1>7, <1>8, <1>9, <1>10, <1>11 DEF Next, SessionStep, Command

(* Type correctness of a device's two files per book, the session's data    *)
(* and the library it reads: what GetDeviceBooks, the plan and the commands *)
(* of PerformSync leave in them is always of its kind.                      *)
THEOREM TypeCorrect == ASSUME MarksApart PROVE Spec => []TypeOK
<1> DEFINE Inv == BaseInv /\ Bounded /\ Counted
<1>1. ASSUME Init PROVE Inv
  <2>1. BaseInv
    BY <1>1, InitBase
  <2>2. faults = 0 /\ edits = 0 /\ furthest = [b \in Book |-> 0] /\ missed = {}
    BY <1>1 DEF Init
  <2> QED
    BY <2>1, <2>2, BoundsAssumption DEF Bounded, Counted
<1>2. Inv /\ [Next]_vars => Inv'
  BY BaseStep, BoundedStep, CountedStep
<1>3. Inv => TypeOK
  BY DEF BaseInv, WorldType, SessionType, Steps, Bounded, Counted, TypeOK
<1> QED
  BY <1>1, <1>2, <1>3, PTL DEF Spec
=============================================================================
