------------------------------ MODULE SyncSession ------------------------------
(***************************************************************************)
(* One sync session with a device: Syncer.PerformSync and the operations   *)
(* it runs (internal/sync/session.go, internal/sync/sync.go).              *)
(*                                                                         *)
(* A device stores an archive and a sidecar for each book, as two files.   *)
(* The sidecar carries the book's ID and metadata and is all the next      *)
(* session knows about the archive.  Every command to the device may fail, *)
(* with or without its effect; a session may be aborted between two        *)
(* operations and the server may die anywhere.  Sessions are taken one at  *)
(* a time here; who may start one is module SyncServer's business.         *)
(***************************************************************************)
EXTENDS Naturals, FiniteSets

CONSTANTS
    Book,         \* book IDs of the library
    Name,         \* file names on a device (without .cbp)
    NameOf,       \* book -> base name of its FilePath
    Device,
    NoBook, NoDevice, NoFile, Partial, NoSidecar, Garbled,
    FaultKinds,   \* faults that are not a failed command; see Flaky
    MaxUnmapped,  \* maxUnmappedDeviceBooks
    MaxFaults,    \* bound on failed commands, aborts and crashes
    MaxEdits,     \* bound on changes to the library and the assignment
    MaxPage       \* last page of every book (bound)

ASSUME NameOfAssumption == NameOf \in [Book -> Name]
ASSUME BoundsAssumption ==
    MaxUnmapped \in Nat /\ MaxFaults \in Nat /\ MaxEdits \in Nat /\ MaxPage \in Nat

(* What the comparison of a plan looks at: the page count, the fields only  *)
(* the server edits (Title stands for them), and the fields the device      *)
(* edits too (CurrentPage stands for them).                                 *)
Meta == [pageCount : Nat, title : Nat, currentPage : Nat]
Label == [book : Book, meta : Meta]           \* a readable sidecar
Content == [book : Book, pageCount : Nat]     \* a complete archive

VARIABLES
    lib,       \* book -> metadata in the library
    want,      \* device -> books its lists and settings select now
    file,      \* device -> name -> archive
    side,      \* device -> name -> sidecar
    info,      \* device -> books listed in its sync_information.xml
    dev,       \* the device in session, or NoDevice
    step,      \* the next statement of the session
    listed,    \* GetDeviceBooks: name -> NoFile, Garbled (no metadata) or label
    wanted,    \* booksToSync of the plan
    planned,   \* the plan's copies of the books' metadata
    todo,      \* operations left
    job,       \* the operation in progress
    redone,    \* it is the second try of that operation
    errs,      \* result.Errors is not empty
    written,   \* writtenFiles
    faults, edits,   \* counters for the bounds
    furthest,  \* ghost: book -> furthest page its reader reached
    missed     \* ghost: books whose device metadata a session failed to take over

deviceVars == <<file, side, info>>
planVars == <<listed, wanted, planned>>
opVars == <<todo, job, redone, errs, written>>
ghostVars == <<furthest, missed>>
vars == <<lib, want, deviceVars, dev, step, planVars, opVars, faults, edits, ghostVars>>

Job == [type : {"add", "update", "meta", "delete"}, book : Book \cup {NoBook}, name : Name]
NoJob == [type |-> "none", book |-> NoBook, name |-> NoFile]

Blank == [b \in Book |-> [pageCount |-> 0, title |-> 0, currentPage |-> 0]]

Init ==
    /\ lib = Blank
    /\ want \in [Device -> SUBSET Book]
    /\ file = [d \in Device |-> [n \in Name |-> NoFile]]
    /\ side = [d \in Device |-> [n \in Name |-> NoSidecar]]
    /\ info = [d \in Device |-> {}]
    /\ dev = NoDevice
    /\ step = "off"
    /\ listed = [n \in Name |-> NoFile]
    /\ wanted = {}
    /\ planned = Blank
    /\ todo = {} /\ job = NoJob /\ redone = FALSE /\ errs = FALSE /\ written = {}
    /\ faults = 0 /\ edits = 0
    /\ furthest = [b \in Book |-> 0]
    /\ missed = {}

-----------------------------------------------------------------------------
(* The world outside a session. *)

(* An edit of the library: new pages in the archive, or other metadata. *)
EditBook(b) ==
    /\ edits < MaxEdits
    /\ edits' = edits + 1
    /\ lib' \in {[lib EXCEPT ![b].pageCount = @ + 1], [lib EXCEPT ![b].title = @ + 1]}
    /\ UNCHANGED <<want, deviceVars, dev, step, planVars, opVars, faults, ghostVars>>

(* A list or its assignment changes, so the device gains or loses a book. *)
Reassign(d, b) ==
    /\ edits < MaxEdits
    /\ edits' = edits + 1
    /\ want' = [want EXCEPT ![d] = IF b \in @ THEN @ \ {b} ELSE @ \cup {b}]
    /\ UNCHANGED <<lib, deviceVars, dev, step, planVars, opVars, faults, ghostVars>>

(* A reader turns a page on the device, which is not in a sync (external:   *)
(* the app shows its sync screen during one).                               *)
Read(d, n) ==
    /\ dev # d
    /\ file[d][n] \in Content /\ side[d][n] \in Label
    /\ LET b == side[d][n].book IN
       /\ side[d][n].meta.currentPage < MaxPage
       /\ side' = [side EXCEPT ![d][n].meta.currentPage = @ + 1]
       /\ furthest' = IF side'[d][n].meta.currentPage > furthest[b]
                      THEN [furthest EXCEPT ![b] = @ + 1] ELSE furthest
    /\ UNCHANGED <<lib, want, file, info, dev, step, planVars, opVars, faults, edits, missed>>

-----------------------------------------------------------------------------
(* The session up to the plan. *)

CanFail == faults < MaxFaults
Fault == CanFail /\ faults' = faults + 1

(* A fault of one of the kinds outside a command happens or does not. *)
Flaky(kind) == kind \in FaultKinds /\ CanFail

(* The session is over; its variables are forgotten. *)
EndSession ==
    /\ dev' = NoDevice
    /\ step' = "off"
    /\ listed' = [n \in Name |-> NoFile]
    /\ wanted' = {}
    /\ planned' = Blank
    /\ todo' = {} /\ job' = NoJob /\ redone' = FALSE /\ errs' = FALSE /\ written' = {}

(* PerformSync starts: SendStart, GetDeviceInfo, GetFreeSpace. *)
BeginSession(d) ==
    /\ step = "off"
    /\ dev' = d
    /\ step' = "list"
    /\ UNCHANGED <<lib, want, deviceVars, planVars, opVars, faults, edits, ghostVars>>

(* What GetDeviceBooks learns of the archive called n from its sidecar. *)
ReadSidecar(n) ==
    IF file[dev][n] = NoFile THEN NoFile
    ELSE IF side[dev][n] \in Label THEN side[dev][n] ELSE Garbled

(* Fault: one archive without a readable sidecar is too many. *)
RefusedEarly(books) == \E n \in Name : books[n] = Garbled

(* Too many archives without a readable sidecar: refuse to plan from that. *)
Refused(books) ==
    LET archives == {n \in Name : books[n] # NoFile}
        unmapped == {n \in archives : books[n] = Garbled}
    IN  Cardinality(unmapped) > MaxUnmapped /\ Cardinality(unmapped) * 10 > Cardinality(archives)

(* GetDeviceBooks: the sidecars come in one batch, or one by one with       *)
(* retries when the batch fails, which can leave some of them unread.       *)
GetDeviceBooks ==
    /\ step = "list"
    /\ \E unread \in SUBSET {n \in Name : ReadSidecar(n) \in Label} :
          LET books == [n \in Name |-> IF n \in unread THEN Garbled ELSE ReadSidecar(n)] IN
          /\ unread # {} => Flaky("sidecar")
          /\ faults' = IF unread = {} THEN faults ELSE faults + 1
          /\ missed' = missed \cup {side[dev][n].book : n \in unread}
          /\ IF Refused(books)
             THEN EndSession
             ELSE /\ listed' = books
                  /\ step' = "reverse"
                  /\ UNCHANGED <<dev, wanted, planned, opVars>>
    /\ UNCHANGED <<lib, want, deviceVars, edits, furthest>>

(* Fault: the reverse half of the sync is left out. *)
UpdateLibraryReadingStateSkipped ==
    /\ step = "reverse"
    /\ step' = "plan"
    /\ UNCHANGED <<lib, want, deviceVars, dev, planVars, opVars, faults, edits, ghostVars>>

(* updateLibraryReadingState: what the device has replaces what the library *)
(* has; a backend that fails is only logged.                                *)
UpdateLibraryReadingState ==
    /\ step = "reverse"
    /\ step' = "plan"
    /\ LET taken == {n \in Name : listed[n] \in Label}
           from(b) == {n \in taken : listed[n].book = b}
       IN  \/ /\ lib' = [b \in Book |->
                          IF from(b) = {} THEN lib[b]
                          ELSE [lib[b] EXCEPT !.currentPage =
                                  listed[CHOOSE n \in from(b) : TRUE].meta.currentPage]]
              /\ UNCHANGED <<faults, missed>>
           \/ /\ Flaky("reverse")
              /\ faults' = faults + 1
              /\ missed' = missed \cup {listed[n].book : n \in taken}
              /\ UNCHANGED lib
    /\ UNCHANGED <<want, deviceVars, dev, planVars, opVars, edits, furthest>>

OnDevice(b, n) == listed[n] \in Label /\ listed[n].book = b

(* Fault: every difference sends the archive again. *)
CompareBooksRough(b, n) == IF listed[n].meta # lib[b] THEN {"update"} ELSE {}

(* compareBooks: a changed page count needs the archive again, other        *)
(* changes only the sidecar.                                                *)
CompareBooks(b, n) ==
    IF listed[n].meta.pageCount # lib[b].pageCount THEN {"update"}
    ELSE IF listed[n].meta # lib[b] THEN {"meta"} ELSE {}

(* Fault: archives without a readable sidecar are not deleted. *)
SyncPlanKeepsGarbled(selected) ==
    {[type |-> "add", book |-> b, name |-> NameOf[b]] :
        b \in {c \in selected : \A n \in Name : ~ OnDevice(c, n)}}
    \cup {[type |-> "delete", book |-> NoBook, name |-> n] :
            n \in {m \in Name : listed[m] \in Label /\ listed[m].book \notin selected}}

(* ComputeSyncPlan for the books selected. *)
SyncPlan(selected) ==
    {[type |-> "add", book |-> b, name |-> NameOf[b]] :
        b \in {c \in selected : \A n \in Name : ~ OnDevice(c, n)}}
    \cup (UNION {{[type |-> t, book |-> p[1], name |-> p[2]] : t \in CompareBooks(p[1], p[2])} :
                    p \in {q \in selected \X Name : OnDevice(q[1], q[2])}})
    \cup {[type |-> "delete", book |-> NoBook, name |-> n] :
            n \in {m \in Name : listed[m] # NoFile /\ \A b \in selected : ~ OnDevice(b, m)}}

(* The plan.  A list that cannot be evaluated counts as an empty one.  Too  *)
(* little space ends the session, as does an abort or a crash (Interrupt).  *)
ComputeSyncPlan ==
    /\ step = "plan"
    /\ \E failedLists \in SUBSET want[dev] :
          /\ failedLists # {} => Flaky("list")
          /\ faults' = IF failedLists = {} THEN faults ELSE faults + 1
          /\ wanted' = want[dev] \ failedLists
          /\ todo' = SyncPlan(want[dev] \ failedLists)
    /\ planned' = lib
    /\ step' = "next"
    /\ UNCHANGED <<lib, want, deviceVars, dev, listed, job, redone, errs, written, edits, ghostVars>>

-----------------------------------------------------------------------------
(* The operations. *)

FirstStep(j) ==
    CASE j.type = "add" -> "exists"
      [] j.type = "meta" -> "label"
      [] OTHER -> "unlink"

Rank(type) == CASE type = "add" -> 1 [] type = "delete" -> 3 [] OTHER -> 2

(* Fault: a file that this session wrote is deleted like any other. *)
NextOperationForgetsWritten(j) ==
    /\ step = "next"
    /\ j \in todo
    /\ \A k \in todo : Rank(j.type) <= Rank(k.type)
    /\ todo' = todo \ {j}
    /\ redone' = FALSE
    /\ step' = FirstStep(j) /\ job' = j
    /\ UNCHANGED <<lib, want, deviceVars, dev, planVars, errs, written, faults, edits, ghostVars>>

(* The next operation in the order of sortOperationsByType, after the abort *)
(* check.  A delete of a file this session wrote is skipped.                *)
NextOperation(j) ==
    /\ step = "next"
    /\ j \in todo
    /\ \A k \in todo : Rank(j.type) <= Rank(k.type)
    /\ todo' = todo \ {j}
    /\ redone' = FALSE
    /\ IF j.type = "delete" /\ j.name \in written
       THEN UNCHANGED <<step, job>>
       ELSE step' = FirstStep(j) /\ job' = j
    /\ UNCHANGED <<lib, want, deviceVars, dev, planVars, errs, written, faults, edits, ghostVars>>

(* The operation in progress succeeded; addBook and updateBook return the   *)
(* name they wrote.                                                         *)
Succeed ==
    /\ step' = "next"
    /\ written' = IF job.type \in {"add", "update"} THEN written \cup {NameOf[job.book]} ELSE written
    /\ UNCHANGED <<todo, job, redone, errs>>

Fail == Fault /\ step' = "failed" /\ UNCHANGED opVars

Proceed(st) == step' = st /\ UNCHANGED <<opVars, faults>>

(* The name an operation writes to: addBook computes it from the book. *)
Target == IF job.type = "delete" THEN job.name ELSE NameOf[job.book]

SetFile(n, to) == file' = [file EXCEPT ![dev][n] = to]
SetSide(n, to) == side' = [side EXCEPT ![dev][n] = to]

opFrame == <<lib, want, info, dev, planVars, edits, ghostVars>>

(* deleteBook, the archive. *)
DeleteArchive ==
    /\ step = "unlink"
    /\ \/ SetFile(job.name, NoFile) /\ Proceed("unlabel")
       \/ Fail /\ (UNCHANGED file \/ SetFile(job.name, NoFile))
    /\ UNCHANGED <<opFrame, side>>

(* deleteBook, the sidecar; a failure here is ignored. *)
DeleteSidecar ==
    /\ step = "unlabel"
    /\ \/ SetSide(job.name, NoSidecar) /\ UNCHANGED faults
       \/ Flaky("unlabel") /\ faults' = faults + 1 /\ UNCHANGED side
    /\ IF job.type = "update" THEN step' = "exists" /\ UNCHANGED opVars ELSE Succeed
    /\ UNCHANGED <<opFrame, file>>

(* addBook asks whether the file is there, *)
FileExists ==
    /\ step = "exists"
    /\ \/ Proceed(IF file[dev][Target] = NoFile THEN "send" ELSE "clear")
       \/ Fail
    /\ UNCHANGED <<opFrame, file, side>>

(* deletes it, but not its sidecar, *)
DeleteExisting ==
    /\ step = "clear"
    /\ \/ SetFile(Target, NoFile) /\ Proceed("send")
       \/ Fail /\ (UNCHANGED file \/ SetFile(Target, NoFile))
    /\ UNCHANGED <<opFrame, side>>

(* reads the archive from disk as it is now and sends it, *)
WriteArchive ==
    /\ step = "send"
    /\ LET whole == [book |-> job.book, pageCount |-> lib[job.book].pageCount] IN
       \/ SetFile(Target, whole) /\ Proceed("label")
       \/ Fail /\ (UNCHANGED file \/ SetFile(Target, Partial) \/ SetFile(Target, whole))
    /\ UNCHANGED <<opFrame, side>>

(* and writes the sidecar with the metadata of the plan, which is all that  *)
(* updateMetadataOnly does.                                                 *)
WriteSidecar ==
    /\ step = "label"
    /\ LET n == IF job.type = "meta" THEN job.name ELSE Target
           label == [book |-> job.book, meta |-> planned[job.book]]
       IN  \/ SetSide(n, label) /\ Succeed /\ UNCHANGED faults
           \/ Fail /\ (UNCHANGED side \/ SetSide(n, Garbled) \/ SetSide(n, label))
    /\ UNCHANGED <<opFrame, file>>

(* An operation failed because the link dropped: after the wait it is run   *)
(* again from its start, once. *)
RedoOperation ==
    /\ step = "failed" /\ ~ redone
    /\ redone' = TRUE
    /\ step' = FirstStep(job)
    /\ UNCHANGED <<opFrame, file, side, todo, job, errs, written, faults>>

(* It failed on its own, the device did not come back, or the second try    *)
(* failed: the error is recorded and the session goes on.                   *)
SkipOperation ==
    /\ step = "failed"
    /\ errs' = TRUE
    /\ step' = "next"
    /\ UNCHANGED <<opFrame, file, side, todo, job, redone, written, faults>>

(* After the last operation: writeSyncInformation evaluates the lists       *)
(* again (a failed write leaves the old file, the new one or an unusable    *)
(* one), touchMarkerFile, SendCompleted.                                    *)
FinishSession ==
    /\ step = "next" /\ todo = {}
    /\ \/ info' = [info EXCEPT ![dev] = want[dev]] /\ UNCHANGED faults
       \/ Fault /\ info' \in {info, [info EXCEPT ![dev] = {}]}
    /\ EndSession
    /\ UNCHANGED <<lib, want, file, side, edits, ghostVars>>

(* An abort by the user or a device that does not come back, seen before an *)
(* operation; a failed command before the plan; too little space; or the    *)
(* death of the server, anywhere.                                           *)
Interrupt ==
    /\ step # "off"
    /\ Fault
    /\ EndSession
    /\ UNCHANGED <<lib, want, deviceVars, edits, ghostVars>>

SessionStep ==
    \/ GetDeviceBooks \/ UpdateLibraryReadingState \/ ComputeSyncPlan
    \/ \E j \in todo : NextOperation(j)
    \/ DeleteArchive \/ DeleteSidecar \/ FileExists \/ DeleteExisting
    \/ WriteArchive \/ WriteSidecar \/ RedoOperation \/ SkipOperation \/ FinishSession

Next ==
    \/ \E d \in Device : BeginSession(d)
    \/ SessionStep
    \/ Interrupt
    \/ \E b \in Book : EditBook(b)
    \/ \E d \in Device, b \in Book : Reassign(d, b)
    \/ \E d \in Device, n \in Name : Read(d, n)

(* A session runs to its end: every command has a timeout and the wait for  *)
(* a lost device has a window.  That devices keep starting sessions is an   *)
(* assumption about their users.                                            *)
Fairness ==
    /\ WF_vars(SessionStep)
    /\ \A d \in Device : SF_vars(BeginSession(d))

Spec == Init /\ [][Next]_vars
FairSpec == Spec /\ Fairness
-----------------------------------------------------------------------------
(* Type correctness of a device's two files per book, the session's data    *)
(* and the library it reads.                                                *)
TypeOK ==
    /\ lib \in [Book -> Meta]
    /\ want \in [Device -> SUBSET Book]
    /\ file \in [Device -> [Name -> Content \cup {NoFile, Partial}]]
    /\ side \in [Device -> [Name -> Label \cup {NoSidecar, Garbled}]]
    /\ info \in [Device -> SUBSET Book]
    /\ dev \in Device \cup {NoDevice}
    /\ step \in {"off", "list", "reverse", "plan", "next", "unlink", "unlabel", "exists",
                  "clear", "send", "label", "failed"}
    /\ listed \in [Name -> Label \cup {NoFile, Garbled}]
    /\ wanted \in SUBSET Book
    /\ planned \in [Book -> Meta]
    /\ todo \in SUBSET Job
    /\ job \in Job \cup {NoJob}
    /\ redone \in BOOLEAN
    /\ errs \in BOOLEAN
    /\ written \in SUBSET Name
    /\ faults \in 0 .. MaxFaults
    /\ edits \in 0 .. MaxEdits
    /\ furthest \in [Book -> Nat]
    /\ missed \in SUBSET Book

(* The books of d's files as the next session will list them. *)
Shelved(d, b) == \E n \in Name : /\ file[d][n] # NoFile
                                 /\ side[d][n] \in Label /\ side[d][n].book = b

Labelled(d, b, m) ==
    /\ file[d][NameOf[b]] # NoFile
    /\ side[d][NameOf[b]] = [book |-> b, meta |-> m]

(* A session that ran all its operations without an error leaves exactly    *)
(* the planned books on the device, each under the library's metadata of    *)
(* the plan: PerformSync neither drops one of them (the writtenFiles rule   *)
(* for a file that is both added and deleted) nor leaves another behind.    *)
CleanSyncMirrorsPlan ==
    (step = "next" /\ todo = {} /\ ~ errs) =>
        /\ \A b \in wanted : Labelled(dev, b, planned[b])
        /\ \A n \in Name : file[dev][n] # NoFile => \E b \in wanted : n = NameOf[b]

(* The furthest page a reader reached is in the library or in a sidecar,    *)
(* unless a session could not read that sidecar or could not save what it   *)
(* read: the forward half of a sync never destroys progress the reverse     *)
(* half has not taken over (session.go: "this MUST happen BEFORE forward    *)
(* sync to capture device changes before overwriting them").                *)
ProgressHeld ==
    \A b \in Book \ missed :
        \/ lib[b].currentPage >= furthest[b]
        \/ \E d \in Device, n \in Name :
              /\ side[d][n] \in Label
              /\ side[d][n].book = b /\ side[d][n].meta.currentPage >= furthest[b]

(* "If sync fails partway through, the device retains as much content as    *)
(* possible": no step of a session touches the archive of a book it keeps   *)
(* whose sidecar it read and whose pages have not changed.                  *)
KeepsGoodCopies ==
    [][\A n \in Name :
          (/\ listed[n] \in Label /\ listed[n].book \in wanted
           /\ listed[n].meta.pageCount = planned[listed[n].book].pageCount)
          => file'[dev][n] = file[dev][n]]_vars

(* A device that holds its assigned books, labelled with the library's      *)
(* metadata, no other archive, and the right reading lists.                 *)
InSync(d) ==
    /\ \A b \in want[d] : /\ file[d][NameOf[b]] # NoFile
                           /\ side[d][NameOf[b]] \in Label
                           /\ side[d][NameOf[b]].book = b
                           /\ side[d][NameOf[b]].meta.title = lib[b].title
    /\ \A n \in Name : file[d][n] # NoFile => \E b \in want[d] : n = NameOf[b]
    /\ info[d] = want[d]

(* A device with too many archives whose sidecars are missing or garbled.   *)
Unreadable(d) ==
    LET archives == {n \in Name : file[d][n] # NoFile}
        unread == {n \in archives : side[d][n] \in {NoSidecar, Garbled}}
    IN  Cardinality(unread) > MaxUnmapped /\ 10 * Cardinality(unread) > Cardinality(archives)

(* When faults and edits have stopped and the device keeps syncing, it ends *)
(* up in sync, whatever state interrupted sessions left it in; the one      *)
(* exception is a device that GetDeviceBooks refuses to plan for, which     *)
(* stays as it is, since every later session refuses it again.              *)
EventuallyInSync == \A d \in Device : <>[]InSync(d) \/ <>[]Unreadable(d)

(* docs/dev/CODEBASE.md: the redone operation "deletes a leftover partial   *)
(* file first, so a half-written book cannot stay".  So once a session has  *)
(* finished without an error, no book it wanted is half-written.            *)
HalfWrittenCannotStay ==
    (step = "next" /\ todo = {} /\ ~ errs) =>
        \A b \in wanted : file[dev][NameOf[b]] # Partial

(* session.go says of the deletes that they happen last and "only remove    *)
(* content user doesn't want".                                              *)
OnlyUnwantedDeleted ==
    (step = "unlink" /\ job.type = "delete" /\ side[dev][job.name] \in Label /\ edits = 0) =>
        side[dev][job.name].book \notin want[dev]
=============================================================================
