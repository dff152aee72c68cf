------------------------------ MODULE BookFiles ------------------------------
(***************************************************************************)
(* The requests that write, move and retire comic files (internal/api with *)
(* cbzconvert, libraryorganizer, duplicates, relink, watchfolder) over one *)
(* disk and one trash.  Each reads whole rows of the library first, then   *)
(* works on the files through the trash, and writes the whole rows back at *)
(* the end; nothing but the rows' own mutex keeps two requests apart.      *)
(*                                                                         *)
(* A request that works on several books does so one after the other and   *)
(* saves all of them at the end; here it has one, so that two requests     *)
(* side by side are also two books of one.  The check of pagesApply that   *)
(* the file is still the one the client saw is left out: the plan is made  *)
(* for the file that is opened.                                            *)
(***************************************************************************)
EXTENDS Naturals, FiniteSets

CONSTANTS
    Book,
    Worker,         \* requests that work on files
    Path,
    Zip,            \* the paths that isZipFile accepts
    ChangeExt,      \* path -> the same with .cbz for its extension
    Meta,           \* what a row can say of a book, beside its pages
    NotWritten,     \* no WrittenHashKey
    Given,          \* numbers for the files that were there before
    FirstFile,      \* path -> what is there when the server starts, or NoFile
    FirstPath,      \* book -> where its file is, or Absent
    Absent,         \* no record, or a deleted one
    NoFile,
    RetentionDays,
    MaxSecond,
    MaxRequests     \* bound: how many requests ever write, move or retire a file

ASSUME PathAssumption ==
    /\ Zip \subseteq Path
    /\ ChangeExt \in [Path -> Zip]
    /\ \A p \in Zip : ChangeExt[p] = p
ASSUME BoundAssumption == MaxRequests \in Nat /\ Given \subseteq Nat /\ NotWritten \notin Meta

(* A file is told from others by the number of the request that made it, or of
   its own if it was there before; pages says which file first had its pages in this order, meta what
   its ComicInfo.xml says. *)
Origin == (1 .. MaxRequests) \union Given
File == [id : Origin, pages : Origin, meta : Meta]

(* The stages, those from scraping to "to move" taken as one. *)
ConvertToCBZ == 1
ToMove == 2
Organized == 3
Stage == ConvertToCBZ .. Organized

(* InferStage. *)
InferStage(p) == IF p \in Zip THEN ToMove ELSE ConvertToCBZ

AdvanceIfAtOrBefore(stage, completed) == IF stage <= completed THEN completed + 1 ELSE stage

(* FilePath, the page table with the page pointers, the metadata, the metadata
   that WrittenHashKey was computed of, and the workflow stage. *)
Row == [path : Path, pages : Origin, meta : Meta, written : Meta \union {NotWritten}, stage : Stage]

(* newBookFromWatchFolderFile. *)
NewRow(p, f) ==
    [path |-> p, pages |-> f.pages, meta |-> f.meta, written |-> NotWritten, stage |-> InferStage(p)]

ASSUME AbsentAssumption == Absent \notin Row \union Path
ASSUME FirstAssumption ==
    /\ FirstFile \in [Path -> File \union {NoFile}]
    /\ FirstPath \in [Book -> Path \union {Absent}]
    /\ \A b \in Book : FirstPath[b] # Absent => FirstFile[FirstPath[b]] # NoFile

VARIABLES file, quarantine, now, purged, overwritten

(* The files that books came with. *)
Originals == {FirstFile[p] : p \in Path} \ {NoFile}

INSTANCE Trash WITH Content <- File, Watched <- Originals

ASSUME TrashAssumption == NoFileAssumption /\ TrashBounds

VARIABLES
    row,        \* the library
    job,        \* worker -> its request
    requests,   \* how many there have been
    calm        \* ghost: no accident so far (see Disturbed)

disk == <<file, quarantine, now, purged, overwritten>>
vars == <<disk, row, job, requests, calm>>

(* copy: the row as the request read it; at: the second of the quarantine. *)
NoJob == [op |-> "none"]
Op == {"convert", "metadata", "pages", "move", "copy", "duplicate"}
Job == {NoJob} \union
    [op : Op, pc : {"read", "aside", "swap", "create", "retire", "save"}, book : Book,
     number : 1 .. MaxRequests, copy : Row, dst : Path, tmp : File \union {NoFile}, at : Second]

Init ==
    /\ file = FirstFile
    /\ quarantine = [p \in Path |-> [t \in Second |-> NoFile]]
    /\ now = 0 /\ purged = {} /\ overwritten = {}
    /\ row = [b \in Book |->
                 IF FirstPath[b] = Absent THEN Absent
                 ELSE NewRow(FirstPath[b], FirstFile[FirstPath[b]])]
    /\ job = [w \in Worker |-> NoJob]
    /\ requests = 0
    /\ calm = TRUE

Busy(w) == job[w] # NoJob
Step(w, pc) == Busy(w) /\ job[w].pc = pc
Goto(w, pc) == job' = [job EXCEPT ![w].pc = pc]
GiveUp(w) == job' = [job EXCEPT ![w] = NoJob]

Live(b) == row[b] # Absent
Users(p) == {b \in Book : Live(b) /\ row[b].path = p}

(* Ghost: what the promises about rows do not survive: a request that meets
   another one in a book or a path, a crash in the middle of a request, a row
   that could not be saved, a rollback that failed, a Restore, and a conversion
   that drops pages, which leaves the page table as it was. *)
Disturbed == calm' = FALSE
Undisturbed == UNCHANGED calm

(* The paths a request may touch. *)
Paths(w) == IF Busy(w) THEN {job[w].copy.path, job[w].dst} ELSE {}
Meets(b, ps) == \E w \in Worker : Busy(w) /\ (job[w].book = b \/ Paths(w) \cap ps # {})

--------------------------------------------------------------------------------
\* Reading

(* What a request for an operation takes a row for, and where it writes. *)

(* handleRunCBZConvertWorkflow: the books of the first stage. *)
ToConvert(b, dst) == row[b].stage = ConvertToCBZ /\ dst = ChangeExt[row[b].path]

(* handleWriteMetadata: an archive that can be written in place. *)
ToUpdate(b, dst) == row[b].path \in Zip /\ dst = row[b].path

(* handleBookPages, pagesApply. *)
ToManage(b, dst) == row[b].path \in Zip /\ dst = row[b].path

(* Plan: another path with no file there, and the extension kept. *)
FreeAtPlanning(b, dst) ==
    dst # row[b].path /\ file[dst] = NoFile /\ (dst \in Zip <=> row[b].path \in Zip)

(* handleOrganizeApply: the books of the stage, as they are planned. *)
ToOrganize(b, dst) == row[b].stage = ToMove /\ FreeAtPlanning(b, dst)

(* handleResolveDuplicate: another record of the same comic is kept. *)
ToRetire(b, dst) ==
    /\ dst = row[b].path /\ file[dst] # NoFile
    /\ \E keeper \in Book \ {b} : Live(keeper) /\ row[keeper].path # dst

Accepts(op, b, dst) ==
    CASE op = "convert" -> ToConvert(b, dst)
      [] op = "metadata" -> ToUpdate(b, dst)
      [] op = "pages" -> ToManage(b, dst)
      [] op \in {"move", "copy"} -> ToOrganize(b, dst)
      [] op = "duplicate" -> ToRetire(b, dst)

(* handleRunCBZConvertWorkflow, handleWriteMetadata, pagesApply,
   handleOrganizeApply, handleResolveDuplicate: the row is read. *)
Start(w) ==
    /\ ~Busy(w) /\ requests < MaxRequests
    /\ requests' = requests + 1
    /\ \E op \in Op, b \in Book, dst \in Path :
           /\ Live(b) /\ Accepts(op, b, dst)
           /\ job' = [job EXCEPT ![w] =
                  [op |-> op, pc |-> IF op = "duplicate" THEN "retire" ELSE "read", book |-> b,
                   number |-> requests + 1, copy |-> row[b], dst |-> dst, tmp |-> NoFile, at |-> 0]]
           /\ calm' = (calm /\ ~Meets(b, {row[b].path, dst}))
    /\ UNCHANGED <<disk, row>>

--------------------------------------------------------------------------------
\* Writing

(* writeCBZ: the pages that are not marked Deleted, and the metadata of the row. *)
Converted(j, old) ==
    {[id |-> j.number, pages |-> order, meta |-> j.copy.meta] : order \in {old.pages, j.number}}

(* copyZipWithMetadata. *)
Updated(j, old) == {[id |-> j.number, pages |-> old.pages, meta |-> j.copy.meta]}

(* writeManagedCBZ: the pages in their new order. *)
Managed(j, old) == {[id |-> j.number, pages |-> j.number, meta |-> j.copy.meta]}

(* copyFile. *)
Copied(j, old) == {old}

NewFiles(j, old) ==
    CASE j.op = "convert" -> Converted(j, old)
      [] j.op = "metadata" -> Updated(j, old)
      [] j.op = "pages" -> Managed(j, old)
      [] j.op \in {"move", "copy"} -> Copied(j, old)

(* Convert, UpdateMetadata, ManagePages, copyFile up to the validated temporary
   file.  Convert leaves out the pages that are marked Deleted. *)
Write(w) ==
    /\ Step(w, "read")
    /\ LET j == job[w] IN
       \/ /\ file[j.copy.path] # NoFile
          /\ j.dst = j.copy.path \/ file[j.dst] = NoFile
          /\ \E new \in NewFiles(j, file[j.copy.path]) :
                 /\ job' = [job EXCEPT
                        ![w].tmp = new,
                        ![w].pc = IF j.dst = j.copy.path THEN "aside" ELSE "create"]
                 /\ calm' = (calm /\ (j.op = "convert" => new.pages = j.copy.pages))
       \/ GiveUp(w) /\ Undisturbed
    /\ UNCHANGED <<disk, row, requests>>

(* Trash.Replace: the original goes into quarantine... *)
QuarantineOriginal(w) ==
    /\ Step(w, "aside")
    /\ \/ /\ MoveAside(job[w].dst, now)
          /\ job' = [job EXCEPT ![w].pc = "swap", ![w].at = now]
       \/ MoveAsideFails(job[w].dst, now, {}) /\ UNCHANGED file /\ GiveUp(w)
    /\ UNCHANGED <<now, purged, row, requests, calm>>

(* Fault: no rollback. *)
SwapInOrNot(w) ==
    /\ Step(w, "swap")
    /\ LET j == job[w] IN
       \/ Swap(j.dst, j.tmp) /\ Goto(w, "save")
       \/ UNCHANGED <<file, quarantine, overwritten>> /\ GiveUp(w)
    /\ UNCHANGED <<now, purged, row, requests, calm>>

(* ... and the new file takes its place; if it cannot, the original is moved
   back, if that can be done. *)
SwapIn(w) ==
    /\ Step(w, "swap")
    /\ LET j == job[w] IN
       \/ Swap(j.dst, j.tmp) /\ Goto(w, "save") /\ Undisturbed
       \/ MoveBack(j.dst, j.at) /\ GiveUp(w) /\ Undisturbed
       \/ UNCHANGED <<file, quarantine, overwritten>> /\ GiveUp(w) /\ Disturbed
    /\ UNCHANGED <<now, purged, row, requests>>

(* Trash.WriteNew: the rename, some time after the look at the target. *)
CreateNew(w) ==
    /\ Step(w, "create")
    /\ LET j == job[w] IN
       \/ /\ Swap(j.dst, j.tmp)
          /\ Goto(w, IF j.op = "copy" THEN "save" ELSE "retire")
       \/ UNCHANGED <<file, quarantine, overwritten>> /\ GiveUp(w)
    /\ UNCHANGED <<now, purged, row, requests, calm>>

(* Fault: the new file stays where it is, and the old one goes. *)
RetireSourceWrongly(w) ==
    /\ Step(w, "retire") /\ GiveUp(w)
    /\ file' = [file EXCEPT ![job[w].copy.path] = NoFile]
    /\ UNCHANGED <<quarantine, overwritten, now, purged, row, requests, calm>>

(* A conversion or a move takes away what is at its target, its own file or not. *)
TakenAway(j) == IF j.op = "duplicate" THEN {} ELSE {file[j.dst]} \ {j.tmp}

(* Trash.Quarantine of the file that was read.  If it fails, a conversion or a
   move takes its new file away again. *)
RetireSource(w) ==
    /\ Step(w, "retire")
    /\ LET j == job[w] IN
       \/ /\ MoveAside(j.copy.path, now) /\ Goto(w, "save")
       \/ /\ MoveAsideFails(j.copy.path, now, TakenAway(j)) /\ GiveUp(w)
          /\ file' = IF j.op = "duplicate" THEN file ELSE [file EXCEPT ![j.dst] = NoFile]
    /\ UNCHANGED <<now, purged, row, requests, calm>>

--------------------------------------------------------------------------------
\* Saving

(* The row that is written: what was read, with what the operation changed. *)

(* The loop over the converted books in handleRunCBZConvertWorkflow. *)
AfterConvert(j) == [j.copy EXCEPT !.path = j.dst, !.stage = AdvanceIfAtOrBefore(@, ConvertToCBZ)]

(* Apply and what handleOrganizeApply does with its results. *)
AfterOrganize(j) == [j.copy EXCEPT !.path = j.dst, !.stage = AdvanceIfAtOrBefore(@, ToMove)]

(* MarkWritten: the fingerprint of the metadata that was written. *)
MarkWritten(r) == [r EXCEPT !.written = r.meta]

(* remapPages and remapComicInfo, then MarkWritten. *)
AfterManage(j) == MarkWritten([j.copy EXCEPT !.pages = j.tmp.pages])

SavedRow(j) ==
    CASE j.op = "convert" -> AfterConvert(j)
      [] j.op \in {"move", "copy"} -> AfterOrganize(j)
      [] j.op = "metadata" -> MarkWritten(j.copy)
      [] j.op = "pages" -> AfterManage(j)

(* UpdateBooks, or DeleteBook for a duplicate.  A row that was deleted stays so. *)
Save(w) ==
    /\ Step(w, "save") /\ GiveUp(w)
    /\ LET j == job[w] IN
       \/ /\ row' = [row EXCEPT ![j.book] =
                 IF j.op = "duplicate" \/ @ = Absent THEN Absent ELSE SavedRow(j)]
          /\ Undisturbed
       \/ UNCHANGED row /\ Disturbed
    /\ UNCHANGED <<disk, requests>>

--------------------------------------------------------------------------------
\* Requests of one step

(* A field is edited, by anyone; scraping, scan information or the data manager
   take the book past the first stage, and a mark that exempts it from scraping
   is cleared: whole rows again, but read and written at once. *)
EditBook(b) ==
    /\ Live(b)
    /\ \/ \E m \in Meta \ {row[b].meta} : row' = [row EXCEPT ![b].meta = m]
       \/ row[b].stage = ConvertToCBZ /\ row' = [row EXCEPT ![b].stage = ToMove]
       \/ row[b].stage = Organized /\ row' = [row EXCEPT ![b].stage = ToMove]
    /\ UNCHANGED <<disk, job, requests, calm>>

(* handleBookRelink, handleRelinkMissing: the file is not where the row says,
   and one that no row uses fits. *)
Relink(b, p) ==
    /\ Live(b) /\ file[row[b].path] = NoFile
    /\ file[p] # NoFile /\ Users(p) = {}
    /\ row' = [row EXCEPT ![b].path = p]
    /\ Disturbed
    /\ UNCHANGED <<disk, job, requests>>

(* handleBookRemoveRecord: refused while the file is there. *)
RemoveRecord(b) ==
    /\ Live(b) /\ file[row[b].path] = NoFile
    /\ row' = [row EXCEPT ![b] = Absent]
    /\ UNCHANGED <<disk, job, requests, calm>>

(* handleStartProcessingNewFiles: a file in a watched folder that no row has. *)
StartProcessing(b, p) ==
    /\ ~Live(b) /\ file[p] # NoFile /\ Users(p) = {}
    /\ \A w \in Worker : Busy(w) => job[w].book # b  \* the new record draws a new ID
    /\ row' = [row EXCEPT ![b] = NewRow(p, file[p])]
    /\ calm' = (calm /\ ~Meets(b, {p}))
    /\ UNCHANGED <<disk, job, requests>>

(* handlePostTrashRestore. *)
RestoreEntry(p, t) == Restore(p, t) /\ Disturbed /\ UNCHANGED <<row, job, requests>>

(* handlePostTrashDelete, the sweeper and time. *)
EmptyTrash ==
    /\ \/ \E p \in Path, t \in Second : DeleteNow(p, t)
       \/ Sweep
       \/ Tick
    /\ UNCHANGED <<row, job, requests, calm>>

(* The process dies and is started again. *)
Crash ==
    /\ \E w \in Worker : Busy(w)
    /\ job' = [w \in Worker |-> NoJob]
    /\ Disturbed
    /\ UNCHANGED <<disk, row, requests>>

Next ==
    \/ \E w \in Worker :
           \/ Start(w) \/ Write(w) \/ QuarantineOriginal(w) \/ SwapIn(w)
           \/ CreateNew(w) \/ RetireSource(w) \/ Save(w)
    \/ \E b \in Book : EditBook(b) \/ RemoveRecord(b)
    \/ \E b \in Book, p \in Path : Relink(b, p) \/ StartProcessing(b, p)
    \/ \E p \in Path, t \in Second : RestoreEntry(p, t)
    \/ EmptyTrash \/ Crash

Spec == Init /\ [][Next]_vars

--------------------------------------------------------------------------------
\* Properties

TypeOK ==
    /\ TrashTypeOK
    /\ row \in [Book -> Row \union {Absent}]
    /\ job \in [Worker -> Job]
    /\ requests \in 0 .. MaxRequests
    /\ calm \in BOOLEAN

(* The files that books came with can be found at a path or in the trash until
   somebody deletes them or their time is over, whatever fails, in whatever
   order requests run and wherever the process dies - unless another file was
   renamed onto one, which only a request in the same second or one between the
   look and the rename of another can do (Replace, WriteNew, Quarantine, Restore,
   and the clean-up of a move whose original could not be retired). *)
OriginalsKept == Originals \subseteq OnDisk \union InTrash \union purged \union overwritten

(* What the rows say of the files when no accident came between: the file is
   there, its pages are the ones the page table counts, and a row that is not
   due for a write says what the file says.  Errors that Convert, Replace and
   Apply handle are no accidents. *)
Untouched(b) == Live(b) /\ \A w \in Worker : Busy(w) => job[w].book # b
RowDescribesFile ==
    calm => \A b \in Book : Untouched(b) =>
        /\ file[row[b].path] # NoFile
        /\ row[b].pages = file[row[b].path].pages
        /\ row[b].written = row[b].meta => file[row[b].path].meta = row[b].meta

(* What quarantinePathFor is said to be for: repeated replacements of the same
   path never collide, so that nothing is ever overwritten in the trash. *)
ReplacementsNeverCollide ==
    [][\A p \in Path, t \in Second :
          quarantine[p][t] # NoFile /\ quarantine'[p][t] # quarantine[p][t]
          => quarantine'[p][t] = NoFile]_vars

================================================================================
