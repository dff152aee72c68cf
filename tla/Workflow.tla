------------------------------ MODULE Workflow ------------------------------
(***************************************************************************)
(* A book on its way through the workflow (internal/workflow: stage): it   *)
(* is converted, scraped, scanned for its source, run through the rules    *)
(* and filed, each by a request of its own, while a user edits it, marks   *)
(* it, locks fields of it and undoes what was done to it (internal/api).   *)
(*                                                                         *)
(* A request reads rows, works out new ones, and hands them to the audited *)
(* backend (internal/audit): that compares each with the row that is there *)
(* then, writes the whole of it, and appends what it saw to the audit log, *)
(* in three steps, between which the others move.                          *)
(***************************************************************************)
EXTENDS DataManager, FiniteSets

CONSTANTS
    Book, Writer,       \* the books, and the requests that may be at work together
    InitialRecord,      \* what a library may hold: a set of functions Book -> row
    Lockable,           \* bound: the fields that are locked
    RulesetList,        \* what LoadRulesets may return
    EditForm,           \* the forms that may be sent: [fields : field -> value, read : {"", "read", "unread"}]
    Detected, SeriesFound,    \* the source that a scan finds, and the series that a scrape does
    Skip,               \* the tag CVDBSKIP
    IssueCount,         \* the issues of the volume that a scrape finds
    Annual, Limited, Series,    \* a word in a name, and formats
    Marks,              \* bound: what is marked on a book, of {"flag", "collects", "covers"}
    PageType,           \* the types that a page may be given, {""}: none
    Elsewhere,          \* bound: where a lost file is found again
    None,
    MaxRequests,        \* bound: the requests
    MaxTogether         \* bound: those of them, the first ones, that overlap others

VARIABLES
    record,         \* Book -> the stored row
    saving,         \* Writer -> its request, or None
    audit,          \* the log: Seq of [book, changes, stages]
    started,        \* the requests so far
    first,          \* ghost: the rows at the start
    unexplained,    \* ghost: the books with a write that the log does not tell, or does out of order
    strayed         \* ghost: the filed books that a request which does not send them back changed the place of

vars == <<record, saving, audit, started, first, unexplained, strayed>>

(*************************** Stages *****************************************)

StageUnknown == 0
StageConvertToCBZ == 1
StageScrape == 2
StageScanInfo == 3
StageDataManager == 4
StageToMove == 5
StageOrganized == 6

HasFile(b) == b.file # <<>>
GetStage(b) == IF HasFile(b) THEN b.stage ELSE StageUnknown

ExemptFromScrape(b) == b.nomatch \/ Contains(b.tags, Skip) \/ b.local

(* dataManagerWouldChange: rules that fail need someone to look at them. *)
Differs(b, done) == ~done.ok \/ Changes(b, done.book) # {}
WouldChange(b, sets) == sets # <<>> /\ Differs(b, ApplyAll(b, sets))

InferStage(b, sets) ==
    CASE ~HasFile(b) -> StageUnknown
      [] HasFile(b) /\ b.file[1] = "cbr" -> StageConvertToCBZ
      [] OTHER -> IF ~b.scraped /\ ~ExemptFromScrape(b) THEN StageScrape
                  ELSE IF b.scan = <<>> THEN StageScanInfo
                  ELSE IF WouldChange(b, sets) THEN StageDataManager ELSE StageToMove

(* The place that the fields of a book say (pathmaker.go); publisher, imprint, volume
   and number are fields as the series is. *)
PlaceFields == {"series", "format", "count", "year", "month"}
PlaceOf(b) == [f \in PlaceFields |-> b[f]]
InPlace(b) == GetStage(b) = StageOrganized => b.file[2] = PlaceOf(b)

NextStage(s) == IF s = StageOrganized THEN s ELSE s + 1

AdvanceIfAtOrBefore(b, completed, sets) ==
    LET current == IF GetStage(b) = StageUnknown THEN InferStage(b, sets) ELSE GetStage(b)
    IN  IF HasFile(b) /\ current <= completed THEN [b EXCEPT !.stage = NextStage(completed)] ELSE b

RegressToStageIfPast(b, target) == IF GetStage(b) > target THEN [b EXCEPT !.stage = target] ELSE b

(*************************** The audit log **********************************)

(* The fields of a row; of custom values, one that is not set is empty. *)
RowFields == {"series", "notes", "scan", "format", "tags", "count", "year", "month", "dirty", "opened", "file", "scraped",
              "nomatch", "local", "locked", "marks", "pages", "auto", "stage", "custom"}
Audited == (RowFields \ {"stage", "custom"}) \union Custom
FieldValue(b, f) == IF f \in Custom THEN GetFieldString(b, f) ELSE b[f]

(* A row with other values of some fields; a custom value that is empty is removed. *)
WithValues(b, values) == [f \in DOMAIN b |->
    IF f = "custom"
    THEN [c \in Custom |-> IF c \notin DOMAIN values THEN b.custom[c] ELSE IF values[c] = <<>> THEN Absent ELSE values[c]]
    ELSE IF f \in DOMAIN values THEN values[f] ELSE b[f]]

(* What the log has of a field: of one that is a list in Go, how many items. *)
Listed == {"pages"}
Logged(b, f) == IF f \in Listed THEN <<"items", Len(b[f])>> ELSE FieldValue(b, f)
ChangesIn(before, after, fields) ==
    [f \in {x \in fields : FieldValue(before, x) # FieldValue(after, x)} |-> <<Logged(before, f), Logged(after, f)>>]

(* Fault: the custom values are ignored, as the field that holds them all is. *)
DiffOfFields(before, after) == ChangesIn(before, after, Audited \ Custom)
Diff(before, after) == ChangesIn(before, after, Audited)

(* A row of the log; and rowsFor: what the log will say of the rows, compared
   with those stored. *)
AuditRow(e) ==
    /\ e.book \in Book /\ DOMAIN e.changes \subseteq Audited
    /\ e.stages \in [1 .. 2 -> StageUnknown .. StageOrganized]
RowsFor(new) ==
    LET entry(b) == [book |-> b, changes |-> Diff(record[b], new[b]), stages |-> <<GetStage(record[b]), GetStage(new[b])>>]
    IN  {entry(b) : b \in {x \in DOMAIN new : DOMAIN entry(x).changes # {} \/ entry(x).stages[1] # entry(x).stages[2]}}

(*************************** Edits ******************************************)

Organizing == {"series", "format", "tags", "count", "year", "month", "scan"}      \* the flag organize
InComicInfo == Organizing \union {"notes"}                     \* the flag comicInfo

(* Fault: a book that is filed stays so when its metadata changes. *)
TouchedInPlace(b, changed) ==
    IF HasFile(b) /\ changed \intersect InComicInfo # {} THEN [b EXCEPT !.dirty = TRUE] ELSE b
(* What follows from a change of the fields. *)
Touched(b, changed) ==
    LET marked == IF HasFile(b) /\ changed \intersect InComicInfo # {} THEN [b EXCEPT !.dirty = TRUE] ELSE b
    IN  IF changed \intersect Organizing # {} THEN RegressToStageIfPast(marked, StageToMove) ELSE marked

(* markRead, markUnread. *)
ReadAs(b, read) == [b EXCEPT !.opened = IF read = "" THEN b.opened ELSE read = "read"]

(* applyBookEdit. *)
Edited(b, form) ==
    LET changed == {f \in DOMAIN form.fields : GetFieldString(b, f) # form.fields[f]}
        written == WithValues(b, [f \in changed |-> SetFieldString(b, f, form.fields[f])[f]])
    IN  Touched(ReadAs(written, form.read), changed)

(* restoreField. *)
Restored(b, changes, fields) == WithValues(b, [f \in fields |-> changes[f][1]])

(* planUndo, classify.  Values of the program's own and what the
   form cannot write are left; what changed since is left unless it is forced. *)
Undoable == InComicInfo \union Custom \union {"scraped"}
Undone(b, changes, force) ==
    LET restored == {f \in (DOMAIN changes \intersect Undoable) \ b.locked :
                        FieldValue(b, f) # changes[f][1] /\ (force \/ FieldValue(b, f) = changes[f][2])}
    IN  Touched(Restored(b, changes, restored), restored)

(*************************** Requests ***************************************)

(* A row has its fields; file is what kind of file a book has, and where. *)
IsRow(b) ==
    /\ DOMAIN b = RowFields /\ b.stage \in StageUnknown .. StageOrganized /\ (HasFile(b) => 2 \in DOMAIN b.file)
    /\ b.dirty \in BOOLEAN /\ DOMAIN b.custom = Custom

(* A book gets to the end of the workflow by being filed.  The form has no custom
   values, whose keys are not names of fields. *)
WorkflowAssumption ==
    /\ \A rows \in InitialRecord : DOMAIN rows = Book /\ \A b \in Book : IsRow(rows[b]) /\ InPlace(rows[b])
    /\ \A form \in EditForm : DOMAIN form.fields \subseteq InComicInfo
    /\ IsFiniteSet(Book) /\ IsFiniteSet(Writable) /\ Custom \intersect (RowFields \union {"published"}) = {}
    /\ \A sets \in RulesetList : Len(sets) \in Nat /\ \A i \in DOMAIN sets : Len(sets[i].actions) \in Nat

Init ==
    /\ record \in InitialRecord /\ first = record /\ saving = [w \in Writer |-> None] /\ audit = <<>> /\ started = 0
    /\ unexplained = {} /\ strayed = {}

Idle == \A w \in Writer : saving[w] = None
MayStart(w) ==
    /\ saving[w] = None
    /\ started < MaxTogether \/ (Idle /\ started < MaxRequests)
    /\ started' = started + 1

(* A request has read rows and found what they become; it writes those that change.
   A request whose rows stay as they are, or that is refused, ends there. *)
UpdateBooks(w, new, action) ==
    LET changed == {b \in DOMAIN new : new[b] # record[b]}
    IN  /\ MayStart(w)
        /\ saving' = [saving EXCEPT ![w] = IF changed = {} THEN None
                        ELSE [phase |-> "compare", action |-> action, new |-> [b \in changed |-> new[b]]]]
        /\ UNCHANGED <<record, audit, first, unexplained, strayed>>

UpdateBook(w, b, new, action) == UpdateBooks(w, [x \in {b} |-> new], action)

AtStage(stage) == {b \in Book : GetStage(record[b]) = stage}

(* handleBookEdit, and handleBulkEdit for several. *)
Edit(w) == \E b \in Book, form \in EditForm : UpdateBook(w, b, Edited(record[b], form), "edit")
BulkEdit(w) == \E books \in SUBSET Book \ {{}}, form \in EditForm :
    UpdateBooks(w, [b \in books |-> Edited(record[b], form)], "edit")

(* setFieldLocked, handleLockField. *)
SetFieldLocked(b, f, locked) == [b EXCEPT !.locked = IF locked THEN @ \union {f} ELSE @ \ {f}]
LockField(w) == \E b \in Book, f \in Lockable, locked \in BOOLEAN :
    UpdateBook(w, b, SetFieldLocked(record[b], f, locked), "edit")

(* A book that need no longer be scraped goes on; one that must again goes back. *)
Exempted(b) == AdvanceIfAtOrBefore(b, StageScrape, <<>>)
Demanded(b) == IF b.scraped \/ ExemptFromScrape(b) THEN b ELSE RegressToStageIfPast(b, StageScrape)

(* handleCVNoMatch, bulkCVNoMatch: SetNoCVMatch, with a reason that may be a new one,
   and ClearNoCVMatch. *)
SetNoCVMatch(w) == \E books \in SUBSET {b \in Book : HasFile(record[b])} \ {{}} :
    UpdateBooks(w, [b \in books |-> Exempted([record[b] EXCEPT !.nomatch = TRUE])], "no match")
ClearNoCVMatch(w) == \E books \in SUBSET {b \in Book : record[b].nomatch} \ {{}} :
    UpdateBooks(w, [b \in books |-> Demanded([record[b] EXCEPT !.nomatch = FALSE])], "no match")

(* MigrateCVDBSkip: the books with the old tag are marked. *)
MigrateCVDBSkip(w) ==
    UpdateBooks(w, [b \in {x \in Book : HasFile(record[x]) /\ Contains(record[x].tags, Skip) /\ ~record[x].nomatch /\ ~record[x].scraped} |->
                        Exempted([record[b] EXCEPT !.nomatch = TRUE])], "no match")

(* handleLocalIdentity: SetLocalIdentity, for the book and those of its siblings
   that are chosen, and ClearLocalIdentity. *)
Identified(b) == IF b.local /\ ~b.nomatch THEN b ELSE Exempted([b EXCEPT !.local = TRUE, !.nomatch = FALSE])
SetLocalIdentity(w) == \E books \in SUBSET {b \in Book : HasFile(record[b]) /\ ~record[b].scraped} \ {{}} :
    UpdateBooks(w, [b \in books |-> Identified(record[b])], "local")
ClearLocalIdentity(w) == \E b \in Book :
    record[b].local /\ UpdateBook(w, b, Demanded([record[b] EXCEPT !.local = FALSE]), "local")

(* handleAcceptFlag, handleBookCollects, handleCollectsSuggestionAction and
   handleVariantCovers: what is noted on a book beside its fields.  New covers are
   in the file already. *)
Marked(b, mark) ==
    [b EXCEPT !.marks = IF mark \in @ THEN @ \ {mark} ELSE @ \union {mark}, !.dirty = IF mark = "covers" THEN FALSE ELSE @]
Mark(w) == \E b \in Book, mark \in Marks :
    /\ mark = "covers" => HasFile(record[b])
    /\ UpdateBook(w, b, Marked(record[b], mark), "mark")

(* pagesMeta: a page of the file is given a type, or its type is taken from it.  One
   that has an item keeps it.  (Of the pages one is modelled.) *)
Paged(b, type) ==
    IF b.pages = <<type>> \/ (b.pages = <<>> /\ type = "") THEN b ELSE [b EXCEPT !.pages = <<type>>, !.dirty = TRUE]
PagesMeta(w) == \E b \in Book, type \in PageType :
    HasFile(record[b]) /\ UpdateBook(w, b, Paged(record[b], type), "pages")

(* applyRelink: a book's file was lost, and is found at another place. *)
Relinked(b) == [b EXCEPT !.file[2] = Elsewhere]
Relink(w) == \E b \in Book : HasFile(record[b]) /\ UpdateBook(w, b, Relinked(record[b]), "relink")

(* handleWriteMetadata: the file is made again with the fields of the row; MarkWritten. *)
WriteMetadata(w) == \E books \in SUBSET {b \in Book : HasFile(record[b]) /\ record[b].file[1] = "cbz"} :
    UpdateBooks(w, [b \in books |-> [record[b] EXCEPT !.dirty = FALSE]], "write")

(* countfill.Plan and Apply: a count that was not set by hand. *)
CountFilled(b) ==
    IF b.scraped /\ b.count # IssueCount /\ (b.count > 0 => b.auto.count = b.count)
    THEN [b EXCEPT !.count = IssueCount, !.auto.count = IssueCount] ELSE b
CountFill(w) == UpdateBooks(w, [b \in Book |-> CountFilled(record[b])], "counts")

(* formatdetect.Classify: by what the name says, then by the count. *)
Classify(b) ==
    CASE Contains(b.series, Annual) -> <<Annual>>
      [] ~Contains(b.series, Annual) /\ b.count <= 0 -> <<>>
      [] OTHER -> IF b.count > 15 THEN <<Series>> ELSE <<Limited>>
(* formatdetect.Plan and Apply: a format that was not set by hand. *)
FormatSet(b) ==
    IF HasFile(b) /\ b.format \in {<<>>, b.auto.format} /\ Classify(b) # <<>>
    THEN [b EXCEPT !.format = Classify(b), !.auto.format = Classify(b)] ELSE b
FormatDetect(w) == UpdateBooks(w, [b \in Book |-> FormatSet(record[b])], "formats")

(* handleAuditRollback. *)
Rollback(w) == \E b \in Book, target \in StageConvertToCBZ .. StageOrganized :
    UpdateBook(w, b, RegressToStageIfPast(record[b], target), "rollback")

(* handleAuditUndo. *)
Undo(w) == \E i \in DOMAIN audit, force \in BOOLEAN :
    UpdateBook(w, audit[i].book, Undone(record[audit[i].book], audit[i].changes, force), "undo")

(* runCBZConvertOverBooks, of which some fail. *)
Convert(w) == \E books \in SUBSET AtStage(StageConvertToCBZ), sets \in RulesetList :
    UpdateBooks(w, [b \in books |-> AdvanceIfAtOrBefore([record[b] EXCEPT !.file[1] = "cbz"], StageConvertToCBZ, sets)], "convert")

(* ApplyMetadata and comicvine.WriteMetadata: a book that is as it was found goes nowhere. *)
Matched(b) == [b EXCEPT !.series = SeriesFound, !.scraped = TRUE, !.nomatch = FALSE, !.local = FALSE]
Scrape(w) == \E b \in Book :
    LET found == Matched(record[b])
    IN  UpdateBook(w, b, IF found = record[b] THEN found ELSE AdvanceIfAtOrBefore(found, StageScrape, <<>>), "scrape")

(* MergeTag. *)
MergeTag(existing, tag) == IF Contains(existing, tag[1]) THEN existing ELSE existing \o tag

(* runScanInfoOverBooks: of some books no source is found. *)
ScanInfo(w) == \E books \in SUBSET AtStage(StageScanInfo), sets \in RulesetList :
    UpdateBooks(w, [b \in books |-> AdvanceIfAtOrBefore([record[b] EXCEPT !.scan = MergeTag(@, Detected)], StageScanInfo, sets)], "scan")

(* Apply: a book is moved to the place that its fields say; of some that fails. *)
Filed(b, sets) == AdvanceIfAtOrBefore([b EXCEPT !.file[2] = PlaceOf(b)], StageToMove, sets)

(* handleOrganizeApply. *)
Organize(w) == \E books \in SUBSET AtStage(StageToMove), sets \in RulesetList :
    UpdateBooks(w, [b \in books |-> Filed(record[b], sets)], "organize")

(*************************** The Data Manager's job *************************)

(* handleDataManagerJobStart: the rules and the books are read first ... *)
ReadForRules(w) == \E books \in SUBSET Book \ {{}}, sets \in RulesetList \ {<<>>} :
    /\ MayStart(w)
    /\ saving' = [saving EXCEPT ![w] =
                    [phase |-> "read", action |-> "rules", rows |-> [b \in books |-> record[b]], sets |-> sets]]
    /\ UNCHANGED <<record, audit, first, unexplained, strayed>>

(* dmEvaluate: every rule is tried on a copy of the book. *)
Evaluated(b, sets) == ApplyAll(b, sets).book

(* runDataManagerOverBooks: the books with changes that were chosen, if all or some fields. *)
Selected(b, after, chosen) ==
    IF chosen = Writable THEN after ELSE SelectedFields(b, after, SetToSeq(Changes(b, after) \intersect chosen))
Ruled(rows, sets, chosen) ==
    LET after == [b \in DOMAIN rows |-> Evaluated(rows[b], sets)]
    IN  [b \in {x \in DOMAIN rows : Changes(rows[x], after[x]) \intersect chosen # {}} |->
            RegressToStageIfPast(AdvanceIfAtOrBefore(Selected(rows[b], after[b], chosen), StageDataManager, sets), StageToMove)]

(* ... and the job starts if no other runs (dmJob).  It may be a preview, and may
   apply to the fields that were chosen only. *)
Running == \E w \in Writer : saving[w] # None /\ saving[w].action = "rules" /\ saving[w].phase # "read"
RunRules(w) ==
    /\ saving[w] # None /\ saving[w].phase = "read"
    /\ \/ /\ ~Running
          /\ \E chosen \in {Writable, {"series"}, {}} :
                LET new == Ruled(saving[w].rows, saving[w].sets, chosen)
                IN  saving' = [saving EXCEPT ![w] =
                        IF DOMAIN new = {} THEN None ELSE [phase |-> "compare", action |-> "rules", new |-> new]]
       \/ Running /\ saving' = [saving EXCEPT ![w] = None]
    /\ UNCHANGED <<record, audit, started, first, unexplained, strayed>>

(*************************** The audited write ******************************)

Compare(w) ==
    /\ saving[w] # None /\ saving[w].phase = "compare"
    /\ saving' = [saving EXCEPT ![w] = [phase |-> "write", action |-> @.action, new |-> @.new,
                                       seen |-> [b \in DOMAIN @.new |-> record[b]], entries |-> RowsFor(@.new)]]
    /\ UNCHANGED <<record, audit, started, first, unexplained, strayed>>

Telling(w, b) == saving[w] # None /\ saving[w].phase = "append" /\ \E e \in saving[w].entries : e.book = b

(* What may change the place of a filed book, or the fields that it depends on, and
   does not send the book back. *)
Straying == {"scrape", "counts", "formats", "relink"}

(* The rows are written one after another; the first that fails ends it, and the
   log is not told of those before it. *)
Write(w) ==
    /\ saving[w] # None /\ saving[w].phase = "write"
    /\ \E written \in SUBSET DOMAIN saving[w].new :
        LET new == saving[w].new
            all == written = DOMAIN new
        IN  /\ record' = [b \in Book |-> IF b \in written THEN new[b] ELSE record[b]]
            /\ saving' = [saving EXCEPT ![w] =
                    IF all /\ @.entries # {} THEN [phase |-> "append", action |-> @.action, entries |-> @.entries] ELSE None]
            /\ unexplained' = unexplained \union
                    {b \in written : ~all \/ record[b] # saving[w].seen[b] \/ \E v \in Writer : Telling(v, b)}
            /\ strayed' = strayed \union
                    IF saving[w].action \in Straying THEN {b \in written : ~InPlace(new[b])} ELSE {}
    /\ UNCHANGED <<audit, started, first>>

AppendAudit(w) ==
    /\ saving[w] # None /\ saving[w].phase = "append"
    /\ audit' = audit \o SetToSeq(saving[w].entries)
    /\ saving' = [saving EXCEPT ![w] = None]
    /\ UNCHANGED <<record, started, first, unexplained, strayed>>

(* The log cannot be written, which is not an error; or the process ends.  Before
   its write a request that ends has written nothing. *)
AppendFails(w) ==
    /\ saving[w] # None /\ saving[w].phase = "append"
    /\ unexplained' = unexplained \union {b \in Book : Telling(w, b)}
    /\ saving' = [saving EXCEPT ![w] = None]
    /\ UNCHANGED <<record, audit, started, first, strayed>>

Next ==
    \E w \in Writer :
        \/ Edit(w) \/ BulkEdit(w) \/ LockField(w) \/ Rollback(w) \/ Undo(w) \/ Mark(w)
        \/ PagesMeta(w) \/ Relink(w)
        \/ SetNoCVMatch(w) \/ ClearNoCVMatch(w) \/ MigrateCVDBSkip(w) \/ SetLocalIdentity(w) \/ ClearLocalIdentity(w)
        \/ Convert(w) \/ Scrape(w) \/ ScanInfo(w) \/ Organize(w) \/ WriteMetadata(w) \/ CountFill(w) \/ FormatDetect(w)
        \/ ReadForRules(w) \/ RunRules(w) \/ Compare(w) \/ Write(w) \/ AppendAudit(w) \/ AppendFails(w)

(*************************** Properties *************************************)

(* Every row has its fields, a known stage and locks that may be set; a request
   has its rows as far as it has come. *)
TypeOK ==
    /\ \A b \in Book :
        /\ record[b].stage \in StageUnknown .. StageOrganized /\ record[b].locked \subseteq Lockable
        /\ record[b].month \in 0 .. 12 /\ (HasFile(record[b]) => record[b].file[1] \in {"cbr", "cbz"})
    /\ \A w \in Writer : saving[w] # None =>
        /\ saving[w].phase \in {"read", "compare", "write", "append"}
        /\ saving[w].phase \in {"compare", "write"} => DOMAIN saving[w].new \in SUBSET Book \ {{}}
    /\ \A i \in DOMAIN audit : AuditRow(audit[i])
    /\ started \in 0 .. MaxRequests /\ unexplained \subseteq Book /\ strayed \subseteq Book

SameFields(a, b) == \A f \in Audited : FieldValue(a, f) = FieldValue(b, f)

(* The members of a finite set one after another. *)
WithoutOne(S) == S \ {CHOOSE x \in S : TRUE}
InSomeOrder(S) ==
    LET left[n \in 0 .. Cardinality(S)] == IF n = 0 THEN S ELSE WithoutOne(left[n - 1])
    IN  [n \in 1 .. Cardinality(S) |-> CHOOSE x \in left[n - 1] : TRUE]

(* Choosing all the changes that a preview shows of a book, whichever comes last, makes
   it the book that the whole run makes it (selectForApplyFields and ApplyAll),
   whatever fields overlap; only a date without a month is read as January and then
   written so.  (Every row that is ever stored is there when no request is at work:
   those at work may fail.) *)
SelectedAsWhole == Idle =>
    \A b \in Book, sets \in RulesetList :
        LET after == ApplyAll(record[b], sets).book
            changes == Changes(record[b], after)
            order(last) == Append(InSomeOrder(changes \ {last}), last)
        IN  ~(after.month < 1 /\ "published" \in changes) =>
                \A last \in changes : SameFields(after, SelectedFields(record[b], after, order(last)))

(* What is known of a book from its first row and the entries of the log, one after
   another: of a list that an entry names, only how many items it has. *)
Known(row) == [f \in Audited \union {"stage"} |-> IF f = "stage" THEN GetStage(row) ELSE FieldValue(row, f)]
After(known, e) == [f \in DOMAIN known |->
    IF f = "stage" THEN e.stages[2] ELSE IF f \in DOMAIN e.changes THEN e.changes[f][2] ELSE known[f]]
Told(b) ==
    LET told[n \in 0 .. Len(audit)] ==
            IF n = 0 THEN Known(first[b]) ELSE IF audit[n].book = b THEN After(told[n - 1], audit[n]) ELSE told[n - 1]
    IN  told[Len(audit)]
Explains(known, row) ==
    known["stage"] = GetStage(row) /\ \A f \in Audited : known[f] \in {FieldValue(row, f), Logged(row, f)}

(* The audit log tells how each book came to be what it is: the changes of its
   entries, one after another, turn the first row into the present one, as far as they
   have values; a list that none of them names is as it was, and one that some name
   has as many items as the last of these says (Diff, which does not have the items).
   Left out are the books with a write that failed half way, was never told, or met
   another between its comparison, its write and its entry. *)
AuditExplains ==
    \A b \in Book \ unexplained : (\A w \in Writer : ~Telling(w, b)) => Explains(Told(b), record[b])

(* A book at the end of the workflow is filed where its fields say, whatever was
   edited, undone, rolled back or run by rules since and whatever overwrote what, for
   a change of a field that the place depends on sends it back (applyBookEdit,
   handleAuditUndo, runDataManagerOverBooks).  What changes them and does not, a
   scrape, the filling of counts, the detection of formats and a new link to a lost
   file, may leave it elsewhere. *)
FiledWhereItSays ==
    \A b \in Book \ strayed : InPlace(record[b])
=============================================================================
