------------------------------ MODULE CBLLists ------------------------------
(***************************************************************************)
(* Reading lists made from CBL files (internal/cbl, internal/cblrepo,      *)
(* internal/storage: cbl_import, cbl_reimport; internal/api: cbl handlers).*)
(*                                                                         *)
(* A file is uploaded, or comes from the clone of a git repository that is *)
(* pulled now and then.  Its entries are matched with the books there are, *)
(* and the list is stored with the commit it came from, which says later   *)
(* whether there is something new to import.  A user corrects matches, and *)
(* asks for books to be wanted for the entries without one.  Each of these *)
(* reads first and writes later, and meanwhile the others go on.           *)
(***************************************************************************)
EXTENDS Integers, Sequences, FiniteSets

CONSTANTS
    List, Caller,       \* the rows for lists, and the requests at work together
    Owned, Present, Wanted,     \* the ids of books in the library, those there at first, and of those made for entries
    Facts,              \* what is known of an owned book: Owned -> entry
    Path, History,      \* the files of the repository: a sequence of functions Path -> sequence of entries, or Gone
    Uploads,            \* the files that are uploaded
    Gone, None,
    MaxRequests, MaxChanges     \* bounds: the requests, and the changes of books and lists beside them

(* An entry is [issue, number, series, year, volume, format]: the ComicVine id or
   0, and the series as it is written, without a volume, and stripped of marks. *)

VARIABLES
    reading,        \* List -> [path, ref, edition, rows, items, count], None before it is made, Gone when it is deleted
    shelf,          \* Owned, Wanted -> what is known of a book that is there, or None
    made,           \* Wanted -> the [list, entry] it was made for, or None
    head, known,    \* the commit that is checked out, and the first that the clone knows
    work,           \* Caller -> its request, or None
    requests, moves,    \* bounds: so far
    shared,         \* ghost: the lists in which a correction gave two entries one book
    overtaken,      \* ghost: the lists for which the clone moved between the two reads of an import
    crossed,        \* ghost: the lists that changed between the reads and the write of a whole-list update
    undecided       \* ghost: [list, entry] that may be wanted twice, see WantedOnce

vars == <<reading, shelf, made, head, known, work, requests, moves, shared, overtaken, crossed, undecided>>

Id == Owned \union Wanted
There == {b \in Id : shelf[b] # None}

(*************************** Matching ***************************************)

(* filterByNumberAndSeries, on the k-th way to read a series. *)
Named(e, k) == {b \in There : shelf[b].number = e.number /\ shelf[b].series[k] = e.series[k]}

(* Each filter is left out if it would leave nothing. *)
Narrowed(books, to) == IF Cardinality(books) > 1 /\ to # {} THEN to ELSE books
ByYear(books, e) == {b \in books : shelf[b].year - e.year \in -1 .. 1}
ByVolume(books, e) == {b \in books : shelf[b].volume = e.volume}
ByFormat(books, e) == IF e.format = "" THEN {} ELSE {b \in books : shelf[b].format = e.format}

(* MatchEntry: the books of which the first one is taken. *)
WithIssue(e) == {b \in There : e.issue # 0 /\ shelf[b].issue = e.issue}
Candidates(e) ==
    LET named == IF Named(e, 1) # {} THEN Named(e, 1) ELSE IF Named(e, 2) # {} THEN Named(e, 2) ELSE Named(e, 3)
        dated == Narrowed(named, ByYear(named, e))
        sized == Narrowed(dated, ByVolume(dated, e))
    IN  Narrowed(sized, ByFormat(sized, e))
MatchEntry(e) == IF WithIssue(e) # {} THEN WithIssue(e) ELSE Candidates(e)
MatchPath(e) == IF WithIssue(e) # {} THEN "cv_id" ELSE IF Candidates(e) # {} THEN "series_number" ELSE "none"

(* The rows for a file; which of the candidates comes first is left open. *)
Row(e, b) == [entry |-> e, book |-> b, path |-> MatchPath(e), wanted |-> None]
RowsFor(content) ==
    {[i \in DOMAIN content |-> Row(content[i], pick[i])] : pick \in
        {p \in [DOMAIN content -> Id \union {None}] :
            \A i \in DOMAIN content : IF MatchEntry(content[i]) = {} THEN p[i] = None ELSE p[i] \in MatchEntry(content[i])}}

MatchedRows(rows) == {i \in DOMAIN rows : rows[i].book # None}
(* The items, numbered as they come. *)
Items(rows) ==
    [b \in {rows[i].book : i \in MatchedRows(rows)} |->
        Cardinality({i \in MatchedRows(rows) : \A j \in MatchedRows(rows) : rows[j].book = b => i < j})]
(* (list_id, book_id) is the key: a file with two entries for a book is refused. *)
Storable(rows) == \A i, j \in MatchedRows(rows) : rows[i].book = rows[j].book => i = j

(*************************** The clone **************************************)

(* git diff -M: a file that is gone and a new one with something in common. *)
Similar(a, b) == \E i \in DOMAIN a, j \in DOMAIN b : a[i] = b[j]
NewPaths(ref, path) ==
    {p \in Path : History[ref][p] = Gone /\ History[head][p] # Gone /\ Similar(History[ref][path], History[head][p])}

(* With the renames left to the default. *)
CheckWithoutRenames(ref, path) ==
    CASE ref < known -> "base unknown"
      [] ref >= known /\ History[ref][path] # Gone /\ History[head][path] \notin {Gone, History[ref][path]} -> "modified"
      [] OTHER -> "unchanged"

(* CheckPathChange; what git does not mention is unchanged. *)
CheckPathChange(ref, path) ==
    CASE ref < known -> "base unknown"
      [] ref >= known /\ (History[ref][path] = Gone \/ History[ref][path] = History[head][path]) -> "unchanged"
      [] OTHER -> IF History[head][path] # Gone THEN "modified"
                  ELSE IF NewPaths(ref, path) # {} THEN "renamed" ELSE "orphaned"

(* Repo.Sync: a pull that is not fast-forward is left. *)
Sync ==
    /\ head < Len(History) /\ head' = head + 1
    /\ UNCHANGED <<reading, shelf, made, known, work, requests, moves, shared, overtaken, crossed, undecided>>

(* After a rewritten history the clone is made again, and the old commits are not in it. *)
CloneAgain ==
    /\ head < Len(History) /\ head' = head + 1 /\ known' = head'
    /\ UNCHANGED <<reading, shelf, made, work, requests, moves, shared, overtaken, crossed, undecided>>

(*************************** Imports ****************************************)

Live(l) == reading[l] \notin {None, Gone}
Free(c) == work[c] = None /\ requests < MaxRequests
StepOf(c, phase) == work[c] # None /\ work[c].phase = phase
Starts(c, r) == Free(c) /\ work' = [work EXCEPT ![c] = r] /\ requests' = requests + 1
Becomes(c, r) == work' = [work EXCEPT ![c] = r] /\ UNCHANGED requests
Other == <<shelf, made, head, known, moves>>
Stored == <<reading, shared, overtaken, crossed, undecided>>

(* opened is the commit at which the file was read, ref the one that is recorded. *)
Import(phase, l, path, content) ==
    [phase |-> phase, list |-> l, path |-> path, content |-> content, opened |-> head, ref |-> 0, rows |-> <<>>, edition |-> requests + 1]

(* handleImportCBL, runImportCBL. *)
Upload(c) ==
    /\ \E content \in Uploads : content # <<>> /\ Starts(c, Import("placed", None, None, content))
    /\ UNCHANGED Other /\ UNCHANGED Stored

(* handleCBLRepoImport, until it has read the file. *)
Open(c) ==
    /\ \E p \in Path : History[head][p] \notin {Gone, <<>>} /\ Starts(c, Import("opened", None, p, History[head][p]))
    /\ UNCHANGED Other /\ UNCHANGED Stored

(* The path from which a list is to be read again. *)
FetchPath(change, l) == IF change = "renamed" THEN NewPaths(reading[l].ref, reading[l].path) ELSE {reading[l].path}

(* handleCBLReimport, and runCBLReimport for each of the lists. *)
Check(c, l) ==
    /\ Live(l) /\ reading[l].path # None
    /\ LET change == CheckPathChange(reading[l].ref, reading[l].path)
       IN  change \in {"modified", "renamed"} /\ \E p \in FetchPath(change, l) : Starts(c, Import("checked", l, p, <<>>))
    /\ UNCHANGED Other /\ UNCHANGED Stored

(* applyCBLReimport; the file may have gone since. *)
Fetch(c) ==
    /\ StepOf(c, "checked")
    /\ LET found == History[head][work[c].path]
       IN  Becomes(c, IF found = Gone THEN None ELSE [work[c] EXCEPT !.phase = "opened", !.content = found, !.opened = head])
    /\ UNCHANGED Other /\ UNCHANGED Stored

ReadHead(c) ==
    /\ StepOf(c, "opened")
    /\ Becomes(c, [work[c] EXCEPT !.phase = "placed", !.ref = head])
    /\ UNCHANGED Other /\ UNCHANGED Stored

(* ImportCBL, ReimportCBL, before their transaction; GetCBLSource first. *)
Match(c) ==
    /\ StepOf(c, "placed")
    /\ IF work[c].list # None /\ ~Live(work[c].list) THEN Becomes(c, None)
       ELSE \E rows \in RowsFor(work[c].content) : Becomes(c, [work[c] EXCEPT !.phase = "matched", !.rows = rows])
    /\ UNCHANGED Other /\ UNCHANGED Stored

Entries(rows) == [i \in DOMAIN rows |-> rows[i].entry]
WantedFor(l, e) == {w \in Wanted : made[w] = [list |-> l, entry |-> e]}
(* What is stored as unmatched although a book that was made for it is there by now. *)
Overlooked(l, rows) ==
    {[list |-> l, entry |-> rows[i].entry] : i \in {k \in DOMAIN rows : rows[k].path = "none" /\ WantedFor(l, rows[k].entry) \cap There # {}}}

Listed(r) ==
    [path |-> r.path, ref |-> r.ref, edition |-> r.edition, rows |-> r.rows, items |-> Items(r.rows), count |-> Cardinality(MatchedRows(r.rows))]

(* A whole-list update of it is at work. *)
Edits == {c \in Caller : work[c] # None /\ work[c].phase \in {"row", "members"}}
Beside(l) == \E c \in Edits : work[c].list = l

(* Their transaction: nothing if it fails. *)
Commit(c) ==
    /\ StepOf(c, "matched")
    /\ Becomes(c, None)
    /\ LET r == work[c] IN
       \E l \in IF r.list = None THEN {k \in List : reading[k] = None} ELSE {r.list} :
        IF Storable(r.rows) /\ (r.list # None => Live(l))
        THEN /\ reading' = [reading EXCEPT ![l] = Listed(r)]
             /\ shared' = shared \ {l}
             /\ overtaken' = IF r.path # None /\ r.opened # r.ref THEN overtaken \union {l} ELSE overtaken \ {l}
             /\ crossed' = IF Beside(l) THEN crossed \union {l} ELSE crossed \ {l}
             /\ undecided' = undecided \union Overlooked(l, r.rows)
        ELSE UNCHANGED Stored
    /\ UNCHANGED Other

(* handleDeleteList: entries and members go with it. *)
DeleteList(l) ==
    /\ Live(l) /\ moves < MaxChanges /\ moves' = moves + 1
    /\ reading' = [reading EXCEPT ![l] = Gone]
    /\ UNCHANGED <<shelf, made, head, known, work, requests, shared, overtaken, crossed, undecided>>

(* handleUpdateList, FindListByID: one at a time, but not against the imports and
   the corrections, which do not take its lock; the row is read before the members. *)
ReadList(c, l) ==
    /\ Live(l) /\ Edits = {}
    /\ Starts(c, [phase |-> "row", list |-> l, count |-> reading[l].count, items |-> <<>>])
    /\ UNCHANGED Other /\ UNCHANGED Stored

ReadMembers(c) ==
    /\ StepOf(c, "row")
    /\ LET l == work[c].list IN
       \/ Live(l) /\ Becomes(c, [work[c] EXCEPT !.phase = "members", !.items = reading[l].items])
       \/ Becomes(c, None)      \* it fails, or a list without members is written in vain
    /\ UNCHANGED Other /\ UNCHANGED Stored

(* UpdateListRecord: all members are deleted, and those that were read inserted in
   their order, with the count that was read. *)
Renumbered(items) == [b \in DOMAIN items |-> Cardinality({x \in DOMAIN items : items[x] < items[b]})]
UpdateList(c) ==
    /\ StepOf(c, "members")
    /\ Becomes(c, None)
    /\ LET l == work[c].list IN
       \/ Live(l) /\ reading' = [reading EXCEPT ![l] = [reading[l] EXCEPT !.items = Renumbered(work[c].items), !.count = work[c].count]]
       \/ UNCHANGED reading     \* there is no such list, or it fails
    /\ UNCHANGED Other /\ UNCHANGED <<shared, overtaken, crossed, undecided>>

(*************************** Corrections ************************************)

(* A book that is removed keeps its row. *)
InTable == Owned \union {w \in Wanted : made[w] # None}

(* The old book is left in the list. *)
ReplacedBeside(items, old, b, at) ==
    IF b = None \/ b = old THEN items ELSE [x \in DOMAIN items \union {b} |-> IF x = b THEN at ELSE items[x]]

Replaced(items, old, b, at) ==
    LET left == IF old = b THEN items ELSE [x \in DOMAIN items \ {old} |-> items[x]]
    IN  IF b = None \/ b = old THEN left ELSE [x \in DOMAIN left \union {b} |-> IF x = b THEN at ELSE left[x]]

(* CorrectCBLImportEntry. *)
Correct(l, i, b) ==
    /\ moves < MaxChanges /\ moves' = moves + 1
    /\ LET list == reading[l]
           items == Replaced(list.items, list.rows[i].book, b, i)
           rows == [list.rows EXCEPT ![i].book = b, ![i].path = IF b = None THEN "none" ELSE "manual"]
       IN  /\ reading' = [reading EXCEPT ![l] = [list EXCEPT !.rows = rows, !.items = items, !.count = Cardinality(DOMAIN items)]]
           /\ shared' = IF \E j \in DOMAIN rows \ {i} : b # None /\ rows[j].book = b THEN shared \union {l} ELSE shared
           /\ crossed' = IF Beside(l) THEN crossed \union {l} ELSE crossed
           /\ undecided' = IF b = None THEN undecided \union {[list |-> l, entry |-> rows[i].entry]} ELSE undecided
    /\ UNCHANGED <<shelf, made, head, known, work, requests, overtaken>>

(* A book is removed, or an import brings it back. *)
Remove(b) ==
    /\ shelf[b] # None /\ moves < MaxChanges /\ moves' = moves + 1
    /\ shelf' = [shelf EXCEPT ![b] = None]
    /\ UNCHANGED <<reading, made, head, known, work, requests, shared, overtaken, crossed, undecided>>

Bring(b) ==
    /\ shelf[b] = None /\ moves < MaxChanges /\ moves' = moves + 1
    /\ shelf' = [shelf EXCEPT ![b] = Facts[b]]
    /\ UNCHANGED <<reading, made, head, known, work, requests, shared, overtaken, crossed, undecided>>

(*************************** Wanted books ***********************************)

(* Also what is wanted already. *)
UnresolvedAgain(l) == {i \in DOMAIN reading[l].rows : reading[l].rows[i].path = "none"}
Unresolved(l) == {i \in DOMAIN reading[l].rows : reading[l].rows[i].path = "none" /\ reading[l].rows[i].wanted = None}
AtWork(l) == {c \in Caller : work[c] # None /\ work[c].phase \in {"create", "mark"} /\ work[c].list = l}
Repeated(rows) == {e \in {rows[i].entry : i \in DOMAIN rows} : \E i, j \in DOMAIN rows : i # j /\ rows[i].entry = e /\ rows[j].entry = e}

(* handleAddCBLUnmatchedToWanted: GetUnresolvedCBLImportEntries. *)
ReadUnresolved(c, l) ==
    /\ Live(l) /\ Unresolved(l) # {}
    /\ Starts(c, [phase |-> "create", list |-> l, edition |-> reading[l].edition, rows |-> reading[l].rows, left |-> Unresolved(l), book |-> None])
    /\ undecided' = undecided \union {[list |-> l, entry |-> e] : e \in
            IF AtWork(l) = {} THEN Repeated(reading[l].rows) ELSE {reading[l].rows[i].entry : i \in Unresolved(l)}}
    /\ UNCHANGED Other /\ UNCHANGED <<reading, shared, overtaken, crossed>>

First(set) == CHOOSE i \in set : \A j \in set : i <= j
AfterThis(c) ==
    LET left == work[c].left \ {First(work[c].left)}
    IN  IF left = {} THEN None ELSE [work[c] EXCEPT !.phase = "create", !.left = left, !.book = None]
EntryOf(c) == work[c].rows[First(work[c].left)].entry

(* CreateBook, with the same series, number, year, volume, format and issue. *)
Create(c) ==
    /\ StepOf(c, "create")
    /\ \/ \E w \in Wanted :
            /\ made[w] = None
            /\ made' = [made EXCEPT ![w] = [list |-> work[c].list, entry |-> EntryOf(c)]]
            /\ shelf' = [shelf EXCEPT ![w] = EntryOf(c)]
            /\ Becomes(c, [work[c] EXCEPT !.phase = "mark", !.book = w])
       \/ Becomes(c, AfterThis(c)) /\ UNCHANGED <<made, shelf>>
    /\ UNCHANGED <<head, known, moves>> /\ UNCHANGED Stored

(* MarkCBLImportEntryWanted: by the id of the entry, which a new import replaces. *)
Marks(l, edition) == Live(l) /\ reading[l].edition = edition
Mark(c) ==
    /\ StepOf(c, "mark")
    /\ Becomes(c, AfterThis(c))
    /\ LET l == work[c].list IN
       \/ /\ Marks(l, work[c].edition)
          /\ reading' = [reading EXCEPT ![l].rows[First(work[c].left)].wanted = work[c].book]
          /\ UNCHANGED undecided
       \/ /\ UNCHANGED reading        \* there is no such entry, or it fails
          /\ undecided' = undecided \union {[list |-> l, entry |-> EntryOf(c)]}
    /\ UNCHANGED Other /\ UNCHANGED <<shared, overtaken, crossed>>

Init ==
    /\ reading = [l \in List |-> None] /\ work = [c \in Caller |-> None] /\ made = [w \in Wanted |-> None]
    /\ shelf = [b \in Id |-> IF b \in Present THEN Facts[b] ELSE None]
    /\ head = 1 /\ known = 1 /\ requests = 0 /\ moves = 0
    /\ shared = {} /\ overtaken = {} /\ crossed = {} /\ undecided = {}

Next ==
    \/ Sync \/ CloneAgain
    \/ \E c \in Caller : Upload(c) \/ Open(c) \/ Fetch(c) \/ ReadHead(c) \/ Match(c) \/ Commit(c) \/ ReadMembers(c) \/ UpdateList(c)
        \/ Create(c) \/ Mark(c)
    \/ \E c \in Caller, l \in List : Check(c, l) \/ ReadList(c, l) \/ ReadUnresolved(c, l)
    \/ \E l \in List : DeleteList(l) \/ (Live(l) /\ \E i \in DOMAIN reading[l].rows, b \in InTable \union {None} : Correct(l, i, b))
    \/ \E b \in Owned : Remove(b) \/ Bring(b)

Spec == Init /\ [][Next]_vars

(*************************** Properties *************************************)

(* A row of cbl_import_entries. *)
ImportEntry(r) ==
    /\ r.path \in {"cv_id", "series_number", "none", "manual"}
    /\ {r.book, r.wanted} \subseteq Id \union {None}

TypeOK ==
    /\ head \in 1 .. Len(History) /\ known \in 1 .. head
    /\ \A l \in List : Live(l) => \A i \in DOMAIN reading[l].rows : ImportEntry(reading[l].rows[i])
    /\ \A l \in List : Live(l) => reading[l].ref \in 0 .. head /\ reading[l].path \in Path \union {None}
    /\ \A c \in Caller : work[c] # None => work[c].phase \in {"checked", "opened", "placed", "matched", "row", "members", "create", "mark"}

(* A list made from a file has as its members the books its entries are matched
   with, and counts them, whatever is imported again, corrected and edited: the
   entries page and the list agree.  Where a user gave two entries one book,
   correcting one of them takes the book away from both; and a whole-list update
   puts back the members it has read, so a list that was imported again or corrected
   between its reads and its write is excepted, until it is imported again. *)
EntriesAreMembers ==
    \A l \in List : Live(l) /\ l \notin crossed =>
        LET books == {reading[l].rows[i].book : i \in DOMAIN reading[l].rows} \ {None} IN
        /\ DOMAIN reading[l].items \subseteq books
        /\ l \notin shared => DOMAIN reading[l].items = books
        /\ reading[l].count = Cardinality(DOMAIN reading[l].items)

(* A list that is said to be unchanged has the entries that its file has now,
   across pulls, renames and imports at the same time, unless the clone moved
   between the read of the file and the read of the commit. *)
UnchangedIsCurrent ==
    \A l \in List :
        Live(l) /\ l \notin overtaken /\ reading[l].path # None /\ reading[l].ref >= known =>
            (CheckPathChange(reading[l].ref, reading[l].path) = "unchanged" => Entries(reading[l].rows) = History[head][reading[l].path])

(* Asking twice for the missing books makes no second wanted book for an entry,
   also when the list is imported again in between; but two requests at a time
   do, a mark that fails does, an import that looked at the books before, an
   entry that the file has twice, and an entry from which the user took the book. *)
WantedOnce ==
    \A v, w \in Wanted \cap There : v # w /\ made[v] = made[w] => made[v] \in undecided
=============================================================================
