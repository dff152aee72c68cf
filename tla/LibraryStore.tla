----------------------------- MODULE LibraryStore -----------------------------
(***************************************************************************)
(* The books of the SQLite backend (internal/storage): rows that are       *)
(* edited here and merged with every ComicRack file that is imported, and  *)
(* the snapshot of them that list evaluation shares (libCache) with its    *)
(* warm mark.                                                              *)
(*                                                                         *)
(* A book is a text for each of its fields.  The code treats fields in     *)
(* different ways, and only that is kept of them: computeBookHash looks    *)
(* at the Hashed ones; the Joined ones (Tags, CustomValuesStore) are split *)
(* into the rows of a table of their own and joined again by a reader, who *)
(* gets a text that says the same (Canon) but may order or space it        *)
(* differently.                                                            *)
(*                                                                         *)
(* SQLiteBackend.mu is held by every write for all of its duration, so a   *)
(* write is one step; ImportFrom is two because what it does under warmMu  *)
(* in between is seen by those who take only that lock.  An import that    *)
(* fails rolls its transaction back and changes nothing.                   *)
(***************************************************************************)
EXTENDS Naturals

CONSTANTS
    Book,
    Fresh,          \* the IDs that books created here may draw
    Field,
    Hashed,         \* the fields computeBookHash looks at
    Joined,         \* the fields kept as rows of book_tags, book_custom_values
    TextOf,         \* field -> the texts it may have
    Canon,          \* field -> text -> the text a reader gets back
    Request,        \* requests that import a file, each with its warm-up
    MaxImports,     \* bound on generation
    Absent,         \* no book, no row
    NoSnapshot,     \* libCache = nil
    NotMine         \* a field that was not edited here

ASSUME FieldAssumption == Hashed \subseteq Field /\ Joined \subseteq Field

(* What a reader gets back is stored and read back as it is. *)
ASSUME CanonAssumption ==
    \A f \in Field : \A x \in TextOf[f] :
        Canon[f][x] \in TextOf[f] /\ Canon[f][Canon[f][x]] = Canon[f][x]

ASSUME BoundAssumption == MaxImports \in Nat

AnyText == UNION {TextOf[f] : f \in Field}

(* A library.ComicBook, without its ID. *)
ComicBook == {b \in [Field -> AnyText] : \A f \in Field : b[f] \in TextOf[f]}

(* What reads back as it was written. *)
Stored == {b \in ComicBook : \A f \in Joined : Canon[f][b[f]] = b[f]}

(* live: the columns and the tables beside them; snapshot: xml_snapshot, whose
   hash is import_hash (every statement that writes one writes the other);
   deleted: deleted_at is set. *)
Row == [live : Stored, snapshot : ComicBook, deleted : BOOLEAN]

ASSUME NoneAssumption ==
    /\ Absent \notin ComicBook \union Row
    /\ NotMine \notin AnyText
    /\ NoSnapshot \notin [Book -> ComicBook \union {Absent}]

VARIABLES
    row,        \* the books table: book -> row, or Absent
    libCache,
    generation, \* how many imports
    warmed,
    stage,      \* request -> where it is: "idle", "bump", "warm", "build", "mark"
    seen,       \* request -> the generation its WarmUp has read
    imported,   \* ghost: the file of the last import
    mine,       \* ghost: book -> field -> the text an edit here gave it
    builtFor    \* ghost: the generation in which libCache was last built

store == <<row, imported, mine>>
warmth == <<generation, warmed, stage, seen, builtFor>>
vars == <<row, libCache, generation, warmed, stage, seen, imported, mine, builtFor>>

--------------------------------------------------------------------------------
\* Rows

(* A column takes a text as it is; a Joined field is split and joined again. *)
StoredAs(book) == [f \in Field |-> IF f \in Joined THEN Canon[f][book[f]] ELSE book[f]]

InsertBook(book) == [live |-> StoredAs(book), snapshot |-> book, deleted |-> FALSE]

Hash(book) == [f \in Hashed |-> book[f]]

Library == [Book -> ComicBook \union {Absent}]

(* What GetAllBooks returns. *)
Visible == [b \in Book |-> IF row[b] = Absent \/ row[b].deleted THEN Absent ELSE row[b].live]

Nothing == [f \in Field |-> NotMine]
Init ==
    /\ row = [b \in Book |-> Absent]
    /\ libCache = NoSnapshot
    /\ generation = 0
    /\ warmed = FALSE
    /\ stage \in {[r \in Request |-> IF r = s THEN "warm" ELSE "idle"] : s \in Request}
    /\ seen = [r \in Request |-> 0]
    /\ imported = [b \in Book |-> Absent]
    /\ mine = [b \in Book |-> Nothing]
    /\ builtFor = 0

(* SQLiteBackend.mu is free. *)
Unlocked == \A r \in Request : stage[r] # "bump"

--------------------------------------------------------------------------------
\* Importing a file

(* Fault: the file wins every conflict. *)
MergedFileWins(old, live, new) == IF new # old THEN new ELSE live

(* diffBookColumns: a text changes only if the file changed it and it is what
   the file said before. *)
Merged(old, live, new) == IF new # old /\ live = old THEN new ELSE live

MergeUpdateBook(r, book) ==
    [live |-> StoredAs([f \in Field |-> Merged(r.snapshot[f], r.live[f], book[f])]),
     snapshot |-> book, deleted |-> FALSE]

(* The row of one book after the import of a file that says book of it.  A row
   that was deleted is overwritten, edits and all. *)
ImportBook(r, book) ==
    IF book = Absent THEN IF r = Absent THEN Absent ELSE [r EXCEPT !.deleted = TRUE]
    ELSE IF r = Absent \/ r.deleted THEN InsertBook(book)
    ELSE IF Hash(book) # Hash(r.snapshot) THEN MergeUpdateBook(r, book)
    ELSE r

(* Ghost: an edit is forgotten with its row, or when the file says the same. *)
StillMine(b) ==
    IF row'[b] = Absent \/ row[b] = Absent \/ (row[b].deleted /\ ~row'[b].deleted) THEN Nothing
    ELSE [f \in Field |-> IF mine[b][f] = StoredAs(row'[b].snapshot)[f] THEN NotMine
                          ELSE mine[b][f]]

(* Up to "b.libCache = nil" of SQLiteBackend.ImportFrom, for any file. *)
ImportFrom(r) ==
    /\ stage[r] = "idle" /\ Unlocked /\ generation < MaxImports
    /\ imported' \in Library
    /\ row' = [b \in Book |-> ImportBook(row[b], imported'[b])]
    /\ mine' = [b \in Book |-> StillMine(b)]
    /\ libCache' = NoSnapshot
    /\ stage' = [stage EXCEPT ![r] = "bump"]
    /\ UNCHANGED <<generation, warmed, seen, builtFor>>

(* bumpGeneration, the end of ImportFrom (loadMetadata never fails); the request
   then starts a WarmUp. *)
BumpGeneration(r) ==
    /\ stage[r] = "bump"
    /\ generation' = generation + 1
    /\ warmed' = FALSE
    /\ stage' = [stage EXCEPT ![r] = "warm"]
    /\ UNCHANGED <<store, libCache, seen, builtFor>>

--------------------------------------------------------------------------------
\* The snapshot

(* cachedLibrary, when it succeeds. *)
CachedLibrary ==
    /\ Unlocked
    /\ libCache' = IF libCache = NoSnapshot THEN Visible ELSE libCache
    /\ builtFor' = IF libCache = NoSnapshot THEN generation ELSE builtFor

(* WarmUp reads the generation. *)
WarmUp(r) ==
    /\ stage[r] = "warm"
    /\ seen' = [seen EXCEPT ![r] = generation]
    /\ stage' = [stage EXCEPT ![r] = "build"]
    /\ UNCHANGED <<store, libCache, generation, warmed, builtFor>>

(* WarmUp builds the snapshot, or gives up on an error. *)
Build(r) ==
    /\ stage[r] = "build"
    /\ \/ CachedLibrary /\ stage' = [stage EXCEPT ![r] = "mark"]
       \/ Unlocked /\ stage' = [stage EXCEPT ![r] = "idle"] /\ UNCHANGED <<libCache, builtFor>>
    /\ UNCHANGED <<store, generation, warmed, seen>>

(* Fault: WarmUp marks without comparing generations. *)
MarkWarmAlways(r) ==
    /\ stage[r] = "mark"
    /\ warmed' = TRUE
    /\ stage' = [stage EXCEPT ![r] = "idle"]
    /\ UNCHANGED <<store, libCache, generation, seen, builtFor>>

(* WarmUp marks the backend warm, unless a later import came between. *)
MarkWarm(r) ==
    /\ stage[r] = "mark"
    /\ warmed' = (warmed \/ generation = seen[r])
    /\ stage' = [stage EXCEPT ![r] = "idle"]
    /\ UNCHANGED <<store, libCache, generation, seen, builtFor>>

(* evaluationLibrary, for a list that needs the snapshot. *)
Evaluate ==
    /\ CachedLibrary
    /\ UNCHANGED <<store, generation, warmed, stage, seen>>

--------------------------------------------------------------------------------
\* Editing

(* Fault: the edit also becomes what the file is compared with. *)
UpdateBookFieldsAndHash(r, book) ==
    IF r = Absent THEN Absent ELSE [r EXCEPT !.live = StoredAs(book), !.snapshot = StoredAs(book)]

(* The whole row is written, deleted or not; import_hash and xml_snapshot stay. *)
UpdateBookFields(r, book) == IF r = Absent THEN Absent ELSE [r EXCEPT !.live = StoredAs(book)]

(* Ghost: the fields in which the row now differs from the file. *)
NowMine(b) ==
    IF row[b] = Absent THEN Nothing
    ELSE [f \in Field |-> IF row'[b].live[f] = StoredAs(row[b].snapshot)[f] THEN NotMine
                          ELSE row'[b].live[f]]

(* UpdateBook, UpdateBooks: the caller writes back books that it read at any
   earlier time and changed.  They are written one by one, so that an error
   leaves some written. *)
UpdateBooks ==
    /\ Unlocked
    /\ \E written \in SUBSET Book : \E books \in [written -> ComicBook] :
           /\ row' = [b \in Book |-> IF b \in written THEN UpdateBookFields(row[b], books[b])
                                     ELSE row[b]]
           /\ mine' = [b \in Book |-> IF b \in written THEN NowMine(b) ELSE mine[b]]
    /\ libCache' = NoSnapshot
    /\ UNCHANGED <<warmth, imported>>

(* Fault: a new book does not drop the snapshot. *)
CreateBookBehindCache(b) ==
    /\ b \in Fresh /\ Unlocked
    /\ row[b] = Absent
    /\ \E book \in ComicBook : row' = [row EXCEPT ![b] = InsertBook(book)]
    /\ UNCHANGED <<warmth, libCache, imported, mine>>

(* An error when the table has the ID, deleted or not. *)
CreateBook(b) ==
    /\ b \in Fresh /\ Unlocked
    /\ IF row[b] = Absent
       THEN \E book \in ComicBook : row' = [row EXCEPT ![b] = InsertBook(book)]
       ELSE row' = row
    /\ libCache' = NoSnapshot
    /\ UNCHANGED <<warmth, imported, mine>>

(* An error when there is no such book. *)
DeleteBook(b) ==
    /\ Unlocked
    /\ row' = IF row[b] = Absent THEN row ELSE [row EXCEPT ![b].deleted = TRUE]
    /\ libCache' = NoSnapshot
    /\ UNCHANGED <<warmth, imported, mine>>

(* The server starts again, with the same database; a request that was being
   served is gone. *)
NewProcess ==
    /\ libCache' = NoSnapshot
    /\ generation' = 0 /\ builtFor' = 0
    /\ warmed' = FALSE
    /\ \E s \in Request : stage' = [r \in Request |-> IF r = s THEN "warm" ELSE "idle"]
    /\ seen' = [r \in Request |-> 0]
    /\ UNCHANGED store

Next ==
    \/ \E r \in Request : ImportFrom(r) \/ BumpGeneration(r) \/ WarmUp(r) \/ Build(r) \/ MarkWarm(r)
    \/ \E b \in Book : CreateBook(b) \/ DeleteBook(b)
    \/ UpdateBooks \/ Evaluate \/ NewProcess

Spec == Init /\ [][Next]_vars

--------------------------------------------------------------------------------
\* Properties

TypeOK ==
    /\ row \in [Book -> Row \union {Absent}]
    /\ libCache \in [Book -> Stored \union {Absent}] \union {NoSnapshot}
    /\ generation \in Nat
    /\ warmed \in BOOLEAN
    /\ stage \in [Request -> {"idle", "bump", "warm", "build", "mark"}]
    /\ seen \in [Request -> Nat]
    /\ imported \in Library
    /\ mine \in [Book -> [Field -> AnyText \union {NotMine}]]
    /\ builtFor \in Nat

(* A list is never evaluated on books as they were before a write: the shared
   snapshot, if there is one, is what the rows say (invalidation in every write
   of backend.go, double-checked rebuild in cachedLibrary). *)
CacheMirrorsRows == libCache # NoSnapshot => libCache = Visible

(* The backend is never called warm on the strength of a snapshot built before
   the last import (the two looks at generation in WarmUp). *)
WarmIsCurrent == warmed => builtFor = generation

(* What was last written here to a field stays through any number of imports,
   whatever the files say of it, until it is written again, the file agrees with
   it, or the book is retired (diffBookColumns: the live value wins). *)
EditsKept ==
    \A b \in Book, f \in Field :
        mine[b][f] # NotMine => row[b] # Absent /\ row[b].live[f] = mine[b][f]

(* A field that is as the file had it goes on following the file, as far as the
   rows know it, so that nothing passes for an edit that was none.  Joined
   fields do not have this property (see UneditedFollowsFile). *)
UneditedMatchesSnapshot ==
    \A b \in Book, f \in Field \ Joined :
        row[b] # Absent /\ mine[b][f] = NotMine => row[b].live[f] = row[b].snapshot[f]

(* Importing the same file again changes no book that is still there, edited
   since or not (importBooks compares hashes of files, not of rows). *)
ImportIsIdempotent ==
    [][(\E r \in Request : stage[r] = "idle" /\ stage'[r] = "bump") /\ imported' = imported
       => \A b \in Book : imported[b] # Absent /\ Visible[b] # Absent => row'[b] = row[b]]_vars

(* What the merge is for: a field that nobody edited here says what the last
   file says. *)
UneditedFollowsFile ==
    \A b \in Book, f \in Field :
        Visible[b] # Absent /\ imported[b] # Absent /\ mine[b][f] = NotMine
        => row[b].live[f] = StoredAs(imported[b])[f]

================================================================================
