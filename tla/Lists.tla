------------------------------- MODULE Lists -------------------------------
(***************************************************************************)
(* The tree of lists of the SQLite backend (internal/storage) and the      *)
(* requests on it (internal/api: lists, folders, manual lists), beside the *)
(* import of a library file and the cache of list counts.                  *)
(*                                                                         *)
(* Folders and smart lists are rows whose body is a rule or a name; the    *)
(* body of a manual list is the sequence of its members.  An edit reads    *)
(* the list, then writes it: manualListMu keeps two edits apart, but not   *)
(* an edit from an import, a move or a deletion.                           *)
(***************************************************************************)
EXTENDS Naturals, FiniteSets, Sequences, SequencesExt, Filters

CONSTANTS
    Folder,         \* folders and smart lists
    Manual,         \* manual lists
    Local,          \* the lists that are made here; no library file has them
    Book,
    Rules,          \* what the row of a folder or smart list says
    LibraryFile,    \* the library files that are imported
    FileLists,      \* file -> its lists: id -> [parent, body]
    FileBooks,      \* file -> its books
    Root, Gone, None,
    NoHash,         \* the import_hash of a list that was changed here
    MaxChanges      \* bound: imports and requests that write

List == Folder \union Manual
Body(l) == IF l \in Manual THEN {s \in SeqOf(Book, Cardinality(Book)) : IsInjective(s)} ELSE Rules

ListAssumption ==
    /\ Local \subseteq List /\ {Root, Gone, None, NoHash} \intersect List = {}
    /\ Folder \intersect Manual = {}

(* The lists of a file are nested in one another. *)
FileAssumption == \A f \in LibraryFile :
    /\ DOMAIN FileLists[f] \subseteq List \ Local
    /\ \A l \in DOMAIN FileLists[f] :
          /\ FileLists[f][l].body \in Body(l)
          /\ FileLists[f][l].parent \in DOMAIN FileLists[f] \union {Root}
    /\ \A S \in SUBSET DOMAIN FileLists[f] :
          (\A l \in DOMAIN FileLists[f] : FileLists[f][l].parent \in S \union {Root} => l \in S) => S = DOMAIN FileLists[f]
    /\ FileBooks[f] \subseteq Book

VARIABLES
    row,        \* the table of lists
    live,       \* the books that are not deleted
    editing,    \* the request that holds manualListMu and is about to write, or None
    placing,    \* a folder that was made and is about to be moved to its parent, or None
    count,      \* ListCache: the entry of a list, or None
    view,       \* list -> the evaluation of its count that runs, or None
    importing,  \* an import that has yet to invalidate the counts
    changes,    \* how many requests and imports have written
    calm,       \* ghost: nothing has happened that the tree does not survive
    doubtful    \* ghost: the lists whose count may be older than a change

cacheVars == <<count, view, importing, doubtful>>
vars == <<row, live, editing, placing, changes, calm, cacheVars>>

(* A row, a cached count, and an evaluation, which remembers the list as it was
   read; current says whether nothing has changed since. *)
ListRow(l) ==
    [parent : List \union {Root}, body : Body(l), hash : Body(l) \union {NoHash}, deleted : BOOLEAN]
ListCount == [n : 0 .. Cardinality(Book), fresh : BOOLEAN]
Refresh(l) == [body : Body(l), current : BOOLEAN]

TypeOK ==
    /\ \A l \in List :
          /\ row[l] \in ListRow(l) \union {Gone}
          /\ count[l] \in ListCount \union {None} /\ view[l] \in Refresh(l) \union {None}
    /\ live \subseteq Book /\ doubtful \subseteq List
    /\ editing # None => editing.body \in Body(editing.list)
    /\ placing # None => placing.list \in Local /\ placing.parent \in List
    /\ importing \in BOOLEAN /\ calm \in BOOLEAN /\ changes \in 0 .. MaxChanges

Init ==
    /\ row = [l \in List |-> Gone] /\ live = {}
    /\ editing = None /\ placing = None
    /\ count = [l \in List |-> None] /\ view = [l \in List |-> None] /\ importing = FALSE
    /\ changes = 0 /\ calm = TRUE /\ doubtful = {}

Exists(l) == row[l] # Gone
Found(l) == Exists(l) /\ ~row[l].deleted

(* The lists in top and those below one of them, through the rows of table. *)
Below(top, table) ==
    LET closed(S) == top \subseteq S /\ \A l \in table : row[l].parent \in S => l \in S
    IN  {l \in top \union table : \A S \in SUBSET (top \union table) : closed(S) => l \in S}

(* GetAllLists, materializeList: the tree is built from the live rows without
   a parent down. *)
Visible == Below({Root}, {l \in List : Found(l)}) \ {Root}

Fresh(l) == count[l] # None /\ count[l].fresh

(* Fault: invalidation does nothing. *)
StillFresh(entry) == entry

(* Invalidate: the entry stays, for GetStaleCounts. *)
Stale(entry) == IF entry = None THEN None ELSE [entry EXCEPT !.fresh = FALSE]

Counted == changes < MaxChanges /\ changes' = changes + 1

(* What a change does to the evaluations that run and to the counts. *)
Outdated == view' = [l \in List |-> IF view[l] = None THEN None ELSE [view[l] EXCEPT !.current = FALSE]]

(*************************** Import *****************************************)

(* computeListHash: of all the row says, but not of the parent. *)
Hash(list) == list.body

(* importListsRecursive: a list that is new, was deleted or has another hash
   is written; any other keeps its row, its parent included. *)
Imported(l, f) ==
    LET new == [parent |-> FileLists[f][l].parent, body |-> FileLists[f][l].body,
                hash |-> Hash(FileLists[f][l]), deleted |-> FALSE]
    IN  IF Found(l) /\ row[l].hash = new.hash THEN row[l] ELSE new

(* importLists: the lists that the file does not have are marked deleted, those
   that were made here included. *)
Import(f) ==
    LET absent(l) == IF Exists(l) THEN [row[l] EXCEPT !.deleted = TRUE] ELSE Gone
        kept == {l \in DOMAIN FileLists[f] : Found(l) /\ row[l].hash = Hash(FileLists[f][l])}
    IN  /\ Counted /\ ~importing
        /\ row' = [l \in List |-> IF l \in DOMAIN FileLists[f] THEN Imported(l, f) ELSE absent(l)]
        /\ live' = FileBooks[f]
        /\ calm' = (calm /\ \A l \in kept : row[l].parent = FileLists[f][l].parent)
        /\ importing' = TRUE
        /\ Outdated
        /\ UNCHANGED <<editing, placing, count, doubtful>>

(* InvalidateListCache, once the import is through. *)
InvalidateAll ==
    /\ importing /\ importing' = FALSE
    /\ count' = [l \in List |-> Stale(count[l])]
    /\ UNCHANGED <<row, live, editing, placing, view, changes, calm, doubtful>>

(*************************** Requests ***************************************)

(* insertList: a list made here is at the root and has no hash.  A new id is
   never one that an older request still knows. *)
New(l, body) ==
    /\ l \in Local /\ ~Exists(l) /\ Counted
    /\ \A j \in {editing, placing} : j # None => j.list # l
    /\ view[l] = None /\ count[l] = None
    /\ row' = [row EXCEPT ![l] = [parent |-> Root, body |-> body, hash |-> NoHash, deleted |-> FALSE]]

(* handleCreateList. *)
CreateList(l, body) == New(l, body) /\ UNCHANGED <<live, editing, placing, calm, cacheVars>>

(* handleFolders: the folder is made first, then moved. *)
CreateFolder(l, body, p) ==
    /\ l \in Folder /\ placing = None
    /\ New(l, body)
    /\ placing' = [list |-> l, parent |-> p]
    /\ UNCHANGED <<live, editing, calm, cacheVars>>

(* DB.MoveList: foreign keys only ask that the parent has a row. *)
MoveTo(l, p) ==
    IF Exists(l) /\ (p = Root \/ Exists(p))
    THEN /\ row' = [row EXCEPT ![l].parent = p]
         /\ calm' = (calm /\ (p = Root \/ p \in Visible) /\ p \notin Below({l}, {m \in List : Exists(m)}))
    ELSE UNCHANGED <<row, calm>>

(* handleFolders: a move that fails is only logged. *)
PlaceFolder ==
    /\ placing # None /\ placing' = None
    /\ MoveTo(placing.list, placing.parent)
    /\ UNCHANGED <<live, editing, changes, cacheVars>>

(* handleMoveList: only the list itself is refused as its parent. *)
MoveList(l, p) ==
    /\ p # l /\ Counted
    /\ MoveTo(l, p)
    /\ UNCHANGED <<live, editing, placing, cacheVars>>

(* Fault: only the row itself goes. *)
DeletedAlone(l) == {l}

(* The rows that ON DELETE CASCADE of parent_id takes along. *)
Deleted(l) == Below({l}, {m \in List : Exists(m)})

(* handleDeleteList. *)
DeleteList(l) ==
    /\ Exists(l) /\ Counted
    /\ row' = [m \in List |-> IF m \in Deleted(l) THEN Gone ELSE row[m]]
    /\ count' = [count EXCEPT ![l] = Stale(@)]
    /\ Outdated
    /\ UNCHANGED <<live, editing, placing, importing, calm, doubtful>>

(* loadManualList: the members that are still books, in order. *)
Members(l) == Kept(row[l].body, live)

(* insertMembers, for one book; a member stays where it is. *)
InsertMember(s, b, i) ==
    IF Contains(s, b) THEN s ELSE InsertAt(s, IF i > Len(s) + 1 THEN Len(s) + 1 ELSE i, b)

(* removeMembers. *)
RemoveMember(s, b) == Kept(s, Book \ {b})

(* moveMember. *)
MoveMember(s, b, i) == InsertMember(RemoveMember(s, b), b, i)

(* SoftDeleteBook, for handleBookRemoveRecord and for a duplicate that goes: they
   drop the snapshot of the workflow, and leave the counts of lists as they are. *)
DeleteBook(b) ==
    LET had(s) == Contains(s, b) IN
    /\ b \in live /\ Counted
    /\ live' = live \ {b}
    /\ doubtful' = doubtful \union {l \in Manual : Exists(l) /\ Fresh(l) /\ had(row[l].body)}
    /\ view' = [l \in List |->
          IF l \in Manual /\ view[l] # None /\ had(view[l].body) THEN [view[l] EXCEPT !.current = FALSE] ELSE view[l]]
    /\ UNCHANGED <<row, editing, placing, count, importing, calm>>

Lock(l, body) ==
    /\ editing = None /\ Found(l) /\ Counted
    /\ editing' = [list |-> l, body |-> body]
    /\ UNCHANGED <<row, live, placing, calm, cacheVars>>

(* handleManualListAdd: without a new member nothing is written. *)
AddMember(l, b, i) ==
    /\ l \in Manual /\ Found(l) /\ b \in live /\ ~Contains(Members(l), b)
    /\ Lock(l, InsertMember(Members(l), b, i))

(* handleManualListRemove. *)
DropMember(l, b) ==
    /\ l \in Manual /\ Found(l) /\ Contains(Members(l), b)
    /\ Lock(l, RemoveMember(Members(l), b))

(* handleManualListMove. *)
ShiftMember(l, b, i) ==
    /\ l \in Manual /\ Found(l) /\ Contains(Members(l), b)
    /\ Lock(l, MoveMember(Members(l), b, i))

(* handleUpdateList. *)
EditRules(l, r) == l \in Folder /\ Lock(l, r)

(* Fault: the hash of the last import stays. *)
WrittenUnderOldHash(r, body) == [r EXCEPT !.body = body, !.deleted = FALSE]

(* updateList, called by UpdateListRecord: the hash is cleared, the parent stays
   what it is, and a list that was deleted meanwhile is there again. *)
Written(r, body) == [r EXCEPT !.body = body, !.hash = NoHash, !.deleted = FALSE]

(* SetCounts of saveManualList: of the members that were written. *)
Recount(l) ==
    /\ count' = [count EXCEPT ![l] = [n |-> Len(editing.body), fresh |-> TRUE]]
    /\ doubtful' = IF \A i \in DOMAIN editing.body : editing.body[i] \in live
                   THEN doubtful \ {l} ELSE doubtful \union {l}

(* UpdateListRecord with saveManualList or the end of handleUpdateList. *)
SaveEdit ==
    /\ editing # None /\ editing' = None
    /\ LET l == editing.list IN
       IF Exists(l)
       THEN /\ row' = [row EXCEPT ![l] = Written(@, editing.body)]
            /\ calm' = (calm /\ ~row[l].deleted)
            /\ IF l \in Manual THEN Recount(l)
               ELSE /\ count' = [count EXCEPT ![l] = Stale(@)]
                    /\ UNCHANGED doubtful
            /\ Outdated
       ELSE UNCHANGED <<row, calm, count, doubtful, view>>
    /\ UNCHANGED <<live, placing, importing, changes>>

(*************************** Counts *****************************************)

(* getListCounts without a fresh entry: a background refresh with a copy of
   the list (TryBeginRefresh: one for each list), or, without any entry, the
   request itself, of which one is modelled. *)
BeginCount(l) ==
    /\ l \in Manual \intersect Visible /\ view[l] = None
    /\ ~Fresh(l)
    /\ view' = [view EXCEPT ![l] = [body |-> row[l].body, current |-> TRUE]]
    /\ UNCHANGED <<row, live, editing, placing, count, importing, changes, calm, doubtful>>

(* evaluateListCounts, SetCounts, EndRefresh. *)
EndCount(l) ==
    /\ view[l] # None
    /\ count' = [count EXCEPT ![l] = [n |-> Len(Kept(view[l].body, live)), fresh |-> TRUE]]
    /\ doubtful' = IF view[l].current THEN doubtful \ {l} ELSE doubtful \union {l}
    /\ view' = [view EXCEPT ![l] = None]
    /\ UNCHANGED <<row, live, editing, placing, importing, changes, calm>>

(* GetCounts: an entry older than the TTL is not found. *)
Expire(l) ==
    /\ Fresh(l)
    /\ count' = [count EXCEPT ![l] = Stale(@)]
    /\ UNCHANGED <<row, live, editing, placing, view, importing, changes, calm, doubtful>>

Next ==
    \/ \E f \in LibraryFile : Import(f)
    \/ InvalidateAll
    \/ \E l \in Local : \E body \in IF l \in Manual THEN {<<>>} ELSE Rules :
          CreateList(l, body) \/ \E p \in List \ {l} : CreateFolder(l, body, p)
    \/ PlaceFolder
    \/ \E l \in List : \E p \in List \union {Root} : MoveList(l, p)
    \/ \E l \in List : DeleteList(l) \/ BeginCount(l) \/ EndCount(l) \/ Expire(l)
    \/ \E l \in Manual, b \in Book, i \in 1 .. Cardinality(Book) :
          AddMember(l, b, i) \/ DropMember(l, b) \/ ShiftMember(l, b, i)
    \/ \E l \in Folder, r \in Rules : EditRules(l, r)
    \/ \E b \in Book : DeleteBook(b)
    \/ SaveEdit

(*************************** Properties *************************************)

(* The hash that the next import compares says what the list really holds: an
   edit here, one that raced an import or brought a list back included, never
   leaves the hash of another content, or the import would take the list for
   unchanged and keep the edit forever. *)
HashDescribesRow == \A l \in List : Exists(l) /\ row[l].hash # NoHash => row[l].body = row[l].hash

(* Every list that is there is in the tree, unless a list was moved below
   itself or below a list that is not shown, an edit brought back a list that
   an import had deleted, or an import found an unchanged list elsewhere than
   the file has it: the four ways in which the code loses lists. *)
ListsStayVisible == calm => \A l \in List : Found(l) => l \in Visible

(* A count that is taken for fresh is the number of the list's books, unless it
   was evaluated from a list or books that changed before it was stored, an
   import has just changed the books and is about to invalidate it, or a book of
   the list was deleted: the requests that delete books invalidate no counts, and
   such a count is wrong until it expires.  The deletions that the count survives
   are those of other books, and those before it is evaluated or written. *)
FreshCountsTrue == \A l \in Manual :
    Found(l) /\ l \notin doubtful /\ Fresh(l) /\ ~importing => count[l].n = Len(Members(l))
=============================================================================
