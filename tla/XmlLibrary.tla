------------------------------ MODULE XmlLibrary ------------------------------
(***************************************************************************)
(* A library that is kept in its XML file (internal/library: xml_backend,  *)
(* library_cache, SaveLibrary).  Books change in memory and are marked; a  *)
(* change of the lists is saved with everything else at once.  With a      *)
(* cache the marked books are saved by a goroutine of its own, which holds *)
(* the cache's lock and not the backend's; without one, by Flush.  A save  *)
(* marshals the library, truncates the file and writes it.  Callers edit   *)
(* books in place before UpdateBook; here an edit is made when it is put   *)
(* back.                                                                   *)
(***************************************************************************)
EXTENDS Naturals

CONSTANTS
    Book, List, Root, None, Torn,
    MaxChanges      \* bound: changes, failures and restarts; a change's number is its version

VARIABLES
    cached,     \* there is a LibraryCache
    library,    \* [books, lists]: Book -> version or None, List -> [parent, version] or None
    file,       \* the library in the file, or Torn
    dirty,      \* the books that are marked
    holder,     \* what the holder of the backend's or the cache's lock does, or None
    changes,    \* bound: so far
    overlapped, \* ghost: the latest save overlapped another one
    astray      \* ghost: lists that changed in memory without a save: a move that was refused or lost
                \* its list, a save that failed; until the next save

vars == <<cached, library, file, dirty, holder, changes, overlapped, astray>>

Lock == {"backend", "cache"}

(* NewLibraryCache, or a library without one: nothing is marked. *)
NothingMarked == dirty = {} /\ holder = [lock \in Lock |-> None]

(* NewXMLBackend *)
Init ==
    /\ cached \in BOOLEAN
    /\ library = [books |-> [b \in Book |-> 0], lists |-> [l \in List |-> [parent |-> Root, version |-> 0]]]
    /\ file = library
    /\ NothingMarked
    /\ changes = 0
    /\ overlapped = FALSE /\ astray = FALSE

Item == [parent : List \union {Root}, version : 0 .. MaxChanges]
Libraries == [books : [Book -> (0 .. MaxChanges) \union {None}], lists : [List -> Item \union {None}]]
TypeOK ==
    /\ cached \in BOOLEAN /\ overlapped \in BOOLEAN /\ astray \in BOOLEAN
    /\ library \in Libraries
    /\ file = Torn \/ file \in Libraries
    /\ dirty \subseteq Book
    /\ ~cached => holder["cache"] = None
    /\ changes \in 0 .. MaxChanges

Changed ==
    /\ changes < MaxChanges
    /\ changes' = changes + 1

(*************************** Books ******************************************)

(* With the backend's lock held, the books are changed *)
Edit(books, version) ==
    /\ holder["backend"] = None /\ Changed
    /\ library' = [library EXCEPT !.books = [b \in Book |-> IF b \in books THEN version ELSE library.books[b]]]
    /\ holder' = [holder EXCEPT !["backend"] = [does |-> "mark", books |-> books]]
    /\ UNCHANGED <<cached, file, dirty, overlapped, astray>>

Has(b) == library.books[b] # None
CreateBook(b) == ~Has(b) /\ Edit({b}, changes + 1)
DeleteBook(b) == Has(b) /\ Edit({b}, None)

(* UpdateBook, UpdateBooks: those that are there *)
UpdateBooks(books) == books # {} /\ (\A b \in books : Has(b)) /\ Edit(books, changes + 1)

(* Fault: the cache's lock is not held while the file is written. *)
MarkedMeanwhile(books) == dirty' = dirty \union books

(* MarkDirty, MarkManyDirty *)
Marked(books) ==
    /\ holder["cache"] = None
    /\ dirty' = dirty \union books

(* and marked. *)
Mark ==
    /\ holder["backend"] # None /\ holder["backend"].does = "mark"
    /\ Marked(holder["backend"].books)
    /\ holder' = [holder EXCEPT !["backend"] = None]
    /\ UNCHANGED <<cached, library, file, changes, overlapped, astray>>

(*************************** Lists ******************************************)

Saving(does) == [does |-> does, stage |-> "marshal", image |-> None]

Put(lists) ==
    /\ holder["backend"] = None /\ Changed
    /\ library' = [library EXCEPT !.lists = lists]
    /\ holder' = [holder EXCEPT !["backend"] = Saving("lists")]
    /\ UNCHANGED <<cached, file, dirty, overlapped, astray>>

(* The list is the item or hangs below it. *)
Below(l, top) ==
    LET up[n \in 0 .. MaxChanges + 1] ==
            IF n = 0 THEN {l}
            ELSE up[n - 1] \union {library.lists[k].parent : k \in {j \in up[n - 1] \ {Root} : library.lists[j] # None}}
    IN  top \in up[MaxChanges + 1]

There(l) == library.lists[l] # None
CreateList(l) ==
    /\ ~There(l)
    /\ Put([library.lists EXCEPT ![l] = [parent |-> Root, version |-> changes + 1]])

UpdateList(l) ==
    /\ There(l)
    /\ Put([library.lists EXCEPT ![l].version = changes + 1])

(* What is left when the list goes with all that is below it. *)
Without(l) == [k \in List |-> IF There(k) /\ Below(k, l) THEN None ELSE library.lists[k]]

DeleteList(l) == There(l) /\ Put(Without(l))

(* The lists are not what they were, and no save follows. *)
Unsaved(lists) ==
    /\ holder["backend"] = None /\ Changed
    /\ library' = [library EXCEPT !.lists = lists]
    /\ astray' = TRUE
    /\ UNCHANGED <<cached, file, dirty, holder, overlapped>>

(* A list at the root is taken out first: a parent below it is not found, nor *)
(* one that is gone, and the list is put back as the last one.  A list in     *)
(* another one is taken out and dropped: "list not found".                    *)
MoveList(l, parent) ==
    /\ There(l)
    /\ \/ /\ library.lists[l].parent = Root
          /\ IF parent = Root \/ (There(parent) /\ ~Below(parent, l))
             THEN Put([library.lists EXCEPT ![l].parent = parent])
             ELSE Unsaved(library.lists)
       \/ library.lists[l].parent # Root /\ Unsaved(Without(l))

(*************************** The file ***************************************)

(* Flush, and the goroutine's timer *)
FlushCache ==
    /\ cached /\ holder["cache"] = None /\ dirty # {}
    /\ holder' = [holder EXCEPT !["cache"] = Saving("books")]
    /\ UNCHANGED <<cached, library, file, dirty, changes, overlapped, astray>>

(* Flush without a cache *)
FlushAll ==
    /\ ~cached /\ holder["backend"] = None /\ dirty # {}
    /\ holder' = [holder EXCEPT !["backend"] = Saving("books")]
    /\ UNCHANGED <<cached, library, file, dirty, changes, overlapped, astray>>

InSave(lock) == holder[lock] # None /\ holder[lock].does # "mark"

(* SaveLibrary, and what its caller does when it returns: a flush that succeeds *)
(* forgets the marks.  A writer whose file another one has written to meanwhile *)
(* may leave the end of the longer text.                                        *)
Save(lock) ==
    LET h == holder[lock]
        together == \E other \in Lock \ {lock} : InSave(other)
    IN
    /\ InSave(lock)
    /\ \/ /\ h.stage = "marshal"
          /\ holder' = [holder EXCEPT ![lock].stage = "open", ![lock].image = library]
          /\ overlapped' = together /\ astray' = FALSE
          /\ UNCHANGED <<file, dirty>>
       \/ /\ h.stage = "open"
          /\ file' = Torn
          /\ holder' = [holder EXCEPT ![lock].stage = "write"]
          /\ overlapped' = (overlapped \/ together)
          /\ UNCHANGED <<dirty, astray>>
       \/ /\ h.stage = "write"
          /\ overlapped' = (overlapped \/ together)
          /\ file' \in IF overlapped' THEN {h.image, Torn} ELSE {h.image}
          /\ dirty' = IF h.does = "books" THEN {} ELSE dirty
          /\ holder' = [holder EXCEPT ![lock] = None]
          /\ UNCHANGED astray
    /\ UNCHANGED <<cached, library, changes>>

(* The file cannot be opened, or not be written: a flush keeps its marks. *)
SaveFails(lock) ==
    /\ InSave(lock) /\ holder[lock].stage \in {"open", "write"} /\ Changed
    /\ holder' = [holder EXCEPT ![lock] = None]
    /\ astray' = (astray \/ holder[lock].does = "lists")
    /\ UNCHANGED <<cached, library, file, dirty, overlapped>>

(* The process ends, after Close or not, and LoadLibrary reads what there is; *)
(* a file that is not whole is refused.                                       *)
Restart ==
    /\ Changed
    /\ file # Torn
    /\ library' = file
    /\ dirty' = {}
    /\ holder' = [lock \in Lock |-> None]
    /\ overlapped' = FALSE /\ astray' = FALSE
    /\ UNCHANGED <<cached, file>>

-----------------------------------------------------------------------------
Next ==
    \/ \E b \in Book : CreateBook(b) \/ DeleteBook(b)
    \/ \E books \in SUBSET Book : UpdateBooks(books)
    \/ \E l \in List : \/ CreateList(l) \/ UpdateList(l) \/ DeleteList(l)
                       \/ \E parent \in List \union {Root} : MoveList(l, parent)
    \/ Mark \/ FlushCache \/ FlushAll \/ Restart
    \/ \E lock \in Lock : Save(lock) \/ SaveFails(lock)

Spec == Init /\ [][Next]_vars

-----------------------------------------------------------------------------
(* When nothing is under way and no book is marked, the file is what is in  *)
(* memory: no change of a book is left out of every later save, wherever    *)
(* the timer finds UpdateBook between the change and the mark, and none is  *)
(* unmarked by a save that began before it.  Two things are excepted: two   *)
(* saves at once (a list is saved under the backend's lock, marked books    *)
(* under the cache's), of which the older may be written last or both be    *)
(* mixed, and until the next save lists that were changed and not saved: a  *)
(* move below itself or to a parent that is gone, a save that failed, and a *)
(* move of a list out of another one, which loses it from memory.           *)
SavedOrMarked ==
    ((\A lock \in Lock : holder[lock] = None) /\ dirty = {} /\ ~overlapped /\ ~astray) => file = library
=============================================================================
