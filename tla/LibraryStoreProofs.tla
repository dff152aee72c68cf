-------------------------- MODULE LibraryStoreProofs --------------------------
(* Theorems about LibraryStore, for all sets of books, fields and texts. *)
EXTENDS LibraryStore, TLAPS

(* What is mine in a row is there, and is not what the file says; the rest of a
   row, as far as it reads back as written, is what the file says. *)
RowFollows(r, m) ==
    \A f \in Field :
        /\ m[f] # NotMine => r # Absent /\ r.live[f] = m[f] /\ r.live[f] # StoredAs(r.snapshot)[f]
        /\ f \notin Joined /\ r # Absent /\ m[f] = NotMine => r.live[f] = r.snapshot[f]

RowInv == \A b \in Book : RowFollows(row[b], mine[b])

(* What the steps of an import and of a warm-up know of the steps before. *)
WarmUpInv ==
    /\ libCache # NoSnapshot => builtFor = generation
    /\ \A r \in Request :
           /\ seen[r] <= generation
           /\ stage[r] = "bump" => libCache = NoSnapshot
           /\ stage[r] = "mark" /\ seen[r] = generation => builtFor = generation

IInv == TypeOK /\ CacheMirrorsRows /\ WarmIsCurrent /\ WarmUpInv /\ RowInv

--------------------------------------------------------------------------------
\* Books and rows

(* A book that was stored is a book, and reads back as it is. *)
LEMMA StoredAsType ==
    ASSUME NEW book \in ComicBook
    PROVE  StoredAs(book) \in Stored
BY FieldAssumption, CanonAssumption DEF StoredAs, Stored, ComicBook, AnyText

(* Storing what was read changes nothing. *)
LEMMA StoredAsStored ==
    ASSUME NEW book \in Stored
    PROVE  StoredAs(book) = book
<1>1. book = [f \in Field |-> book[f]]
  BY DEF Stored, ComicBook
<1>2. \A f \in Field : StoredAs(book)[f] = book[f]
  BY DEF StoredAs, Stored
<1>. QED
  BY <1>1, <1>2 DEF StoredAs

(* The text of a field of a book is not the mark of a field not edited here. *)
LEMMA TextIsNotMine ==
    ASSUME NEW book \in ComicBook, NEW f \in Field
    PROVE  book[f] \in TextOf[f] /\ book[f] \in AnyText /\ book[f] # NotMine
BY NoneAssumption DEF ComicBook, AnyText

(* The merge of a row with a file. *)
MergedBook(r, book) == [f \in Field |-> Merged(r.snapshot[f], r.live[f], book[f])]

LEMMA MergedType ==
    ASSUME NEW r \in Row, NEW book \in ComicBook
    PROVE  MergedBook(r, book) \in ComicBook
BY TextIsNotMine DEF MergedBook, Merged, Row, Stored, ComicBook

LEMMA MergeUpdateBookType ==
    ASSUME NEW r \in Row, NEW book \in ComicBook
    PROVE  /\ MergeUpdateBook(r, book) \in Row
           /\ MergeUpdateBook(r, book).live = StoredAs(MergedBook(r, book))
           /\ MergeUpdateBook(r, book).snapshot = book
BY MergedType, StoredAsType DEF MergeUpdateBook, MergedBook, Row

LEMMA InsertBookType ==
    ASSUME NEW book \in ComicBook
    PROVE  /\ InsertBook(book) \in Row
           /\ InsertBook(book).live = StoredAs(book)
           /\ InsertBook(book).snapshot = book
BY StoredAsType DEF InsertBook, Row

LEMMA ImportBookType ==
    ASSUME NEW r \in Row \union {Absent}, NEW book \in ComicBook \union {Absent}
    PROVE  ImportBook(r, book) \in Row \union {Absent}
<1>1. r # Absent => [r EXCEPT !.deleted = TRUE] \in Row
  BY DEF Row
<1>. QED
  BY <1>1, MergeUpdateBookType, InsertBookType, NoneAssumption DEF ImportBook

--------------------------------------------------------------------------------
\* What is mine, row by row

(* The field of a row that stays through the merge, or follows the file. *)
LEMMA MergeField ==
    ASSUME NEW r \in Row, NEW book \in ComicBook, NEW f \in Field
    PROVE  /\ r.live[f] # StoredAs(r.snapshot)[f]
              => MergeUpdateBook(r, book).live[f] = r.live[f]
           /\ f \notin Joined /\ r.live[f] = r.snapshot[f]
              => MergeUpdateBook(r, book).live[f] = book[f]
<1>1. MergeUpdateBook(r, book).live = StoredAs(MergedBook(r, book))
  BY MergeUpdateBookType
<1>2. r.live \in Stored /\ r.snapshot \in ComicBook
  BY DEF Row
<1>3. StoredAs(r.live) = r.live
  BY <1>2, StoredAsStored
<1>4. MergedBook(r, book)[f] = Merged(r.snapshot[f], r.live[f], book[f])
  BY DEF MergedBook
<1>5. ASSUME r.live[f] # StoredAs(r.snapshot)[f]
      PROVE  MergeUpdateBook(r, book).live[f] = r.live[f]
  <2>1. r.live[f] # r.snapshot[f]
    BY <1>3, <1>5 DEF StoredAs
  <2>2. MergedBook(r, book)[f] = r.live[f]
    BY <2>1, <1>4 DEF Merged
  <2>. QED
    BY <2>2, <1>1, <1>3 DEF StoredAs
<1>6. ASSUME f \notin Joined, r.live[f] = r.snapshot[f]
      PROVE  MergeUpdateBook(r, book).live[f] = book[f]
  <2>1. MergedBook(r, book)[f] = book[f]
    BY <1>4, <1>6 DEF Merged
  <2>. QED
    BY <2>1, <1>1, <1>6 DEF StoredAs
<1>. QED
  BY <1>5, <1>6

(* An import keeps a row and what is mine of it in step. *)
LEMMA ImportRowFollows ==
    ASSUME NEW b \in Book,
           row[b] \in Row \union {Absent},
           mine[b] \in [Field -> AnyText \union {NotMine}],
           RowFollows(row[b], mine[b]),
           NEW book \in ComicBook \union {Absent},
           row'[b] = ImportBook(row[b], book)
    PROVE  RowFollows(row'[b], StillMine(b))
<1>. DEFINE r == row[b]
            m == mine[b]
<1>1. CASE row'[b] = Absent
  BY <1>1 DEF StillMine, Nothing, RowFollows
<1>2. CASE book # Absent /\ (r = Absent \/ r.deleted)
  <2>1. row'[b] = InsertBook(book)
    BY <1>2 DEF ImportBook
  <2>2. row'[b].live = StoredAs(book) /\ row'[b].snapshot = book /\ ~row'[b].deleted
    BY <2>1, <1>2, InsertBookType DEF InsertBook
  <2>3. StillMine(b) = Nothing
    BY <1>2, <2>2 DEF StillMine
  <2>4. \A f \in Field \ Joined : StoredAs(book)[f] = book[f]
    BY DEF StoredAs
  <2>. QED
    BY <2>2, <2>3, <2>4 DEF RowFollows, Nothing
<1>3. CASE /\ row'[b] # Absent /\ r # Absent
           /\ row'[b].live = r.live /\ row'[b].snapshot = r.snapshot
           /\ r.deleted => row'[b].deleted
  <2>1. StillMine(b) = [f \in Field |-> IF m[f] = StoredAs(r.snapshot)[f] THEN NotMine ELSE m[f]]
    BY <1>3 DEF StillMine
  <2>2. \A f \in Field : StillMine(b)[f] = m[f]
    BY <2>1, <1>3 DEF RowFollows
  <2>. QED
    BY <2>2, <1>3 DEF RowFollows
<1>4. CASE /\ book # Absent /\ r # Absent /\ ~r.deleted
           /\ Hash(book) # Hash(r.snapshot)
  <2>1. row'[b] = MergeUpdateBook(r, book)
    BY <1>4 DEF ImportBook
  <2>2. r \in Row /\ book \in ComicBook
    BY <1>4
  <2>3. row'[b] \in Row /\ row'[b].snapshot = book
    BY <2>1, <2>2, MergeUpdateBookType
  <2>4. row'[b] # Absent
    BY <2>3, NoneAssumption
  <2>5. StillMine(b) = [f \in Field |-> IF m[f] = StoredAs(book)[f] THEN NotMine ELSE m[f]]
    BY <2>3, <2>4, <1>4 DEF StillMine
  <2>6. ASSUME NEW f \in Field, StillMine(b)[f] # NotMine
        PROVE  row'[b].live[f] = StillMine(b)[f] /\ row'[b].live[f] # StoredAs(book)[f]
    <3>1. StillMine(b)[f] = m[f] /\ m[f] # NotMine /\ m[f] # StoredAs(book)[f]
      BY <2>5, <2>6
    <3>2. r.live[f] = m[f] /\ r.live[f] # StoredAs(r.snapshot)[f]
      BY <3>1 DEF RowFollows
    <3>. QED
      BY <3>1, <3>2, <2>1, <2>2, MergeField
  <2>7. ASSUME NEW f \in Field \ Joined, StillMine(b)[f] = NotMine
        PROVE  row'[b].live[f] = book[f]
    <3>1. m[f] = NotMine \/ m[f] = StoredAs(book)[f]
      BY <2>5, <2>7
    <3>2. CASE m[f] = NotMine
      <4>1. r.live[f] = r.snapshot[f]
        BY <3>2, <1>4 DEF RowFollows
      <4>. QED
        BY <4>1, <2>1, <2>2, MergeField
    <3>3. CASE m[f] # NotMine /\ m[f] = StoredAs(book)[f]
      <4>1. r.live[f] = m[f] /\ r.live[f] # StoredAs(r.snapshot)[f]
        BY <3>3 DEF RowFollows
      <4>2. row'[b].live[f] = m[f]
        BY <4>1, <2>1, <2>2, MergeField
      <4>3. StoredAs(book)[f] = book[f]
        BY DEF StoredAs
      <4>. QED
        BY <4>2, <4>3, <3>3
    <3>. QED
      BY <3>1, <3>2, <3>3
  <2>. QED
    BY <2>3, <2>4, <2>6, <2>7 DEF RowFollows
<1>. QED
  <2>1. CASE book = Absent
    <3>1. CASE r = Absent
      BY <2>1, <3>1, <1>1 DEF ImportBook
    <3>2. CASE r # Absent
      <4>1. row'[b] = [r EXCEPT !.deleted = TRUE] /\ r \in Row
        BY <2>1, <3>2 DEF ImportBook
      <4>2. /\ row'[b].live = r.live /\ row'[b].snapshot = r.snapshot
            /\ row'[b].deleted /\ row'[b] \in Row
        BY <4>1 DEF Row
      <4>. QED
        BY <4>2, <3>2, <1>3, NoneAssumption
    <3>. QED
      BY <3>1, <3>2
  <2>2. CASE book # Absent /\ r # Absent /\ ~r.deleted /\ Hash(book) = Hash(r.snapshot)
    <3>1. row'[b] = r
      BY <2>2 DEF ImportBook
    <3>. QED
      BY <3>1, <2>2, <1>3
  <2>. QED
    BY <2>1, <2>2, <1>2, <1>4

(* Nor does an edit let them part. *)
LEMMA EditRowFollows ==
    ASSUME NEW b \in Book,
           row[b] \in Row \union {Absent},
           NEW book \in ComicBook,
           row'[b] = UpdateBookFields(row[b], book)
    PROVE  /\ RowFollows(row'[b], NowMine(b))
           /\ row'[b] \in Row \union {Absent}
           /\ NowMine(b) \in [Field -> AnyText \union {NotMine}]
<1>1. CASE row[b] = Absent
  BY <1>1 DEF UpdateBookFields, NowMine, Nothing, RowFollows
<1>2. CASE row[b] # Absent
  <2>1. row'[b] = [row[b] EXCEPT !.live = StoredAs(book)] /\ row[b] \in Row
    BY <1>2 DEF UpdateBookFields
  <2>2. /\ row'[b] \in Row
        /\ row'[b].live = StoredAs(book)
        /\ row'[b].snapshot = row[b].snapshot
    BY <2>1, StoredAsType DEF Row
  <2>3. \A f \in Field : NowMine(b)[f] =
            IF row'[b].live[f] = StoredAs(row[b].snapshot)[f] THEN NotMine ELSE row'[b].live[f]
    BY <1>2 DEF NowMine
  <2>4. \A f \in Field \ Joined : StoredAs(row[b].snapshot)[f] = row[b].snapshot[f]
    BY DEF StoredAs
  <2>5. \A f \in Field : row'[b].live[f] \in AnyText /\ row'[b].live[f] # NotMine
    BY <2>2, TextIsNotMine DEF Row, Stored
  <2>6. row'[b] # Absent
    BY <2>2, NoneAssumption
  <2>7. NowMine(b) \in [Field -> AnyText \union {NotMine}]
    BY <1>2, <2>5 DEF NowMine
  <2>. QED
    BY <2>2, <2>3, <2>4, <2>5, <2>6, <2>7 DEF RowFollows
<1>. QED
  BY <1>1, <1>2

--------------------------------------------------------------------------------
\* Types

(* What is visible is a snapshot, and not the lack of one. *)
LEMMA VisibleType ==
    ASSUME row \in [Book -> Row \union {Absent}]
    PROVE  Visible \in [Book -> Stored \union {Absent}] /\ Visible # NoSnapshot
<1>1. Visible \in [Book -> Stored \union {Absent}]
  BY DEF Visible, Row
<1>2. Visible \in [Book -> ComicBook \union {Absent}]
  BY <1>1 DEF Stored
<1>. QED
  BY <1>1, <1>2, NoneAssumption

(* The ghost of what is mine keeps its type in an import. *)
LEMMA StillMineType ==
    ASSUME NEW b \in Book, mine[b] \in [Field -> AnyText \union {NotMine}]
    PROVE  StillMine(b) \in [Field -> AnyText \union {NotMine}]
BY DEF StillMine, Nothing

--------------------------------------------------------------------------------
\* The invariant

LEMMA InitInv == Init => IInv
<1>. SUFFICES ASSUME Init PROVE IInv
  OBVIOUS
<1>1. TypeOK
  BY NoneAssumption DEF Init, TypeOK, Nothing, Library
<1>2. CacheMirrorsRows /\ WarmIsCurrent
  BY DEF Init, CacheMirrorsRows, WarmIsCurrent
<1>3. WarmUpInv
  BY DEF Init, WarmUpInv
<1>4. RowInv
  BY DEF Init, RowInv, RowFollows, Nothing
<1>. QED
  BY <1>1, <1>2, <1>3, <1>4 DEF IInv

(* An import writes every row and drops the snapshot. *)
LEMMA ImportFromInv ==
    ASSUME IInv, NEW r \in Request, ImportFrom(r)
    PROVE  IInv'
<1>1. /\ imported' \in Library
      /\ row' = [b \in Book |-> ImportBook(row[b], imported'[b])]
      /\ mine' = [b \in Book |-> StillMine(b)]
      /\ libCache' = NoSnapshot
      /\ stage' = [stage EXCEPT ![r] = "bump"]
      /\ UNCHANGED <<generation, warmed, seen, builtFor>>
  BY DEF ImportFrom
<1>2. ASSUME NEW b \in Book
      PROVE  /\ row[b] \in Row \union {Absent}
             /\ mine[b] \in [Field -> AnyText \union {NotMine}]
             /\ RowFollows(row[b], mine[b])
             /\ imported'[b] \in ComicBook \union {Absent}
             /\ row'[b] = ImportBook(row[b], imported'[b])
  BY <1>1 DEF IInv, TypeOK, RowInv, Library
<1>3. TypeOK'
  <2>1. \A b \in Book : row'[b] \in Row \union {Absent}
    BY <1>2, ImportBookType
  <2>2. \A b \in Book : StillMine(b) \in [Field -> AnyText \union {NotMine}]
    BY <1>2, StillMineType
  <2>. QED
    BY <1>1, <2>1, <2>2 DEF IInv, TypeOK
<1>4. RowInv'
  <2>1. \A b \in Book : RowFollows(row'[b], StillMine(b))
    BY <1>2, ImportRowFollows
  <2>2. \A b \in Book : mine'[b] = StillMine(b)
    BY <1>1
  <2>. QED
    BY <2>1, <2>2 DEF RowInv, RowFollows, StoredAs
<1>5. (CacheMirrorsRows /\ WarmIsCurrent /\ WarmUpInv)'
  BY <1>1 DEF IInv, TypeOK, CacheMirrorsRows, WarmIsCurrent, WarmUpInv
<1>. QED
  BY <1>3, <1>4, <1>5 DEF IInv

(* An edit writes some rows and drops the snapshot. *)
LEMMA UpdateBooksInv ==
    ASSUME IInv, UpdateBooks
    PROVE  IInv'
<1>1. PICK written \in SUBSET Book : \E books \in [written -> ComicBook] :
          /\ row' = [b \in Book |-> IF b \in written THEN UpdateBookFields(row[b], books[b])
                                    ELSE row[b]]
          /\ mine' = [b \in Book |-> IF b \in written THEN NowMine(b) ELSE mine[b]]
  BY DEF UpdateBooks
<1>2. PICK books \in [written -> ComicBook] :
          /\ row' = [b \in Book |-> IF b \in written THEN UpdateBookFields(row[b], books[b])
                                    ELSE row[b]]
          /\ mine' = [b \in Book |-> IF b \in written THEN NowMine(b) ELSE mine[b]]
  BY <1>1
<1>3. libCache' = NoSnapshot /\ UNCHANGED <<warmth, imported>>
  BY DEF UpdateBooks
<1>4. ASSUME NEW b \in Book
      PROVE  /\ row'[b] \in Row \union {Absent}
             /\ mine'[b] \in [Field -> AnyText \union {NotMine}]
             /\ RowFollows(row'[b], mine'[b])
  <2>1. /\ row[b] \in Row \union {Absent}
        /\ mine[b] \in [Field -> AnyText \union {NotMine}]
        /\ RowFollows(row[b], mine[b])
    BY DEF IInv, TypeOK, RowInv
  <2>2. CASE b \in written
    <3>1. row'[b] = UpdateBookFields(row[b], books[b]) /\ mine'[b] = NowMine(b)
      BY <1>2, <2>2
    <3>2. books[b] \in ComicBook
      BY <2>2
    <3>. QED
      BY <3>1, <3>2, <2>1, EditRowFollows
  <2>3. CASE b \notin written
    <3>1. row'[b] = row[b] /\ mine'[b] = mine[b]
      BY <1>2, <2>3
    <3>. QED
      BY <3>1, <2>1
  <2>. QED
    BY <2>2, <2>3
<1>5. TypeOK'
  BY <1>2, <1>3, <1>4 DEF IInv, TypeOK, warmth
<1>6. RowInv'
  BY <1>4 DEF RowInv, RowFollows, StoredAs
<1>7. (CacheMirrorsRows /\ WarmIsCurrent /\ WarmUpInv)'
  BY <1>3 DEF IInv, TypeOK, CacheMirrorsRows, WarmIsCurrent, WarmUpInv, warmth
<1>. QED
  BY <1>5, <1>6, <1>7 DEF IInv

(* A new book is as it was given, and nothing of it is an edit; a failed
   creation changes no row. *)
LEMMA CreateBookInv ==
    ASSUME IInv, NEW b \in Book, CreateBook(b)
    PROVE  IInv'
<1>1. libCache' = NoSnapshot /\ UNCHANGED <<warmth, imported, mine>>
  BY DEF CreateBook
<1>2. (CacheMirrorsRows /\ WarmIsCurrent /\ WarmUpInv)'
  BY <1>1 DEF IInv, TypeOK, CacheMirrorsRows, WarmIsCurrent, WarmUpInv, warmth
<1>3. CASE row' = row
  BY <1>1, <1>2, <1>3 DEF IInv, TypeOK, RowInv, RowFollows, StoredAs, warmth
<1>4. ASSUME row[b] = Absent, NEW book \in ComicBook, row' = [row EXCEPT ![b] = InsertBook(book)]
      PROVE  TypeOK' /\ RowInv'
  <2>1. TypeOK'
    BY <1>1, <1>4, InsertBookType DEF IInv, TypeOK, warmth
  <2>2. ASSUME NEW c \in Book PROVE RowFollows(row'[c], mine'[c])
    <3>1. RowFollows(row[c], mine[c])
      BY DEF IInv, RowInv
    <3>2. CASE c = b
      <4>1. row'[c] = InsertBook(book)
        BY <1>4, <3>2 DEF IInv, TypeOK
      <4>2. \A f \in Field : mine'[c][f] = NotMine
        BY <1>1, <1>4, <3>1, <3>2 DEF RowFollows
      <4>3. \A f \in Field \ Joined : StoredAs(book)[f] = book[f]
        BY DEF StoredAs
      <4>. QED
        BY <4>1, <4>2, <4>3, InsertBookType DEF RowFollows
    <3>3. CASE c # b
      <4>1. row'[c] = row[c] /\ mine'[c] = mine[c]
        BY <1>1, <1>4, <3>3 DEF IInv, TypeOK
      <4>. QED
        BY <3>1, <4>1
    <3>. QED
      BY <3>2, <3>3
  <2>. QED
    BY <2>1, <2>2 DEF RowInv, RowFollows, StoredAs
<1>. QED
  BY <1>2, <1>3, <1>4 DEF IInv, CreateBook

(* A deletion marks the row and leaves what it says. *)
LEMMA DeleteBookInv ==
    ASSUME IInv, NEW b \in Book, DeleteBook(b)
    PROVE  IInv'
<1>1. libCache' = NoSnapshot /\ UNCHANGED <<warmth, imported, mine>>
  BY DEF DeleteBook
<1>2. (CacheMirrorsRows /\ WarmIsCurrent /\ WarmUpInv)'
  BY <1>1 DEF IInv, TypeOK, CacheMirrorsRows, WarmIsCurrent, WarmUpInv, warmth
<1>3. ASSUME NEW c \in Book
      PROVE  row'[c] \in Row \union {Absent} /\ RowFollows(row'[c], mine[c])
  <2>1. row[c] \in Row \union {Absent} /\ RowFollows(row[c], mine[c])
    BY DEF IInv, TypeOK, RowInv
  <2>2. CASE row'[c] = row[c]
    BY <2>1, <2>2
  <2>3. CASE row'[c] = [row[c] EXCEPT !.deleted = TRUE] /\ row[c] \in Row
    <3>1. /\ row'[c] \in Row
          /\ row'[c].live = row[c].live /\ row'[c].snapshot = row[c].snapshot
      BY <2>3 DEF Row
    <3>2. row[c] # Absent /\ row'[c] # Absent
      BY <2>3, <3>1, NoneAssumption
    <3>. QED
      BY <2>1, <3>1, <3>2 DEF RowFollows
  <2>. QED
    BY <2>1, <2>2, <2>3 DEF DeleteBook, IInv, TypeOK
<1>4. row' \in [Book -> Row \union {Absent}]
  <2>1. row \in [Book -> Row \union {Absent}]
    BY DEF IInv, TypeOK
  <2>2. row' = row \/ row' = [row EXCEPT ![b].deleted = TRUE]
    BY DEF DeleteBook
  <2>. QED
    BY <1>3, <2>1, <2>2
<1>5. TypeOK'
  BY <1>1, <1>4 DEF IInv, TypeOK, warmth
<1>6. RowInv'
  BY <1>1, <1>3 DEF RowInv, RowFollows, StoredAs
<1>. QED
  BY <1>2, <1>5, <1>6 DEF IInv

(* Rows stay as they are in every other step. *)
LEMMA StoreInv ==
    ASSUME TypeOK, RowInv, UNCHANGED store
    PROVE  RowInv' /\ Visible' = Visible
BY DEF RowInv, RowFollows, StoredAs, Visible, store

(* The snapshot that cachedLibrary returns is what the rows say now. *)
LEMMA CachedLibraryInv ==
    ASSUME IInv, CachedLibrary, UNCHANGED <<store, generation, warmed, seen>>,
           NEW r \in Request,
           stage' = stage \/ stage' = [stage EXCEPT ![r] = "mark"]
    PROVE  IInv'
<1>1. RowInv' /\ Visible' = Visible
  BY StoreInv DEF IInv
<1>2. libCache' = Visible /\ builtFor' = generation
  BY DEF IInv, CachedLibrary, CacheMirrorsRows, WarmUpInv
<1>3. TypeOK'
  BY <1>2, VisibleType DEF IInv, TypeOK, store
<1>4. (CacheMirrorsRows /\ WarmIsCurrent)'
  BY <1>1, <1>2 DEF CacheMirrorsRows, WarmIsCurrent
<1>5. WarmUpInv'
  BY <1>2 DEF IInv, TypeOK, WarmUpInv, CachedLibrary, Unlocked
<1>. QED
  BY <1>1, <1>3, <1>4, <1>5 DEF IInv

(* No step breaks the invariant. *)
LEMMA NextInv == IInv /\ [Next]_vars => IInv'
<1>. SUFFICES ASSUME IInv, [Next]_vars PROVE IInv'
  OBVIOUS
<1>1. ASSUME NEW r \in Request, BumpGeneration(r) PROVE IInv'
  <2>1. RowInv' /\ Visible' = Visible
    BY <1>1, StoreInv DEF IInv, BumpGeneration
  <2>2. TypeOK'
    <3>1. /\ generation' = generation + 1 /\ warmed' = FALSE
          /\ stage' = [stage EXCEPT ![r] = "warm"]
          /\ UNCHANGED <<row, imported, mine, libCache, seen, builtFor>>
      BY <1>1 DEF BumpGeneration, store
    <3>2. generation' \in Nat
      BY <3>1 DEF IInv, TypeOK
    <3>. QED
      BY <3>1, <3>2 DEF IInv, TypeOK
  <2>3. libCache' = NoSnapshot /\ generation' = generation + 1 /\ ~warmed'
    BY <1>1 DEF IInv, BumpGeneration, WarmUpInv
  <2>4. \A q \in Request : seen'[q] <= generation /\ seen'[q] \in Nat /\ generation \in Nat
    BY <1>1 DEF IInv, BumpGeneration, TypeOK, WarmUpInv
  <2>5. \A q \in Request : seen'[q] <= generation' /\ seen'[q] # generation'
    BY <2>3, <2>4
  <2>6. (CacheMirrorsRows /\ WarmIsCurrent /\ WarmUpInv)'
    BY <2>3, <2>5 DEF CacheMirrorsRows, WarmIsCurrent, WarmUpInv
  <2>. QED
    BY <2>1, <2>2, <2>6 DEF IInv
<1>2. ASSUME NEW r \in Request, WarmUp(r) PROVE IInv'
  <2>1. RowInv' /\ Visible' = Visible
    BY <1>2, StoreInv DEF IInv, WarmUp
  <2>2. (TypeOK /\ CacheMirrorsRows /\ WarmIsCurrent /\ WarmUpInv)'
    BY <1>2, <2>1 DEF IInv, WarmUp, TypeOK, CacheMirrorsRows, WarmIsCurrent, WarmUpInv, store
  <2>. QED
    BY <2>1, <2>2 DEF IInv
<1>3. ASSUME NEW r \in Request, Build(r) PROVE IInv'
  <2>1. CASE CachedLibrary /\ stage' = [stage EXCEPT ![r] = "mark"]
    BY <1>3, <2>1, CachedLibraryInv DEF Build
  <2>2. CASE stage' = [stage EXCEPT ![r] = "idle"] /\ UNCHANGED <<libCache, builtFor>>
    <3>1. RowInv' /\ Visible' = Visible
      BY <1>3, StoreInv DEF IInv, Build
    <3>2. (TypeOK /\ CacheMirrorsRows /\ WarmIsCurrent /\ WarmUpInv)'
      BY <1>3, <2>2, <3>1
         DEF IInv, Build, TypeOK, CacheMirrorsRows, WarmIsCurrent, WarmUpInv, store
    <3>. QED
      BY <3>1, <3>2 DEF IInv
  <2>. QED
    BY <1>3, <2>1, <2>2 DEF Build
<1>4. ASSUME NEW r \in Request, MarkWarm(r) PROVE IInv'
  <2>1. RowInv' /\ Visible' = Visible
    BY <1>4, StoreInv DEF IInv, MarkWarm
  <2>2. warmed' \in BOOLEAN /\ (warmed' => builtFor = generation)
    BY <1>4 DEF MarkWarm, IInv, TypeOK, WarmIsCurrent, WarmUpInv
  <2>3. (TypeOK /\ CacheMirrorsRows /\ WarmIsCurrent /\ WarmUpInv)'
    BY <1>4, <2>1, <2>2
       DEF IInv, MarkWarm, TypeOK, CacheMirrorsRows, WarmIsCurrent, WarmUpInv, store
  <2>. QED
    BY <2>1, <2>3 DEF IInv
<1>5. ASSUME Evaluate PROVE IInv'
  <2>1. CASE Request = {}
    <3>1. RowInv' /\ Visible' = Visible
      BY <1>5, StoreInv DEF IInv, Evaluate
    <3>2. libCache' = Visible /\ builtFor' = generation
      BY <1>5 DEF IInv, Evaluate, CachedLibrary, CacheMirrorsRows, WarmUpInv
    <3>3. (TypeOK /\ CacheMirrorsRows /\ WarmIsCurrent /\ WarmUpInv)'
      BY <1>5, <2>1, <3>1, <3>2, VisibleType
         DEF IInv, Evaluate, TypeOK, CacheMirrorsRows, WarmIsCurrent, WarmUpInv, store
    <3>. QED
      BY <3>1, <3>3 DEF IInv
  <2>2. CASE Request # {}
    <3>1. PICK r \in Request : TRUE
      BY <2>2
    <3>. QED
      BY <1>5, <3>1, CachedLibraryInv DEF Evaluate
  <2>. QED
    BY <2>1, <2>2
<1>6. ASSUME NewProcess PROVE IInv'
  <2>1. RowInv' /\ Visible' = Visible
    BY <1>6, StoreInv DEF IInv, NewProcess
  <2>2. PICK q \in Request : stage' = [r \in Request |-> IF r = q THEN "warm" ELSE "idle"]
    BY <1>6 DEF NewProcess
  <2>3. /\ libCache' = NoSnapshot /\ generation' = 0 /\ builtFor' = 0 /\ warmed' = FALSE
        /\ seen' = [r \in Request |-> 0]
        /\ UNCHANGED store
    BY <1>6 DEF NewProcess
  <2>4. TypeOK'
    BY <2>2, <2>3 DEF IInv, TypeOK, store
  <2>5. (CacheMirrorsRows /\ WarmIsCurrent /\ WarmUpInv)'
    BY <2>2, <2>3 DEF CacheMirrorsRows, WarmIsCurrent, WarmUpInv
  <2>. QED
    BY <2>1, <2>4, <2>5 DEF IInv
<1>7. CASE UNCHANGED vars
  <2>1. RowInv' /\ Visible' = Visible
    BY <1>7, StoreInv DEF IInv, vars, store
  <2>2. (TypeOK /\ CacheMirrorsRows /\ WarmIsCurrent /\ WarmUpInv)'
    BY <1>7, <2>1 DEF IInv, vars, TypeOK, CacheMirrorsRows, WarmIsCurrent, WarmUpInv
  <2>. QED
    BY <2>1, <2>2 DEF IInv
<1>. QED
  BY <1>1, <1>2, <1>3, <1>4, <1>5, <1>6, <1>7,
     ImportFromInv, UpdateBooksInv, CreateBookInv, DeleteBookInv DEF Next

--------------------------------------------------------------------------------
\* Theorems

(* The invariant holds in every state of every behaviour. *)
LEMMA Invariance == Spec => []IInv
<1>. QED
  BY InitInv, NextInv, PTL DEF Spec

(* Rows, snapshot, generations and ghosts keep their types; in particular what a
   row holds of a joined field is always what reads back as it was written. *)
THEOREM StoreTypeCorrect == Spec => []TypeOK
<1>1. IInv => TypeOK
  BY DEF IInv
<1>. QED
  BY <1>1, Invariance, PTL

(* The snapshot that lists are evaluated on is never older than the rows, however
   writes, imports, warm-ups and evaluations interleave (cachedLibrary and the
   "libCache = nil" of every write of backend.go). *)
THEOREM SnapshotIsCurrent == Spec => []CacheMirrorsRows
<1>1. IInv => CacheMirrorsRows
  BY DEF IInv
<1>. QED
  BY <1>1, Invariance, PTL

(* IsWarm is never true of a backend whose snapshot was last built before the
   last import (WarmUp's two looks at the generation). *)
THEOREM WarmAfterImport == Spec => []WarmIsCurrent
<1>1. IInv => WarmIsCurrent
  BY DEF IInv
<1>. QED
  BY <1>1, Invariance, PTL

(* No import takes away what was written here to a field of a book that it does
   not retire (diffBookColumns, mergeUpdateBook). *)
THEOREM ImportKeepsEdits == Spec => []EditsKept
<1>1. IInv => EditsKept
  BY DEF IInv, RowInv, RowFollows, EditsKept
<1>. QED
  BY <1>1, Invariance, PTL

(* A column that was not edited here holds what the snapshot of the file says, so
   that the next merge does not take it for an edit (mergeUpdateBook writes
   column and snapshot together). *)
THEOREM NoPhantomEdit == Spec => []UneditedMatchesSnapshot
<1>1. IInv => UneditedMatchesSnapshot
  BY DEF IInv, RowInv, RowFollows, UneditedMatchesSnapshot
<1>. QED
  BY <1>1, Invariance, PTL

--------------------------------------------------------------------------------
\* The file that was imported last

(* A book of the last file has a row, whose hash is the file's unless the row was
   deleted since. *)
FileInv ==
    \A b \in Book : imported[b] # Absent =>
        /\ row[b] # Absent
        /\ ~row[b].deleted => Hash(row[b].snapshot) = Hash(imported[b])

(* The hash is of what the file says, not of what the row says, so that an edit
   does not show in it. *)
LEMMA FileInvNext == TypeOK /\ FileInv /\ [Next]_vars => FileInv'
<1>. SUFFICES ASSUME TypeOK, FileInv, [Next]_vars PROVE FileInv'
  OBVIOUS
<1>1. ASSUME NEW r \in Request, ImportFrom(r) PROVE FileInv'
  <2>1. SUFFICES ASSUME NEW b \in Book, imported'[b] # Absent
                 PROVE  /\ row'[b] # Absent
                        /\ ~row'[b].deleted => Hash(row'[b].snapshot) = Hash(imported'[b])
    BY DEF FileInv, Hash
  <2>2. /\ row'[b] = ImportBook(row[b], imported'[b])
        /\ imported'[b] \in ComicBook
        /\ row[b] \in Row \union {Absent}
    BY <1>1, <2>1 DEF ImportFrom, Library, TypeOK
  <2>3. CASE row[b] = Absent \/ row[b].deleted
    <3>1. row'[b] = InsertBook(imported'[b])
      BY <2>1, <2>2, <2>3 DEF ImportBook
    <3>. QED
      BY <3>1, <2>2, InsertBookType, NoneAssumption
  <2>4. CASE row[b] # Absent /\ ~row[b].deleted /\ Hash(imported'[b]) # Hash(row[b].snapshot)
    <3>1. row'[b] = MergeUpdateBook(row[b], imported'[b]) /\ row[b] \in Row
      BY <2>1, <2>2, <2>4 DEF ImportBook
    <3>2. row'[b] \in Row /\ row'[b].snapshot = imported'[b]
      BY <3>1, <2>2, MergeUpdateBookType
    <3>. QED
      BY <3>2, NoneAssumption
  <2>5. CASE row[b] # Absent /\ ~row[b].deleted /\ Hash(imported'[b]) = Hash(row[b].snapshot)
    BY <2>1, <2>2, <2>5 DEF ImportBook
  <2>. QED
    BY <2>3, <2>4, <2>5
<1>2. ASSUME NEW b \in Book, CreateBook(b) PROVE FileInv'
  BY <1>2 DEF CreateBook, FileInv, Hash, TypeOK
<1>3. ASSUME NEW b \in Book, DeleteBook(b) PROVE FileInv'
  <2>1. ASSUME NEW c \in Book, imported[c] # Absent
        PROVE  /\ row'[c] # Absent
               /\ ~row'[c].deleted => Hash(row'[c].snapshot) = Hash(imported[c])
    <3>1. row[c] \in Row
      BY <2>1 DEF TypeOK, FileInv
    <3>2. row'[c] = row[c] \/ row'[c] = [row[c] EXCEPT !.deleted = TRUE]
      BY <1>3 DEF DeleteBook, TypeOK
    <3>3. [row[c] EXCEPT !.deleted = TRUE] \in Row /\ [row[c] EXCEPT !.deleted = TRUE].deleted
      BY <3>1 DEF Row
    <3>. QED
      BY <2>1, <3>2, <3>3, NoneAssumption DEF FileInv
  <2>. QED
    BY <1>3, <2>1 DEF FileInv, DeleteBook, Hash
<1>4. ASSUME UpdateBooks PROVE FileInv'
  <2>1. ASSUME NEW c \in Book, imported[c] # Absent
        PROVE  /\ row'[c] # Absent
               /\ row'[c].deleted = row[c].deleted /\ row'[c].snapshot = row[c].snapshot
    <3>1. row[c] \in Row
      BY <2>1 DEF TypeOK, FileInv
    <3>2. row'[c] = row[c] \/ \E book \in ComicBook : row'[c] = [row[c] EXCEPT !.live = StoredAs(book)]
      BY <1>4, <3>1, NoneAssumption DEF UpdateBooks, UpdateBookFields
    <3>3. ASSUME NEW book \in ComicBook
          PROVE  /\ [row[c] EXCEPT !.live = StoredAs(book)] \in Row
                 /\ [row[c] EXCEPT !.live = StoredAs(book)].deleted = row[c].deleted
                 /\ [row[c] EXCEPT !.live = StoredAs(book)].snapshot = row[c].snapshot
      BY <3>1, StoredAsType DEF Row
    <3>. QED
      BY <3>1, <3>2, <3>3, NoneAssumption
  <2>. QED
    BY <1>4, <2>1 DEF FileInv, UpdateBooks, Hash
<1>5. CASE UNCHANGED store
  BY <1>5 DEF FileInv, Hash, store
<1>6. ASSUME NEW r \in Request, BumpGeneration(r) \/ WarmUp(r) \/ Build(r) \/ MarkWarm(r)
      PROVE  UNCHANGED store
  BY <1>6 DEF BumpGeneration, WarmUp, Build, MarkWarm
<1>7. Evaluate \/ NewProcess \/ UNCHANGED vars => UNCHANGED store
  BY DEF Evaluate, NewProcess, vars, store
<1>. QED
  BY <1>1, <1>2, <1>3, <1>4, <1>5, <1>6, <1>7 DEF Next

(* Importing the same file again leaves every book alone that is still there. *)
THEOREM SameFileChangesNothing == Spec => ImportIsIdempotent
<1>. DEFINE Again == \E r \in Request : stage[r] = "idle" /\ stage'[r] = "bump"
            Same == \A b \in Book : imported[b] # Absent /\ Visible[b] # Absent => row'[b] = row[b]
<1>1. Init => FileInv
  BY DEF Init, FileInv
<1>2. TypeOK /\ FileInv /\ [Next]_vars => (Again /\ imported' = imported => Same)
  <2>. SUFFICES ASSUME TypeOK, FileInv, [Next]_vars, imported' = imported,
                       NEW r \in Request, stage[r] = "idle", stage'[r] = "bump",
                       NEW b \in Book, imported[b] # Absent, Visible[b] # Absent
                PROVE  row'[b] = row[b]
    OBVIOUS
  <2>1. PICK q \in Request : ImportFrom(q)
    BY DEF Next, TypeOK, vars, BumpGeneration, WarmUp, Build, MarkWarm, CreateBook, DeleteBook,
           UpdateBooks, Evaluate, NewProcess, warmth
  <2>2. row'[b] = ImportBook(row[b], imported[b])
    BY <2>1 DEF ImportFrom
  <2>3. row[b] # Absent /\ ~row[b].deleted
    BY DEF Visible
  <2>. QED
    BY <2>2, <2>3 DEF ImportBook, FileInv
<1>3. TypeOK /\ FileInv /\ [Next]_vars => [Again /\ imported' = imported => Same]_vars
  BY <1>2
<1>. QED
  BY <1>1, <1>3, FileInvNext, StoreTypeCorrect, PTL DEF Spec, ImportIsIdempotent

================================================================================
