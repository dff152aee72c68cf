---------------------------- MODULE BookFilesProofs ----------------------------
(***************************************************************************)
(* No file that a book came with is lost, for any books, requests, paths   *)
(* and files and any number of accidents.  The invariant counts: a file    *)
(* that was neither deleted nor written over is at one place more than     *)
(* there are requests that copied it and have yet to retire their source,  *)
(* for such a request may still take its copy away again.                  *)
(*                                                                         *)
(* And a row describes its file as long as nothing meets: the invariant    *)
(* says of every request what the file it read is, what the one it wrote   *)
(* is to the row it will save, and that no other row has either path.      *)
(***************************************************************************)
EXTENDS BookFiles, FiniteSetTheorems, TLAPS

Finite == IsFiniteSet(Path) /\ IsFiniteSet(Worker)

(* Where a file can be: at a path, or in the trash with the second it was     *)
(* moved there; a number that is no second stands for the path itself.        *)
AtPath == MaxSecond + 2
Place == Path \X (0 .. AtPath)
There == [x \in Place |-> IF x[2] = AtPath THEN file[x[1]] ELSE quarantine[x[1]][x[2]]]
Where(d, f) == {x \in Place : d[x] = f}

(* A conversion or a move that may still take its copy away. *)
MayTakeAway(w, f) ==
    job[w] # NoJob /\ job[w].pc = "retire" /\ job[w].op # "duplicate" /\ job[w].tmp = f
Holders(f) == {w \in Worker : MayTakeAway(w, f)}

Kept(f) == Cardinality(Where(There, f)) >= 1 + Cardinality(Holders(f))

DiskInv ==
    /\ file = [p \in Path |-> file[p]]
    /\ quarantine = [p \in Path |-> quarantine[p]]
    /\ \A p \in Path : quarantine[p] = [t \in Second |-> quarantine[p][t]]
    /\ now \in 0 .. MaxSecond

IsJob(j) ==
    /\ j = [op |-> j.op, pc |-> j.pc, book |-> j.book, number |-> j.number, copy |-> j.copy, dst |-> j.dst, tmp |-> j.tmp,
            at |-> j.at]
    /\ j.at \in Second /\ j.dst \in Path

JobInv ==
    /\ job = [w \in Worker |-> job[w]]
    /\ \A w \in Worker : job[w] # NoJob => IsJob(job[w])

KeptInv == DiskInv /\ JobInv /\ \A f \in Originals \ (purged \union overwritten) : Kept(f)

--------------------------------------------------------------------------------
(* Counting. *)
LEMMA Counts ==
    ASSUME NEW U, IsFiniteSet(U), NEW S \in SUBSET U, NEW T \in SUBSET U
    PROVE  /\ Cardinality(S) \in Nat /\ Cardinality(T) \in Nat
           /\ S \subseteq T => Cardinality(S) <= Cardinality(T)
           /\ \A a : S \ {a} \subseteq T => Cardinality(S) <= Cardinality(T) + 1
           /\ \A b \in T \ S : S \subseteq T => Cardinality(S) + 1 <= Cardinality(T)
           /\ \A a : \A b \in T \ S : S \ {a} \subseteq T => Cardinality(S) <= Cardinality(T)
<1>1. IsFiniteSet(S) /\ IsFiniteSet(T)
  BY FS_Subset
<1>2. Cardinality(S) \in Nat /\ Cardinality(T) \in Nat
  BY <1>1, FS_CardinalityType
<1>3. S \subseteq T => Cardinality(S) <= Cardinality(T)
  BY <1>1, FS_Subset
<1>4. ASSUME NEW a, S \ {a} \subseteq T PROVE Cardinality(S) <= Cardinality(T) + 1
  <2>1. IsFiniteSet(S \ {a}) /\ Cardinality(S \ {a}) = IF a \in S THEN Cardinality(S) - 1 ELSE Cardinality(S)
    BY <1>1, FS_RemoveElement
  <2>2. Cardinality(S \ {a}) <= Cardinality(T)
    BY <1>1, <1>4, FS_Subset
  <2> QED
    BY <1>2, <2>1, <2>2
<1>5. ASSUME NEW b \in T \ S, S \subseteq T PROVE Cardinality(S) + 1 <= Cardinality(T)
  <2>1. IsFiniteSet(S \union {b}) /\ Cardinality(S \union {b}) = Cardinality(S) + 1
    BY <1>1, FS_AddElement
  <2>2. S \union {b} \in SUBSET T
    BY <1>5
  <2>3. Cardinality(S \union {b}) <= Cardinality(T)
    BY <1>1, <2>2, FS_Subset
  <2> QED
    BY <2>1, <2>3
<1>6. ASSUME NEW a, NEW b \in T \ S, S \ {a} \subseteq T PROVE Cardinality(S) <= Cardinality(T)
  <2> DEFINE R == S \ {a}
  <2>1. IsFiniteSet(R) /\ Cardinality(R) = IF a \in S THEN Cardinality(S) - 1 ELSE Cardinality(S)
    BY <1>1, FS_RemoveElement
  <2>2. b \notin R /\ R \subseteq T
    BY <1>6
  <2> HIDE DEF R
  <2>3. IsFiniteSet(R \union {b}) /\ Cardinality(R \union {b}) = Cardinality(R) + 1
    BY <2>1, <2>2, FS_AddElement
  <2>4. R \union {b} \in SUBSET T
    BY <1>6, <2>2
  <2>5. Cardinality(R \union {b}) <= Cardinality(T)
    BY <1>1, <2>4, FS_Subset
  <2> QED
    BY <1>2, <2>1, <2>3, <2>5
<1> QED
  BY <1>2, <1>3, <1>4, <1>5, <1>6

LEMMA PlacesFinite == ASSUME Finite PROVE IsFiniteSet(Place)
<1>1. MaxSecond \in Nat
  BY TrashAssumption DEF TrashBounds
<1>2. IsFiniteSet(0 .. AtPath)
  BY <1>1, FS_Interval DEF AtPath
<1> QED
  BY <1>2, FS_Product DEF Place, Finite

(* A file stays, is moved, is left at a place less or comes to another one. *)
LEMMA Moves ==
    ASSUME Finite, NEW d, NEW e, NEW f
    PROVE  /\ Cardinality(Where(d, f)) \in Nat /\ Cardinality(Where(e, f)) \in Nat
           /\ (\A x \in Place : d[x] = f => e[x] = f) => Cardinality(Where(d, f)) <= Cardinality(Where(e, f))
           /\ \A a : (\A x \in Place \ {a} : d[x] = f => e[x] = f) => Cardinality(Where(d, f)) <= Cardinality(Where(e, f)) + 1
           /\ \A b \in Place : (\A x \in Place : d[x] = f => e[x] = f) /\ d[b] # f /\ e[b] = f
                               => Cardinality(Where(d, f)) + 1 <= Cardinality(Where(e, f))
           /\ \A a : \A b \in Place : (\A x \in Place \ {a} : d[x] = f => e[x] = f) /\ d[b] # f /\ e[b] = f
                               => Cardinality(Where(d, f)) <= Cardinality(Where(e, f))
<1> DEFINE S == Where(d, f)
           T == Where(e, f)
<1>1. S \in SUBSET Place /\ T \in SUBSET Place
  BY DEF Where
<1>2. (\A x \in Place : d[x] = f => e[x] = f) => S \subseteq T
  BY DEF Where
<1>3. \A a : (\A x \in Place \ {a} : d[x] = f => e[x] = f) => S \ {a} \subseteq T
  BY DEF Where
<1>4. \A b \in Place : d[b] # f /\ e[b] = f => b \in T \ S
  BY DEF Where
<1> HIDE DEF S, T
<1>5. /\ Cardinality(S) \in Nat /\ Cardinality(T) \in Nat
      /\ S \subseteq T => Cardinality(S) <= Cardinality(T)
      /\ \A a : S \ {a} \subseteq T => Cardinality(S) <= Cardinality(T) + 1
      /\ \A b \in T \ S : S \subseteq T => Cardinality(S) + 1 <= Cardinality(T)
      /\ \A a : \A b \in T \ S : S \ {a} \subseteq T => Cardinality(S) <= Cardinality(T)
  BY <1>1, Counts, PlacesFinite
<1>6. /\ Cardinality(S) \in Nat /\ Cardinality(T) \in Nat
      /\ (\A x \in Place : d[x] = f => e[x] = f) => Cardinality(S) <= Cardinality(T)
      /\ \A a : (\A x \in Place \ {a} : d[x] = f => e[x] = f) => Cardinality(S) <= Cardinality(T) + 1
      /\ \A b \in Place : (\A x \in Place : d[x] = f => e[x] = f) /\ d[b] # f /\ e[b] = f
                          => Cardinality(S) + 1 <= Cardinality(T)
      /\ \A a : \A b \in Place : (\A x \in Place \ {a} : d[x] = f => e[x] = f) /\ d[b] # f /\ e[b] = f
                          => Cardinality(S) <= Cardinality(T)
  BY <1>2, <1>3, <1>4, <1>5
<1> QED
  BY <1>6 DEF S, T

--------------------------------------------------------------------------------
(* What is there after a step on the disk. *)
LEMMA PlaceKinds ==
    /\ AtPath \notin Second
    /\ \A p, t : <<p, t>> \in Place <=> p \in Path /\ (t = AtPath \/ t \in Second)
    /\ \A x \in Place : x = <<x[1], x[2]>> /\ x[1] \in Path /\ (x[2] = AtPath \/ x[2] \in Second)
<1>1. MaxSecond \in Nat
  BY TrashAssumption DEF TrashBounds
<1>2. AtPath \notin Second /\ (0 .. AtPath) = Second \union {AtPath}
  BY <1>1 DEF AtPath, Second
<1> QED
  BY <1>2 DEF Place

LEMMA ThereIs ==
    /\ \A p \in Path : There[<<p, AtPath>>] = file[p]
    /\ \A p \in Path, t \in Second : There[<<p, t>>] = quarantine[p][t]
BY PlaceKinds DEF There

PutsAt(p, c) == \A q \in Path : file'[q] = IF q = p THEN c ELSE file[q]
PutsIn(p, t, c) == \A q \in Path, s \in Second : quarantine'[q][s] = IF q = p /\ s = t THEN c ELSE quarantine[q][s]

LEMMA PathPut ==
    ASSUME DiskInv, NEW p, NEW c, file' = [file EXCEPT ![p] = c]
    PROVE  file' = [q \in Path |-> file'[q]] /\ PutsAt(p, c)
BY DEF DiskInv, PutsAt

LEMMA SlotPut ==
    ASSUME DiskInv, NEW p, NEW t, NEW c, quarantine' = [quarantine EXCEPT ![p][t] = c]
    PROVE  /\ quarantine' = [q \in Path |-> quarantine'[q]]
           /\ \A q \in Path : quarantine'[q] = [s \in Second |-> quarantine'[q][s]]
           /\ PutsIn(p, t, c)
<1>1. quarantine' = [quarantine EXCEPT ![p] = [quarantine[p] EXCEPT ![t] = c]]
  OBVIOUS
<1>2. quarantine' = [q \in Path |-> quarantine'[q]]
  BY <1>1 DEF DiskInv
<1>3. ASSUME NEW q \in Path
      PROVE  /\ quarantine'[q] = [s \in Second |-> quarantine'[q][s]]
             /\ \A s \in Second : quarantine'[q][s] = IF q = p /\ s = t THEN c ELSE quarantine[q][s]
  <2>1. CASE q = p
    <3>1. quarantine'[q] = [quarantine[q] EXCEPT ![t] = c]
      BY <1>1, <2>1 DEF DiskInv
    <3>2. quarantine[q] = [s \in Second |-> quarantine[q][s]]
      BY DEF DiskInv
    <3> QED
      BY <2>1, <3>1, <3>2
  <2>2. CASE q # p
    <3>1. quarantine'[q] = quarantine[q]
      BY <1>1, <2>2 DEF DiskInv
    <3> QED
      BY <2>2, <3>1 DEF DiskInv
  <2> QED
    BY <2>1, <2>2
<1> QED
  BY <1>2, <1>3 DEF PutsIn

LEMMA ThereAfter ==
    ASSUME NEW p, NEW c, NEW q, NEW t, t # AtPath, NEW d, PutsAt(p, c), PutsIn(q, t, d)
    PROVE  \A x \in Place : There'[x] = IF x = <<p, AtPath>> THEN c ELSE IF x = <<q, t>> THEN d ELSE There[x]
<1>1. ASSUME NEW x \in Place
      PROVE  There'[x] = IF x = <<p, AtPath>> THEN c ELSE IF x = <<q, t>> THEN d ELSE There[x]
  <2>1. x = <<x[1], x[2]>> /\ x[1] \in Path
    BY PlaceKinds
  <2>2. CASE x[2] = AtPath
    <3>1. There'[x] = file'[x[1]] /\ There[x] = file[x[1]]
      BY <2>2 DEF There
    <3>2. x # <<q, t>> /\ (x = <<p, AtPath>> <=> x[1] = p)
      BY <2>1, <2>2
    <3> QED
      BY <2>1, <3>1, <3>2 DEF PutsAt
  <2>3. CASE x[2] # AtPath
    <3>1. There'[x] = quarantine'[x[1]][x[2]] /\ There[x] = quarantine[x[1]][x[2]] /\ x[2] \in Second
      BY <2>3, PlaceKinds DEF There
    <3>2. x # <<p, AtPath>> /\ (x = <<q, t>> <=> x[1] = q /\ x[2] = t)
      BY <2>1, <2>3
    <3> QED
      BY <2>1, <3>1, <3>2 DEF PutsIn
  <2> QED
    BY <2>2, <2>3
<1> QED
  BY <1>1

(* The same when only a path, or only an entry of the trash changes. *)
LEMMA ThereAfterPath ==
    ASSUME DiskInv, NEW p, NEW c, file' = [file EXCEPT ![p] = c], UNCHANGED <<quarantine, now>>
    PROVE  DiskInv' /\ \A x \in Place : There'[x] = IF x = <<p, AtPath>> THEN c ELSE There[x]
<1>1. DiskInv'
  <2>1. file' = [q \in Path |-> file'[q]]
    BY PathPut
  <2>2. /\ quarantine' = [q \in Path |-> quarantine'[q]]
        /\ \A q \in Path : quarantine'[q] = [s \in Second |-> quarantine'[q][s]]
        /\ now' \in 0 .. MaxSecond
    BY DEF DiskInv
  <2> QED
    BY <2>1, <2>2 DEF DiskInv
<1>2. ASSUME NEW x \in Place PROVE There'[x] = IF x = <<p, AtPath>> THEN c ELSE There[x]
  <2>1. x = <<x[1], x[2]>> /\ x[1] \in Path
    BY PlaceKinds
  <2>2. CASE x[2] = AtPath
    <3>1. There'[x] = file'[x[1]] /\ There[x] = file[x[1]]
      BY <2>2 DEF There
    <3>2. file'[x[1]] = IF x[1] = p THEN c ELSE file[x[1]]
      BY <2>1, PathPut DEF PutsAt
    <3>3. x = <<p, AtPath>> <=> x[1] = p
      BY <2>1, <2>2
    <3> QED
      BY <3>1, <3>2, <3>3
  <2>3. CASE x[2] # AtPath
    <3>1. There'[x] = There[x] /\ x # <<p, AtPath>>
      BY <2>1, <2>3 DEF There
    <3> QED
      BY <3>1
  <2> QED
    BY <2>2, <2>3
<1> QED
  BY <1>1, <1>2

LEMMA ThereAfterSlot ==
    ASSUME DiskInv, NEW q, NEW t, t # AtPath, NEW d, quarantine' = [quarantine EXCEPT ![q][t] = d], UNCHANGED <<file, now>>
    PROVE  DiskInv' /\ \A x \in Place : There'[x] = IF x = <<q, t>> THEN d ELSE There[x]
<1>1. DiskInv'
  BY SlotPut DEF DiskInv
<1>2. ASSUME NEW x \in Place PROVE There'[x] = IF x = <<q, t>> THEN d ELSE There[x]
  <2>1. x = <<x[1], x[2]>> /\ x[1] \in Path
    BY PlaceKinds
  <2>2. CASE x[2] = AtPath
    <3>1. There'[x] = There[x] /\ x # <<q, t>>
      BY <2>1, <2>2 DEF There
    <3> QED
      BY <3>1
  <2>3. CASE x[2] # AtPath
    <3>1. There'[x] = quarantine'[x[1]][x[2]] /\ There[x] = quarantine[x[1]][x[2]] /\ x[2] \in Second
      BY <2>3, PlaceKinds DEF There
    <3>2. quarantine'[x[1]][x[2]] = IF x[1] = q /\ x[2] = t THEN d ELSE quarantine[x[1]][x[2]]
      BY <2>1, <3>1, SlotPut DEF PutsIn
    <3>3. x = <<q, t>> <=> x[1] = q /\ x[2] = t
      BY <2>1
    <3> QED
      BY <3>1, <3>2, <3>3
  <2> QED
    BY <2>2, <2>3
<1> QED
  BY <1>1, <1>2

--------------------------------------------------------------------------------
(* No step on the disk leaves a file at fewer places, if it is not recorded.   *)
NoFewer(f) == Cardinality(Where(There, f)) <= Cardinality(Where(There, f))'
OneFewer(f) == Cardinality(Where(There, f)) <= Cardinality(Where(There, f))' + 1
OneMore(f) == Cardinality(Where(There, f)) + 1 <= Cardinality(Where(There, f))'

LEMMA Unrecorded ==
    ASSUME NEW olds, Lost(olds), NEW f \in Originals, f \notin overwritten'
    PROVE  f \notin olds /\ f # NoFile
BY DEF Lost, Originals

LEMMA MoveAsideKeeps ==
    ASSUME Finite, DiskInv, NEW p, NEW t \in Second, MoveAside(p, t), UNCHANGED now,
           NEW f
    PROVE  DiskInv' /\ (f \in Originals \ overwritten' => NoFewer(f))
<1> DEFINE a == <<p, AtPath>>
           b == <<p, t>>
<1>1. t # AtPath
  BY PlaceKinds
<1>2. DiskInv' /\ \A x \in Place : There'[x] = IF x = a THEN NoFile ELSE IF x = b THEN file[p] ELSE There[x]
  <2>1. PICK d : d = file[p]
    OBVIOUS
  <2>2. file' = [file EXCEPT ![p] = NoFile]
    BY DEF MoveAside
  <2>3. quarantine' = [quarantine EXCEPT ![p][t] = d]
    BY <2>1 DEF MoveAside
  <2>4. file' = [r \in Path |-> file'[r]] /\ PutsAt(p, NoFile)
    BY <2>2, PathPut
  <2>5. /\ quarantine' = [r \in Path |-> quarantine'[r]]
        /\ \A r \in Path : quarantine'[r] = [s \in Second |-> quarantine'[r][s]]
        /\ PutsIn(p, t, d)
    BY <2>3, SlotPut
  <2>6. \A x \in Place : There'[x] = IF x = <<p, AtPath>> THEN NoFile ELSE IF x = <<p, t>> THEN d ELSE There[x]
    <3>1. PutsAt(p, NoFile) /\ PutsIn(p, t, d)
      BY <2>4, <2>5
    <3> HIDE DEF a, b
    <3> QED
      BY <1>1, <3>1, ThereAfter
  <2>7. DiskInv'
    BY <2>4, <2>5 DEF DiskInv
  <2> QED
    BY <2>1, <2>6, <2>7
<1> SUFFICES ASSUME f \in Originals, f \notin overwritten' PROVE NoFewer(f)
  BY <1>2
<1>3. quarantine[p][t] # f /\ f # NoFile
  BY Unrecorded DEF MoveAside, LandOn
<1>4. p \in Path => a \in Place /\ b \in Place /\ There[a] = file[p] /\ There[b] = quarantine[p][t] /\ a # b
  BY <1>1, PlaceKinds, ThereIs
<1>5. CASE p \in Path /\ file[p] = f
  <2>1. There[b] # f /\ There'[b] = f /\ \A x \in Place \ {a} : There[x] = f => There'[x] = f
    BY <1>2, <1>3, <1>4, <1>5
  <2> QED
    BY <1>2, <1>4, <1>5, <2>1, Moves DEF NoFewer
<1>6. CASE p \in Path /\ file[p] # f
  <2>1. \A x \in Place : There[x] = f => There'[x] = f
    BY <1>2, <1>3, <1>4, <1>6
  <2> QED
    BY <1>2, <2>1, Moves DEF NoFewer
<1>7. CASE p \notin Path
  <2>1. \A x \in Place : x # a /\ x # b
    BY <1>7, PlaceKinds
  <2>2. \A x \in Place : There[x] = f => There'[x] = f
    BY <1>2, <2>1
  <2> QED
    BY <1>2, <2>2, Moves DEF NoFewer
<1> QED
  BY <1>5, <1>6, <1>7

(* A move that fails leaves its source; its copy may have landed on another file. *)
LEMMA FailedMoveKeeps ==
    ASSUME Finite, DiskInv, NEW p, NEW t \in Second, NEW also, MoveAsideFails(p, t, also), UNCHANGED <<file, now>>,
           NEW f
    PROVE  DiskInv' /\ (f \in Originals \ overwritten' => NoFewer(f))
<1>1. CASE UNCHANGED quarantine
  <2>1. DiskInv' /\ There' = There
    BY <1>1 DEF DiskInv, There
  <2> QED
    BY <2>1, Moves DEF NoFewer
<1>2. CASE Lost({quarantine[p][t]} \union also)
           /\ \E copied \in {file[p], NoFile} : quarantine' = [quarantine EXCEPT ![p][t] = copied]
  <2>1. PICK copied \in {file[p], NoFile} : quarantine' = [quarantine EXCEPT ![p][t] = copied]
    BY <1>2
  <2>2. t # AtPath
    BY PlaceKinds
  <2>3. DiskInv' /\ \A x \in Place : There'[x] = IF x = <<p, t>> THEN copied ELSE There[x]
    BY <2>1, <2>2, ThereAfterSlot
  <2> SUFFICES ASSUME f \in Originals, f \notin overwritten' PROVE NoFewer(f)
    BY <2>3
  <2>4. quarantine[p][t] # f
    BY <1>2, Unrecorded
  <2>5. \A x \in Place : There[x] = f => x # <<p, t>>
    BY <2>4, PlaceKinds, ThereIs
  <2>6. \A x \in Place : There[x] = f => There'[x] = f
    BY <2>3, <2>5
  <2> QED
    BY <2>3, <2>6, Moves DEF NoFewer
<1> QED
  BY <1>1, <1>2 DEF MoveAsideFails

LEMMA MoveBackKeeps ==
    ASSUME Finite, DiskInv, NEW p, NEW t \in Second, MoveBack(p, t), UNCHANGED now,
           NEW f
    PROVE  DiskInv' /\ (f \in Originals \ overwritten' => NoFewer(f))
<1> DEFINE a == <<p, AtPath>>
           b == <<p, t>>
<1>1. t # AtPath
  BY PlaceKinds
<1>2. DiskInv' /\ \A x \in Place : There'[x] = IF x = a THEN quarantine[p][t] ELSE IF x = b THEN NoFile ELSE There[x]
  <2>1. PICK c : c = quarantine[p][t]
    OBVIOUS
  <2>2. file' = [file EXCEPT ![p] = c]
    BY <2>1 DEF MoveBack
  <2>3. quarantine' = [quarantine EXCEPT ![p][t] = NoFile]
    BY DEF MoveBack
  <2>4. file' = [r \in Path |-> file'[r]] /\ PutsAt(p, c)
    BY <2>2, PathPut
  <2>5. /\ quarantine' = [r \in Path |-> quarantine'[r]]
        /\ \A r \in Path : quarantine'[r] = [s \in Second |-> quarantine'[r][s]]
        /\ PutsIn(p, t, NoFile)
    BY <2>3, SlotPut
  <2>6. \A x \in Place : There'[x] = IF x = <<p, AtPath>> THEN c ELSE IF x = <<p, t>> THEN NoFile ELSE There[x]
    <3>1. PutsAt(p, c) /\ PutsIn(p, t, NoFile)
      BY <2>4, <2>5
    <3> HIDE DEF a, b
    <3> QED
      BY <1>1, <3>1, ThereAfter
  <2>7. DiskInv'
    BY <2>4, <2>5 DEF DiskInv
  <2> QED
    BY <2>1, <2>6, <2>7
<1> SUFFICES ASSUME f \in Originals, f \notin overwritten' PROVE NoFewer(f)
  BY <1>2
<1>3. file[p] # f /\ f # NoFile
  BY Unrecorded DEF MoveBack, LandOn
<1>4. p \in Path => a \in Place /\ b \in Place /\ There[a] = file[p] /\ There[b] = quarantine[p][t] /\ a # b
  BY <1>1, PlaceKinds, ThereIs
<1>5. CASE p \in Path /\ quarantine[p][t] = f
  <2>1. There[a] # f /\ There'[a] = f /\ \A x \in Place \ {b} : There[x] = f => There'[x] = f
    BY <1>2, <1>3, <1>4, <1>5
  <2> QED
    BY <1>2, <1>4, <1>5, <2>1, Moves DEF NoFewer
<1>6. CASE p \in Path /\ quarantine[p][t] # f
  <2>1. \A x \in Place : There[x] = f => There'[x] = f
    BY <1>2, <1>3, <1>4, <1>6
  <2> QED
    BY <1>2, <2>1, Moves DEF NoFewer
<1>7. CASE p \notin Path
  <2>1. \A x \in Place : x # a /\ x # b
    BY <1>7, PlaceKinds
  <2>2. \A x \in Place : There[x] = f => There'[x] = f
    BY <1>2, <2>1
  <2> QED
    BY <1>2, <2>2, Moves DEF NoFewer
<1> QED
  BY <1>5, <1>6, <1>7

(* A copy comes to its path, and is one more if it can be there. *)
LEMMA SwapKeeps ==
    ASSUME Finite, DiskInv, NEW p \in Path, NEW c, Swap(p, c), UNCHANGED now, NEW f
    PROVE  DiskInv' /\ (f \in Originals \ overwritten' => NoFewer(f) /\ (c = f => OneMore(f)))
<1> DEFINE a == <<p, AtPath>>
<1>1. DiskInv' /\ \A x \in Place : There'[x] = IF x = a THEN c ELSE There[x]
  BY ThereAfterPath DEF Swap
<1> SUFFICES ASSUME f \in Originals, f \notin overwritten' PROVE NoFewer(f) /\ (c = f => OneMore(f))
  BY <1>1
<1>2. a \in Place /\ There[a] = file[p] /\ file[p] # f
  BY PlaceKinds, ThereIs, Unrecorded DEF Swap, LandOn
<1>3. \A x \in Place : There[x] = f => There'[x] = f
  BY <1>1, <1>2
<1>4. c = f => There[a] # f /\ There'[a] = f
  BY <1>1, <1>2
<1> QED
  BY <1>1, <1>2, <1>3, <1>4, Moves DEF NoFewer, OneMore

OnSeconds(h) == h = [s \in Second |-> h[s]]
PutsBoth(p, t, d, u, c) ==
    \A q \in Path, s \in Second :
        quarantine'[q][s] = IF q = p /\ s = t THEN d ELSE IF q = p /\ s = u THEN c ELSE quarantine[q][s]

LEMMA TwoSlots ==
    ASSUME DiskInv, NEW p, NEW t, NEW u, NEW c, NEW d, NEW g, g = [quarantine EXCEPT ![p][u] = c],
           quarantine' = [g EXCEPT ![p][t] = d]
    PROVE  /\ quarantine' = [q \in Path |-> quarantine'[q]]
           /\ \A q \in Path : quarantine'[q] = [s \in Second |-> quarantine'[q][s]]
           /\ PutsBoth(p, t, d, u, c)
<1>1. /\ g = [quarantine EXCEPT ![p] = [quarantine[p] EXCEPT ![u] = c]]
      /\ quarantine' = [g EXCEPT ![p] = [g[p] EXCEPT ![t] = d]]
  OBVIOUS
<1>2. g = [q \in Path |-> g[q]] /\ quarantine' = [q \in Path |-> quarantine'[q]]
  BY <1>1 DEF DiskInv
<1>3. ASSUME NEW q \in Path
      PROVE  /\ quarantine'[q] = [s \in Second |-> quarantine'[q][s]]
             /\ \A s \in Second :
                    quarantine'[q][s] = IF q = p /\ s = t THEN d ELSE IF q = p /\ s = u THEN c ELSE quarantine[q][s]
  <2>1. CASE q = p
    <3>1. g[q] = [quarantine[q] EXCEPT ![u] = c]
      BY <1>1, <2>1 DEF DiskInv
    <3>2. quarantine'[q] = [g[q] EXCEPT ![t] = d]
      BY <1>1, <1>2, <2>1
    <3>3. quarantine[q] = [s \in Second |-> quarantine[q][s]]
      BY DEF DiskInv
    <3>4. PICK x, y, z : x = quarantine[q] /\ y = g[q] /\ z = quarantine'[q]
      OBVIOUS
    <3>5. x = [s \in Second |-> x[s]] /\ y = [x EXCEPT ![u] = c] /\ z = [y EXCEPT ![t] = d]
      BY <3>1, <3>2, <3>3, <3>4
    <3>6. y = [s \in Second |-> y[s]] /\ \A s \in Second : y[s] = IF s = u THEN c ELSE x[s]
      BY <3>5
    <3>7. z = [s \in Second |-> IF s = t THEN d ELSE y[s]]
      BY <3>5, <3>6
    <3>8. \A s \in Second : z[s] = IF s = t THEN d ELSE y[s]
      BY <3>7
    <3>9. OnSeconds(z)
      BY <3>7 DEF OnSeconds
    <3>10. OnSeconds(quarantine'[q])
      BY <3>4, <3>9
    <3>11. \A s \in Second : quarantine'[q][s] = IF s = t THEN d ELSE IF s = u THEN c ELSE quarantine[q][s]
      <4>1. \A s \in Second : y[s] = IF s = u THEN c ELSE x[s]
        BY <3>6
      <4>2. \A s \in Second : z[s] = IF s = t THEN d ELSE IF s = u THEN c ELSE x[s]
        BY <3>8, <4>1
      <4> QED
        BY <3>4, <4>2
    <3> QED
      <4>1. quarantine'[q] = [s \in Second |-> quarantine'[q][s]]
        BY <3>10 DEF OnSeconds
      <4> QED
        BY <2>1, <3>11, <4>1
  <2>2. CASE q # p
    <3>1. quarantine'[q] = g[q] /\ g[q] = quarantine[q]
      BY <1>1, <1>2, <2>2 DEF DiskInv
    <3> QED
      BY <2>2, <3>1 DEF DiskInv
  <2> QED
    BY <2>1, <2>2
<1> QED
  BY <1>2, <1>3 DEF PutsBoth

(* Restore, over an occupant that is moved aside first or not. *)
LEMMA RestoreKeeps ==
    ASSUME Finite, DiskInv, NEW p \in Path, NEW t \in Second, Restore(p, t), NEW f
    PROVE  DiskInv' /\ (f \in Originals \ overwritten' => NoFewer(f))
<1>1. CASE file[p] = NoFile
  BY <1>1, MoveBackKeeps DEF Restore
<1>2. CASE file[p] # NoFile
  <2>1. PICK u : u = OccupantSecond(t)
    OBVIOUS
  <2>2. u \in Second /\ u # t
    <3>1. MaxSecond \in Nat
      BY TrashAssumption DEF TrashBounds
    <3> QED
      BY <2>1, <3>1 DEF OccupantSecond, Second, DiskInv
  <2>3. PICK g : g = [quarantine EXCEPT ![p][u] = file[p]]
    OBVIOUS
  <2>4. /\ LandOn(quarantine[p][u]) /\ UNCHANGED now
        /\ \/ file' = [file EXCEPT ![p] = g[p][t]] /\ quarantine' = [g EXCEPT ![p][t] = NoFile]
           \/ file' = [file EXCEPT ![p] = NoFile] /\ quarantine' = g
    BY <1>2, <2>1, <2>3 DEF Restore
  <2>5. CASE file' = [file EXCEPT ![p] = NoFile] /\ quarantine' = g
    <3>1. MoveAside(p, u)
      BY <1>2, <2>3, <2>4, <2>5 DEF MoveAside
    <3> QED
      BY <2>2, <2>4, <3>1, MoveAsideKeeps
  <2>6. CASE file' = [file EXCEPT ![p] = g[p][t]] /\ quarantine' = [g EXCEPT ![p][t] = NoFile]
    <3>1. PICK old, new : old = file[p] /\ new = g[p][t]
      OBVIOUS
    <3>2. file' = [file EXCEPT ![p] = new] /\ g = [quarantine EXCEPT ![p][u] = old]
      BY <2>3, <2>6, <3>1
    <3>3. file' = [q \in Path |-> file'[q]] /\ PutsAt(p, new)
      BY <3>2, PathPut
    <3>4. /\ quarantine' = [q \in Path |-> quarantine'[q]]
          /\ \A q \in Path : quarantine'[q] = [s \in Second |-> quarantine'[q][s]]
          /\ PutsBoth(p, t, NoFile, u, old)
      <4>1. g = [quarantine EXCEPT ![p][u] = old] /\ quarantine' = [g EXCEPT ![p][t] = NoFile]
        BY <2>6, <3>2
      <4> QED
        BY <4>1, TwoSlots
    <3>5. new = quarantine[p][t]
      BY <2>2, <2>3, <3>1 DEF DiskInv
    <3>6. DiskInv'
      BY <2>4, <3>3, <3>4 DEF DiskInv
    <3> DEFINE a == <<p, AtPath>>
               b == <<p, t>>
               o == <<p, u>>
    <3>7. /\ a \in Place /\ b \in Place /\ o \in Place /\ a # b /\ a # o /\ b # o
          /\ There[a] = old /\ There[b] = new /\ There[o] = quarantine[p][u]
      BY <2>2, <3>1, <3>5, PlaceKinds, ThereIs
    <3>8. There'[a] = new /\ There'[b] = NoFile /\ There'[o] = old
      <4>1. file'[p] = new /\ quarantine'[p][t] = NoFile /\ quarantine'[p][u] = old
        BY <2>2, <3>3, <3>4 DEF PutsAt, PutsBoth
      <4> QED
        BY <2>2, <3>7, <4>1, PlaceKinds DEF There
    <3>9. ASSUME NEW x \in Place, x # a, x # b, x # o PROVE There'[x] = There[x]
      <4>1. x = <<x[1], x[2]>> /\ x[1] \in Path
        BY PlaceKinds
      <4>2. CASE x[2] = AtPath
        <5>1. There'[x] = file'[x[1]] /\ There[x] = file[x[1]]
          BY <4>2 DEF There
        <5> QED
          BY <3>3, <3>9, <4>1, <4>2, <5>1 DEF PutsAt
      <4>3. CASE x[2] # AtPath
        <5>1. There'[x] = quarantine'[x[1]][x[2]] /\ There[x] = quarantine[x[1]][x[2]] /\ x[2] \in Second
          BY <4>3, PlaceKinds DEF There
        <5> QED
          BY <3>4, <3>9, <4>1, <5>1 DEF PutsBoth
      <4> QED
        BY <4>2, <4>3
    <3> SUFFICES ASSUME f \in Originals, f \notin overwritten' PROVE NoFewer(f)
      BY <3>6
    <3>10. quarantine[p][u] # f /\ f # NoFile
      BY <2>4, Unrecorded DEF LandOn
    <3> HIDE DEF a, b, o
    <3>11. CASE old = f
      <4>1. There[o] # f /\ There'[o] = f
        BY <3>7, <3>8, <3>10, <3>11
      <4>2. CASE new = f
        <5>1. \A x \in Place \ {b} : There[x] = f => There'[x] = f
          BY <3>8, <3>9, <3>11, <4>2
        <5> QED
          BY <3>6, <3>7, <4>1, <5>1, Moves DEF NoFewer
      <4>3. CASE new # f
        <5>1. \A x \in Place \ {a} : There[x] = f => There'[x] = f
          BY <3>7, <3>8, <3>9, <3>11, <4>3
        <5> QED
          BY <3>6, <3>7, <4>1, <5>1, Moves DEF NoFewer
      <4> QED
        BY <4>2, <4>3
    <3>12. CASE old # f
      <4>1. CASE new = f
        <5>1. There[a] # f /\ There'[a] = f
          BY <3>7, <3>8, <3>12, <4>1
        <5>2. \A x \in Place \ {b} : There[x] = f => There'[x] = f
          BY <3>7, <3>8, <3>9, <3>10, <3>12, <4>1
        <5> QED
          BY <3>6, <3>7, <5>1, <5>2, Moves DEF NoFewer
      <4>2. CASE new # f
        <5>1. \A x \in Place : There[x] = f => There'[x] = f
          BY <3>7, <3>8, <3>9, <3>10, <3>12, <4>2
        <5> QED
          BY <3>6, <5>1, Moves DEF NoFewer
      <4> QED
        BY <4>1, <4>2
    <3> QED
      BY <3>11, <3>12
  <2> QED
    BY <2>4, <2>5, <2>6
<1> QED
  BY <1>1, <1>2

(* What a user deletes and a sweep deletes is recorded, and time changes no file. *)
LEMMA DeleteKeeps ==
    ASSUME Finite, DiskInv, NEW p \in Path, NEW t \in Second, DeleteNow(p, t), NEW f
    PROVE  DiskInv' /\ (f \in Originals \ purged' => NoFewer(f))
<1>1. t # AtPath
  BY PlaceKinds
<1>2. quarantine' = [quarantine EXCEPT ![p][t] = NoFile] /\ UNCHANGED <<file, now>>
  BY DEF DeleteNow
<1>3. DiskInv' /\ \A x \in Place : There'[x] = IF x = <<p, t>> THEN NoFile ELSE There[x]
  BY <1>1, <1>2, ThereAfterSlot
<1> SUFFICES ASSUME f \in Originals, f \notin purged' PROVE NoFewer(f)
  BY <1>3
<1>4. quarantine[p][t] # f /\ There[<<p, t>>] = quarantine[p][t]
  BY ThereIs DEF DeleteNow
<1>5. \A x \in Place : There[x] = f => There'[x] = f
  BY <1>3, <1>4
<1> QED
  BY <1>3, <1>5, Moves DEF NoFewer

LEMMA SweepKeeps ==
    ASSUME Finite, DiskInv, Sweep, NEW f
    PROVE  DiskInv' /\ (f \in Originals \ purged' => NoFewer(f))
<1>1. /\ quarantine' = [p \in Path |-> [t \in Second |-> IF Expired(t) THEN NoFile ELSE quarantine[p][t]]]
      /\ UNCHANGED <<file, now>>
  BY DEF Sweep
<1>2. /\ quarantine' = [p \in Path |-> quarantine'[p]]
      /\ \A p \in Path : quarantine'[p] = [t \in Second |-> quarantine'[p][t]]
      /\ \A p \in Path, t \in Second : quarantine'[p][t] = IF Expired(t) THEN NoFile ELSE quarantine[p][t]
  BY <1>1
<1>3. DiskInv'
  <2>1. file' = [p \in Path |-> file'[p]] /\ now' \in 0 .. MaxSecond
    BY <1>1 DEF DiskInv
  <2> QED
    BY <1>2, <2>1 DEF DiskInv
<1> SUFFICES ASSUME f \in Originals, f \notin purged' PROVE NoFewer(f)
  BY <1>3
<1>4. \A p \in Path, t \in Second : Expired(t) => quarantine[p][t] # f
  BY DEF Sweep
<1>5. ASSUME NEW x \in Place, There[x] = f PROVE There'[x] = f
  <2>1. x[1] \in Path
    BY PlaceKinds
  <2>2. CASE x[2] = AtPath
    BY <1>1, <1>5, <2>2 DEF There
  <2>3. CASE x[2] # AtPath
    <3>1. There'[x] = quarantine'[x[1]][x[2]] /\ There[x] = quarantine[x[1]][x[2]] /\ x[2] \in Second
      BY <2>3, PlaceKinds DEF There
    <3> QED
      BY <1>2, <1>4, <1>5, <2>1, <3>1
  <2> QED
    BY <2>2, <2>3
<1> QED
  BY <1>3, <1>5, Moves DEF NoFewer

LEMMA TickKeeps == ASSUME Finite, DiskInv, Tick, NEW f PROVE DiskInv' /\ NoFewer(f)
<1>1. DiskInv'
  <2>1. now' \in 0 .. MaxSecond
    <3>1. MaxSecond \in Nat
      BY TrashAssumption DEF TrashBounds
    <3> QED
      BY <3>1 DEF Tick, DiskInv
  <2> QED
    BY <2>1 DEF Tick, DiskInv
<1>2. There' = There
  BY DEF Tick, There
<1> QED
  BY <1>1, <1>2, Moves DEF NoFewer

--------------------------------------------------------------------------------
(* The requests that may still take a copy away. *)
LEMMA HoldersCount ==
    ASSUME Finite, NEW f
    PROVE  /\ Cardinality(Holders(f)) \in Nat /\ Cardinality(Holders(f))' \in Nat
           /\ Holders(f)' \subseteq Holders(f) => Cardinality(Holders(f))' <= Cardinality(Holders(f))
           /\ \A w : Holders(f)' \ {w} \subseteq Holders(f) => Cardinality(Holders(f))' <= Cardinality(Holders(f)) + 1
           /\ \A w \in Holders(f) \ Holders(f)' : Holders(f)' \subseteq Holders(f)
                                                => Cardinality(Holders(f))' + 1 <= Cardinality(Holders(f))
<1>1. PICK H, G : H = Holders(f) /\ G = Holders(f)'
  OBVIOUS
<1>2. H \in SUBSET Worker /\ G \in SUBSET Worker
  BY <1>1 DEF Holders
<1>3. /\ Cardinality(G) \in Nat /\ Cardinality(H) \in Nat
      /\ G \subseteq H => Cardinality(G) <= Cardinality(H)
      /\ \A a : G \ {a} \subseteq H => Cardinality(G) <= Cardinality(H) + 1
      /\ \A b \in H \ G : G \subseteq H => Cardinality(G) + 1 <= Cardinality(H)
  BY <1>2, Counts DEF Finite
<1>4. Cardinality(G) = Cardinality(Holders(f))' /\ Cardinality(H) = Cardinality(Holders(f))
  BY <1>1
<1> QED
  BY <1>1, <1>3, <1>4

(* A request other than that of w goes on; what w's may take away is known. *)
Others(w) == \A v \in Worker \ {w} : job'[v] = job[v]

LEMMA NoNewHolder ==
    ASSUME NEW w \in Worker, Others(w), NEW f, ~MayTakeAway(w, f)'
    PROVE  Holders(f)' \subseteq Holders(f) /\ w \notin Holders(f)'
BY DEF Others, Holders, MayTakeAway

LEMMA PerhapsNewHolder ==
    ASSUME NEW w \in Worker, Others(w), NEW f
    PROVE  Holders(f)' \ {w} \subseteq Holders(f)
BY DEF Others, Holders, MayTakeAway

LEMMA StillKept ==
    ASSUME Finite, NEW f, Kept(f), NoFewer(f), Holders(f)' \subseteq Holders(f)
    PROVE  Kept(f)'
<1>1. PICK c, d, h, g :
          /\ c = Cardinality(Where(There, f)) /\ d = Cardinality(Where(There, f))'
          /\ h = Cardinality(Holders(f)) /\ g = Cardinality(Holders(f))'
  OBVIOUS
<1>2. c \in Nat /\ d \in Nat
  BY <1>1, Moves
<1>3. h \in Nat /\ g \in Nat /\ g <= h
  BY <1>1, HoldersCount
<1>4. c >= 1 + h /\ c <= d
  BY <1>1 DEF Kept, NoFewer
<1>5. d >= 1 + g
  BY <1>2, <1>3, <1>4
<1> QED
  BY <1>1, <1>5 DEF Kept

LEMMA KeptOnceMore ==
    ASSUME Finite, NEW f, Kept(f), OneMore(f), NEW w, Holders(f)' \ {w} \subseteq Holders(f)
    PROVE  Kept(f)'
<1>1. PICK c, d, h, g :
          /\ c = Cardinality(Where(There, f)) /\ d = Cardinality(Where(There, f))'
          /\ h = Cardinality(Holders(f)) /\ g = Cardinality(Holders(f))'
  OBVIOUS
<1>2. c \in Nat /\ d \in Nat
  BY <1>1, Moves
<1>3. h \in Nat /\ g \in Nat /\ g <= h + 1
  BY <1>1, HoldersCount
<1>4. c >= 1 + h /\ c + 1 <= d
  BY <1>1 DEF Kept, OneMore
<1>5. d >= 1 + g
  BY <1>2, <1>3, <1>4
<1> QED
  BY <1>1, <1>5 DEF Kept

LEMMA KeptOnceLess ==
    ASSUME Finite, NEW f, Kept(f), OneFewer(f), NEW w \in Holders(f) \ Holders(f)', Holders(f)' \subseteq Holders(f)
    PROVE  Kept(f)'
<1>1. PICK c, d, h, g :
          /\ c = Cardinality(Where(There, f)) /\ d = Cardinality(Where(There, f))'
          /\ h = Cardinality(Holders(f)) /\ g = Cardinality(Holders(f))'
  OBVIOUS
<1>2. c \in Nat /\ d \in Nat
  BY <1>1, Moves
<1>3. h \in Nat /\ g \in Nat /\ g + 1 <= h
  BY <1>1, HoldersCount
<1>4. c >= 1 + h /\ c <= d + 1
  BY <1>1 DEF Kept, OneFewer
<1>5. d >= 1 + g
  BY <1>2, <1>3, <1>4
<1> QED
  BY <1>1, <1>5 DEF Kept

--------------------------------------------------------------------------------
(* The steps of a request. *)
LEMMA JobPut ==
    ASSUME JobInv, NEW w \in Worker, NEW j, j # NoJob => IsJob(j), job' = [job EXCEPT ![w] = j]
    PROVE  JobInv' /\ Others(w) /\ job'[w] = j
<1>1. job' = [v \in Worker |-> job'[v]] /\ \A v \in Worker : job'[v] = IF v = w THEN j ELSE job[v]
  BY DEF JobInv
<1> QED
  BY <1>1 DEF JobInv, Others

LEMMA JobEnds ==
    ASSUME JobInv, NEW w \in Worker, GiveUp(w)
    PROVE  JobInv' /\ Others(w) /\ \A f : ~MayTakeAway(w, f)'
<1>1. JobInv' /\ Others(w) /\ job'[w] = NoJob
  BY JobPut DEF GiveUp
<1> QED
  BY <1>1 DEF MayTakeAway

LEMMA JobGoes ==
    ASSUME JobInv, NEW w \in Worker, job[w] # NoJob, NEW pc, Goto(w, pc)
    PROVE  JobInv' /\ Others(w) /\ job'[w].pc = pc
<1>1. PICK k : k = job[w]
  OBVIOUS
<1>2. PICK j : j = [k EXCEPT !.pc = pc]
  OBVIOUS
<1>3. IsJob(k)
  BY <1>1 DEF JobInv
<1>4. IsJob(j) /\ j.pc = pc
  BY <1>2, <1>3 DEF IsJob
<1>5. job' = [job EXCEPT ![w] = j]
  BY <1>1, <1>2 DEF Goto
<1> QED
  BY <1>4, <1>5, JobPut

LEMMA NothingMoved == ASSUME Finite, DiskInv, UNCHANGED disk, NEW f PROVE DiskInv' /\ NoFewer(f)
<1>1. There' = There /\ DiskInv'
  BY DEF disk, DiskInv, There
<1> QED
  BY <1>1, Moves DEF NoFewer

Stays(f) == f \in Originals \ (purged' \union overwritten') /\ Kept(f) => Kept(f)'

LEMMA StartStep ==
    ASSUME Finite, KeptInv, NEW w \in Worker, Start(w), NEW f
    PROVE  DiskInv' /\ JobInv' /\ Stays(f)
<1>1. PICK op \in Op, b \in Book, dst \in Path :
          job' = [job EXCEPT ![w] =
              [op |-> op, pc |-> IF op = "duplicate" THEN "retire" ELSE "read", book |-> b,
               number |-> requests + 1, copy |-> row[b], dst |-> dst, tmp |-> NoFile, at |-> 0]]
  BY DEF Start
<1>2. PICK pc, j :
          /\ pc = (IF op = "duplicate" THEN "retire" ELSE "read")
          /\ j = [op |-> op, pc |-> pc, book |-> b, number |-> requests + 1, copy |-> row[b], dst |-> dst,
                  tmp |-> NoFile, at |-> 0]
          /\ job' = [job EXCEPT ![w] = j]
  BY <1>1
<1>3. IsJob(j)
  <2>1. 0 \in Second
    BY TrashAssumption DEF TrashBounds, Second
  <2> QED
    BY <1>2, <2>1 DEF IsJob
<1>4. JobInv' /\ Others(w) /\ job'[w] = j
  BY <1>2, <1>3, JobPut DEF KeptInv
<1>5. ~MayTakeAway(w, f)'
  BY <1>2, <1>4 DEF MayTakeAway
<1>6. DiskInv' /\ NoFewer(f)
  BY NothingMoved DEF KeptInv, Start
<1>7. Holders(f)' \subseteq Holders(f)
  BY <1>4, <1>5, NoNewHolder
<1> QED
  BY <1>4, <1>6, <1>7, StillKept DEF Stays

LEMMA WriteStep ==
    ASSUME Finite, KeptInv, NEW w \in Worker, Write(w), NEW f
    PROVE  DiskInv' /\ JobInv' /\ Stays(f)
<1>1. JobInv' /\ Others(w) /\ ~MayTakeAway(w, f)'
  <2>1. CASE GiveUp(w)
    BY <2>1, JobEnds DEF KeptInv
  <2>2. CASE ~GiveUp(w)
    <3>1. PICK new, k :
              /\ k = job[w]
              /\ job' = [job EXCEPT ![w].tmp = new, ![w].pc = IF k.dst = k.copy.path THEN "aside" ELSE "create"]
      BY <2>2 DEF Write
    <3>2. PICK pc, i, j :
              /\ pc = (IF k.dst = k.copy.path THEN "aside" ELSE "create")
              /\ i = [k EXCEPT !.tmp = new] /\ j = [i EXCEPT !.pc = pc]
      OBVIOUS
    <3>3. job' = [job EXCEPT ![w].tmp = new, ![w].pc = pc]
      BY <3>1, <3>2
    <3>4. job' = [job EXCEPT ![w] = j]
      BY <3>1, <3>2, <3>3 DEF KeptInv, JobInv
    <3>5. IsJob(k)
      BY <3>1 DEF KeptInv, JobInv, Write, Step, Busy
    <3>6. IsJob(i)
      BY <3>2, <3>5 DEF IsJob
    <3>7. IsJob(j) /\ j.pc # "retire"
      BY <3>2, <3>6 DEF IsJob
    <3>8. JobInv' /\ Others(w) /\ job'[w] = j
      BY <3>4, <3>7, JobPut DEF KeptInv
    <3>9. ~MayTakeAway(w, f)'
      BY <3>7, <3>8 DEF MayTakeAway
    <3> QED
      BY <3>8, <3>9
  <2> QED
    BY <2>1, <2>2
<1>2. DiskInv' /\ NoFewer(f)
  BY NothingMoved DEF KeptInv, Write
<1>3. Holders(f)' \subseteq Holders(f)
  BY <1>1, NoNewHolder
<1> QED
  BY <1>1, <1>2, <1>3, StillKept DEF Stays

LEMMA QuarantineOriginalStep ==
    ASSUME Finite, KeptInv, NEW w \in Worker, QuarantineOriginal(w), NEW f
    PROVE  DiskInv' /\ JobInv' /\ Stays(f)
<1>1. now \in Second /\ UNCHANGED now
  <2>1. now \in 0 .. MaxSecond /\ MaxSecond \in Nat
    BY TrashAssumption DEF TrashBounds, KeptInv, DiskInv
  <2> QED
    BY <2>1 DEF QuarantineOriginal, Second
<1>2. CASE MoveAside(job[w].dst, now) /\ job' = [job EXCEPT ![w].pc = "swap", ![w].at = now]
  <2>1. PICK t : t = now
    OBVIOUS
  <2>2. PICK k, i, j : k = job[w] /\ i = [k EXCEPT !.pc = "swap"] /\ j = [i EXCEPT !.at = t]
    OBVIOUS
  <2>3. job' = [job EXCEPT ![w].pc = "swap", ![w].at = t]
    BY <1>2, <2>1
  <2>4. job' = [job EXCEPT ![w] = j]
    BY <2>2, <2>3 DEF KeptInv, JobInv
  <2>5. IsJob(k)
    BY <2>2 DEF KeptInv, JobInv, QuarantineOriginal, Step, Busy
  <2>6. IsJob(i) /\ i.pc = "swap"
    BY <2>2, <2>5 DEF IsJob
  <2>7. IsJob(j) /\ j.pc # "retire"
    BY <1>1, <2>1, <2>2, <2>6 DEF IsJob
  <2>8. JobInv' /\ Others(w) /\ job'[w] = j
    BY <2>4, <2>7, JobPut DEF KeptInv
  <2>9. ~MayTakeAway(w, f)'
    BY <2>7, <2>8 DEF MayTakeAway
  <2>10. Holders(f)' \subseteq Holders(f)
    BY <2>8, <2>9, NoNewHolder
  <2>11. PICK p : p = job[w].dst
    OBVIOUS
  <2>12. DiskInv' /\ (f \in Originals \ overwritten' => NoFewer(f))
    BY <1>1, <1>2, <2>1, <2>11, MoveAsideKeeps DEF KeptInv
  <2> QED
    BY <2>8, <2>10, <2>12, StillKept DEF Stays
<1>3. CASE MoveAsideFails(job[w].dst, now, {}) /\ UNCHANGED file /\ GiveUp(w)
  <2>1. JobInv' /\ Others(w) /\ ~MayTakeAway(w, f)'
    BY <1>3, JobEnds DEF KeptInv
  <2>2. Holders(f)' \subseteq Holders(f)
    BY <2>1, NoNewHolder
  <2>3. PICK p, t : p = job[w].dst /\ t = now
    OBVIOUS
  <2>4. DiskInv' /\ (f \in Originals \ overwritten' => NoFewer(f))
    <3>1. t \in Second /\ MoveAsideFails(p, t, {}) /\ UNCHANGED <<file, now>>
      BY <1>1, <1>3, <2>3
    <3> QED
      BY <3>1, FailedMoveKeeps DEF KeptInv
  <2> QED
    BY <2>1, <2>2, <2>4, StillKept DEF Stays
<1> QED
  BY <1>2, <1>3 DEF QuarantineOriginal

LEMMA SwapInStep ==
    ASSUME Finite, KeptInv, NEW w \in Worker, SwapIn(w), NEW f
    PROVE  DiskInv' /\ JobInv' /\ Stays(f)
<1>1. PICK j : j = job[w]
  OBVIOUS
<1>2. job[w] # NoJob /\ IsJob(j) /\ UNCHANGED now
  BY <1>1 DEF SwapIn, Step, Busy, KeptInv, JobInv
<1>3. j.dst \in Path /\ j.at \in Second
  BY <1>2 DEF IsJob
<1>4. CASE Swap(j.dst, j.tmp) /\ Goto(w, "save")
  <2>1. JobInv' /\ Others(w) /\ job'[w].pc = "save"
    BY <1>2, <1>4, JobGoes DEF KeptInv
  <2>2. ~MayTakeAway(w, f)'
    BY <2>1 DEF MayTakeAway
  <2>3. Holders(f)' \subseteq Holders(f)
    BY <2>1, <2>2, NoNewHolder
  <2>4. DiskInv' /\ (f \in Originals \ overwritten' => NoFewer(f))
    BY <1>2, <1>3, <1>4, SwapKeeps DEF KeptInv
  <2> QED
    BY <2>1, <2>3, <2>4, StillKept DEF Stays
<1>5. CASE GiveUp(w) /\ (MoveBack(j.dst, j.at) \/ UNCHANGED <<file, quarantine, overwritten>>)
  <2>1. JobInv' /\ Others(w) /\ ~MayTakeAway(w, f)'
    BY <1>5, JobEnds DEF KeptInv
  <2>2. Holders(f)' \subseteq Holders(f)
    BY <2>1, NoNewHolder
  <2>3. DiskInv' /\ (f \in Originals \ overwritten' => NoFewer(f))
    <3>1. CASE MoveBack(j.dst, j.at)
      BY <1>2, <1>3, <3>1, MoveBackKeeps DEF KeptInv
    <3>2. CASE UNCHANGED <<file, quarantine, overwritten>>
      <4>1. UNCHANGED disk
        BY <3>2 DEF disk, SwapIn
      <4> QED
        BY <4>1, NothingMoved DEF KeptInv
    <3> QED
      BY <1>5, <3>1, <3>2
  <2> QED
    BY <2>1, <2>2, <2>3, StillKept DEF Stays
<1> QED
  BY <1>1, <1>4, <1>5 DEF SwapIn

(* The copy is there once more, and may be taken away once more. *)
LEMMA CreateNewStep ==
    ASSUME Finite, KeptInv, NEW w \in Worker, CreateNew(w), NEW f
    PROVE  DiskInv' /\ JobInv' /\ Stays(f)
<1>1. PICK j : j = job[w]
  OBVIOUS
<1>2. job[w] # NoJob /\ IsJob(j) /\ UNCHANGED now
  BY <1>1 DEF CreateNew, Step, Busy, KeptInv, JobInv
<1>3. j.dst \in Path
  BY <1>2 DEF IsJob
<1>4. CASE Swap(j.dst, j.tmp) /\ Goto(w, IF j.op = "copy" THEN "save" ELSE "retire")
  <2>1. PICK pc : pc = (IF j.op = "copy" THEN "save" ELSE "retire")
    OBVIOUS
  <2>2. Goto(w, pc)
    BY <1>4, <2>1
  <2>3. JobInv' /\ Others(w) /\ job'[w].tmp = j.tmp
    <3>1. JobInv' /\ Others(w)
      BY <1>2, <2>2, JobGoes DEF KeptInv
    <3>2. job'[w] = [j EXCEPT !.pc = pc]
      BY <1>1, <2>2 DEF Goto, KeptInv, JobInv
    <3> QED
      BY <1>2, <3>1, <3>2 DEF IsJob
  <2>4. DiskInv' /\ (f \in Originals \ overwritten' => NoFewer(f) /\ (j.tmp = f => OneMore(f)))
    BY <1>2, <1>3, <1>4, SwapKeeps DEF KeptInv
  <2>5. CASE j.tmp = f
    BY <2>3, <2>4, <2>5, PerhapsNewHolder, KeptOnceMore DEF Stays
  <2>6. CASE j.tmp # f
    <3>1. ~MayTakeAway(w, f)'
      BY <2>3, <2>6 DEF MayTakeAway
    <3>2. Holders(f)' \subseteq Holders(f)
      BY <2>3, <3>1, NoNewHolder
    <3> QED
      BY <2>3, <2>4, <3>2, StillKept DEF Stays
  <2> QED
    BY <2>5, <2>6
<1>5. CASE UNCHANGED <<file, quarantine, overwritten>> /\ GiveUp(w)
  <2>1. JobInv' /\ Others(w) /\ ~MayTakeAway(w, f)'
    BY <1>5, JobEnds DEF KeptInv
  <2>2. Holders(f)' \subseteq Holders(f)
    BY <2>1, NoNewHolder
  <2>3. UNCHANGED disk
    BY <1>5 DEF disk, CreateNew
  <2>4. DiskInv' /\ NoFewer(f)
    BY <2>3, NothingMoved DEF KeptInv
  <2> QED
    BY <2>1, <2>2, <2>4, StillKept DEF Stays
<1> QED
  BY <1>1, <1>4, <1>5 DEF CreateNew

(* The clean-up takes the copy away, or what it takes for it and records. *)
LEMMA CleanUpKeeps ==
    ASSUME Finite, DiskInv, NEW p, NEW t \in Second, NEW q \in Path, NEW c, MoveAsideFails(p, t, {file[q]} \ {c}),
           file' = [file EXCEPT ![q] = NoFile], UNCHANGED now, NEW f
    PROVE  DiskInv' /\ (f \in Originals \ overwritten' => OneFewer(f) /\ (c # f => NoFewer(f)))
<1> DEFINE a == <<q, AtPath>>
<1>1. file' = [r \in Path |-> file'[r]] /\ PutsAt(q, NoFile)
  BY PathPut
<1>2. /\ DiskInv'
      /\ f \in Originals \ overwritten' => \A x \in Place \ {a} : There[x] = f => There'[x] = f
  <2>1. CASE UNCHANGED quarantine
    <3>1. DiskInv'
      BY <1>1, <2>1, ThereAfterPath
    <3>2. \A x \in Place : There'[x] = IF x = a THEN NoFile ELSE There[x]
      BY <2>1, ThereAfterPath
    <3> QED
      BY <3>1, <3>2
  <2>2. CASE Lost({quarantine[p][t]} \union ({file[q]} \ {c}))
             /\ \E copied \in {file[p], NoFile} : quarantine' = [quarantine EXCEPT ![p][t] = copied]
    <3>1. PICK copied \in {file[p], NoFile} : quarantine' = [quarantine EXCEPT ![p][t] = copied]
      BY <2>2
    <3>2. /\ quarantine' = [r \in Path |-> quarantine'[r]]
          /\ \A r \in Path : quarantine'[r] = [s \in Second |-> quarantine'[r][s]]
          /\ PutsIn(p, t, copied)
      BY <3>1, SlotPut
    <3>3. DiskInv'
      BY <1>1, <3>2 DEF DiskInv
    <3>4. t # AtPath
      BY PlaceKinds
    <3>5. \A x \in Place : There'[x] = IF x = <<q, AtPath>> THEN NoFile ELSE IF x = <<p, t>> THEN copied ELSE There[x]
      <4>1. PutsAt(q, NoFile) /\ PutsIn(p, t, copied)
        BY <1>1, <3>2
      <4> HIDE DEF a
      <4> QED
        BY <3>4, <4>1, ThereAfter
    <3>6. ASSUME f \in Originals, f \notin overwritten', NEW x \in Place, There[x] = f PROVE x # <<p, t>>
      <4>1. quarantine[p][t] # f
        BY <2>2, <3>6, Unrecorded
      <4> QED
        BY <3>6, <4>1, PlaceKinds, ThereIs
    <3> QED
      BY <3>3, <3>5, <3>6
  <2> QED
    BY <2>1, <2>2 DEF MoveAsideFails
<1> SUFFICES ASSUME f \in Originals, f \notin overwritten' PROVE OneFewer(f) /\ (c # f => NoFewer(f))
  BY <1>2
<1>3. OneFewer(f)
  BY <1>2, Moves DEF OneFewer
<1>4. ASSUME c # f PROVE NoFewer(f)
  <2>1. f \notin {file[q]} \ {c}
    <3>1. CASE Lost({file[q]} \ {c})
      BY <3>1, Unrecorded
    <3>2. CASE Lost({quarantine[p][t]} \union ({file[q]} \ {c}))
      BY <3>2, Unrecorded
    <3> QED
      BY <3>1, <3>2 DEF MoveAsideFails
  <2>2. There[a] # f
    BY <1>4, <2>1, ThereIs
  <2>3. \A x \in Place : There[x] = f => There'[x] = f
    BY <1>2, <2>2
  <2> QED
    BY <2>3, Moves DEF NoFewer
<1> QED
  BY <1>3, <1>4

(* Where the copy is taken away, it may be so no more. *)
LEMMA RetireSourceStep ==
    ASSUME Finite, KeptInv, NEW w \in Worker, RetireSource(w), NEW f
    PROVE  DiskInv' /\ JobInv' /\ Stays(f)
<1>1. PICK j, p, t : j = job[w] /\ p = job[w].copy.path /\ t = now
  OBVIOUS
<1>2. job[w] # NoJob /\ IsJob(j) /\ j.pc = "retire" /\ UNCHANGED now
  BY <1>1 DEF RetireSource, Step, Busy, KeptInv, JobInv
<1>3. j.dst \in Path /\ t \in Second
  <2>1. now \in 0 .. MaxSecond /\ MaxSecond \in Nat
    BY TrashAssumption DEF TrashBounds, KeptInv, DiskInv
  <2> QED
    BY <1>1, <1>2, <2>1 DEF IsJob, Second
<1>4. CASE MoveAside(p, t) /\ Goto(w, "save")
  <2>1. JobInv' /\ Others(w) /\ job'[w].pc = "save"
    BY <1>2, <1>4, JobGoes DEF KeptInv
  <2>2. ~MayTakeAway(w, f)'
    BY <2>1 DEF MayTakeAway
  <2>3. Holders(f)' \subseteq Holders(f)
    BY <2>1, <2>2, NoNewHolder
  <2>4. DiskInv' /\ (f \in Originals \ overwritten' => NoFewer(f))
    BY <1>2, <1>3, <1>4, MoveAsideKeeps DEF KeptInv
  <2> QED
    BY <2>1, <2>3, <2>4, StillKept DEF Stays
<1>5. CASE /\ MoveAsideFails(p, t, TakenAway(j)) /\ GiveUp(w)
           /\ file' = IF j.op = "duplicate" THEN file ELSE [file EXCEPT ![j.dst] = NoFile]
  <2>1. JobInv' /\ Others(w) /\ ~MayTakeAway(w, f)'
    BY <1>5, JobEnds DEF KeptInv
  <2>2. Holders(f)' \subseteq Holders(f) /\ w \notin Holders(f)'
    BY <2>1, NoNewHolder
  <2>3. CASE j.op = "duplicate"
    <3>1. MoveAsideFails(p, t, {}) /\ UNCHANGED <<file, now>>
      BY <1>2, <1>5, <2>3 DEF TakenAway
    <3>2. DiskInv' /\ (f \in Originals \ overwritten' => NoFewer(f))
      BY <1>3, <3>1, FailedMoveKeeps DEF KeptInv
    <3> QED
      BY <2>1, <2>2, <3>2, StillKept DEF Stays
  <2>4. CASE j.op # "duplicate"
    <3>1. PICK q, c : q = j.dst /\ c = j.tmp
      OBVIOUS
    <3>2. MoveAsideFails(p, t, {file[q]} \ {c}) /\ file' = [file EXCEPT ![q] = NoFile]
      BY <1>5, <2>4, <3>1 DEF TakenAway
    <3>3. DiskInv' /\ (f \in Originals \ overwritten' => OneFewer(f) /\ (c # f => NoFewer(f)))
      BY <1>2, <1>3, <3>1, <3>2, CleanUpKeeps DEF KeptInv
    <3>4. CASE c = f
      <4>1. w \in Holders(f) \ Holders(f)'
        BY <1>1, <1>2, <2>2, <2>4, <3>1, <3>4 DEF Holders, MayTakeAway
      <4> QED
        BY <2>1, <2>2, <3>3, <4>1, KeptOnceLess DEF Stays
    <3>5. CASE c # f
      BY <2>1, <2>2, <3>3, <3>5, StillKept DEF Stays
    <3> QED
      BY <3>4, <3>5
  <2> QED
    BY <2>3, <2>4
<1> QED
  BY <1>1, <1>4, <1>5 DEF RetireSource

LEMMA SaveStep ==
    ASSUME Finite, KeptInv, NEW w \in Worker, Save(w), NEW f
    PROVE  DiskInv' /\ JobInv' /\ Stays(f)
<1>1. JobInv' /\ Others(w) /\ ~MayTakeAway(w, f)'
  BY JobEnds DEF Save, KeptInv
<1>2. Holders(f)' \subseteq Holders(f)
  BY <1>1, NoNewHolder
<1>3. DiskInv' /\ NoFewer(f)
  BY NothingMoved DEF Save, KeptInv
<1> QED
  BY <1>1, <1>2, <1>3, StillKept DEF Stays

LEMMA CrashStep ==
    ASSUME Finite, KeptInv, Crash, NEW f
    PROVE  DiskInv' /\ JobInv' /\ Stays(f)
<1>1. JobInv' /\ Holders(f)' \subseteq Holders(f)
  BY DEF Crash, JobInv, Holders, MayTakeAway
<1>2. DiskInv' /\ NoFewer(f)
  BY NothingMoved DEF Crash, KeptInv
<1> QED
  BY <1>1, <1>2, StillKept DEF Stays

(* A step that no request makes. *)
LEMMA OtherStep ==
    ASSUME Finite, KeptInv, UNCHANGED job, NEW f,
           \/ UNCHANGED disk \/ Sweep \/ Tick
           \/ \E p \in Path, t \in Second : Restore(p, t) \/ DeleteNow(p, t)
    PROVE  DiskInv' /\ JobInv' /\ Stays(f)
<1>1. JobInv' /\ Holders(f)' \subseteq Holders(f)
  BY DEF KeptInv, JobInv, Holders, MayTakeAway
<1>2. DiskInv' /\ (f \in Originals \ (purged' \union overwritten') => NoFewer(f))
  <2>1. CASE UNCHANGED disk
    BY <2>1, NothingMoved DEF KeptInv
  <2>2. CASE Sweep
    BY <2>2, SweepKeeps DEF KeptInv
  <2>3. CASE Tick
    BY <2>3, TickKeeps DEF KeptInv
  <2>4. CASE \E p \in Path, t \in Second : Restore(p, t)
    BY <2>4, RestoreKeeps DEF KeptInv
  <2>5. CASE \E p \in Path, t \in Second : DeleteNow(p, t)
    BY <2>5, DeleteKeeps DEF KeptInv
  <2> QED
    BY <2>1, <2>2, <2>3, <2>4, <2>5
<1> QED
  BY <1>1, <1>2, StillKept DEF Stays

--------------------------------------------------------------------------------
(* What was recorded stays so. *)
LEMMA RecordsGrow == ASSUME [Next]_vars PROVE purged \subseteq purged' /\ overwritten \subseteq overwritten'
<1> USE DEF Lost, LandOn, MoveAside, MoveAsideFails, MoveBack, Swap
<1>1. ASSUME NEW w \in Worker,
             Start(w) \/ Write(w) \/ QuarantineOriginal(w) \/ SwapIn(w) \/ CreateNew(w) \/ RetireSource(w) \/ Save(w)
      PROVE  purged \subseteq purged' /\ overwritten \subseteq overwritten'
  BY <1>1 DEF disk, Start, Write, QuarantineOriginal, SwapIn, CreateNew, RetireSource, Save
<1>2. ASSUME NEW b \in Book, NEW p \in Path, EditBook(b) \/ RemoveRecord(b) \/ Relink(b, p) \/ StartProcessing(b, p)
      PROVE  purged \subseteq purged' /\ overwritten \subseteq overwritten'
  BY <1>2 DEF disk, EditBook, RemoveRecord, Relink, StartProcessing
<1>3. ASSUME NEW p \in Path, NEW t \in Second, RestoreEntry(p, t) \/ DeleteNow(p, t)
      PROVE  purged \subseteq purged' /\ overwritten \subseteq overwritten'
  BY <1>3 DEF RestoreEntry, Restore, DeleteNow
<1>4. CASE Sweep \/ Tick \/ Crash \/ UNCHANGED vars
  BY <1>4 DEF disk, vars, Sweep, Tick, Crash
<1>5. CASE \E b \in Book : EditBook(b) \/ RemoveRecord(b)
  BY <1>5 DEF disk, EditBook, RemoveRecord
<1> QED
  BY <1>1, <1>2, <1>3, <1>4, <1>5 DEF Next, EmptyTrash

LEMMA KeptStep == ASSUME Finite, KeptInv, [Next]_vars PROVE KeptInv'
<1>1. ASSUME NEW f PROVE DiskInv' /\ JobInv' /\ Stays(f)
  <2>1. ASSUME NEW w \in Worker,
               Start(w) \/ Write(w) \/ QuarantineOriginal(w) \/ SwapIn(w) \/ CreateNew(w) \/ RetireSource(w) \/ Save(w)
        PROVE  DiskInv' /\ JobInv' /\ Stays(f)
    BY <2>1, StartStep, WriteStep, QuarantineOriginalStep, SwapInStep, CreateNewStep, RetireSourceStep, SaveStep
  <2>2. CASE Crash
    BY <2>2, CrashStep
  <2>3. CASE \/ \E b \in Book : EditBook(b) \/ RemoveRecord(b)
             \/ \E b \in Book, p \in Path : Relink(b, p) \/ StartProcessing(b, p)
             \/ UNCHANGED vars
    <3>1. UNCHANGED <<disk, job>>
      BY <2>3 DEF EditBook, RemoveRecord, Relink, StartProcessing, vars
    <3> QED
      BY <3>1, OtherStep
  <2>4. CASE EmptyTrash \/ \E p \in Path, t \in Second : RestoreEntry(p, t)
    BY <2>4, OtherStep DEF EmptyTrash, RestoreEntry
  <2> QED
    BY <2>1, <2>2, <2>3, <2>4 DEF Next
<1>2. \A f \in Originals \ (purged' \union overwritten') : Kept(f)'
  BY <1>1, RecordsGrow DEF KeptInv, Stays
<1> QED
  BY <1>1, <1>2 DEF KeptInv

LEMMA KeptInit == ASSUME Finite, Init PROVE KeptInv
<1>1. DiskInv
  <2>1. 0 \in 0 .. MaxSecond
    BY TrashAssumption DEF TrashBounds
  <2> QED
    BY <2>1, FirstAssumption DEF Init, DiskInv
<1>2. JobInv
  BY DEF Init, JobInv
<1>3. ASSUME NEW f \in Originals PROVE Kept(f)
  <2>1. PICK p \in Path : FirstFile[p] = f
    BY DEF Originals
  <2>2. <<p, AtPath>> \in Place /\ There[<<p, AtPath>>] = f
    BY <2>1, PlaceKinds, ThereIs DEF Init
  <2>3. <<p, AtPath>> \in Where(There, f)
    BY <2>2 DEF Where
  <2>4. Where(There, f) # {} /\ IsFiniteSet(Where(There, f))
    BY <2>3, PlacesFinite, FS_Subset DEF Where
  <2>5. Cardinality(Where(There, f)) \in Nat /\ Cardinality(Where(There, f)) # 0
    BY <2>4, FS_EmptySet, FS_CardinalityType
  <2>6. Holders(f) = {}
    BY DEF Init, Holders, MayTakeAway
  <2>7. Cardinality(Holders(f)) = 0
    BY <2>6, FS_EmptySet
  <2> QED
    BY <2>5, <2>7 DEF Kept
<1> QED
  BY <1>1, <1>2, <1>3 DEF KeptInv

LEMMA KeptIsThere == ASSUME Finite, KeptInv PROVE OriginalsKept
<1> SUFFICES ASSUME NEW f \in Originals, f \notin purged, f \notin overwritten PROVE f \in OnDisk \union InTrash
  BY DEF OriginalsKept
<1>1. PICK c, h : c = Cardinality(Where(There, f)) /\ h = Cardinality(Holders(f))
  OBVIOUS
<1>2. c \in Nat /\ h \in Nat /\ c >= 1 + h
  BY <1>1, Moves, HoldersCount DEF KeptInv, Kept
<1>3. Where(There, f) # {}
  BY <1>1, <1>2, FS_EmptySet
<1>4. PICK x \in Place : There[x] = f
  BY <1>3 DEF Where
<1>5. x = <<x[1], x[2]>> /\ x[1] \in Path /\ f # NoFile
  BY PlaceKinds DEF Originals
<1>6. CASE x[2] = AtPath
  BY <1>4, <1>5, <1>6, ThereIs DEF OnDisk, Files
<1>7. CASE x[2] # AtPath
  <2>1. PICK p, t : p = x[1] /\ t = x[2]
    OBVIOUS
  <2>2. t \in Second /\ quarantine[p][t] = f
    BY <1>4, <1>5, <1>7, <2>1, PlaceKinds, ThereIs
  <2>3. <<p, t>> \in Entries
    BY <1>5, <2>1, <2>2 DEF Entries
  <2> QED
    BY <2>2, <2>3 DEF InTrash
<1> QED
  BY <1>6, <1>7

(* A file that a book came with can be found until it is deleted or written    *)
(* over (OriginalsKept), whatever the trash, cbzconvert and libraryorganizer   *)
(* do to any number of files side by side and wherever they break off.          *)
THEOREM OriginalsStay == ASSUME Finite PROVE Spec => []OriginalsKept
<1>1. Init => KeptInv
  BY KeptInit
<1>2. KeptInv /\ [Next]_vars => KeptInv'
  BY KeptStep
<1>3. KeptInv => OriginalsKept
  BY KeptIsThere
<1> QED
  BY <1>1, <1>2, <1>3, PTL DEF Spec

--------------------------------------------------------------------------------
(* Rows and files.  While no request meets another one, a row describes its    *)
(* file, but for the book of a request that is under way; the request knows    *)
(* what the file will be that takes its place.                                 *)

(* A request that wrote its new file knows it; a duplicate is not written. *)
Wrote(j) == j.pc # "read" /\ j.op # "duplicate"
Knows(j) == (Wrote(j) => j.tmp \in File) /\ (j.op = "duplicate" => j.pc # "read")
TypeInv ==
    /\ TypeOK
    /\ \A w \in Worker : Busy(w) => Knows(job[w])

(* What a row promises of the file at its path. *)
Described(f, r) ==
    /\ f # NoFile /\ f.pages = r.pages
    /\ r.written # NotWritten => f.meta = r.written

(* Only archives are written in place, and only other files are yet to convert. *)
Kind(r) ==
    /\ r.stage = ConvertToCBZ => r.path \notin Zip
    /\ r.written # NotWritten => r.path \in Zip

(* Rows are of a kind, have files of their own and describe them, but for the
   book that a request works on. *)
RowsOK ==
    /\ \A b \in Book : Live(b) => Kind(row[b])
    /\ \A b, c \in Book : Live(b) /\ Live(c) /\ row[b].path = row[c].path => b = c
    /\ \A b \in Book : Untouched(b) => Described(file[row[b].path], row[b])

(* Nothing meets. *)
JobsApart ==
    \A v, w \in Worker : Busy(v) /\ Busy(w) /\ v # w =>
        job[v].book # job[w].book /\ Paths(v) \cap Paths(w) = {}

(* The operation fits the row, as when it was accepted. *)
Fits(j) ==
    \/ j.op = "convert" /\ j.copy.path \notin Zip /\ j.dst \in Zip /\ j.copy.written = NotWritten
    \/ j.op \in {"metadata", "pages"} /\ j.copy.path \in Zip /\ j.dst = j.copy.path
    \/ /\ j.op \in {"move", "copy"} /\ j.copy.stage = ToMove
       /\ j.dst # j.copy.path /\ (j.dst \in Zip <=> j.copy.path \in Zip)
    \/ j.op = "duplicate" /\ j.dst = j.copy.path /\ j.pc \in {"retire", "save"}

(* Fields may be edited while a request is under way; these stay. *)
Same(r, s) == r.path = s.path /\ r.pages = s.pages /\ r.written = s.written

MovesFile(j) == j.op \in {"convert", "move", "copy"}

(* What lies where while a request is under way: the file it read, until it is
   put aside and then in the trash; the new one, in hand and then in place. *)
AtWork(j) ==
    /\ j.pc \in {"aside", "swap"} => j.op \in {"metadata", "pages"}
    /\ j.pc = "create" => MovesFile(j)
    /\ j.pc = "retire" => j.op \in {"convert", "move", "duplicate"}
    /\ j.pc \in {"read", "aside", "create", "retire"} => Described(file[j.copy.path], j.copy)
    /\ j.pc = "swap" =>
          quarantine[j.dst][j.at] = NoFile \/ Described(quarantine[j.dst][j.at], j.copy)
    /\ Wrote(j) => Described(j.tmp, SavedRow(j))
    /\ j.pc \in {"retire", "save"} /\ j.op # "duplicate" => file[j.dst] = j.tmp

(* The request knows its row and has both paths for itself - that of the new
   file from the moment it is written. *)
JobOK(j) ==
    /\ Kind(j.copy) /\ Fits(j) /\ AtWork(j)
    /\ Live(j.book) => Same(row[j.book], j.copy)
    /\ \A c \in Book \ {j.book} : Live(c) =>
          row[c].path # j.copy.path /\ (j.pc # "read" => row[c].path # j.dst)

--------------------------------------------------------------------------------
(* Types. *)
Content == File \union {NoFile}
DiskTypes ==
    /\ file' \in [Path -> Content] /\ quarantine' \in [Path -> [Second -> Content]]
    /\ overwritten' \subseteq Originals

LEMMA SlotTyped ==
    ASSUME TrashTypeOK, NEW p \in Path, NEW t \in Second, NEW c \in Content
    PROVE  [quarantine EXCEPT ![p][t] = c] \in [Path -> [Second -> Content]]
<1>1. PICK q : q = [quarantine[p] EXCEPT ![t] = c]
  OBVIOUS
<1>2. quarantine \in [Path -> [Second -> Content]]
  BY DEF TrashTypeOK, Content
<1>3. q \in [Second -> Content]
  BY <1>1, <1>2
<1>4. [quarantine EXCEPT ![p] = q] \in [Path -> [Second -> Content]]
  BY <1>2, <1>3
<1> QED
  BY <1>1, <1>4

LEMMA PathTyped ==
    ASSUME TrashTypeOK, NEW p \in Path, NEW c \in Content
    PROVE  [file EXCEPT ![p] = c] \in [Path -> Content]
BY DEF TrashTypeOK, Content

LEMMA MovesTyped ==
    ASSUME TrashTypeOK, NEW p \in Path, NEW t \in Second
    PROVE  /\ MoveAside(p, t) => DiskTypes
           /\ \A also : MoveAsideFails(p, t, also)
                  => quarantine' \in [Path -> [Second -> Content]] /\ overwritten' \subseteq Originals
           /\ MoveBack(p, t) => DiskTypes
           /\ \A c \in Content : Swap(p, c) => DiskTypes
<1>1. file \in [Path -> Content] /\ quarantine \in [Path -> [Second -> Content]] /\ overwritten \subseteq Originals
  BY DEF TrashTypeOK, Content
<1>2. file[p] \in Content /\ quarantine[p][t] \in Content /\ NoFile \in Content
  BY <1>1 DEF Content
<1>3. \A olds : Lost(olds) => overwritten' \subseteq Originals
  BY <1>1 DEF Lost
<1>4. MoveAside(p, t) => DiskTypes
  BY <1>2, <1>3, SlotTyped, PathTyped DEF MoveAside, LandOn, DiskTypes
<1>5. MoveBack(p, t) => DiskTypes
  BY <1>2, <1>3, SlotTyped, PathTyped DEF MoveBack, LandOn, DiskTypes
<1>6. ASSUME NEW c \in Content, Swap(p, c) PROVE DiskTypes
  BY <1>1, <1>3, <1>6, PathTyped DEF Swap, LandOn, DiskTypes
<1>7. ASSUME NEW also, MoveAsideFails(p, t, also)
      PROVE  quarantine' \in [Path -> [Second -> Content]] /\ overwritten' \subseteq Originals
  <2>1. CASE UNCHANGED quarantine /\ Lost(also)
    BY <1>1, <1>3, <2>1
  <2>2. CASE \E copied \in {file[p], NoFile} : quarantine' = [quarantine EXCEPT ![p][t] = copied]
    <3>1. PICK copied \in Content : quarantine' = [quarantine EXCEPT ![p][t] = copied]
      BY <1>2, <2>2
    <3>2. overwritten' \subseteq Originals
      BY <1>3, <1>7 DEF MoveAsideFails
    <3> QED
      BY <3>1, <3>2, SlotTyped
  <2> QED
    BY <1>7, <2>1, <2>2 DEF MoveAsideFails
<1> QED
  BY <1>4, <1>5, <1>6, <1>7

LEMMA RestoreTyped ==
    ASSUME TrashTypeOK, NEW p \in Path, NEW t \in Second, Restore(p, t)
    PROVE  DiskTypes
<1>1. CASE file[p] = NoFile
  BY <1>1, MovesTyped DEF Restore
<1>2. CASE file[p] # NoFile
  <2> DEFINE u == OccupantSecond(t)
             aside == [quarantine EXCEPT ![p][u] = file[p]]
  <2>1. now \in 0 .. MaxSecond /\ MaxSecond \in Nat
    BY TrashAssumption DEF TrashTypeOK, TrashBounds
  <2>2. u \in Second
    BY <2>1 DEF OccupantSecond, Second
  <2>3. file[p] \in Content /\ NoFile \in Content /\ overwritten \subseteq Originals
    BY DEF TrashTypeOK, Content
  <2>4. aside \in [Path -> [Second -> Content]]
    BY <2>2, <2>3, SlotTyped
  <2>5. /\ LandOn(quarantine[p][u])
        /\ \/ /\ file' = [file EXCEPT ![p] = aside[p][t]]
              /\ quarantine' = [aside EXCEPT ![p][t] = NoFile]
           \/ file' = [file EXCEPT ![p] = NoFile] /\ quarantine' = aside
    BY <1>2 DEF Restore
  <2> HIDE DEF aside, u
  <2>6. aside[p][t] \in Content
    BY <2>4
  <2>7. [aside EXCEPT ![p][t] = NoFile] \in [Path -> [Second -> Content]]
    BY <2>3, <2>4
  <2> QED
    BY <2>3, <2>4, <2>5, <2>6, <2>7, PathTyped DEF DiskTypes, LandOn, Lost
<1> QED
  BY <1>1, <1>2

LEMMA TrashTyped ==
    ASSUME TrashTypeOK,
           \/ UNCHANGED disk \/ Sweep \/ Tick
           \/ \E p \in Path, t \in Second : Restore(p, t) \/ DeleteNow(p, t)
    PROVE  TrashTypeOK'
<1> USE DEF TrashTypeOK
<1>1. CASE UNCHANGED disk
  BY <1>1 DEF disk
<1>2. CASE Sweep
  <2>1. quarantine' = [p \in Path |-> [t \in Second |-> IF Expired(t) THEN NoFile ELSE quarantine[p][t]]]
    BY <1>2 DEF Sweep
  <2>2. quarantine' \in [Path -> [Second -> File \union {NoFile}]]
    BY <2>1
  <2>3. purged' \subseteq Originals /\ UNCHANGED <<file, now, overwritten>>
    BY <1>2 DEF Sweep
  <2> QED
    BY <2>2, <2>3
<1>3. CASE Tick
  <2>1. now' \in 0 .. MaxSecond
    BY <1>3, TrashAssumption DEF Tick, TrashBounds
  <2> QED
    BY <1>3, <2>1 DEF Tick
<1>4. ASSUME NEW p \in Path, NEW t \in Second, Restore(p, t) PROVE TrashTypeOK'
  BY <1>4, RestoreTyped DEF DiskTypes, Content, Restore
<1>5. ASSUME NEW p \in Path, NEW t \in Second, DeleteNow(p, t) PROVE TrashTypeOK'
  <2>1. quarantine' \in [Path -> [Second -> File \union {NoFile}]]
    BY <1>5, SlotTyped DEF DeleteNow, Content
  <2>2. purged' \subseteq Originals
    BY <1>5 DEF DeleteNow
  <2> QED
    BY <1>5, <2>1, <2>2 DEF DeleteNow
<1> QED
  BY <1>1, <1>2, <1>3, <1>4, <1>5

Pc == {"read", "aside", "swap", "create", "retire", "save"}
Request ==
    [op : Op, pc : Pc, book : Book, number : 1 .. MaxRequests, copy : Row, dst : Path, tmp : Content, at : Second]

LEMMA Requests == Job = {NoJob} \union Request /\ NoJob \notin Request
<1>1. ASSUME NoJob \in Request PROVE FALSE
  <2>1. NoJob.op \in Op
    BY <1>1 DEF Request
  <2> QED
    BY <2>1 DEF NoJob, Op
<1> QED
  BY <1>1 DEF Job, Request, Pc, Content

LEMMA RequestTyped ==
    ASSUME NEW k \in Request, NEW pc \in Pc
    PROVE  /\ [k EXCEPT !.pc = pc] \in Request
           /\ \A t \in Second : [k EXCEPT !.pc = pc, !.at = t] \in Request
           /\ \A c \in Content : [k EXCEPT !.tmp = c, !.pc = pc] \in Request
<1>1. [k EXCEPT !.pc = pc] \in Request
  BY DEF Request
<1>2. ASSUME NEW t \in Second PROVE [k EXCEPT !.pc = pc, !.at = t] \in Request
  BY DEF Request
<1>3. ASSUME NEW c \in Content PROVE [k EXCEPT !.tmp = c, !.pc = pc] \in Request
  BY DEF Request
<1> QED
  BY <1>1, <1>2, <1>3

LEMMA JobTyped ==
    ASSUME job \in [Worker -> Job], NEW w \in Worker
    PROVE  /\ Busy(w) => job[w] \in Request
           /\ GiveUp(w) => job' \in [Worker -> Job] /\ job'[w] = NoJob
                              /\ \A v \in Worker \ {w} : job'[v] = job[v]
           /\ \A j \in Request : job' = [job EXCEPT ![w] = j]
                  => job' \in [Worker -> Job] /\ job'[w] = j /\ \A v \in Worker \ {w} : job'[v] = job[v]
BY Requests DEF Busy, GiveUp

(* What a request does to itself, as one replacement. *)
LEMMA JobSteps ==
    ASSUME job \in [Worker -> Job], NEW w \in Worker, Busy(w), NEW pc \in Pc
    PROVE  /\ Goto(w, pc) => job' = [job EXCEPT ![w] = [job[w] EXCEPT !.pc = pc]]
           /\ \A t \in Second : job' = [job EXCEPT ![w].pc = pc, ![w].at = t]
                  => job' = [job EXCEPT ![w] = [job[w] EXCEPT !.pc = pc, !.at = t]]
           /\ \A c \in Content : job' = [job EXCEPT ![w].tmp = c, ![w].pc = pc]
                  => job' = [job EXCEPT ![w] = [job[w] EXCEPT !.tmp = c, !.pc = pc]]
<1>1. PICK k \in Request : k = job[w]
  BY JobTyped
<1>2. Goto(w, pc) => job' = [job EXCEPT ![w] = [job[w] EXCEPT !.pc = pc]]
  BY DEF Goto
<1>3. ASSUME NEW t \in Second, job' = [job EXCEPT ![w].pc = pc, ![w].at = t]
      PROVE  job' = [job EXCEPT ![w] = [job[w] EXCEPT !.pc = pc, !.at = t]]
  <2>1. PICK m : m = [k EXCEPT !.pc = pc]
    OBVIOUS
  <2>2. PICK n : n = [m EXCEPT !.at = t]
    OBVIOUS
  <2>3. job' = [[job EXCEPT ![w] = m] EXCEPT ![w] = n]
    BY <1>1, <1>3, <2>1, <2>2
  <2>4. n = [job[w] EXCEPT !.pc = pc, !.at = t]
    BY <1>1, <2>1, <2>2
  <2> QED
    BY <2>3, <2>4
<1>4. ASSUME NEW c \in Content, job' = [job EXCEPT ![w].tmp = c, ![w].pc = pc]
      PROVE  job' = [job EXCEPT ![w] = [job[w] EXCEPT !.tmp = c, !.pc = pc]]
  <2>1. PICK m : m = [k EXCEPT !.tmp = c]
    OBVIOUS
  <2>2. PICK n : n = [m EXCEPT !.pc = pc]
    OBVIOUS
  <2>3. job' = [[job EXCEPT ![w] = m] EXCEPT ![w] = n]
    BY <1>1, <1>4, <2>1, <2>2
  <2>4. n = [job[w] EXCEPT !.tmp = c, !.pc = pc]
    BY <1>1, <2>1, <2>2
  <2> QED
    BY <2>3, <2>4
<1> QED
  BY <1>2, <1>3, <1>4

(* What is written back, field by field. *)
LEMMA Advances ==
    ASSUME NEW s \in Stage, NEW completed \in {ConvertToCBZ, ToMove}
    PROVE  AdvanceIfAtOrBefore(s, completed) \in Stage \ {ConvertToCBZ}
BY DEF AdvanceIfAtOrBefore, Stage, ConvertToCBZ, ToMove, Organized

LEMMA SavedFields ==
    ASSUME NEW j \in Request
    PROVE  /\ j.op = "convert" => SavedRow(j) = [path |-> j.dst, pages |-> j.copy.pages, meta |-> j.copy.meta,
                  written |-> j.copy.written, stage |-> AdvanceIfAtOrBefore(j.copy.stage, ConvertToCBZ)]
           /\ j.op \in {"move", "copy"} => SavedRow(j) = [path |-> j.dst, pages |-> j.copy.pages, meta |-> j.copy.meta,
                  written |-> j.copy.written, stage |-> AdvanceIfAtOrBefore(j.copy.stage, ToMove)]
           /\ j.op = "metadata" => SavedRow(j) = [path |-> j.copy.path, pages |-> j.copy.pages, meta |-> j.copy.meta,
                  written |-> j.copy.meta, stage |-> j.copy.stage]
           /\ j.op = "pages" => SavedRow(j) = [path |-> j.copy.path, pages |-> j.tmp.pages, meta |-> j.copy.meta,
                  written |-> j.copy.meta, stage |-> j.copy.stage]
<1>1. PICK r \in Row : r = j.copy
  BY DEF Request
<1>2. r = [path |-> r.path, pages |-> r.pages, meta |-> r.meta, written |-> r.written, stage |-> r.stage]
  BY DEF Row
<1>3. ASSUME j.op = "convert"
      PROVE  SavedRow(j) = [path |-> j.dst, pages |-> j.copy.pages, meta |-> j.copy.meta,
                  written |-> j.copy.written, stage |-> AdvanceIfAtOrBefore(j.copy.stage, ConvertToCBZ)]
  <2>1. SavedRow(j) = [r EXCEPT !.path = j.dst, !.stage = AdvanceIfAtOrBefore(r.stage, ConvertToCBZ)]
    BY <1>1, <1>2, <1>3 DEF SavedRow, AfterConvert
  <2> QED
    BY <1>1, <1>2, <2>1
<1>4. ASSUME j.op \in {"move", "copy"}
      PROVE  SavedRow(j) = [path |-> j.dst, pages |-> j.copy.pages, meta |-> j.copy.meta,
                  written |-> j.copy.written, stage |-> AdvanceIfAtOrBefore(j.copy.stage, ToMove)]
  <2>1. SavedRow(j) = [r EXCEPT !.path = j.dst, !.stage = AdvanceIfAtOrBefore(r.stage, ToMove)]
    BY <1>1, <1>2, <1>4 DEF SavedRow, AfterOrganize
  <2> QED
    BY <1>1, <1>2, <2>1
<1>5. ASSUME j.op = "metadata"
      PROVE  SavedRow(j) = [path |-> j.copy.path, pages |-> j.copy.pages, meta |-> j.copy.meta,
                  written |-> j.copy.meta, stage |-> j.copy.stage]
  <2>1. SavedRow(j) = [r EXCEPT !.written = r.meta]
    BY <1>1, <1>5 DEF SavedRow, MarkWritten
  <2> QED
    BY <1>1, <1>2, <2>1
<1>6. ASSUME j.op = "pages"
      PROVE  SavedRow(j) = [path |-> j.copy.path, pages |-> j.tmp.pages, meta |-> j.copy.meta,
                  written |-> j.copy.meta, stage |-> j.copy.stage]
  <2>1. PICK q : q = [r EXCEPT !.pages = j.tmp.pages]
    OBVIOUS
  <2>2. SavedRow(j) = [q EXCEPT !.written = q.meta]
    BY <1>1, <1>6, <2>1 DEF SavedRow, AfterManage, MarkWritten
  <2>3. q = [path |-> r.path, pages |-> j.tmp.pages, meta |-> r.meta, written |-> r.written, stage |-> r.stage]
    BY <1>2, <2>1
  <2> QED
    BY <1>1, <1>2, <2>2, <2>3
<1> QED
  BY <1>3, <1>4, <1>5, <1>6

LEMMA SavedTyped ==
    ASSUME NEW j \in Request, j.op # "duplicate", j.tmp \in File
    PROVE  SavedRow(j) \in Row
<1>1. j.op \in Op /\ j.dst \in Path /\ j.tmp.pages \in Origin
  BY DEF Request, File
<1>2. j.copy.path \in Path /\ j.copy.pages \in Origin /\ j.copy.meta \in Meta /\ j.copy.written \in Meta \union {NotWritten}
      /\ j.copy.stage \in Stage
  BY DEF Request, Row
<1>3. /\ AdvanceIfAtOrBefore(j.copy.stage, ConvertToCBZ) \in Stage
      /\ AdvanceIfAtOrBefore(j.copy.stage, ToMove) \in Stage
  BY <1>2, Advances
<1>4. CASE j.op = "convert"
  BY <1>1, <1>2, <1>3, <1>4, SavedFields DEF Row
<1>5. CASE j.op \in {"move", "copy"}
  BY <1>1, <1>2, <1>3, <1>5, SavedFields DEF Row
<1>6. CASE j.op \in {"metadata", "pages"}
  BY <1>1, <1>2, <1>6, SavedFields DEF Row
<1> QED
  BY <1>1, <1>4, <1>5, <1>6 DEF Op

LEMMA NewRowTyped ==
    ASSUME NEW p \in Path, NEW f \in File
    PROVE  NewRow(p, f) \in Row
BY DEF NewRow, Row, File, InferStage, Stage, ConvertToCBZ, ToMove, Organized

LEMMA NewFileTyped ==
    ASSUME NEW j \in Request, j.op # "duplicate", NEW old \in File, NEW f \in NewFiles(j, old)
    PROVE  f \in File
<1>1. j.op \in Op /\ j.number \in Origin /\ j.copy.meta \in Meta /\ old.pages \in Origin
  BY DEF Request, Row, File, Origin
<1>2. CASE j.op = "convert"
  BY <1>1, <1>2 DEF NewFiles, Converted, File
<1>3. CASE j.op = "metadata"
  BY <1>1, <1>3 DEF NewFiles, Updated, File
<1>4. CASE j.op = "pages"
  BY <1>1, <1>4 DEF NewFiles, Managed, File
<1>5. CASE j.op \in {"move", "copy"}
  BY <1>1, <1>5 DEF NewFiles, Copied, File
<1> QED
  BY <1>1, <1>2, <1>3, <1>4, <1>5 DEF Op

(* The requests after one of them was replaced, or was over. *)
LEMMA PutTyped ==
    ASSUME TypeInv, NEW w \in Worker, NEW j \in Job, job' = [job EXCEPT ![w] = j],
           j # NoJob => Knows(j)
    PROVE  /\ job' \in [Worker -> Job]
           /\ \A v \in Worker : (Busy(v) => Knows(job[v]))'
           /\ job'[w] = j /\ \A v \in Worker \ {w} : job'[v] = job[v]
<1>1. job' \in [Worker -> Job] /\ job'[w] = j /\ \A v \in Worker \ {w} : job'[v] = job[v]
  BY DEF TypeInv, TypeOK
<1> QED
  BY <1>1 DEF TypeInv, Busy, Knows, Wrote

LEMMA GiveUpTyped ==
    ASSUME TypeInv, NEW w \in Worker, GiveUp(w)
    PROVE  /\ job' \in [Worker -> Job]
           /\ \A v \in Worker : (Busy(v) => Knows(job[v]))'
           /\ job'[w] = NoJob /\ \A v \in Worker \ {w} : job'[v] = job[v]
BY PutTyped, Requests DEF GiveUp

LEMMA GotoTyped ==
    ASSUME TypeInv, NEW w \in Worker, Busy(w), NEW pc \in Pc, Goto(w, pc),
           job[w].pc # "read", pc # "read"
    PROVE  /\ job' \in [Worker -> Job]
           /\ \A v \in Worker : (Busy(v) => Knows(job[v]))'
           /\ job'[w] = [job[w] EXCEPT !.pc = pc] /\ \A v \in Worker \ {w} : job'[v] = job[v]
<1>1. PICK k \in Request : k = job[w]
  BY JobTyped DEF TypeInv, TypeOK
<1>2. PICK j \in Request : j = [k EXCEPT !.pc = pc]
  BY RequestTyped
<1>3. job' = [job EXCEPT ![w] = j]
  BY <1>1, <1>2, JobSteps DEF TypeInv, TypeOK
<1>4. j.op = k.op /\ j.pc = pc /\ j.tmp = k.tmp
  BY <1>2 DEF Request
<1>5. Knows(j)
  BY <1>1, <1>4 DEF TypeInv, Knows, Wrote
<1>6. j \in Job
  BY Requests
<1> QED
  BY <1>1, <1>2, <1>3, <1>5, <1>6, PutTyped

(* A step of a request that is under way. *)
LEMMA WorkTyped ==
    ASSUME TypeInv, NEW w \in Worker, Busy(w),
           QuarantineOriginal(w) \/ SwapIn(w) \/ CreateNew(w) \/ RetireSource(w)
    PROVE  TypeInv'
<1>1. PICK k \in Request : k = job[w]
  BY JobTyped DEF TypeInv, TypeOK
<1>2. k.dst \in Path /\ k.copy.path \in Path /\ k.at \in Second
  BY DEF Request, Row
<1>3. now \in Second /\ TrashTypeOK /\ NoFile \in Content /\ NoJob \in Job
  BY TrashAssumption, Requests DEF TypeInv, TypeOK, TrashTypeOK, TrashBounds, Second, Content
<1>4. UNCHANGED <<now, purged, row, requests>> /\ calm' \in BOOLEAN
  BY DEF QuarantineOriginal, SwapIn, CreateNew, RetireSource, TypeInv, TypeOK, Disturbed, Undisturbed
<1>5. \A c \in Content, p \in Path : [file EXCEPT ![p] = c] \in [Path -> Content]
  BY <1>3, PathTyped
<1> DEFINE JobsTyped == /\ job' \in [Worker -> Job]
                        /\ \A v \in Worker : (Busy(v) => Knows(job[v]))'
<1>6. CASE QuarantineOriginal(w)
  <2>1. CASE /\ MoveAside(job[w].dst, now)
             /\ job' = [job EXCEPT ![w].pc = "swap", ![w].at = now]
    <3>1. DiskTypes
      BY <1>1, <1>2, <1>3, <2>1, MovesTyped
    <3>2. PICK j \in Request : j = [k EXCEPT !.pc = "swap", !.at = now]
      BY <1>3, RequestTyped DEF Pc
    <3>3. job' = [job EXCEPT ![w] = j]
      <4>1. job \in [Worker -> Job] /\ "swap" \in Pc
        BY DEF TypeInv, TypeOK, Pc
      <4>2. job' = [job EXCEPT ![w] = [job[w] EXCEPT !.pc = "swap", !.at = now]]
        BY <1>3, <2>1, <4>1, JobSteps
      <4> QED
        BY <1>1, <3>2, <4>2
    <3>4. j.op = k.op /\ j.tmp = k.tmp /\ j.pc = "swap"
      BY <3>2 DEF Request
    <3>5. Knows(j)
      BY <1>1, <1>6, <3>4 DEF TypeInv, QuarantineOriginal, Step, Knows, Wrote
    <3>6. JobsTyped
      BY <3>3, <3>5, PutTyped, Requests
    <3> QED
      BY <1>4, <3>1, <3>6 DEF TypeInv, TypeOK, TrashTypeOK, DiskTypes, Content
  <2>2. CASE MoveAsideFails(job[w].dst, now, {}) /\ UNCHANGED file /\ GiveUp(w)
    <3>1. quarantine' \in [Path -> [Second -> Content]] /\ overwritten' \subseteq Originals
      BY <1>1, <1>2, <1>3, <2>2, MovesTyped
    <3>2. JobsTyped
      BY <2>2, GiveUpTyped
    <3> QED
      BY <1>4, <2>2, <3>1, <3>2 DEF TypeInv, TypeOK, TrashTypeOK, Content
  <2> QED
    BY <1>6, <2>1, <2>2 DEF QuarantineOriginal
<1>7. CASE SwapIn(w)
  <2>1. k.pc = "swap"
    BY <1>1, <1>7 DEF SwapIn, Step
  <2>2. CASE Swap(k.dst, k.tmp) /\ Goto(w, "save")
    <3>1. DiskTypes
      BY <1>2, <1>3, <2>2, MovesTyped DEF Request
    <3>2. JobsTyped
      BY <1>1, <2>1, <2>2, GotoTyped DEF Pc
    <3> QED
      BY <1>4, <3>1, <3>2 DEF TypeInv, TypeOK, TrashTypeOK, DiskTypes, Content
  <2>3. CASE MoveBack(k.dst, k.at) /\ GiveUp(w)
    <3>1. DiskTypes
      BY <1>2, <1>3, <2>3, MovesTyped
    <3>2. JobsTyped
      BY <2>3, GiveUpTyped
    <3> QED
      BY <1>4, <3>1, <3>2 DEF TypeInv, TypeOK, TrashTypeOK, DiskTypes, Content
  <2>4. CASE UNCHANGED <<file, quarantine, overwritten>> /\ GiveUp(w)
    <3>1. JobsTyped
      BY <2>4, GiveUpTyped
    <3> QED
      BY <1>4, <2>4, <3>1 DEF TypeInv, TypeOK, TrashTypeOK
  <2> QED
    BY <1>1, <1>7, <2>2, <2>3, <2>4 DEF SwapIn
<1>8. CASE CreateNew(w)
  <2>1. k.pc = "create"
    BY <1>1, <1>8 DEF CreateNew, Step
  <2>2. CASE Swap(k.dst, k.tmp) /\ Goto(w, IF k.op = "copy" THEN "save" ELSE "retire")
    <3>1. DiskTypes
      BY <1>2, <1>3, <2>2, MovesTyped DEF Request
    <3>2. PICK pc \in Pc : pc = IF k.op = "copy" THEN "save" ELSE "retire"
      BY DEF Pc
    <3>3. JobsTyped
      BY <1>1, <2>1, <2>2, <3>2, GotoTyped
    <3> QED
      BY <1>4, <3>1, <3>3 DEF TypeInv, TypeOK, TrashTypeOK, DiskTypes, Content
  <2>3. CASE UNCHANGED <<file, quarantine, overwritten>> /\ GiveUp(w)
    <3>1. JobsTyped
      BY <2>3, GiveUpTyped
    <3> QED
      BY <1>4, <2>3, <3>1 DEF TypeInv, TypeOK, TrashTypeOK
  <2> QED
    BY <1>1, <1>8, <2>2, <2>3 DEF CreateNew
<1>9. CASE RetireSource(w)
  <2>1. k.pc = "retire"
    BY <1>1, <1>9 DEF RetireSource, Step
  <2>2. CASE MoveAside(k.copy.path, now) /\ Goto(w, "save")
    <3>1. DiskTypes
      BY <1>2, <1>3, <2>2, MovesTyped
    <3>2. JobsTyped
      BY <1>1, <2>1, <2>2, GotoTyped DEF Pc
    <3> QED
      BY <1>4, <3>1, <3>2 DEF TypeInv, TypeOK, TrashTypeOK, DiskTypes, Content
  <2>3. CASE /\ MoveAsideFails(k.copy.path, now, TakenAway(k)) /\ GiveUp(w)
             /\ file' = IF k.op = "duplicate" THEN file ELSE [file EXCEPT ![k.dst] = NoFile]
    <3>1. quarantine' \in [Path -> [Second -> Content]] /\ overwritten' \subseteq Originals
      BY <1>2, <1>3, <2>3, MovesTyped
    <3>2. file' \in [Path -> Content]
      BY <1>2, <1>3, <1>5, <2>3 DEF TrashTypeOK, Content
    <3>3. JobsTyped
      BY <2>3, GiveUpTyped
    <3> QED
      BY <1>4, <3>1, <3>2, <3>3 DEF TypeInv, TypeOK, TrashTypeOK, Content
  <2> QED
    BY <1>1, <1>9, <2>2, <2>3 DEF RetireSource
<1> QED
  BY <1>6, <1>7, <1>8, <1>9

LEMMA StartTyped ==
    ASSUME TypeInv, NEW w \in Worker, Start(w)
    PROVE  TypeInv'
<1>1. PICK op \in Op, b \in Book, dst \in Path :
          /\ Live(b) /\ Accepts(op, b, dst)
          /\ job' = [job EXCEPT ![w] =
                  [op |-> op, pc |-> IF op = "duplicate" THEN "retire" ELSE "read", book |-> b,
                   number |-> requests + 1, copy |-> row[b], dst |-> dst, tmp |-> NoFile, at |-> 0]]
          /\ calm' = (calm /\ ~Meets(b, {row[b].path, dst}))
  BY DEF Start
<1>2. PICK j : j = [op |-> op, pc |-> IF op = "duplicate" THEN "retire" ELSE "read", book |-> b,
                   number |-> requests + 1, copy |-> row[b], dst |-> dst, tmp |-> NoFile, at |-> 0]
  OBVIOUS
<1>3. requests + 1 \in 1 .. MaxRequests /\ requests + 1 \in 0 .. MaxRequests
  BY BoundAssumption DEF TypeInv, TypeOK, Start
<1>4. row[b] \in Row /\ 0 \in Second /\ NoFile \in Content
  BY <1>1, TrashAssumption DEF TypeInv, TypeOK, Live, Second, TrashBounds, Content
<1>5. j \in Request
  BY <1>2, <1>3, <1>4 DEF Request, Pc
<1>6. Knows(j)
  BY <1>2 DEF Knows, Wrote
<1>7. /\ job' \in [Worker -> Job]
      /\ \A v \in Worker : (Busy(v) => Knows(job[v]))'
  BY <1>1, <1>2, <1>5, <1>6, PutTyped, Requests
<1>8. UNCHANGED <<disk, row>> /\ requests' \in 0 .. MaxRequests
  BY <1>3 DEF Start
<1>9. calm' \in BOOLEAN
  BY <1>1
<1> QED
  BY <1>7, <1>8, <1>9, TrashTyped DEF TypeInv, TypeOK

(* Either the request is over, or its new file is one of those that fit. *)
LEMMA WriteTyped ==
    ASSUME TypeInv, NEW w \in Worker, Write(w)
    PROVE  TypeInv'
<1>1. PICK k \in Request : k = job[w]
  BY JobTyped DEF TypeInv, TypeOK, Write, Step
<1>2. UNCHANGED <<disk, row, requests>>
  BY DEF Write
<1>3. TrashTypeOK'
  BY <1>2, TrashTyped DEF TypeInv, TypeOK
<1>4. CASE GiveUp(w) /\ Undisturbed
  BY <1>2, <1>3, <1>4, GiveUpTyped DEF TypeInv, TypeOK, Undisturbed
<1>5. CASE ~(GiveUp(w) /\ Undisturbed)
  <2>1. PICK new \in NewFiles(k, file[k.copy.path]) :
              /\ file[k.copy.path] # NoFile
              /\ job' = [job EXCEPT
                        ![w].tmp = new,
                        ![w].pc = IF k.dst = k.copy.path THEN "aside" ELSE "create"]
              /\ calm' = (calm /\ (k.op = "convert" => new.pages = k.copy.pages))
    BY <1>1, <1>5 DEF Write
  <2>2. file[k.copy.path] \in File
    BY <2>1 DEF TypeInv, TypeOK, TrashTypeOK, Request, Row
  <2>3. k.op # "duplicate"
    BY <1>1 DEF TypeInv, Knows, Write, Step
  <2>4. new \in File
    BY <2>1, <2>2, <2>3, NewFileTyped
  <2>5. PICK pc \in Pc \ {"read"} : pc = IF k.dst = k.copy.path THEN "aside" ELSE "create"
    BY DEF Pc
  <2>6. PICK j \in Request : j = [k EXCEPT !.tmp = new, !.pc = pc]
    BY <2>4, RequestTyped DEF Content
  <2>7. job' = [job EXCEPT ![w] = j]
    <3>1. job \in [Worker -> Job] /\ Busy(w) /\ new \in Content
      BY <2>4 DEF TypeInv, TypeOK, Write, Step, Content
    <3>2. job' = [job EXCEPT ![w].tmp = new, ![w].pc = pc]
      BY <1>1, <2>1, <2>5
    <3>3. job' = [job EXCEPT ![w] = [job[w] EXCEPT !.tmp = new, !.pc = pc]]
      BY <3>1, <3>2, JobSteps
    <3> QED
      BY <1>1, <2>6, <3>3
  <2>8. Knows(j)
    BY <2>3, <2>4, <2>5, <2>6 DEF Knows, Wrote, Request
  <2>9. /\ job' \in [Worker -> Job]
        /\ \A v \in Worker : (Busy(v) => Knows(job[v]))'
    BY <2>7, <2>8, PutTyped, Requests
  <2>10. calm' \in BOOLEAN
    BY <2>1
  <2> QED
    BY <1>2, <1>3, <2>9, <2>10 DEF TypeInv, TypeOK
<1> QED
  BY <1>4, <1>5

LEMMA SaveTyped ==
    ASSUME TypeInv, NEW w \in Worker, Save(w)
    PROVE  TypeInv'
<1>1. PICK k \in Request : k = job[w]
  BY JobTyped DEF TypeInv, TypeOK, Save, Step
<1>2. k.op # "duplicate" => SavedRow(k) \in Row
  BY <1>1, SavedTyped DEF TypeInv, Save, Step, Knows, Wrote
<1>3. row' \in [Book -> Row \union {Absent}] /\ calm' \in BOOLEAN
  BY <1>1, <1>2 DEF TypeInv, TypeOK, Save, Disturbed, Undisturbed, Request
<1>4. UNCHANGED <<disk, requests>> /\ GiveUp(w)
  BY DEF Save
<1>5. TrashTypeOK'
  BY <1>4, TrashTyped DEF TypeInv, TypeOK
<1> QED
  BY <1>3, <1>4, <1>5, GiveUpTyped DEF TypeInv, TypeOK

LEMMA RowsTyped ==
    ASSUME TypeInv, NEW b \in Book, NEW p \in Path,
           EditBook(b) \/ RemoveRecord(b) \/ Relink(b, p) \/ StartProcessing(b, p)
    PROVE  TypeInv'
<1>1. UNCHANGED <<disk, job, requests>> /\ calm' \in BOOLEAN
  BY DEF EditBook, RemoveRecord, Relink, StartProcessing, Disturbed, TypeInv, TypeOK
<1>2. \A r \in Row \union {Absent} : [row EXCEPT ![b] = r] \in [Book -> Row \union {Absent}]
  BY DEF TypeInv, TypeOK
<1>3. row' \in [Book -> Row \union {Absent}]
  <2>1. CASE EditBook(b)
    <3>1. row[b] \in Row /\ ToMove \in Stage
      BY <2>1 DEF EditBook, Live, TypeInv, TypeOK, Stage, ToMove, ConvertToCBZ, Organized
    <3>2. \A m \in Meta : [row[b] EXCEPT !.meta = m] \in Row
      BY <3>1 DEF Row
    <3>3. [row[b] EXCEPT !.stage = ToMove] \in Row
      BY <3>1 DEF Row
    <3>4. \/ \E m \in Meta : row' = [row EXCEPT ![b] = [row[b] EXCEPT !.meta = m]]
          \/ row' = [row EXCEPT ![b] = [row[b] EXCEPT !.stage = ToMove]]
      BY <2>1 DEF EditBook
    <3> QED
      BY <1>2, <3>2, <3>3, <3>4
  <2>2. CASE RemoveRecord(b)
    BY <1>2, <2>2 DEF RemoveRecord
  <2>3. CASE Relink(b, p)
    <3>1. row[b] \in Row
      BY <2>3 DEF Relink, Live, TypeInv, TypeOK
    <3>2. [row[b] EXCEPT !.path = p] \in Row
      BY <3>1 DEF Row
    <3>3. row' = [row EXCEPT ![b] = [row[b] EXCEPT !.path = p]]
      BY <2>3 DEF Relink
    <3> QED
      BY <1>2, <3>2, <3>3
  <2>4. CASE StartProcessing(b, p)
    <3>1. file[p] \in File
      BY <2>4 DEF StartProcessing, TypeInv, TypeOK, TrashTypeOK
    <3> QED
      BY <1>2, <2>4, <3>1, NewRowTyped DEF StartProcessing
  <2> QED
    BY <2>1, <2>2, <2>3, <2>4
<1>4. TrashTypeOK'
  BY <1>1, TrashTyped DEF TypeInv, TypeOK
<1> QED
  BY <1>1, <1>3, <1>4 DEF TypeInv, TypeOK, Busy, Knows, Wrote

LEMMA OtherTyped ==
    ASSUME TypeInv,
           \/ EmptyTrash \/ Crash \/ UNCHANGED vars
           \/ \E p \in Path, t \in Second : RestoreEntry(p, t)
    PROVE  TypeInv'
<1>1. /\ UNCHANGED <<row, requests>> /\ calm' \in BOOLEAN
      /\ UNCHANGED job \/ job' = [w \in Worker |-> NoJob]
  BY DEF EmptyTrash, Crash, vars, RestoreEntry, Disturbed, TypeInv, TypeOK
<1>2. TrashTypeOK'
  BY TrashTyped DEF EmptyTrash, Crash, vars, RestoreEntry, TypeInv, TypeOK
<1>3. job' \in [Worker -> Job] /\ \A w \in Worker : (Busy(w) => Knows(job[w]))'
  BY <1>1, Requests DEF TypeInv, TypeOK, Busy, Knows, Wrote
<1> QED
  BY <1>1, <1>2, <1>3 DEF TypeInv, TypeOK

LEMMA TypeStep == ASSUME TypeInv, [Next]_vars PROVE TypeInv'
<1>1. ASSUME NEW w \in Worker,
             Start(w) \/ Write(w) \/ QuarantineOriginal(w) \/ SwapIn(w) \/ CreateNew(w) \/ RetireSource(w) \/ Save(w)
      PROVE  TypeInv'
  <2>1. CASE QuarantineOriginal(w) \/ SwapIn(w) \/ CreateNew(w) \/ RetireSource(w)
    <3>1. Busy(w)
      BY <2>1 DEF QuarantineOriginal, SwapIn, CreateNew, RetireSource, Step
    <3> QED
      BY <2>1, <3>1, WorkTyped
  <2> QED
    BY <1>1, <2>1, StartTyped, WriteTyped, SaveTyped
<1>2. ASSUME NEW b \in Book, EditBook(b) \/ RemoveRecord(b) PROVE TypeInv'
  <2>1. row[b].path \in Path
    BY <1>2 DEF EditBook, RemoveRecord, Live, TypeInv, TypeOK, Row
  <2> QED
    BY <1>2, <2>1, RowsTyped
<1>3. ASSUME NEW b \in Book, NEW p \in Path, Relink(b, p) \/ StartProcessing(b, p) PROVE TypeInv'
  BY <1>3, RowsTyped
<1> QED
  BY <1>1, <1>2, <1>3, OtherTyped DEF Next

LEMMA TypeInit == ASSUME Init PROVE TypeInv
<1>1. TrashTypeOK
  <2>1. 0 \in 0 .. MaxSecond
    BY TrashAssumption DEF TrashBounds
  <2>2. quarantine \in [Path -> [Second -> File \union {NoFile}]]
    BY DEF Init
  <2> QED
    BY <2>1, <2>2, FirstAssumption DEF Init, TrashTypeOK
<1>2. ASSUME NEW b \in Book PROVE row[b] \in Row \union {Absent}
  <2>1. CASE FirstPath[b] # Absent
    <3>1. FirstPath[b] \in Path /\ FirstFile[FirstPath[b]] \in File
      BY <2>1, FirstAssumption
    <3> QED
      BY <2>1, <3>1, NewRowTyped DEF Init
  <2> QED
    BY <2>1 DEF Init
<1>3. row \in [Book -> Row \union {Absent}]
  BY <1>2 DEF Init
<1>4. job \in [Worker -> Job] /\ \A w \in Worker : ~Busy(w)
  BY Requests DEF Init, Busy
<1>5. requests \in 0 .. MaxRequests /\ calm \in BOOLEAN
  BY BoundAssumption DEF Init
<1> QED
  BY <1>1, <1>3, <1>4, <1>5 DEF TypeInv, TypeOK

--------------------------------------------------------------------------------
(* The steps from one calm state to the next. *)
AllOK == RowsOK /\ JobsApart /\ \A w \in Worker : Busy(w) => JobOK(job[w])
CalmInv == TypeInv /\ (calm => AllOK)

LEMMA TypedRows ==
    ASSUME TypeInv
    PROVE  /\ \A b \in Book : Live(b) => row[b] \in Row /\ row[b].path \in Path
           /\ \A w \in Worker : Busy(w) =>
                 /\ job[w] \in Request /\ job[w].copy \in Row /\ job[w].copy.path \in Path /\ job[w].dst \in Path
                 /\ job[w].book \in Book /\ job[w].op \in Op /\ job[w].at \in Second
                 /\ Paths(w) = {job[w].copy.path, job[w].dst}
<1>1. ASSUME NEW b \in Book, Live(b) PROVE row[b] \in Row /\ row[b].path \in Path
  BY <1>1 DEF TypeInv, TypeOK, Live, Row
<1>2. ASSUME NEW w \in Worker, Busy(w)
      PROVE  /\ job[w] \in Request /\ job[w].copy \in Row /\ job[w].copy.path \in Path /\ job[w].dst \in Path
             /\ job[w].book \in Book /\ job[w].op \in Op /\ job[w].at \in Second
             /\ Paths(w) = {job[w].copy.path, job[w].dst}
  <2>1. job[w] \in Request
    BY <1>2, JobTyped DEF TypeInv, TypeOK
  <2>2. job[w].copy \in Row /\ job[w].dst \in Path /\ job[w].book \in Book /\ job[w].op \in Op /\ job[w].at \in Second
    BY <2>1 DEF Request
  <2> QED
    BY <1>2, <2>1, <2>2 DEF Row, Paths
<1> QED
  BY <1>1, <1>2

(* A request that another one does not meet is as well off as before. *)
LEMMA BesideCalm ==
    ASSUME TypeInv, AllOK, NEW v \in Worker, Busy(v), row' = row, job'[v] = job[v],
           \A p \in Paths(v) : file'[p] = file[p],
           \A t \in Second : quarantine'[job[v].dst][t] \in {quarantine[job[v].dst][t], NoFile}
    PROVE  JobOK(job[v])'
<1>1. PICK k : k = job[v]
  OBVIOUS
<1>2. JobOK(k) /\ k.at \in Second /\ k.copy.path \in Paths(v) /\ k.dst \in Paths(v)
  BY <1>1, TypedRows DEF AllOK
<1>3. file'[k.copy.path] = file[k.copy.path] /\ file'[k.dst] = file[k.dst]
      /\ quarantine'[k.dst][k.at] \in {quarantine[k.dst][k.at], NoFile}
  BY <1>1, <1>2
<1>4. k.pc = "swap" => quarantine'[k.dst][k.at] = NoFile \/ Described(quarantine'[k.dst][k.at], k.copy)
  BY <1>2, <1>3 DEF JobOK, AtWork
<1>5. /\ k.pc \in {"aside", "swap"} => k.op \in {"metadata", "pages"}
      /\ k.pc = "create" => MovesFile(k)
      /\ k.pc = "retire" => k.op \in {"convert", "move", "duplicate"}
      /\ k.pc \in {"read", "aside", "create", "retire"} => Described(file'[k.copy.path], k.copy)
      /\ Wrote(k) => Described(k.tmp, SavedRow(k))
      /\ k.pc \in {"retire", "save"} /\ k.op # "duplicate" => file'[k.dst] = k.tmp
  BY <1>2, <1>3 DEF JobOK, AtWork
<1>6. job'[v] = k
  BY <1>1
<1>7. AtWork(job[v])'
  BY <1>4, <1>5, <1>6 DEF AtWork
<1> QED
  BY <1>2, <1>6, <1>7 DEF JobOK, Live

(* A step of a request that leaves the rows alone. *)
LEMMA StepCalm ==
    ASSUME TypeInv, TypeInv', AllOK, NEW w \in Worker, Busy(w), row' = row,
           \A v \in Worker \ {w} : job'[v] = job[v],
           \A p \in Path : file'[p] # file[p] => p \in Paths(w) /\ job[w].pc # "read",
           \A p \in Path \ Paths(w) : \A t \in Second : quarantine'[p][t] = quarantine[p][t],
           job'[w] = NoJob => Described(file'[job[w].copy.path], job[w].copy),
           job'[w] # NoJob => /\ job'[w].book = job[w].book /\ job'[w].copy = job[w].copy /\ job'[w].dst = job[w].dst
                              /\ JobOK(job[w])'
    PROVE  AllOK'
<1>1. PICK k : k = job[w]
  OBVIOUS
<1>2. JobOK(k) /\ k.copy.path \in Path /\ k.dst \in Path /\ k.book \in Book /\ Paths(w) = {k.copy.path, k.dst}
  BY <1>1, TypedRows DEF AllOK
<1>3. RowsOK'
  <2>1. ASSUME NEW b \in Book, Untouched(b)' PROVE Described(file'[row'[b].path], row'[b])
    <3>1. Live(b) /\ row[b].path \in Path
      BY <2>1, TypedRows DEF Untouched, Live
    <3>2. CASE b = k.book
      <4>1. job'[w] = NoJob
        BY <1>1, <2>1, <3>2 DEF Untouched, Busy
      <4>2. Described(file'[k.copy.path], k.copy)
        BY <1>1, <4>1
      <4>3. row[b].path = k.copy.path /\ row[b].pages = k.copy.pages /\ row[b].written = k.copy.written
        BY <1>2, <3>1, <3>2 DEF JobOK, Same
      <4> QED
        BY <4>2, <4>3 DEF Described
    <3>3. CASE b # k.book
      <4>1. Untouched(b)
        BY <1>1, <2>1, <3>1, <3>3 DEF Untouched, Busy
      <4>2. row[b].path # k.copy.path /\ (k.pc # "read" => row[b].path # k.dst)
        BY <1>2, <3>1, <3>3 DEF JobOK
      <4>3. file'[row[b].path] = file[row[b].path]
        BY <1>1, <1>2, <3>1, <4>2
      <4> QED
        BY <4>1, <4>3 DEF AllOK, RowsOK
    <3> QED
      BY <3>2, <3>3
  <2> QED
    BY <2>1 DEF AllOK, RowsOK, Live
<1>4. \A v \in Worker : Busy(v)' => Busy(v) /\ job'[v].book = job[v].book /\ Paths(v)' = Paths(v)
  BY DEF Busy, Paths
<1>5. JobsApart'
  BY <1>4 DEF AllOK, JobsApart
<1>6. ASSUME NEW v \in Worker, Busy(v)' PROVE JobOK(job[v])'
  <2>1. CASE v = w
    BY <1>6, <2>1 DEF Busy
  <2>2. CASE v # w
    <3>1. Busy(v) /\ job'[v] = job[v] /\ Paths(v) \cap Paths(w) = {}
      BY <1>4, <1>6, <2>2 DEF AllOK, JobsApart
    <3>2. Paths(v) \subseteq Path /\ job[v].dst \in Paths(v)
      BY <3>1, TypedRows
    <3>3. \A p \in Paths(v) : file'[p] = file[p]
      BY <3>1, <3>2
    <3>4. \A t \in Second : quarantine'[job[v].dst][t] = quarantine[job[v].dst][t]
      BY <3>1, <3>2
    <3> QED
      BY <3>1, <3>3, <3>4, BesideCalm
  <2> QED
    BY <2>1, <2>2
<1> QED
  BY <1>3, <1>5, <1>6 DEF AllOK

LEMMA SavedSame ==
    ASSUME NEW k \in Request, NEW j \in Request, k.op # "duplicate",
           j.op = k.op, j.copy = k.copy, j.dst = k.dst, j.tmp = k.tmp
    PROVE  SavedRow(j) = SavedRow(k)
<1>1. k.op \in Op
  BY DEF Request
<1> QED
  BY <1>1, SavedFields DEF Op

(* One file is written, one place of the trash. *)
LEMMA MovesTouch ==
    ASSUME TypeInv, NEW p \in Path, NEW t \in Second
    PROVE  /\ MoveAside(p, t) => /\ \A q \in Path \ {p} : file'[q] = file[q]
                                 /\ \A q \in Path \ {p} : \A s \in Second : quarantine'[q][s] = quarantine[q][s]
                                 /\ quarantine'[p][t] = file[p]
           /\ \A also : MoveAsideFails(p, t, also)
                              => \A q \in Path \ {p} : \A s \in Second : quarantine'[q][s] = quarantine[q][s]
           /\ MoveBack(p, t) => /\ \A q \in Path \ {p} : file'[q] = file[q]
                                /\ \A q \in Path \ {p} : \A s \in Second : quarantine'[q][s] = quarantine[q][s]
                                /\ file'[p] = quarantine[p][t] /\ quarantine[p][t] # NoFile
           /\ \A c : Swap(p, c) => /\ \A q \in Path \ {p} : file'[q] = file[q]
                                   /\ quarantine' = quarantine /\ file'[p] = c
<1>1. file \in [Path -> Content] /\ quarantine \in [Path -> [Second -> Content]]
  BY DEF TypeInv, TypeOK, TrashTypeOK, Content
<1>2. \A c : \A q \in Path : [file EXCEPT ![p] = c][q] = IF q = p THEN c ELSE file[q]
  BY <1>1
<1>3. ASSUME NEW c PROVE /\ \A q \in Path \ {p} : [quarantine EXCEPT ![p][t] = c][q] = quarantine[q]
                         /\ [quarantine EXCEPT ![p][t] = c][p][t] = c
  BY <1>1
<1>4. MoveAside(p, t) => /\ \A q \in Path \ {p} : file'[q] = file[q]
                         /\ \A q \in Path \ {p} : \A s \in Second : quarantine'[q][s] = quarantine[q][s]
                         /\ quarantine'[p][t] = file[p]
  BY <1>2, <1>3 DEF MoveAside
<1>5. MoveBack(p, t) => /\ \A q \in Path \ {p} : file'[q] = file[q]
                        /\ \A q \in Path \ {p} : \A s \in Second : quarantine'[q][s] = quarantine[q][s]
                        /\ file'[p] = quarantine[p][t] /\ quarantine[p][t] # NoFile
  <2>1. SUFFICES ASSUME MoveBack(p, t)
                 PROVE  /\ \A q \in Path \ {p} : file'[q] = file[q]
                        /\ \A q \in Path \ {p} : \A s \in Second : quarantine'[q][s] = quarantine[q][s]
                        /\ file'[p] = quarantine[p][t] /\ quarantine[p][t] # NoFile
    OBVIOUS
  <2>2. PICK c : c = quarantine[p][t]
    OBVIOUS
  <2>3. c # NoFile /\ file' = [file EXCEPT ![p] = c] /\ quarantine' = [quarantine EXCEPT ![p][t] = NoFile]
    BY <2>1, <2>2 DEF MoveBack
  <2>4. \A q \in Path : file'[q] = IF q = p THEN c ELSE file[q]
    BY <1>2, <2>3
  <2>5. \A q \in Path \ {p} : quarantine'[q] = quarantine[q]
    BY <1>3, <2>3
  <2> QED
    BY <2>2, <2>3, <2>4, <2>5
<1>6. ASSUME NEW c, Swap(p, c)
      PROVE  (\A q \in Path \ {p} : file'[q] = file[q]) /\ quarantine' = quarantine /\ file'[p] = c
  BY <1>2, <1>6 DEF Swap
<1>7. ASSUME NEW also, MoveAsideFails(p, t, also)
      PROVE  \A q \in Path \ {p} : \A s \in Second : quarantine'[q][s] = quarantine[q][s]
  <2>1. CASE UNCHANGED quarantine
    BY <2>1
  <2>2. CASE \E copied \in {file[p], NoFile} : quarantine' = [quarantine EXCEPT ![p][t] = copied]
    BY <1>3, <2>2
  <2> QED
    BY <1>7, <2>1, <2>2 DEF MoveAsideFails
<1> QED
  BY <1>4, <1>5, <1>6, <1>7

(* What fits a row, once the new file is written. *)
LEMMA WrittenFits ==
    ASSUME NEW j \in Request, NEW old, Described(old, j.copy), Fits(j), j.op # "duplicate",
           NEW new \in NewFiles(j, old), new # NoFile, j.op = "convert" => new.pages = j.copy.pages,
           j.tmp = new
    PROVE  Described(new, SavedRow(j))
<1>1. CASE j.op = "convert"
  <2>1. new.pages = j.copy.pages /\ j.copy.written = NotWritten
    BY <1>1 DEF Fits
  <2> QED
    BY <1>1, <2>1, SavedFields DEF Described
<1>2. CASE j.op \in {"move", "copy"}
  <2>1. new = old
    BY <1>2 DEF NewFiles, Copied
  <2> QED
    BY <1>2, <2>1, SavedFields DEF Described
<1>3. CASE j.op = "metadata"
  <2>1. new = [id |-> j.number, pages |-> old.pages, meta |-> j.copy.meta]
    BY <1>3 DEF NewFiles, Updated
  <2>2. old.pages = j.copy.pages
    BY DEF Described
  <2> QED
    BY <1>3, <2>1, <2>2, SavedFields DEF Described
<1>4. CASE j.op = "pages"
  <2>1. new = [id |-> j.number, pages |-> j.number, meta |-> j.copy.meta]
    BY <1>4 DEF NewFiles, Managed
  <2> QED
    BY <1>4, <2>1, SavedFields DEF Described
<1>5. j.op \in Op
  BY DEF Request
<1> QED
  BY <1>1, <1>2, <1>3, <1>4, <1>5 DEF Op

(* What a step of a request must show of the request itself. *)
LEMMA GoesOn ==
    ASSUME NEW k \in Request, NEW j \in Request, JobOK(k), row' = row,
           j.book = k.book, j.copy = k.copy, j.dst = k.dst, j.op = k.op, k.pc # "read", j.pc # "read", AtWork(j)'
    PROVE  JobOK(j)'
<1>1. Kind(j.copy) /\ (Live(j.book)' => Same(row'[j.book], j.copy))
  BY DEF JobOK, Live
<1>2. \A c \in Book \ {j.book} : Live(c)' => row'[c].path # j.copy.path /\ row'[c].path # j.dst
  BY DEF JobOK, Live
<1>3. k.op \in Op /\ (k.op = "duplicate" => j.pc \in {"retire", "save"}) => Fits(j)
  BY DEF JobOK, Fits
<1>4. k.op \in Op
  BY DEF Request
<1>5. k.op = "duplicate" => j.pc \in {"retire", "save"}
  <2>1. j.pc \in Pc
    BY DEF Request
  <2> QED
    BY <2>1 DEF AtWork, MovesFile, Pc
<1> QED
  BY <1>1, <1>2, <1>3, <1>4, <1>5 DEF JobOK

(* ... or goes on with another request in place of the one it was. *)
LEMMA GoesCalm ==
    ASSUME TypeInv, TypeInv', AllOK, NEW w \in Worker, Busy(w), row' = row,
           \A v \in Worker \ {w} : job'[v] = job[v],
           \A p \in Path : file'[p] # file[p] => p \in Paths(w) /\ job[w].pc # "read",
           \A p \in Path \ Paths(w) : \A t \in Second : quarantine'[p][t] = quarantine[p][t],
           NEW j \in Request, job'[w] = j,
           j.book = job[w].book, j.copy = job[w].copy, j.dst = job[w].dst, JobOK(j)'
    PROVE  AllOK'
<1>1. job'[w] # NoJob
  BY Requests
<1>2. AtWork(job[w])'
  BY DEF JobOK, AtWork
<1>3. JobOK(job[w])'
  BY <1>2 DEF JobOK, Live
<1> QED
  BY <1>1, <1>3, StepCalm

LEMMA WriteCalm ==
    ASSUME TypeInv, TypeInv', AllOK, NEW w \in Worker, Write(w), calm'
    PROVE  AllOK'
<1>1. PICK k \in Request : k = job[w] /\ k.pc = "read"
  BY JobTyped DEF TypeInv, TypeOK, Write, Step
<1>2. JobOK(k) /\ k.copy.path \in Path /\ k.dst \in Path /\ Busy(w)
  BY <1>1, TypedRows DEF AllOK, Write, Step
<1>3. Described(file[k.copy.path], k.copy) /\ Fits(k) /\ k.op # "duplicate" /\ k.op \in Op
  BY <1>1, <1>2 DEF JobOK, AtWork, Fits, Request
<1>4. UNCHANGED <<file, quarantine, row>>
  BY DEF Write, disk
<1>5. CASE GiveUp(w)
  <2>1. job'[w] = NoJob /\ \A v \in Worker \ {w} : job'[v] = job[v]
    BY <1>5, GiveUpTyped
  <2> QED
    BY <1>1, <1>2, <1>3, <1>4, <2>1, StepCalm
<1>6. CASE ~GiveUp(w)
  <2>1. PICK new \in NewFiles(k, file[k.copy.path]) :
              /\ file[k.copy.path] # NoFile
              /\ k.dst = k.copy.path \/ file[k.dst] = NoFile
              /\ job' = [job EXCEPT
                        ![w].tmp = new,
                        ![w].pc = IF k.dst = k.copy.path THEN "aside" ELSE "create"]
              /\ k.op = "convert" => new.pages = k.copy.pages
    BY <1>1, <1>6 DEF Write
  <2>2. file[k.copy.path] \in File
    BY <1>2, <2>1 DEF TypeInv, TypeOK, TrashTypeOK
  <2>3. new \in File /\ new # NoFile
    BY <1>3, <2>2, NewFileTyped, TrashAssumption DEF NoFileAssumption
  <2>4. PICK pc \in Pc \ {"read"} : pc = IF k.dst = k.copy.path THEN "aside" ELSE "create"
    BY DEF Pc
  <2>5. PICK j \in Request : j = [k EXCEPT !.tmp = new, !.pc = pc]
    BY <2>3, RequestTyped DEF Content
  <2>6. job' = [job EXCEPT ![w] = j]
    <3>1. job \in [Worker -> Job] /\ new \in Content
      BY <2>3 DEF TypeInv, TypeOK, Content
    <3>2. job' = [job EXCEPT ![w].tmp = new, ![w].pc = pc]
      BY <1>1, <2>1, <2>4
    <3>3. job' = [job EXCEPT ![w] = [job[w] EXCEPT !.tmp = new, !.pc = pc]]
      BY <1>2, <3>1, <3>2, JobSteps
    <3> QED
      BY <1>1, <2>5, <3>3
  <2>7. job'[w] = j /\ \A v \in Worker \ {w} : job'[v] = job[v]
    BY <2>5, <2>6 DEF TypeInv, TypeOK
  <2>8. /\ j.op = k.op /\ j.book = k.book /\ j.copy = k.copy /\ j.dst = k.dst /\ j.tmp = new /\ j.pc = pc
        /\ j.number = k.number
    BY <2>5 DEF Request
  <2>9. NewFiles(j, file[k.copy.path]) = NewFiles(k, file[k.copy.path])
    BY <2>8 DEF NewFiles, Converted, Updated, Managed, Copied
  <2>10. Fits(j)
    BY <1>3, <2>8 DEF Fits
  <2>11. Described(new, SavedRow(j))
    BY <1>3, <2>1, <2>3, <2>8, <2>9, <2>10, WrittenFits
  <2>12. k.dst = k.copy.path <=> k.op \in {"metadata", "pages"}
    BY <1>3 DEF Fits
  <2>13. AtWork(j)'
    BY <1>3, <1>4, <2>4, <2>8, <2>11, <2>12 DEF AtWork, MovesFile, Op, Wrote
  <2>14. ASSUME NEW c \in Book \ {k.book}, Live(c) PROVE row[c].path # k.copy.path /\ row[c].path # k.dst
    <3>1. row[c].path # k.copy.path
      BY <1>2, <2>14 DEF JobOK
    <3>2. CASE \E v \in Worker : Busy(v) /\ job[v].book = c
      <4>1. PICK v \in Worker : Busy(v) /\ job[v].book = c
        BY <3>2
      <4>2. Paths(v) \cap Paths(w) = {}
        BY <1>1, <1>2, <2>14, <4>1 DEF AllOK, JobsApart
      <4>3. row[c].path = job[v].copy.path
        BY <2>14, <4>1 DEF AllOK, JobOK, Same
      <4> QED
        BY <1>1, <1>2, <3>1, <4>1, <4>2, <4>3, TypedRows
    <3>3. CASE Untouched(c)
      BY <2>1, <2>14, <3>1, <3>3 DEF AllOK, RowsOK, Described
    <3> QED
      BY <2>14, <3>2, <3>3 DEF Untouched
  <2>15. JobOK(j)'
    BY <1>2, <1>4, <2>8, <2>10, <2>13, <2>14 DEF JobOK, Live
  <2> QED
    BY <1>1, <1>2, <1>4, <2>7, <2>8, <2>15, GoesCalm
<1> QED
  BY <1>5, <1>6

LEMMA QuarantineOriginalCalm ==
    ASSUME TypeInv, TypeInv', AllOK, NEW w \in Worker, QuarantineOriginal(w)
    PROVE  AllOK'
<1>1. PICK k \in Request : k = job[w] /\ k.pc = "aside" /\ Busy(w)
  BY JobTyped DEF TypeInv, TypeOK, QuarantineOriginal, Step
<1>2. JobOK(k) /\ k.copy.path \in Path /\ k.dst \in Path /\ Paths(w) = {k.copy.path, k.dst}
  BY <1>1, TypedRows DEF AllOK
<1>3. /\ Described(file[k.copy.path], k.copy) /\ k.op \in {"metadata", "pages"} /\ k.dst = k.copy.path
      /\ Described(k.tmp, SavedRow(k))
  BY <1>1, <1>2 DEF JobOK, AtWork, Fits, Wrote
<1>4. row' = row /\ now \in Second
  BY TrashAssumption DEF QuarantineOriginal, TypeInv, TypeOK, TrashTypeOK, TrashBounds, Second
<1>5. CASE MoveAsideFails(job[w].dst, now, {}) /\ UNCHANGED file /\ GiveUp(w)
  <2>1. job'[w] = NoJob /\ \A v \in Worker \ {w} : job'[v] = job[v]
    BY <1>5, GiveUpTyped
  <2>2. \A q \in Path \ {k.dst} : \A s \in Second : quarantine'[q][s] = quarantine[q][s]
    BY <1>1, <1>2, <1>4, <1>5, MovesTouch
  <2> QED
    BY <1>1, <1>2, <1>3, <1>4, <1>5, <2>1, <2>2, StepCalm
<1>6. CASE /\ MoveAside(job[w].dst, now)
           /\ job' = [job EXCEPT ![w].pc = "swap", ![w].at = now]
  <2>1. PICK j \in Request : j = [k EXCEPT !.pc = "swap", !.at = now]
    BY <1>4, RequestTyped DEF Pc
  <2>2. job' = [job EXCEPT ![w] = j]
    <3>1. job \in [Worker -> Job] /\ "swap" \in Pc
      BY DEF TypeInv, TypeOK, Pc
    <3>2. job' = [job EXCEPT ![w] = [job[w] EXCEPT !.pc = "swap", !.at = now]]
      BY <1>1, <1>4, <1>6, <3>1, JobSteps
    <3> QED
      BY <1>1, <2>1, <3>2
  <2>3. job'[w] = j /\ \A v \in Worker \ {w} : job'[v] = job[v]
    BY <2>1, <2>2 DEF TypeInv, TypeOK
  <2>4. j.op = k.op /\ j.book = k.book /\ j.copy = k.copy /\ j.dst = k.dst /\ j.tmp = k.tmp /\ j.pc = "swap" /\ j.at = now
    BY <2>1 DEF Request
  <2>5. /\ \A q \in Path \ {k.dst} : file'[q] = file[q]
        /\ \A q \in Path \ {k.dst} : \A s \in Second : quarantine'[q][s] = quarantine[q][s]
        /\ quarantine'[k.dst][now] = file[k.dst]
    BY <1>1, <1>2, <1>4, <1>6, MovesTouch
  <2>6. SavedRow(j) = SavedRow(k)
    BY <1>3, <2>4, SavedSame
  <2>7. AtWork(j)'
    BY <1>3, <2>4, <2>5, <2>6 DEF AtWork
  <2>8. JobOK(j)'
    BY <1>1, <1>2, <1>4, <2>4, <2>7, GoesOn
  <2> QED
    BY <1>1, <1>2, <1>4, <2>3, <2>4, <2>5, <2>8, GoesCalm
<1> QED
  BY <1>5, <1>6 DEF QuarantineOriginal

LEMMA SwapInCalm ==
    ASSUME TypeInv, TypeInv', AllOK, NEW w \in Worker, SwapIn(w), calm'
    PROVE  AllOK'
<1>1. PICK k \in Request : k = job[w] /\ k.pc = "swap" /\ Busy(w)
  BY JobTyped DEF TypeInv, TypeOK, SwapIn, Step
<1>2. JobOK(k) /\ k.copy.path \in Path /\ k.dst \in Path /\ Paths(w) = {k.copy.path, k.dst} /\ k.at \in Second
  BY <1>1, TypedRows DEF AllOK
<1>3. /\ quarantine[k.dst][k.at] = NoFile \/ Described(quarantine[k.dst][k.at], k.copy)
      /\ k.op \in {"metadata", "pages"} /\ k.dst = k.copy.path
      /\ Described(k.tmp, SavedRow(k))
  BY <1>1, <1>2 DEF JobOK, AtWork, Fits, Wrote
<1>4. row' = row
  BY DEF SwapIn
<1>5. CASE MoveBack(k.dst, k.at) /\ GiveUp(w)
  <2>1. job'[w] = NoJob /\ \A v \in Worker \ {w} : job'[v] = job[v]
    BY <1>5, GiveUpTyped
  <2>2. /\ \A q \in Path \ {k.dst} : file'[q] = file[q]
        /\ \A q \in Path \ {k.dst} : \A s \in Second : quarantine'[q][s] = quarantine[q][s]
        /\ file'[k.dst] = quarantine[k.dst][k.at] /\ quarantine[k.dst][k.at] # NoFile
    BY <1>2, <1>5, MovesTouch
  <2> QED
    BY <1>1, <1>2, <1>3, <1>4, <2>1, <2>2, StepCalm
<1>6. CASE Swap(k.dst, k.tmp) /\ Goto(w, "save")
  <2>1. job'[w] = [k EXCEPT !.pc = "save"] /\ \A v \in Worker \ {w} : job'[v] = job[v]
    BY <1>1, <1>6, GotoTyped DEF Pc
  <2>2. PICK j \in Request : j = [k EXCEPT !.pc = "save"]
    BY RequestTyped DEF Pc
  <2>3. j.op = k.op /\ j.book = k.book /\ j.copy = k.copy /\ j.dst = k.dst /\ j.tmp = k.tmp /\ j.pc = "save"
    BY <2>2 DEF Request
  <2>4. (\A q \in Path \ {k.dst} : file'[q] = file[q]) /\ quarantine' = quarantine /\ file'[k.dst] = k.tmp
    BY <1>2, <1>6, MovesTouch
  <2>5. SavedRow(j) = SavedRow(k)
    BY <1>3, <2>3, SavedSame
  <2>6. AtWork(j)'
    BY <1>3, <2>3, <2>4, <2>5 DEF AtWork
  <2>7. JobOK(j)'
    BY <1>1, <1>2, <1>4, <2>3, <2>6, GoesOn
  <2> QED
    BY <1>1, <1>2, <1>4, <2>1, <2>2, <2>3, <2>4, <2>7, GoesCalm
<1> QED
  BY <1>1, <1>5, <1>6 DEF SwapIn, Disturbed

LEMMA CreateNewCalm ==
    ASSUME TypeInv, TypeInv', AllOK, NEW w \in Worker, CreateNew(w)
    PROVE  AllOK'
<1>1. PICK k \in Request : k = job[w] /\ k.pc = "create" /\ Busy(w)
  BY JobTyped DEF TypeInv, TypeOK, CreateNew, Step
<1>2. JobOK(k) /\ k.copy.path \in Path /\ k.dst \in Path /\ Paths(w) = {k.copy.path, k.dst}
  BY <1>1, TypedRows DEF AllOK
<1>3. /\ Described(file[k.copy.path], k.copy) /\ MovesFile(k) /\ k.dst # k.copy.path
      /\ Described(k.tmp, SavedRow(k))
  BY <1>1, <1>2 DEF JobOK, AtWork, Fits, Wrote, MovesFile
<1>4. row' = row /\ 0 \in Second
  BY TrashAssumption DEF CreateNew, TrashBounds, Second
<1>5. CASE UNCHANGED <<file, quarantine, overwritten>> /\ GiveUp(w)
  <2>1. job'[w] = NoJob /\ \A v \in Worker \ {w} : job'[v] = job[v]
    BY <1>5, GiveUpTyped
  <2> QED
    BY <1>1, <1>2, <1>3, <1>4, <1>5, <2>1, StepCalm
<1>6. CASE Swap(k.dst, k.tmp) /\ Goto(w, IF k.op = "copy" THEN "save" ELSE "retire")
  <2>1. PICK pc \in Pc : pc = IF k.op = "copy" THEN "save" ELSE "retire"
    BY DEF Pc
  <2>2. job'[w] = [k EXCEPT !.pc = pc] /\ \A v \in Worker \ {w} : job'[v] = job[v]
    BY <1>1, <1>6, <2>1, GotoTyped
  <2>3. PICK j \in Request : j = [k EXCEPT !.pc = pc]
    BY RequestTyped
  <2>4. j.op = k.op /\ j.book = k.book /\ j.copy = k.copy /\ j.dst = k.dst /\ j.tmp = k.tmp /\ j.pc = pc
    BY <2>3 DEF Request
  <2>5. (\A q \in Path \ {k.dst} : file'[q] = file[q]) /\ quarantine' = quarantine /\ file'[k.dst] = k.tmp
    BY <1>2, <1>4, <1>6, MovesTouch
  <2>6. SavedRow(j) = SavedRow(k)
    BY <1>3, <2>4, SavedSame DEF MovesFile
  <2>7. AtWork(j)'
    BY <1>2, <1>3, <2>1, <2>4, <2>5, <2>6 DEF AtWork, MovesFile
  <2>8. JobOK(j)'
    BY <1>1, <1>2, <1>4, <2>1, <2>4, <2>7, GoesOn
  <2> QED
    BY <1>1, <1>2, <1>4, <2>2, <2>3, <2>4, <2>5, <2>8, GoesCalm
<1> QED
  BY <1>1, <1>5, <1>6 DEF CreateNew

LEMMA RetireSourceCalm ==
    ASSUME TypeInv, TypeInv', AllOK, NEW w \in Worker, RetireSource(w)
    PROVE  AllOK'
<1>1. PICK k \in Request : k = job[w] /\ k.pc = "retire" /\ Busy(w)
  BY JobTyped DEF TypeInv, TypeOK, RetireSource, Step
<1>2. JobOK(k) /\ k.copy.path \in Path /\ k.dst \in Path /\ Paths(w) = {k.copy.path, k.dst}
  BY <1>1, TypedRows DEF AllOK
<1>3. /\ Described(file[k.copy.path], k.copy)
      /\ k.op # "duplicate" => k.dst # k.copy.path /\ file[k.dst] = k.tmp /\ Described(k.tmp, SavedRow(k))
  BY <1>1, <1>2 DEF JobOK, AtWork, Fits, Wrote
<1>4. row' = row /\ now \in Second
  BY TrashAssumption DEF RetireSource, TypeInv, TypeOK, TrashTypeOK, TrashBounds, Second
<1>5. CASE /\ MoveAsideFails(k.copy.path, now, TakenAway(k)) /\ GiveUp(w)
           /\ file' = IF k.op = "duplicate" THEN file ELSE [file EXCEPT ![k.dst] = NoFile]
  <2>1. job'[w] = NoJob /\ \A v \in Worker \ {w} : job'[v] = job[v]
    BY <1>5, GiveUpTyped
  <2>2. \A q \in Path \ {k.copy.path} : \A s \in Second : quarantine'[q][s] = quarantine[q][s]
    BY <1>2, <1>4, <1>5, MovesTouch
  <2>3. file \in [Path -> Content]
    BY DEF TypeInv, TypeOK, TrashTypeOK, Content
  <2>4. \A q \in Path : file'[q] = IF q = k.dst /\ k.op # "duplicate" THEN NoFile ELSE file[q]
    BY <1>5, <2>3
  <2> QED
    BY <1>1, <1>2, <1>3, <1>4, <2>1, <2>2, <2>4, StepCalm
<1>6. CASE MoveAside(k.copy.path, now) /\ Goto(w, "save")
  <2>1. job'[w] = [k EXCEPT !.pc = "save"] /\ \A v \in Worker \ {w} : job'[v] = job[v]
    BY <1>1, <1>6, GotoTyped DEF Pc
  <2>2. PICK j \in Request : j = [k EXCEPT !.pc = "save"]
    BY RequestTyped DEF Pc
  <2>3. j.op = k.op /\ j.book = k.book /\ j.copy = k.copy /\ j.dst = k.dst /\ j.tmp = k.tmp /\ j.pc = "save"
    BY <2>2 DEF Request
  <2>4. /\ \A q \in Path \ {k.copy.path} : file'[q] = file[q]
        /\ \A q \in Path \ {k.copy.path} : \A s \in Second : quarantine'[q][s] = quarantine[q][s]
    BY <1>2, <1>4, <1>6, MovesTouch
  <2>5. k.op # "duplicate" => SavedRow(j) = SavedRow(k)
    BY <2>3, SavedSame
  <2>6. AtWork(j)'
    BY <1>2, <1>3, <2>3, <2>4, <2>5 DEF AtWork, Wrote
  <2>7. JobOK(j)'
    BY <1>1, <1>2, <1>4, <2>3, <2>6, GoesOn
  <2>8. \A p \in Path : file'[p] # file[p] => p \in Paths(w) /\ job[w].pc # "read"
    BY <1>1, <1>2, <2>4
  <2>9. \A p \in Path \ Paths(w) : \A t \in Second : quarantine'[p][t] = quarantine[p][t]
    BY <1>2, <2>4
  <2>10. job'[w] = j /\ j.book = job[w].book /\ j.copy = job[w].copy /\ j.dst = job[w].dst
    BY <1>1, <2>1, <2>2, <2>3
  <2> QED
    BY <1>1, <1>4, <2>1, <2>7, <2>8, <2>9, <2>10, GoesCalm
<1> QED
  BY <1>1, <1>5, <1>6 DEF RetireSource

LEMMA SavedKind ==
    ASSUME NEW k \in Request, Kind(k.copy), Fits(k), k.op # "duplicate"
    PROVE  SavedRow(k).path = k.dst /\ Kind(SavedRow(k))
<1>1. k.copy.stage \in Stage
  BY DEF Request, Row
<1>2. CASE k.op = "convert"
  <2>1. AdvanceIfAtOrBefore(k.copy.stage, ConvertToCBZ) # ConvertToCBZ /\ k.dst \in Zip
    BY <1>1, <1>2, Advances DEF Fits
  <2> QED
    BY <1>2, <2>1, SavedFields DEF Kind
<1>3. CASE k.op \in {"move", "copy"}
  <2>1. AdvanceIfAtOrBefore(k.copy.stage, ToMove) # ConvertToCBZ /\ (k.dst \in Zip <=> k.copy.path \in Zip)
    BY <1>1, <1>3, Advances DEF Fits
  <2> QED
    BY <1>3, <2>1, SavedFields DEF Kind
<1>4. CASE k.op \in {"metadata", "pages"}
  <2>1. k.copy.path \in Zip /\ k.dst = k.copy.path
    BY <1>4 DEF Fits
  <2> QED
    BY <1>4, <2>1, SavedFields DEF Kind
<1>5. k.op \in Op
  BY DEF Request
<1> QED
  BY <1>2, <1>3, <1>4, <1>5 DEF Op

(* A request on whose paths and book nothing is done is as well off as before. *)
LEMMA RowsBesideCalm ==
    ASSUME TypeInv, AllOK, NEW v \in Worker, Busy(v), UNCHANGED <<file, quarantine>>, job'[v] = job[v],
           Live(job[v].book)' => Live(job[v].book) /\ Same(row'[job[v].book], row[job[v].book]),
           \A c \in Book \ {job[v].book} : Live(c)' =>
               \/ Live(c) /\ row'[c].path = row[c].path
               \/ row'[c].path \notin Paths(v)
    PROVE  JobOK(job[v])'
<1>1. PICK k \in Request : k = job[v]
  BY TypedRows
<1>2. JobOK(k) /\ k.copy.path \in Paths(v) /\ k.dst \in Paths(v) /\ k.book \in Book
  BY <1>1, TypedRows DEF AllOK
<1>3. Live(k.book)' => Same(row'[k.book], k.copy)
  <2>1. Live(k.book)' => Same(row[k.book], k.copy) /\ Same(row'[k.book], row[k.book])
    BY <1>1, <1>2 DEF JobOK
  <2> QED
    BY <2>1 DEF Same
<1>4. \A c \in Book \ {k.book} : Live(c)' =>
          row'[c].path # k.copy.path /\ (k.pc # "read" => row'[c].path # k.dst)
  BY <1>1, <1>2 DEF JobOK
<1>5. AtWork(k)'
  BY <1>2 DEF JobOK, AtWork
<1>6. job'[v] = k
  BY <1>1
<1>7. AtWork(job[v])'
  BY <1>5, <1>6 DEF AtWork
<1> QED
  BY <1>2, <1>3, <1>4, <1>6, <1>7 DEF JobOK

LEMMA SaveCalm ==
    ASSUME TypeInv, TypeInv', AllOK, NEW w \in Worker, Save(w), calm'
    PROVE  AllOK'
<1>1. PICK k \in Request : k = job[w] /\ k.pc = "save" /\ Busy(w)
  BY JobTyped DEF TypeInv, TypeOK, Save, Step
<1>2. JobOK(k) /\ k.dst \in Paths(w) /\ k.book \in Book
  BY <1>1, TypedRows DEF AllOK
<1>3. job'[w] = NoJob /\ \A v \in Worker \ {w} : job'[v] = job[v]
  BY GiveUpTyped DEF Save
<1>4. UNCHANGED <<file, quarantine>>
  BY DEF Save, disk
<1>5. row' = [row EXCEPT ![k.book] = IF k.op = "duplicate" \/ @ = Absent THEN Absent ELSE SavedRow(k)]
  BY <1>1 DEF Save, Disturbed
<1>6. \A c \in Book : row'[c] = IF c # k.book THEN row[c] ELSE
                               IF k.op = "duplicate" \/ row[c] = Absent THEN Absent ELSE SavedRow(k)
  BY <1>5 DEF TypeInv, TypeOK
<1>7. ASSUME k.op # "duplicate"
      PROVE  SavedRow(k).path = k.dst /\ Kind(SavedRow(k)) /\ Described(file[k.dst], SavedRow(k))
  <2>1. SavedRow(k).path = k.dst /\ Kind(SavedRow(k))
    BY <1>2, <1>7, SavedKind DEF JobOK
  <2>2. file[k.dst] = k.tmp /\ Described(k.tmp, SavedRow(k))
    BY <1>1, <1>2, <1>7 DEF JobOK, AtWork, Wrote
  <2> QED
    BY <2>1, <2>2
<1>8. \A c \in Book \ {k.book} : Live(c) => row[c].path # k.dst
  BY <1>1, <1>2 DEF JobOK
<1>9. RowsOK'
  <2>1. \A b \in Book : Live(b)' => Kind(row'[b])
    BY <1>6, <1>7 DEF AllOK, RowsOK, Live
  <2>2. \A b, c \in Book : Live(b)' /\ Live(c)' /\ row'[b].path = row'[c].path => b = c
    BY <1>6, <1>7, <1>8 DEF AllOK, RowsOK, Live
  <2>3. ASSUME NEW b \in Book, Untouched(b)' PROVE Described(file'[row'[b].path], row'[b])
    <3>1. CASE b = k.book
      BY <1>4, <1>6, <1>7, <2>3, <3>1 DEF Untouched, Live
    <3>2. CASE b # k.book
      <4>1. Untouched(b) /\ row'[b] = row[b]
        BY <1>1, <1>3, <1>6, <2>3, <3>2 DEF Untouched, Live, Busy
      <4> QED
        BY <1>4, <4>1 DEF AllOK, RowsOK
    <3> QED
      BY <3>1, <3>2
  <2> QED
    BY <2>1, <2>2, <2>3 DEF RowsOK
<1>10. \A v \in Worker : Busy(v)' => v # w /\ Busy(v) /\ job'[v] = job[v] /\ Paths(v)' = Paths(v)
  BY <1>3 DEF Busy, Paths
<1>11. JobsApart'
  BY <1>10 DEF AllOK, JobsApart
<1>12. ASSUME NEW v \in Worker, Busy(v)' PROVE JobOK(job[v])'
  <2>1. v # w /\ Busy(v) /\ job'[v] = job[v] /\ job[v].book # k.book /\ Paths(v) \cap Paths(w) = {}
    BY <1>1, <1>10, <1>12 DEF AllOK, JobsApart
  <2>2. job[v].book \in Book
    BY <2>1, TypedRows
  <2>3. Live(job[v].book)' => Live(job[v].book) /\ Same(row'[job[v].book], row[job[v].book])
    BY <1>6, <2>1, <2>2 DEF Live, Same
  <2>4. \A c \in Book \ {job[v].book} : Live(c)' =>
               \/ Live(c) /\ row'[c].path = row[c].path
               \/ row'[c].path \notin Paths(v)
    BY <1>2, <1>6, <1>7, <2>1 DEF Live
  <2> QED
    BY <1>4, <2>1, <2>3, <2>4, RowsBesideCalm
<1> QED
  BY <1>9, <1>11, <1>12 DEF AllOK

LEMMA StartCalm ==
    ASSUME TypeInv, TypeInv', AllOK, NEW w \in Worker, Start(w), calm'
    PROVE  AllOK'
<1>1. PICK op \in Op, b \in Book, dst \in Path :
          /\ Live(b) /\ Accepts(op, b, dst)
          /\ job' = [job EXCEPT ![w] =
                  [op |-> op, pc |-> IF op = "duplicate" THEN "retire" ELSE "read", book |-> b,
                   number |-> requests + 1, copy |-> row[b], dst |-> dst, tmp |-> NoFile, at |-> 0]]
          /\ ~Meets(b, {row[b].path, dst})
  BY DEF Start
<1>2. PICK j : j = [op |-> op, pc |-> IF op = "duplicate" THEN "retire" ELSE "read", book |-> b,
                   number |-> requests + 1, copy |-> row[b], dst |-> dst, tmp |-> NoFile, at |-> 0]
  OBVIOUS
<1>3. job'[w] = j /\ \A v \in Worker \ {w} : job'[v] = job[v]
  BY <1>1, <1>2 DEF TypeInv, TypeOK
<1>4. UNCHANGED <<file, quarantine, row>> /\ ~Busy(w)
  BY DEF Start, disk
<1>5. /\ j.op = op /\ j.pc = (IF op = "duplicate" THEN "retire" ELSE "read") /\ j.book = b /\ j.copy = row[b]
      /\ j.dst = dst /\ ~Wrote(j)
  BY <1>2 DEF Wrote
<1>6. \A v \in Worker : Busy(v) => job[v].book # b /\ Paths(v) \cap {row[b].path, dst} = {}
  BY <1>1 DEF Meets
<1>7. row[b] \in Row /\ Kind(row[b]) /\ Described(file[row[b].path], row[b])
  BY <1>1, <1>6, TypedRows DEF AllOK, RowsOK, Untouched
<1>8. Fits(j)
  <2>1. CASE op = "convert"
    <3>1. row[b].stage = ConvertToCBZ /\ dst = ChangeExt[row[b].path]
      BY <1>1, <2>1 DEF Accepts, ToConvert
    <3>2. row[b].path \in Path
      BY <1>1, TypedRows
    <3>3. row[b].path \notin Zip /\ dst \in Zip /\ row[b].written = NotWritten
      BY <1>7, <3>1, <3>2, PathAssumption DEF Kind
    <3> QED
      BY <1>5, <2>1, <3>3 DEF Fits
  <2>2. CASE op = "metadata"
    BY <1>1, <1>5, <2>2 DEF Accepts, ToUpdate, Fits
  <2>3. CASE op = "pages"
    BY <1>1, <1>5, <2>3 DEF Accepts, ToManage, Fits
  <2>4. CASE op \in {"move", "copy"}
    <3>1. row[b].stage = ToMove /\ FreeAtPlanning(b, dst)
      BY <1>1, <2>4 DEF Accepts, ToOrganize
    <3> QED
      BY <1>5, <2>4, <3>1 DEF FreeAtPlanning, Fits
  <2>5. CASE op = "duplicate"
    BY <1>1, <1>5, <2>5 DEF Accepts, ToRetire, Fits
  <2> QED
    BY <1>1, <2>1, <2>2, <2>3, <2>4, <2>5 DEF Op
<1>9. AtWork(j)'
  BY <1>4, <1>5, <1>7 DEF AtWork
<1>10. JobOK(j)'
  <2>1. \A c \in Book \ {b} : Live(c) => row[c].path # row[b].path
    BY <1>1 DEF AllOK, RowsOK
  <2>2. j.pc # "read" => j.dst = j.copy.path
    BY <1>5, <1>8 DEF Fits
  <2> QED
    BY <1>4, <1>5, <1>7, <1>8, <1>9, <2>1, <2>2 DEF JobOK, Live, Same
<1>11. JobOK(job[w])'
  <2>1. AtWork(job[w])'
    BY <1>3, <1>9 DEF AtWork
  <2> QED
    BY <1>3, <1>10, <2>1 DEF JobOK, Live
<1>12. \A v \in Worker \ {w} : Busy(v)' => Busy(v) /\ job'[v] = job[v] /\ Paths(v)' = Paths(v)
  BY <1>3 DEF Busy, Paths
<1>13. Busy(w)' /\ Paths(w)' = {row[b].path, dst}
  <2>1. j # NoJob
    <3>1. job'[w] \in Job /\ j \in Request
      <4>1. j \in Job
        BY <1>3 DEF TypeInv, TypeOK
      <4>2. DOMAIN j # DOMAIN NoJob
        <5>1. "pc" \in DOMAIN j /\ "pc" \notin DOMAIN NoJob
          BY <1>2 DEF NoJob
        <5> QED
          BY <5>1
      <4> QED
        BY <1>3, <4>1, <4>2, Requests
    <3> QED
      BY <3>1, Requests
  <2> QED
    BY <1>3, <1>5, <2>1 DEF Busy, Paths
<1>14. RowsOK'
  <2>1. \A c \in Book : Untouched(c)' => Untouched(c)
    BY <1>3, <1>4 DEF Untouched, Live, Busy
  <2> QED
    BY <1>4, <2>1 DEF AllOK, RowsOK, Live
<1>15. JobsApart'
  BY <1>3, <1>5, <1>6, <1>12, <1>13 DEF AllOK, JobsApart
<1>16. ASSUME NEW v \in Worker \ {w}, Busy(v)' PROVE JobOK(job[v])'
  BY <1>4, <1>12, <1>16, BesideCalm
<1> QED
  BY <1>11, <1>14, <1>15, <1>16 DEF AllOK

LEMMA RecordsCalm ==
    ASSUME TypeInv, TypeInv', AllOK, NEW b \in Book, EditBook(b) \/ RemoveRecord(b)
    PROVE  AllOK'
<1>1. UNCHANGED <<file, quarantine, job>>
  BY DEF EditBook, RemoveRecord, disk
<1>2. Live(b) /\ row[b] \in Row /\ Kind(row[b])
  BY TypedRows DEF EditBook, RemoveRecord, AllOK, RowsOK
<1>3. Live(b)' => Same(row'[b], row[b]) /\ Kind(row'[b])
  <2>1. CASE EditBook(b)
    <3>1. ASSUME NEW m \in Meta, row' = [row EXCEPT ![b].meta = m] PROVE Same(row'[b], row[b]) /\ Kind(row'[b])
      <4>1. row'[b] = [row[b] EXCEPT !.meta = m]
        BY <3>1 DEF TypeInv, TypeOK
      <4>2. /\ row'[b].path = row[b].path /\ row'[b].pages = row[b].pages
            /\ row'[b].written = row[b].written /\ row'[b].stage = row[b].stage
        BY <1>2, <4>1 DEF Row
      <4> QED
        BY <1>2, <4>2 DEF Same, Kind
    <3>2. ASSUME row' = [row EXCEPT ![b].stage = ToMove] PROVE Same(row'[b], row[b]) /\ Kind(row'[b])
      <4>1. row'[b] = [row[b] EXCEPT !.stage = ToMove]
        BY <3>2 DEF TypeInv, TypeOK
      <4>2. /\ row'[b].path = row[b].path /\ row'[b].pages = row[b].pages
            /\ row'[b].written = row[b].written /\ row'[b].stage = ToMove
        BY <1>2, <4>1 DEF Row
      <4> QED
        BY <1>2, <4>2 DEF Same, Kind, ToMove, ConvertToCBZ
    <3> QED
      BY <2>1, <3>1, <3>2 DEF EditBook
  <2>2. CASE RemoveRecord(b)
    BY <2>2 DEF RemoveRecord, Live, TypeInv, TypeOK
  <2> QED
    BY <2>1, <2>2
<1>4. \A c \in Book \ {b} : row'[c] = row[c]
  BY DEF EditBook, RemoveRecord, TypeInv, TypeOK
<1>5. \A c \in Book : Live(c)' => Live(c) /\ Same(row'[c], row[c]) /\ Kind(row'[c])
  <2>1. \A c \in Book \ {b} : Live(c)' => Live(c) /\ Same(row'[c], row[c]) /\ Kind(row'[c])
    BY <1>4 DEF Live, Same, AllOK, RowsOK
  <2> QED
    BY <1>2, <1>3, <2>1
<1>6. RowsOK'
  <2>1. \A c \in Book : Untouched(c)' => Described(file'[row'[c].path], row'[c])
    BY <1>1, <1>5 DEF AllOK, RowsOK, Untouched, Live, Busy, Same, Described
  <2>2. \A c, d \in Book : Live(c)' /\ Live(d)' /\ row'[c].path = row'[d].path => c = d
    BY <1>5 DEF AllOK, RowsOK, Same
  <2> QED
    BY <1>5, <2>1, <2>2 DEF RowsOK
<1>7. JobsApart'
  BY <1>1 DEF AllOK, JobsApart, Busy, Paths
<1>8. ASSUME NEW v \in Worker, Busy(v)' PROVE JobOK(job[v])'
  <2>1. Busy(v) /\ job'[v] = job[v]
    BY <1>1, <1>8 DEF Busy
  <2>2. job[v].book \in Book
    BY <2>1, TypedRows
  <2>3. \A c \in Book \ {job[v].book} : Live(c)' => Live(c) /\ row'[c].path = row[c].path
    BY <1>5 DEF Same
  <2> QED
    BY <1>1, <1>5, <2>1, <2>2, <2>3, RowsBesideCalm
<1> QED
  BY <1>6, <1>7, <1>8 DEF AllOK

LEMMA StartProcessingCalm ==
    ASSUME TypeInv, TypeInv', AllOK, NEW b \in Book, NEW p \in Path, StartProcessing(b, p), calm'
    PROVE  AllOK'
<1>1. /\ ~Live(b) /\ file[p] # NoFile /\ Users(p) = {}
      /\ \A w \in Worker : Busy(w) => job[w].book # b /\ p \notin Paths(w)
      /\ UNCHANGED <<file, quarantine, job>>
  BY DEF StartProcessing, Meets, disk
<1>2. \A c \in Book : row'[c] = IF c = b THEN NewRow(p, file[p]) ELSE row[c]
  BY DEF StartProcessing, TypeInv, TypeOK
<1>3. NewRow(p, file[p]).path = p /\ Kind(NewRow(p, file[p])) /\ Described(file[p], NewRow(p, file[p]))
  BY <1>1 DEF NewRow, Kind, Described, InferStage, ToMove, ConvertToCBZ
<1>4. \A c \in Book : Live(c) => row[c].path # p
  BY <1>1 DEF Users
<1>5. RowsOK'
  <2>1. \A c \in Book : Live(c)' => Kind(row'[c])
    BY <1>2, <1>3 DEF AllOK, RowsOK, Live
  <2>2. \A c, d \in Book : Live(c)' /\ Live(d)' /\ row'[c].path = row'[d].path => c = d
    BY <1>2, <1>3, <1>4 DEF AllOK, RowsOK, Live
  <2>3. ASSUME NEW c \in Book, Untouched(c)' PROVE Described(file'[row'[c].path], row'[c])
    <3>1. c # b => Untouched(c) /\ row'[c] = row[c]
      BY <1>1, <1>2, <2>3 DEF Untouched, Live, Busy
    <3> QED
      BY <1>1, <1>2, <1>3, <3>1 DEF AllOK, RowsOK
  <2> QED
    BY <2>1, <2>2, <2>3 DEF RowsOK
<1>6. JobsApart'
  BY <1>1 DEF AllOK, JobsApart, Busy, Paths
<1>7. ASSUME NEW v \in Worker, Busy(v)' PROVE JobOK(job[v])'
  <2>1. Busy(v) /\ job'[v] = job[v] /\ job[v].book # b /\ p \notin Paths(v)
    BY <1>1, <1>7 DEF Busy
  <2>2. job[v].book \in Book
    BY <2>1, TypedRows
  <2>3. Live(job[v].book)' => Live(job[v].book) /\ Same(row'[job[v].book], row[job[v].book])
    BY <1>2, <2>1, <2>2 DEF Live, Same
  <2>4. \A c \in Book \ {job[v].book} : Live(c)' =>
               \/ Live(c) /\ row'[c].path = row[c].path
               \/ row'[c].path \notin Paths(v)
    BY <1>2, <1>3, <2>1 DEF Live
  <2> QED
    BY <1>1, <2>1, <2>3, <2>4, RowsBesideCalm
<1> QED
  BY <1>5, <1>6, <1>7 DEF AllOK

(* The trash is emptied: nothing but entries go. *)
LEMMA EmptyTrashCalm ==
    ASSUME TypeInv, TypeInv', AllOK, EmptyTrash \/ UNCHANGED vars
    PROVE  AllOK'
<1>1. UNCHANGED <<file, row, job>>
  <2>1. \A p \in Path, t \in Second : DeleteNow(p, t) => file' = file
    BY DEF DeleteNow
  <2>2. Sweep \/ Tick => file' = file
    BY DEF Sweep, Tick
  <2> QED
    BY <2>1, <2>2 DEF EmptyTrash, vars, disk
<1>2. \A p \in Path, t \in Second : quarantine'[p][t] \in {quarantine[p][t], NoFile}
  <2>1. CASE \E p \in Path, t \in Second : DeleteNow(p, t)
    <3>1. PICK q \in Path, s \in Second : quarantine' = [quarantine EXCEPT ![q][s] = NoFile]
      BY <2>1 DEF DeleteNow
    <3>2. quarantine \in [Path -> [Second -> Content]]
      BY DEF TypeInv, TypeOK, TrashTypeOK, Content
    <3> QED
      BY <3>1, <3>2
  <2>2. CASE Sweep
    BY <2>2 DEF Sweep
  <2>3. CASE UNCHANGED quarantine
    BY <2>3
  <2>4. Tick \/ UNCHANGED vars => UNCHANGED quarantine
    BY DEF Tick, vars, disk
  <2> QED
    BY <2>1, <2>2, <2>3, <2>4 DEF EmptyTrash
<1>3. RowsOK' /\ JobsApart'
  BY <1>1 DEF AllOK, RowsOK, JobsApart, Untouched, Live, Busy, Paths
<1>4. ASSUME NEW v \in Worker, Busy(v)' PROVE JobOK(job[v])'
  <2>1. Busy(v) /\ job'[v] = job[v]
    BY <1>1, <1>4 DEF Busy
  <2>2. Paths(v) \subseteq Path /\ job[v].dst \in Path
    BY <2>1, TypedRows
  <2> QED
    BY <1>1, <1>2, <2>1, <2>2, BesideCalm
<1> QED
  BY <1>3, <1>4 DEF AllOK

LEMMA CalmStep == ASSUME CalmInv, [Next]_vars PROVE CalmInv'
<1>1. TypeInv'
  BY TypeStep DEF CalmInv
<1>2. SUFFICES ASSUME calm' PROVE AllOK'
  BY <1>1 DEF CalmInv
<1>3. ASSUME NEW w \in Worker,
             Start(w) \/ Write(w) \/ QuarantineOriginal(w) \/ SwapIn(w) \/ CreateNew(w) \/ RetireSource(w) \/ Save(w)
      PROVE  AllOK'
  <2>1. calm
    BY <1>2, <1>3 DEF Start, Write, QuarantineOriginal, SwapIn, CreateNew, RetireSource, Save, Undisturbed, Disturbed
  <2> QED
    BY <1>1, <1>2, <1>3, <2>1, StartCalm, WriteCalm, QuarantineOriginalCalm, SwapInCalm, CreateNewCalm, RetireSourceCalm,
       SaveCalm DEF CalmInv
<1>4. ASSUME NEW b \in Book, EditBook(b) \/ RemoveRecord(b) PROVE AllOK'
  <2>1. calm
    BY <1>2, <1>4 DEF EditBook, RemoveRecord
  <2> QED
    BY <1>1, <1>4, <2>1, RecordsCalm DEF CalmInv
<1>5. ASSUME NEW b \in Book, NEW p \in Path, StartProcessing(b, p) PROVE AllOK'
  <2>1. calm
    BY <1>2, <1>5 DEF StartProcessing
  <2> QED
    BY <1>1, <1>2, <1>5, <2>1, StartProcessingCalm DEF CalmInv
<1>6. CASE EmptyTrash \/ UNCHANGED vars
  <2>1. calm
    BY <1>2, <1>6 DEF EmptyTrash, vars
  <2> QED
    BY <1>1, <1>6, <2>1, EmptyTrashCalm DEF CalmInv
<1>7. /\ ~Crash
      /\ \A b \in Book, p \in Path : ~Relink(b, p)
      /\ \A p \in Path, t \in Second : ~RestoreEntry(p, t)
  BY <1>2 DEF Crash, Relink, RestoreEntry, Disturbed
<1>8. CASE \E w \in Worker : Start(w) \/ Write(w) \/ QuarantineOriginal(w) \/ SwapIn(w)
                             \/ CreateNew(w) \/ RetireSource(w) \/ Save(w)
  BY <1>3, <1>8
<1>9. CASE \E b \in Book : EditBook(b) \/ RemoveRecord(b)
  BY <1>4, <1>9
<1> QED
  BY <1>5, <1>6, <1>7, <1>8, <1>9 DEF Next

(* No two books come with the same file: watched folders never make a second   *)
(* record for a file that has one.                                              *)
PathsApart == \A b, c \in Book : FirstPath[b] # Absent /\ FirstPath[b] = FirstPath[c] => b = c

LEMMA CalmInit == ASSUME PathsApart, Init PROVE CalmInv
<1>1. \A b \in Book : Live(b) =>
          FirstPath[b] # Absent /\ FirstPath[b] \in Path /\ row[b] = NewRow(FirstPath[b], FirstFile[FirstPath[b]])
  BY FirstAssumption DEF Init, Live
<1>2. \A b \in Book : Live(b) => row[b].path = FirstPath[b] /\ Kind(row[b]) /\ Described(file[row[b].path], row[b])
  <2>1. ASSUME NEW b \in Book, Live(b)
        PROVE row[b].path = FirstPath[b] /\ Kind(row[b]) /\ Described(file[row[b].path], row[b])
    <3>1. FirstFile[FirstPath[b]] # NoFile /\ file = FirstFile
      BY <1>1, <2>1, FirstAssumption DEF Init
    <3>2. PICK p, f : p = FirstPath[b] /\ f = FirstFile[FirstPath[b]]
      OBVIOUS
    <3>3. row[b] = [path |-> p, pages |-> f.pages, meta |-> f.meta, written |-> NotWritten, stage |-> InferStage(p)]
      BY <1>1, <2>1, <3>2 DEF NewRow
    <3> QED
      BY <3>1, <3>2, <3>3 DEF Kind, Described, InferStage, ToMove, ConvertToCBZ
  <2> QED
    BY <2>1
<1>3. RowsOK
  BY <1>1, <1>2 DEF RowsOK, Untouched, PathsApart
<1>4. \A w \in Worker : ~Busy(w)
  BY DEF Init, Busy
<1>5. TypeInv
  BY TypeInit
<1> QED
  BY <1>3, <1>4, <1>5 DEF CalmInv, AllOK, JobsApart

(* A row says of its file what is so: the file is there, its pages are the      *)
(* ones the page table counts, and what was written is in it, whatever          *)
(* cbzconvert, libraryorganizer, duplicates and the trash do to any number of   *)
(* books side by side, as long as they do not meet and nothing is taken back.   *)
THEOREM RowsDescribeFiles == ASSUME PathsApart PROVE Spec => []RowDescribesFile
<1>1. Init => CalmInv
  BY CalmInit
<1>2. CalmInv /\ [Next]_vars => CalmInv'
  BY CalmStep
<1>3. CalmInv => RowDescribesFile
  <2>1. SUFFICES ASSUME CalmInv, calm, NEW b \in Book, Untouched(b)
                 PROVE  /\ file[row[b].path] # NoFile
                        /\ row[b].pages = file[row[b].path].pages
                        /\ row[b].written = row[b].meta => file[row[b].path].meta = row[b].meta
    BY DEF RowDescribesFile
  <2>2. Described(file[row[b].path], row[b])
    BY <2>1 DEF CalmInv, AllOK, RowsOK
  <2>3. row[b].meta \in Meta
    BY <2>1, TypedRows DEF CalmInv, Untouched, Row
  <2> QED
    BY <2>2, <2>3, BoundAssumption DEF Described
<1> QED
  BY <1>1, <1>2, <1>3, PTL DEF Spec
================================================================================
