---------------------------- MODULE FiltersProofs ----------------------------
(***************************************************************************)
(* What Kept keeps.  Its definition is recursive, so that most of this is  *)
(* an induction; the library's induction theorems cannot be used, for they *)
(* take an operator, and Induction, with a set in its place, is proved     *)
(* from the fact that a set of numbers has a least one.                    *)
(***************************************************************************)
EXTENDS Filters, Integers, NaturalsInduction, WellFoundedInduction, SequenceTheorems, TLAPS

--------------------------------------------------------------------------------
(* Numbers cannot decrease for ever. *)
LEMMA BelowIsWellFounded == IsWellFoundedOn({ss \in Nat \X Nat : ss[1] < ss[2]}, Nat)
BY NatLessThanWellFounded DEF OpToRel

(* There is a least number in a set. *)
LEMMA Least == ASSUME NEW T, T \subseteq Nat, T # {}
  PROVE \E x \in T : \A y \in T : x <= y
<1> DEFINE Below == {ss \in Nat \X Nat : ss[1] < ss[2]}
<1>1. IsWellFoundedOn(Below, Nat) BY BelowIsWellFounded
<1>2. \A x, y \in Nat : x < y => <<x, y>> \in Below OBVIOUS
<1> HIDE DEF Below
<1>3. PICK x \in T : \A y \in T : ~ (<<y, x>> \in Below)
  BY <1>1, WFMin
<1>4. \A y \in T : ~(y < x) BY <1>2, <1>3, Zenon
<1> QED BY <1>4

(* So what holds of 0, and of n + 1 if it holds of n, holds of all numbers. *)
LEMMA Induction == ASSUME NEW T, 0 \in T, \A n \in Nat : n \in T => n + 1 \in T
  PROVE Nat \subseteq T
<1> SUFFICES ASSUME Nat \ T # {} PROVE FALSE
  OBVIOUS
<1>1. PICK x \in Nat \ T : \A y \in Nat \ T : x <= y BY Least
<1>2. x # 0 /\ x - 1 \in Nat BY <1>1
<1>3. x - 1 \in T BY <1>1, <1>2
<1> QED BY <1>1, <1>2, <1>3

(* What the loop has after n elements. *)
Steps(s, these, n, k) ==
    k = [m \in 0 .. n |-> IF m = 0 THEN <<>> ELSE IF s[m] \in these THEN Append(k[m - 1], s[m]) ELSE k[m - 1]]

LEMMA StepsAre ==
  ASSUME NEW s, NEW these, NEW n, NEW k, Steps(s, these, n, k), NEW m \in 0 .. n
  PROVE  k[m] = IF m = 0 THEN <<>> ELSE IF s[m] \in these THEN Append(k[m - 1], s[m]) ELSE k[m - 1]
BY DEF Steps

LEMMA StepsExist == ASSUME NEW s, NEW these PROVE \A n \in Nat : \E k : Steps(s, these, n, k)
<1> DEFINE T == {n \in Nat : \E k : Steps(s, these, n, k)}
<1>1. 0 \in T
  <2>1. Steps(s, these, 0, [m \in 0 .. 0 |-> <<>>]) BY DEF Steps
  <2> QED BY <2>1
<1>2. ASSUME NEW n \in Nat, n \in T PROVE n + 1 \in T
  <2>1. PICK k : Steps(s, these, n, k) BY <1>2
  <2>2. PICK j : j = [m \in 0 .. n + 1 |-> IF m = 0 THEN <<>> ELSE IF s[m] \in these THEN Append(k[m - 1], s[m]) ELSE k[m - 1]]
    OBVIOUS
  <2>3. \A m \in 0 .. n : j[m] = k[m] BY <2>1, <2>2, StepsAre
  <2>4. \A m \in 0 .. n + 1 : m # 0 => m - 1 \in 0 .. n OBVIOUS
  <2>5. Steps(s, these, n + 1, j) BY <2>2, <2>3, <2>4 DEF Steps
  <2> QED BY <2>5
<1> HIDE DEF T
<1>3. Nat \subseteq T BY <1>1, <1>2, Induction
<1> QED BY <1>3 DEF T

(* They are the same for two sequences as far as these agree. *)
LEMMA StepsAgree ==
  ASSUME NEW s, NEW t, NEW these, NEW n \in Nat, NEW m \in Nat, n <= m, \A i \in 1 .. n : s[i] = t[i],
         NEW k, Steps(s, these, n, k), NEW j, Steps(t, these, m, j)
  PROVE  j[n] = k[n]
<1> DEFINE T == {i \in Nat : i <= n => j[i] = k[i]}
<1>1. 0 \in T BY StepsAre
<1>2. ASSUME NEW i \in Nat, i \in T PROVE i + 1 \in T
  <2> SUFFICES ASSUME i + 1 <= n PROVE j[i + 1] = k[i + 1]
    OBVIOUS
  <2>1. j[i] = k[i] BY <1>2
  <2>2. i + 1 \in 0 .. n /\ i + 1 \in 0 .. m /\ s[i + 1] = t[i + 1] /\ (i + 1) - 1 = i /\ i + 1 # 0 OBVIOUS
  <2>3. k[i + 1] = IF s[i + 1] \in these THEN Append(k[i], s[i + 1]) ELSE k[i] BY <2>2, StepsAre
  <2>4. j[i + 1] = IF t[i + 1] \in these THEN Append(j[i], t[i + 1]) ELSE j[i] BY <2>2, StepsAre
  <2> QED BY <2>1, <2>2, <2>3, <2>4
<1> HIDE DEF T
<1>3. n \in T BY <1>1, <1>2, Induction
<1> QED BY <1>3 DEF T

(* What is kept is what the loop has at the end. *)
LEMMA KeptIsLast == ASSUME NEW S, NEW s \in Seq(S), NEW these
  PROVE  \E k : Steps(s, these, Len(s), k) /\ Kept(s, these) = k[Len(s)]
<1>1. PICK k : /\ k = CHOOSE kept : Steps(s, these, Len(s), kept)
               /\ Kept(s, these) = k[Len(s)]
  BY DEF Kept, Steps
<1>2. \E kept : Steps(s, these, Len(s), kept)
  <2>1. Len(s) \in Nat OBVIOUS
  <2> QED BY <2>1, StepsExist
<1> QED BY <1>1, <1>2

LEMMA KeptOfNone == ASSUME NEW these PROVE Kept(<<>>, these) = <<>>
<1>1. <<>> \in Seq({}) /\ Len(<<>>) = 0 OBVIOUS
<1>2. PICK k : Steps(<<>>, these, 0, k) /\ Kept(<<>>, these) = k[0] BY <1>1, KeptIsLast
<1> QED BY <1>2, StepsAre

LEMMA KeptOfAppend == ASSUME NEW S, NEW s \in Seq(S), NEW x \in S, NEW these
  PROVE  Kept(Append(s, x), these) = IF x \in these THEN Append(Kept(s, these), x) ELSE Kept(s, these)
<1>1. PICK t, n : t = Append(s, x) /\ n = Len(s) OBVIOUS
<1>2. t \in Seq(S) /\ Len(t) = n + 1 /\ n \in Nat /\ t[n + 1] = x /\ \A i \in 1 .. n : s[i] = t[i] BY <1>1
<1>3. PICK k : Steps(s, these, n, k) /\ Kept(s, these) = k[n] BY <1>1, KeptIsLast
<1>4. PICK j : Steps(t, these, n + 1, j) /\ Kept(t, these) = j[n + 1] BY <1>2, KeptIsLast
<1>5. j[n] = k[n] BY <1>2, <1>3, <1>4, StepsAgree
<1>6. j[n + 1] = IF x \in these THEN Append(j[n], x) ELSE j[n]
  <2>1. n + 1 \in 0 .. n + 1 /\ n + 1 # 0 /\ (n + 1) - 1 = n BY <1>2
  <2> QED BY <1>2, <1>4, <2>1 DEF Steps
<1> QED BY <1>1, <1>3, <1>4, <1>5, <1>6

(* What holds of no elements, and with one more, holds of all sequences. *)
LEMMA SeqsByAppend ==
  ASSUME NEW S, NEW T, <<>> \in T, \A s \in Seq(S), x \in S : s \in T => Append(s, x) \in T
  PROVE  Seq(S) \subseteq T
<1> DEFINE N == {n \in Nat : \A s \in Seq(S) : Len(s) = n => s \in T}
<1>1. 0 \in N
  <2>1. \A s \in Seq(S) : Len(s) = 0 => s = <<>> OBVIOUS
  <2> QED BY <2>1
<1>2. ASSUME NEW n \in Nat, n \in N PROVE n + 1 \in N
  <2> SUFFICES ASSUME NEW s \in Seq(S), Len(s) = n + 1 PROVE s \in T
    OBVIOUS
  <2>1. PICK front, x : front = SubSeq(s, 1, n) /\ x = s[n + 1] OBVIOUS
  <2>2. front \in Seq(S) /\ Len(front) = n /\ x \in S BY <2>1
  <2>3. s = Append(front, x) BY <2>1, <2>2
  <2>4. front \in T BY <1>2, <2>2
  <2> QED BY <2>2, <2>3, <2>4
<1> HIDE DEF N
<1>3. Nat \subseteq N BY <1>1, <1>2, Induction
<1> QED BY <1>3 DEF N

(* What is kept is a sequence of elements. *)
LEMMA KeptIsSeq == ASSUME NEW S, NEW these PROVE \A s \in Seq(S) : Kept(s, these) \in Seq(S)
<1> DEFINE T == {s \in Seq(S) : Kept(s, these) \in Seq(S)}
<1>1. <<>> \in T
  <2>1. <<>> \in Seq(S) OBVIOUS
  <2> QED BY <2>1, KeptOfNone
<1>2. ASSUME NEW s \in Seq(S), NEW x \in S, s \in T PROVE Append(s, x) \in T
  <2>1. PICK k : k = Kept(s, these) /\ k \in Seq(S) BY <1>2
  <2>2. Append(s, x) \in Seq(S) /\ Append(k, x) \in Seq(S) BY <2>1
  <2>3. Kept(Append(s, x), these) = IF x \in these THEN Append(k, x) ELSE k BY <2>1, KeptOfAppend
  <2> QED BY <2>1, <2>2, <2>3
<1> HIDE DEF T
<1>3. Seq(S) \subseteq T BY <1>1, <1>2, SeqsByAppend
<1> QED BY <1>3 DEF T

(* Where all are among these, all are kept. *)
LEMMA KeptAll == ASSUME NEW these PROVE \A s \in Seq(these) : Kept(s, these) = s
<1> DEFINE T == {s \in Seq(these) : Kept(s, these) = s}
<1>1. <<>> \in T BY KeptOfNone
<1>2. ASSUME NEW s \in Seq(these), NEW x \in these, s \in T PROVE Append(s, x) \in T
  <2>1. Kept(s, these) = s BY <1>2
  <2>2. Append(s, x) \in Seq(these) OBVIOUS
  <2>3. Kept(Append(s, x), these) = Append(s, x) BY <2>1, KeptOfAppend
  <2> QED BY <2>2, <2>3
<1> HIDE DEF T
<1>3. Seq(these) \subseteq T BY <1>1, <1>2, SeqsByAppend
<1> QED BY <1>3 DEF T

(* Keeping fewer and fewer is keeping the fewest. *)
LEMMA KeptTwice == ASSUME NEW S, NEW these, NEW those, those \subseteq these
  PROVE  \A s \in Seq(S) : Kept(Kept(s, these), those) = Kept(s, those)
<1> DEFINE T == {s \in Seq(S) : Kept(Kept(s, these), those) = Kept(s, those)}
<1>1. <<>> \in T BY KeptOfNone
<1>2. ASSUME NEW s \in Seq(S), NEW x \in S, s \in T PROVE Append(s, x) \in T
  <2>1. PICK k : k = Kept(s, these) OBVIOUS
  <2>2. k \in Seq(S) /\ Kept(k, those) = Kept(s, those) BY <1>2, <2>1, KeptIsSeq
  <2>3. Kept(Append(s, x), these) = IF x \in these THEN Append(k, x) ELSE k BY <2>1, KeptOfAppend
  <2>4. Kept(Append(k, x), those) = IF x \in those THEN Append(Kept(k, those), x) ELSE Kept(k, those) BY <2>2, KeptOfAppend
  <2>5. Kept(Append(s, x), those) = IF x \in those THEN Append(Kept(s, those), x) ELSE Kept(s, those) BY KeptOfAppend
  <2>6. Append(s, x) \in Seq(S) OBVIOUS
  <2>7. Kept(Kept(Append(s, x), these), those) = Kept(Append(s, x), those) BY <2>2, <2>3, <2>4, <2>5
  <2> QED BY <2>6, <2>7
<1> HIDE DEF T
<1>3. Seq(S) \subseteq T BY <1>1, <1>2, SeqsByAppend
<1> QED BY <1>3 DEF T

(* Sets that agree on the elements of a sequence keep the same of it. *)
LEMMA KeptAlike == ASSUME NEW S, NEW these, NEW those
  PROVE  \A s \in Seq(S) : (\A i \in 1 .. Len(s) : s[i] \in these <=> s[i] \in those) => Kept(s, these) = Kept(s, those)
<1> DEFINE T == {s \in Seq(S) : (\A i \in 1 .. Len(s) : s[i] \in these <=> s[i] \in those) => Kept(s, these) = Kept(s, those)}
<1>1. <<>> \in T
  <2>1. <<>> \in Seq(S) OBVIOUS
  <2> QED BY <2>1, KeptOfNone
<1>2. ASSUME NEW s \in Seq(S), NEW x \in S, s \in T PROVE Append(s, x) \in T
  <2>1. PICK t, n : t = Append(s, x) /\ n = Len(s) OBVIOUS
  <2>2. t \in Seq(S) /\ Len(t) = n + 1 /\ n \in Nat /\ t[n + 1] = x /\ \A i \in 1 .. n : s[i] = t[i] BY <2>1
  <2>3. ASSUME \A i \in 1 .. Len(t) : t[i] \in these <=> t[i] \in those PROVE Kept(t, these) = Kept(t, those)
    <3>1. (x \in these <=> x \in those) /\ \A i \in 1 .. n : s[i] \in these <=> s[i] \in those BY <2>2, <2>3
    <3>2. Kept(s, these) = Kept(s, those) BY <3>1, <2>1, <1>2
    <3> QED BY <3>1, <3>2, <2>1, KeptOfAppend
  <2> QED BY <2>1, <2>2, <2>3
<1>3. Seq(S) \subseteq T
  <2> HIDE DEF T
  <2> QED BY <1>1, <1>2, SeqsByAppend
<1> QED BY <1>3

=============================================================================
