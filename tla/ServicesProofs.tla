---------------------------- MODULE ServicesProofs ----------------------------
(***************************************************************************)
(* Proofs about parts that Services puts together, each under the          *)
(* variables of the composition: the pacer and the breaker (C), the volumes*)
(* that are synced from ComicVine (V), the scraping jobs (S), the lists    *)
(* (L), the smart lists (E), the workflow (W) and the rule tree (R).  Each *)
(* property has an invariant of its own, a lemma for the initial state, one*)
(* for the steps and one for what the invariant gives; the theorems are at *)
(* the end.                                                                *)
(*                                                                         *)
(* FiltersProofs gives what the lists need (Kept...), and Least, that a set*)
(* of naturals that is not empty has a least member.                       *)
(***************************************************************************)
EXTENDS Services, FiltersProofs, FiniteSetTheorems

(* What the arithmetic on times needs. *)
ClockIsNatural == clock \in Nat /\ Hour \in Nat

(* prune finds where to cut: some prefix is all that is more than an hour old. *)
LEMMA SomeAreOld ==
  ASSUME ClockIsNatural, NEW s \in Seq(Nat)
  PROVE  \E n \in 0 .. Len(s) : C!AreOld(n, s)
<1> DEFINE young == {i \in 0 .. Len(s) - 1 : clock - s[i + 1] <= Hour}
<1>1. CASE young = {}
  <2>1. ASSUME NEW i \in 1 .. Len(s) PROVE clock - s[i] > Hour
    <3>1. i - 1 \in 0 .. Len(s) - 1 /\ (i - 1) + 1 = i OBVIOUS
    <3>2. i - 1 \notin young BY <1>1
    <3> QED BY <3>1, <3>2 DEF ClockIsNatural
  <2> QED BY <2>1 DEF C!AreOld
<1>2. CASE young # {}
  <2>0. young \subseteq Nat OBVIOUS
  <2>5. \E n \in young : \A m \in young : n <= m
    <3> HIDE DEF young
    <3> QED BY <1>2, <2>0, Least
  <2>1. PICK n \in young : \A m \in young : n <= m BY <2>5
  <2>2. ASSUME NEW i \in 1 .. n PROVE clock - s[i] > Hour
    <3>1. i - 1 \in 0 .. Len(s) - 1 /\ (i - 1) + 1 = i /\ i - 1 < n BY <2>1
    <3>2. i - 1 \notin young
      <4>1. \A m \in young : ~(m < n) BY <2>0, <2>1
      <4> HIDE DEF young
      <4> QED BY <3>1, <4>1
    <3> QED BY <3>1, <3>2 DEF ClockIsNatural
  <2>3. n \in 0 .. Len(s) /\ (n < Len(s) => clock - s[n + 1] <= Hour) BY <2>1
  <2> QED BY <2>2, <2>3 DEF C!AreOld
<1> QED BY <1>1, <1>2

(* ... and cuts there, for there is only one such place. *)
LEMMA PrunedCuts ==
  ASSUME ClockIsNatural, NEW s \in Seq(Nat), NEW n \in 0 .. Len(s), C!AreOld(n, s)
  PROVE  C!Pruned(s) = SubSeq(s, n + 1, Len(s))
<1> DEFINE m == CHOOSE k \in 0 .. Len(s) : C!AreOld(k, s)
<1>1. m \in 0 .. Len(s) /\ C!AreOld(m, s) OBVIOUS
<1>2. C!Pruned(s) = SubSeq(s, m + 1, Len(s)) BY DEF C!Pruned
<1> HIDE DEF m
<1>3. m = n
  <2>1. ~(m < n)
    <3>1. SUFFICES ASSUME m < n PROVE FALSE OBVIOUS
    <3>2. m + 1 \in 1 .. n /\ s[m + 1] \in Nat BY <1>1, <3>1
    <3>3. clock - s[m + 1] <= Hour BY <1>1, <3>1 DEF C!AreOld
    <3> QED BY <3>2, <3>3 DEF C!AreOld, ClockIsNatural
  <2>2. ~(n < m)
    <3>1. SUFFICES ASSUME n < m PROVE FALSE OBVIOUS
    <3>2. n + 1 \in 1 .. m /\ s[n + 1] \in Nat BY <1>1, <3>1
    <3>3. clock - s[n + 1] <= Hour BY <1>1, <3>1 DEF C!AreOld
    <3> QED BY <1>1, <3>2, <3>3 DEF C!AreOld, ClockIsNatural
  <2> QED BY <1>1, <2>1, <2>2
<1> QED BY <1>2, <1>3

(* Two cuts are one. *)
LEMMA CutTwice ==
  ASSUME NEW s \in Seq(Nat), NEW k \in 0 .. Len(s), NEW j \in 0 .. (Len(s) - k)
  PROVE  SubSeq(SubSeq(s, k + 1, Len(s)), j + 1, Len(s) - k) = SubSeq(s, k + j + 1, Len(s))
  OBVIOUS

(* t is what is left of s after requests more than an hour old were dropped. *)
CutOf(t, s) ==
  \E k \in 0 .. Len(s) : t = SubSeq(s, k + 1, Len(s)) /\ \A i \in 1 .. k : clock - s[i] > Hour

(* What an earlier prune has dropped makes no difference to a later one. *)
LEMMA PrunedOfCut ==
  ASSUME ClockIsNatural, NEW s \in Seq(Nat), NEW t, CutOf(t, s)
  PROVE  C!Pruned(t) = C!Pruned(s)
<1>1. PICK k \in 0 .. Len(s) : t = SubSeq(s, k + 1, Len(s)) /\ \A i \in 1 .. k : clock - s[i] > Hour
  BY DEF CutOf
<1>2. t \in Seq(Nat) /\ Len(t) = Len(s) - k /\ \A i \in 1 .. Len(t) : t[i] = s[i + k] BY <1>1
<1>3. PICK j \in 0 .. Len(t) : C!AreOld(j, t) BY <1>2, SomeAreOld
<1>4. C!Pruned(t) = SubSeq(t, j + 1, Len(t)) BY <1>2, <1>3, PrunedCuts
<1>5. SubSeq(t, j + 1, Len(t)) = SubSeq(s, k + j + 1, Len(s)) BY <1>1, <1>2, <1>3, CutTwice
<1>6. k + j \in 0 .. Len(s) BY <1>2, <1>3
<1>7. C!AreOld(k + j, s)
  <2>1. ASSUME NEW i \in 1 .. k + j PROVE clock - s[i] > Hour
    <3>1. CASE i <= k BY <1>1, <3>1
    <3>2. CASE i > k
      <4>1. i - k \in 1 .. j /\ i - k \in 1 .. Len(t) /\ (i - k) + k = i BY <1>2, <1>3, <3>2
      <4>2. t[i - k] = s[i] BY <1>2, <4>1
      <4> QED BY <1>3, <4>1, <4>2 DEF C!AreOld
    <3> QED BY <3>1, <3>2, <1>2, <1>3
  <2>2. ASSUME k + j < Len(s) PROVE clock - s[k + j + 1] <= Hour
    <3>1. j < Len(t) /\ j + 1 \in 1 .. Len(t) /\ (j + 1) + k = k + j + 1 BY <1>2, <1>3, <2>2
    <3>2. t[j + 1] = s[k + j + 1] BY <1>2, <3>1
    <3> QED BY <1>3, <3>1, <3>2 DEF C!AreOld
  <2> QED BY <2>1, <2>2 DEF C!AreOld
<1>8. C!Pruned(s) = SubSeq(s, k + j + 1, Len(s)) BY <1>6, <1>7, PrunedCuts
<1> QED BY <1>4, <1>5, <1>8

(* What prune returns. *)
LEMMA PrunedIsCut ==
  ASSUME ClockIsNatural, NEW s \in Seq(Nat)
  PROVE  CutOf(C!Pruned(s), s) /\ C!Pruned(s) \in Seq(Nat)
<1>1. PICK n \in 0 .. Len(s) : C!AreOld(n, s) BY SomeAreOld
<1>2. C!Pruned(s) = SubSeq(s, n + 1, Len(s)) BY <1>1, PrunedCuts
<1>3. SubSeq(s, n + 1, Len(s)) \in Seq(Nat) BY <1>1
<1>4. \A i \in 1 .. n : clock - s[i] > Hour BY <1>1 DEF C!AreOld
<1>5. CutOf(SubSeq(s, n + 1, Len(s)), s) BY <1>4 DEF CutOf
<1> QED BY <1>2, <1>3, <1>5

(* The counters that are stored, and the requests of the last hour. *)
PacerStored ==
  /\ pacer \in [burst : Nat, window : Nat, times : Seq(Nat)]
  /\ stored.pacer \in [burst : Nat, window : Nat, times : Seq(Nat)]
  /\ stored.pacer.burst = pacer.burst /\ stored.pacer.window = pacer.window
  /\ CutOf(pacer.times, stored.pacer.times)

(* What is stored of the breaker is enough to go on with it; a probe is out only when the
   pause is over. *)
CircuitStored ==
  /\ circuit \in [state : {"closed", "open", "halfOpen"}, backoff : Nat, until : Nat]
  /\ stored.circuit.open <=> circuit.state # "closed"
  /\ circuit.state # "closed" => /\ stored.circuit.until = circuit.until
                                 /\ stored.circuit.backoff = circuit.backoff
  /\ circuit.state = "halfOpen" => clock >= circuit.until

(* What a restart depends on. *)
StoredInv ==
  /\ clock \in Nat
  /\ stored = [pacer |-> stored.pacer, circuit |-> stored.circuit]
  /\ PacerStored /\ CircuitStored

(* What the invariant gives. *)
LEMMA StoredGives == ASSUME C!LimitAssumption, StoredInv PROVE C!RestartKeepsPauses
<1> DEFINE p == pacer  s == stored.pacer
<1>0. ClockIsNatural BY DEF ClockIsNatural, StoredInv, C!LimitAssumption
<1>1. /\ p \in [burst : Nat, window : Nat, times : Seq(Nat)]
      /\ s \in [burst : Nat, window : Nat, times : Seq(Nat)]
      /\ s.burst = p.burst /\ s.window = p.window
      /\ C!Pruned(p.times) = C!Pruned(s.times)
  BY <1>0, PrunedOfCut DEF StoredInv, PacerStored
<1>2. C!LoadedPacer = [pacer EXCEPT !.times = C!Pruned(@)]
  <2>1. C!LoadedPacer = [s EXCEPT !.times = C!Pruned(s.times)] BY DEF C!LoadedPacer
  <2> HIDE DEF p, s
  <2>2. [s EXCEPT !.times = C!Pruned(s.times)] = [p EXCEPT !.times = C!Pruned(p.times)] BY <1>1
  <2> QED BY <2>1, <2>2 DEF p
<1> QED BY <1>2 DEF StoredInv, CircuitStored, C!RestartKeepsPauses, C!LoadedCircuit

(* Nothing need be dropped. *)
LEMMA CutReflexive == ASSUME NEW s \in Seq(Nat) PROVE CutOf(s, s)
<1>1. s = SubSeq(s, 0 + 1, Len(s)) OBVIOUS
<1> QED BY <1>1 DEF CutOf

(* The client starts with an empty record, which is what is stored. *)
LEMMA StoredStarts == ASSUME C!LimitAssumption, C!Init PROVE StoredInv
<1>1. PacerStored
  <2>1. pacer.times = <<>> /\ stored.pacer = pacer BY DEF C!Init
  <2>2. CutOf(<<>>, <<>>)
    <3>1. <<>> \in Seq(Nat) OBVIOUS
    <3> QED BY <3>1, CutReflexive, Zenon
  <2> QED BY <2>1, <2>2 DEF C!Init, PacerStored
<1>2. CircuitStored BY DEF C!Init, CircuitStored, C!LimitAssumption
<1> QED BY <1>1, <1>2 DEF C!Init, StoredInv

(* A pause sets counters to zero, and stores them when it does. *)
LEMMA RestKeeps ==
  ASSUME C!LimitAssumption, StoredInv, NEW bg, C!Rest(bg), UNCHANGED <<clock, circuit>>
  PROVE  StoredInv'
<1>1. PICK q : q = C!Rested(bg) OBVIOUS
<1>2. /\ q \in [burst : Nat, window : Nat, times : Seq(Nat)]
      /\ q.times = pacer.times
      /\ pacer' = q
      /\ stored' = IF q = pacer THEN stored ELSE [stored EXCEPT !.pacer = q]
  <2>1. q = pacer \/ q = [pacer EXCEPT !.burst = 0, !.window = 0] \/ q = [pacer EXCEPT !.burst = 0]
    BY <1>1 DEF C!Rested
  <2>2. PICK p : p = pacer OBVIOUS
  <2>3. p \in [burst : Nat, window : Nat, times : Seq(Nat)] BY <2>2 DEF StoredInv, PacerStored
  <2>4. q = p \/ q = [p EXCEPT !.burst = 0, !.window = 0] \/ q = [p EXCEPT !.burst = 0]
    BY <2>1, <2>2, Zenon
  <2>5. q \in [burst : Nat, window : Nat, times : Seq(Nat)] /\ q.times = p.times
    <3>1. CASE q = p BY <2>3, <3>1
    <3>2. CASE q = [p EXCEPT !.burst = 0, !.window = 0]
      <4>1. PICK r : r = [p EXCEPT !.burst = 0] OBVIOUS
      <4>2. r \in [burst : Nat, window : Nat, times : Seq(Nat)] /\ r.times = p.times BY <2>3, <4>1
      <4>3. q = [r EXCEPT !.window = 0] BY <3>2, <4>1
      <4> QED BY <4>2, <4>3
    <3>3. CASE q = [p EXCEPT !.burst = 0] BY <2>3, <3>3
    <3> QED BY <2>4, <3>1, <3>2, <3>3
  <2> QED BY <1>1, <2>2, <2>5, Zenon DEF C!Rest
<1>3. CASE q = pacer
  <2>1. UNCHANGED <<pacer, stored>> BY <1>2, <1>3
  <2> QED BY <2>1 DEF StoredInv, PacerStored, CircuitStored, CutOf
<1>4. CASE q # pacer
  <2>1. stored'.pacer = q /\ stored'.circuit = stored.circuit
        /\ stored' = [pacer |-> stored'.pacer, circuit |-> stored'.circuit]
    BY <1>2, <1>4 DEF StoredInv
  <2>2. CutOf(q.times, q.times)'
    <3>1. q.times = SubSeq(q.times, 0 + 1, Len(q.times)) BY <1>2
    <3>2. 0 \in 0 .. Len(q.times) BY <1>2
    <3>3. \A i \in 1 .. 0 : clock' - q.times[i] > Hour OBVIOUS
    <3> QED BY <3>1, <3>2, <3>3 DEF CutOf
  <2>3. PacerStored' BY <1>2, <2>1, <2>2 DEF PacerStored
  <2>4. CircuitStored' BY <2>1 DEF StoredInv, CircuitStored
  <2> QED BY <2>1, <2>3, <2>4 DEF StoredInv
<1> QED BY <1>3, <1>4

(* An answer is counted, and moves the breaker; both are stored. *)
LEMMA AnswerKeeps ==
  ASSUME C!LimitAssumption, StoredInv, NEW c \in Caller,
         NEW next \in {C!Failed, C!Succeeded, circuit}, C!Answer(c, next)
  PROVE  StoredInv'
<1>0. clock \in Nat /\ clock' = clock /\ ClockIsNatural
  BY DEF C!Answer, StoredInv, ClockIsNatural, C!LimitAssumption
<1>1. PICK q : q = C!Recorded OBVIOUS
<1>2. q \in [burst : Nat, window : Nat, times : Seq(Nat)]
  <2>1. Append(pacer.times, clock) \in Seq(Nat) BY <1>0 DEF StoredInv, PacerStored
  <2>2. C!Pruned(Append(pacer.times, clock)) \in Seq(Nat) BY <2>1, <1>0, PrunedIsCut
  <2> QED BY <1>1, <2>2 DEF StoredInv, PacerStored, C!Recorded
<1>3. pacer' = q /\ stored'.pacer = q /\ circuit' = next
      /\ stored'.circuit = (IF next = circuit THEN stored.circuit ELSE C!Kept(next))
      /\ stored' = [pacer |-> stored'.pacer, circuit |-> stored'.circuit]
  BY <1>1 DEF C!Answer
<1>4. PacerStored'
  <2>1. CutOf(q.times, q.times)'
    <3>1. q.times = SubSeq(q.times, 0 + 1, Len(q.times)) BY <1>2
    <3>2. 0 \in 0 .. Len(q.times) BY <1>2
    <3>3. \A i \in 1 .. 0 : clock' - q.times[i] > Hour OBVIOUS
    <3> QED BY <3>1, <3>2, <3>3 DEF CutOf
  <2> QED BY <1>2, <1>3, <2>1 DEF PacerStored
<1>5. CircuitStored'
  <2>1. CASE next = circuit
    BY <1>0, <1>3, <2>1 DEF StoredInv, CircuitStored
  <2>2. CASE next # circuit
    <3>1. /\ next \in [state : {"closed", "open", "halfOpen"}, backoff : Nat, until : Nat]
          /\ next.state = "halfOpen" => next = circuit
      <4>1. CASE next = C!Failed
        <5>1. circuit.backoff \in Nat /\ MinBackoff \in Nat /\ MaxBackoff \in Nat
          BY DEF StoredInv, CircuitStored, C!LimitAssumption
        <5>2. \E b \in Nat : next = [state |-> "open", backoff |-> b, until |-> clock + b]
          BY <4>1, <5>1 DEF C!Failed, StoredInv, CircuitStored
        <5> QED BY <5>2, <1>0
      <4>2. CASE next = C!Succeeded
        BY <4>2 DEF C!Succeeded, StoredInv, CircuitStored, C!LimitAssumption
      <4> QED BY <2>2, <4>1, <4>2
    <3>2. stored'.circuit = [open |-> next.state # "closed", backoff |-> next.backoff, until |-> next.until]
      BY <1>3, <2>2 DEF C!Kept
    <3>3. stored'.circuit.open <=> next.state # "closed"
      <4>1. PICK b : b = (next.state # "closed") OBVIOUS
      <4>2. stored'.circuit = [open |-> b, backoff |-> next.backoff, until |-> next.until]
        BY <3>2, <4>1, Zenon
      <4>3. stored'.circuit.open = b BY <4>2
      <4> QED BY <4>1, <4>3, Zenon
    <3>4. stored'.circuit.until = next.until /\ stored'.circuit.backoff = next.backoff BY <3>2
    <3>5. next.state = "halfOpen" => clock' >= next.until
      BY <1>0, <2>2, <3>1
    <3> QED BY <1>3, <3>1, <3>3, <3>4, <3>5 DEF CircuitStored
  <2> QED BY <2>1, <2>2
<1> QED BY <1>0, <1>3, <1>4, <1>5 DEF StoredInv

(* What is more than an hour old stays so. *)
LEMMA LaterStillCut ==
  ASSUME ClockIsNatural, NEW s \in Seq(Nat), NEW t, CutOf(t, s), clock' \in Nat, clock' >= clock
  PROVE  CutOf(t, s)'
<1>1. PICK k \in 0 .. Len(s) : t = SubSeq(s, k + 1, Len(s)) /\ \A i \in 1 .. k : clock - s[i] > Hour
  BY DEF CutOf
<1>2. ASSUME NEW i \in 1 .. k PROVE clock' - s[i] > Hour
  <2>1. s[i] \in Nat /\ clock - s[i] > Hour BY <1>1
  <2> QED BY <2>1 DEF ClockIsNatural
<1> QED BY <1>1, <1>2 DEF CutOf

(* Every step keeps what a restart depends on. *)
LEMMA StoredStep == ASSUME C!LimitAssumption, StoredInv, [C!Next]_(C!vars) PROVE StoredInv'
<1>0. ClockIsNatural BY DEF StoredInv, ClockIsNatural, C!LimitAssumption
<1>1. ASSUME UNCHANGED C!vars PROVE StoredInv'
  BY <1>1 DEF C!vars, StoredInv, PacerStored, CircuitStored, CutOf
<1>2. ASSUME NEW c \in Caller, C!Ask(c) PROVE StoredInv'
  <2>1. /\ UNCHANGED <<clock, pacer, stored>>
        /\ circuit' = IF circuit.state = "open" THEN [circuit EXCEPT !.state = "halfOpen"] ELSE circuit
        /\ circuit.state = "open" => clock >= circuit.until
    BY <1>2 DEF C!Ask
  <2>2. PacerStored' BY <2>1 DEF StoredInv, PacerStored, CutOf
  <2>3. CircuitStored'
    <3>1. PICK d : d = circuit OBVIOUS
    <3>2. circuit' = IF d.state = "open" THEN [d EXCEPT !.state = "halfOpen"] ELSE d BY <2>1, <3>1
    <3>3. /\ circuit' \in [state : {"closed", "open", "halfOpen"}, backoff : Nat, until : Nat]
          /\ circuit'.until = d.until /\ circuit'.backoff = d.backoff
          /\ circuit'.state # "closed" <=> d.state # "closed"
          /\ circuit'.state = "halfOpen" => d.state \in {"open", "halfOpen"}
      BY <3>1, <3>2 DEF StoredInv, CircuitStored
    <3> QED BY <2>1, <3>1, <3>3 DEF StoredInv, CircuitStored
  <2> QED BY <2>1, <2>2, <2>3 DEF StoredInv
<1>3. ASSUME NEW c \in Caller, C!Send(c) \/ C!GiveUp(c) PROVE StoredInv'
  BY <1>3, RestKeeps DEF C!Send, C!GiveUp
<1>4. ASSUME NEW c \in Caller, NEW next \in {C!Failed, C!Succeeded, circuit}, C!Answer(c, next)
      PROVE  StoredInv'
  BY <1>4, AnswerKeeps
<1>5. ASSUME C!Status PROVE StoredInv'
  BY <1>5, RestKeeps DEF C!Status
<1>6. ASSUME C!Restart PROVE StoredInv'
  <2>1. pacer' = C!LoadedPacer /\ circuit' = C!LoadedCircuit /\ UNCHANGED <<clock, stored>>
    BY <1>6 DEF C!Restart
  <2>2. PacerStored'
    <3>1. PICK s : s = stored.pacer OBVIOUS
    <3>2. s \in [burst : Nat, window : Nat, times : Seq(Nat)] BY <3>1 DEF StoredInv, PacerStored
    <3>3. PICK u : u = C!Pruned(s.times) OBVIOUS
    <3>4. u \in Seq(Nat) /\ CutOf(u, s.times) BY <3>2, <3>3, <1>0, PrunedIsCut
    <3>5. pacer' = [s EXCEPT !.times = u] BY <2>1, <3>1, <3>3 DEF C!LoadedPacer
    <3>6. CutOf(u, s.times)' BY <2>1, <3>4 DEF CutOf
    <3>7. stored'.pacer = s BY <2>1, <3>1
    <3>8. pacer' \in [burst : Nat, window : Nat, times : Seq(Nat)]
          /\ pacer'.burst = s.burst /\ pacer'.window = s.window /\ pacer'.times = u
      BY <3>2, <3>4, <3>5
    <3> QED BY <3>2, <3>6, <3>7, <3>8 DEF PacerStored
  <2>3. CircuitStored' BY <2>1 DEF C!LoadedCircuit, StoredInv, CircuitStored, C!LimitAssumption
  <2> QED BY <2>1, <2>2, <2>3 DEF StoredInv
<1>7. ASSUME C!Tick PROVE StoredInv'
  <2>1. clock' = clock + 1 /\ UNCHANGED <<pacer, circuit, stored>> BY <1>7 DEF C!Tick
  <2>2. clock' \in Nat /\ clock' >= clock BY <2>1 DEF StoredInv
  <2>3. PacerStored'
    <3>1. CutOf(pacer.times, stored.pacer.times)'
      <4>1. PICK s, u : s = stored.pacer.times /\ u = pacer.times OBVIOUS
      <4>2. s \in Seq(Nat) /\ CutOf(u, s) BY <4>1 DEF StoredInv, PacerStored
      <4>3. CutOf(u, s)' BY <4>2, <2>2, <1>0, LaterStillCut
      <4> QED BY <2>1, <4>1, <4>3
    <3> QED BY <2>1, <3>1 DEF StoredInv, PacerStored
  <2>4. CircuitStored' BY <2>1, <2>2 DEF StoredInv, CircuitStored
  <2> QED BY <2>1, <2>2, <2>3, <2>4 DEF StoredInv
<1> QED BY <1>1, <1>2, <1>3, <1>4, <1>5, <1>6, <1>7 DEF C!Next

(* The requests on their way, and how many there can be. *)
UnderWay == {c \in Caller : call[c] = "sent"}
Callers == Cardinality(Caller)

(* The bound, with the types it needs. *)
CountInv ==
  /\ StoredInv
  /\ call \in [Caller -> {"idle", "waiting", "sent"}]
  /\ pacer.burst + Cardinality(UnderWay) < BurstSize + Callers
  /\ pacer.window + Cardinality(UnderWay) < WindowSize + Callers

(* The requests on their way are finitely many, and no more than the callers. *)
LEMMA OutFits ==
  ASSUME C!LimitAssumption
  PROVE  /\ IsFiniteSet(UnderWay) /\ Cardinality(UnderWay) \in Nat
         /\ Cardinality(UnderWay) <= Callers /\ Callers \in Nat
         /\ IsFiniteSet(UnderWay') /\ Cardinality(UnderWay)' \in Nat /\ Cardinality(UnderWay)' <= Callers
<1>1. IsFiniteSet(Caller) BY DEF C!LimitAssumption, C!IsFiniteSet, IsFiniteSet
<1>2. UnderWay \subseteq Caller /\ UnderWay' \subseteq Caller BY DEF UnderWay
<1>3. IsFiniteSet(UnderWay) /\ IsFiniteSet(UnderWay') BY <1>1, <1>2, FS_Subset
<1>4. Cardinality(UnderWay) <= Cardinality(Caller) /\ Cardinality(UnderWay') <= Cardinality(Caller)
  BY <1>1, <1>2, FS_Subset
<1>5. Cardinality(UnderWay) \in Nat /\ Cardinality(UnderWay') \in Nat /\ Cardinality(Caller) \in Nat
  BY <1>1, <1>3, FS_CardinalityType
<1> QED BY <1>3, <1>4, <1>5 DEF Callers

(* What the invariant gives. *)
LEMMA CountGives == ASSUME CountInv PROVE C!OvershootBounded
<1>1. \A T : C!Cardinality(T) = Cardinality(T) BY DEF C!Cardinality, Cardinality
<1> QED BY <1>1 DEF CountInv, C!OvershootBounded, UnderWay, Callers

(* The counters after a step, when no request is added to those on their way. *)
LEMMA NoMoreOut ==
  ASSUME C!LimitAssumption, CountInv, StoredInv', call' \in [Caller -> {"idle", "waiting", "sent"}],
         UnderWay' \subseteq UnderWay,
         pacer'.burst \in {pacer.burst, 0}, pacer'.window \in {pacer.window, 0}
  PROVE  CountInv'
<1>1. Cardinality(UnderWay') <= Cardinality(UnderWay) BY OutFits, FS_Subset
<1>2. pacer.burst \in Nat /\ pacer.window \in Nat BY DEF CountInv, StoredInv, PacerStored
<1>3. BurstSize \in Nat /\ WindowSize \in Nat /\ BurstSize > 0 /\ WindowSize > 0 BY DEF C!LimitAssumption
<1>4. PICK n, m : n = Cardinality(UnderWay) /\ m = Cardinality(UnderWay') OBVIOUS
<1>5. n \in Nat /\ m \in Nat /\ m <= n /\ n <= Callers /\ Callers \in Nat BY <1>1, <1>4, OutFits
<1>6. pacer.burst + n < BurstSize + Callers /\ pacer.window + n < WindowSize + Callers
  BY <1>4 DEF CountInv
<1>7. pacer'.burst + m < BurstSize + Callers /\ pacer'.window + m < WindowSize + Callers
  BY <1>2, <1>3, <1>5, <1>6
<1> QED BY <1>4, <1>7 DEF CountInv, Callers

(* A pause leaves a counter as it is, or sets it to zero. *)
LEMMA RestCounts ==
  ASSUME StoredInv, NEW bg, C!Rest(bg)
  PROVE  pacer'.burst \in {pacer.burst, 0} /\ pacer'.window \in {pacer.window, 0}
<1>1. PICK p : p = pacer OBVIOUS
<1>2. p \in [burst : Nat, window : Nat, times : Seq(Nat)] BY <1>1 DEF StoredInv, PacerStored
<1>3. pacer' = p \/ pacer' = [p EXCEPT !.burst = 0, !.window = 0] \/ pacer' = [p EXCEPT !.burst = 0]
  BY <1>1 DEF C!Rest, C!Rested
<1>4. CASE pacer' = p BY <1>1, <1>4
<1>5. CASE pacer' = [p EXCEPT !.burst = 0, !.window = 0]
  <2>1. PICK r : r = [p EXCEPT !.burst = 0] OBVIOUS
  <2>2. r \in [burst : Nat, window : Nat, times : Seq(Nat)] /\ r.burst = 0 BY <1>2, <2>1
  <2>3. pacer' = [r EXCEPT !.window = 0] BY <1>5, <2>1
  <2> QED BY <2>2, <2>3
<1>6. CASE pacer' = [p EXCEPT !.burst = 0] BY <1>1, <1>2, <1>6
<1> QED BY <1>3, <1>4, <1>5, <1>6

(* A request that is sent finds its counter below the limit, and its caller not on its way. *)
LEMMA SendCounts ==
  ASSUME C!LimitAssumption, CountInv, NEW c \in Caller, C!Send(c), StoredInv'
  PROVE  CountInv'
<1>1. PICK bg : C!Rest(bg) /\ C!MayGo(bg, C!Rested(bg)) BY DEF C!Send
<1>2. pacer'.burst < C!BurstLimit(bg) /\ pacer'.window < C!WindowLimit(bg) BY <1>1 DEF C!MayGo, C!Rest
<1>3. BurstSize \in Nat /\ WindowSize \in Nat /\ BurstSize > 0 /\ WindowSize > 0
      /\ BurstReserve \in Nat /\ WindowReserve \in Nat
  BY DEF C!LimitAssumption
<1>4. C!BurstLimit(bg) \in 0 .. BurstSize /\ C!WindowLimit(bg) \in 0 .. WindowSize
  BY <1>3 DEF C!BurstLimit, C!WindowLimit, C!Less
<1>5. pacer'.burst \in Nat /\ pacer'.window \in Nat BY DEF StoredInv, PacerStored
<1>6. call' \in [Caller -> {"idle", "waiting", "sent"}] BY DEF C!Send, CountInv
<1>7. PICK m : m = Cardinality(UnderWay') OBVIOUS
<1>8. m \in Nat /\ m <= Callers /\ Callers \in Nat BY <1>7, OutFits
<1>9. pacer'.burst + m < BurstSize + Callers /\ pacer'.window + m < WindowSize + Callers
  BY <1>2, <1>3, <1>4, <1>5, <1>8
<1> QED BY <1>6, <1>7, <1>9 DEF CountInv, Callers

(* An answer moves a request from those on their way to those counted. *)
LEMMA AnswerCounts ==
  ASSUME C!LimitAssumption, CountInv, NEW c \in Caller, NEW next, C!Answer(c, next), StoredInv'
  PROVE  CountInv'
<1>1. c \in UnderWay BY DEF C!Answer, UnderWay
<1>2. UnderWay' = UnderWay \ {c} BY DEF C!Answer, UnderWay, CountInv
<1>3. call' \in [Caller -> {"idle", "waiting", "sent"}] BY DEF C!Answer, CountInv
<1>4. pacer'.burst = pacer.burst + 1 /\ pacer'.window = pacer.window + 1 BY DEF C!Answer, C!Recorded
<1>5. PICK n, m : n = Cardinality(UnderWay) /\ m = Cardinality(UnderWay') OBVIOUS
<1>6. m = n - 1 BY <1>1, <1>2, <1>5, OutFits, FS_RemoveElement
<1>7. n \in Nat /\ Callers \in Nat BY <1>5, OutFits
<1>8. pacer.burst + n < BurstSize + Callers /\ pacer.window + n < WindowSize + Callers
      /\ pacer.burst \in Nat /\ pacer.window \in Nat /\ BurstSize \in Nat /\ WindowSize \in Nat
  BY <1>5 DEF CountInv, StoredInv, PacerStored, C!LimitAssumption
<1>9. pacer'.burst + m < BurstSize + Callers /\ pacer'.window + m < WindowSize + Callers
  BY <1>4, <1>6, <1>7, <1>8
<1> QED BY <1>3, <1>5, <1>9 DEF CountInv, Callers

(* Nothing is counted or on its way at first. *)
LEMMA CountStarts == ASSUME C!LimitAssumption, C!Init PROVE CountInv
<1>1. StoredInv BY StoredStarts
<1>2. UnderWay = {} /\ pacer.burst = 0 /\ pacer.window = 0 BY DEF C!Init, UnderWay
<1>3. Cardinality(UnderWay) = 0 BY <1>2, FS_EmptySet
<1>4. Callers \in Nat /\ BurstSize \in Nat /\ WindowSize \in Nat /\ BurstSize > 0 /\ WindowSize > 0
  BY OutFits DEF C!LimitAssumption
<1> QED BY <1>1, <1>2, <1>3, <1>4 DEF CountInv, C!Init, Callers

(* Every step keeps the bound. *)
LEMMA CountStep == ASSUME C!LimitAssumption, CountInv, [C!Next]_(C!vars) PROVE CountInv'
<1>0. StoredInv /\ StoredInv' BY StoredStep DEF CountInv
<1>1. ASSUME UNCHANGED C!vars PROVE CountInv'
  BY <1>0, <1>1 DEF C!vars, CountInv, UnderWay, Callers
<1>2. ASSUME NEW c \in Caller, C!Ask(c) PROVE CountInv'
  <2>1. UnderWay' \subseteq UnderWay BY <1>2 DEF C!Ask, UnderWay, CountInv
  <2>2. call' \in [Caller -> {"idle", "waiting", "sent"}] /\ pacer' = pacer BY <1>2 DEF C!Ask, CountInv
  <2> QED BY <1>0, <2>1, <2>2, NoMoreOut
<1>3. ASSUME NEW c \in Caller, C!Send(c) PROVE CountInv' BY <1>0, <1>3, SendCounts
<1>4. ASSUME NEW c \in Caller, C!GiveUp(c) PROVE CountInv'
  <2>1. UnderWay' \subseteq UnderWay BY <1>4 DEF C!GiveUp, UnderWay, CountInv
  <2>2. call' \in [Caller -> {"idle", "waiting", "sent"}] BY <1>4 DEF C!GiveUp, CountInv
  <2>3. pacer'.burst \in {pacer.burst, 0} /\ pacer'.window \in {pacer.window, 0}
    BY <1>0, <1>4, RestCounts DEF C!GiveUp
  <2> QED BY <1>0, <2>1, <2>2, <2>3, NoMoreOut
<1>5. ASSUME NEW c \in Caller, NEW next \in {C!Failed, C!Succeeded, circuit}, C!Answer(c, next)
      PROVE  CountInv'
  BY <1>0, <1>5, AnswerCounts
<1>6. ASSUME C!Status PROVE CountInv'
  <2>1. PICK bg \in BOOLEAN : C!Rest(bg) BY <1>6 DEF C!Status
  <2>2. UnderWay' = UnderWay /\ call' = call BY <1>6 DEF C!Status, UnderWay
  <2>3. pacer'.burst \in {pacer.burst, 0} /\ pacer'.window \in {pacer.window, 0}
    BY <1>0, <2>1, RestCounts
  <2> QED BY <1>0, <2>2, <2>3, NoMoreOut DEF CountInv
<1>7. ASSUME C!Restart PROVE CountInv'
  <2>1. call' = [c \in Caller |-> "idle"] /\ pacer' = C!LoadedPacer BY <1>7 DEF C!Restart
  <2>2. UnderWay' = {} BY <2>1 DEF UnderWay
  <2>3. pacer'.burst = pacer.burst /\ pacer'.window = pacer.window
    <3>1. PICK s, u : s = stored.pacer /\ pacer' = [s EXCEPT !.times = u] BY <2>1 DEF C!LoadedPacer
    <3> QED BY <1>0, <3>1 DEF StoredInv, PacerStored
  <2> QED BY <1>0, <2>1, <2>2, <2>3, NoMoreOut
<1>8. ASSUME C!Tick PROVE CountInv' BY <1>0, <1>8 DEF C!Tick, CountInv, UnderWay, Callers
<1> QED BY <1>1, <1>2, <1>3, <1>4, <1>5, <1>6, <1>7, <1>8 DEF C!Next

--------------------------------------------------------------------------------
(* Between 0 and d there is no other multiple of d. *)
LEMMA OneMultiple ==
  ASSUME NEW d \in Nat, d > 0, NEW m \in Int, 0 <= d * m, d * m < d
  PROVE  m = 0
<1>1. m >= 0 \/ m <= -1 OBVIOUS
<1>2. m >= 1 => d * m >= d * 1 OBVIOUS
<1>3. m <= -1 => d * m <= d * (-1) OBVIOUS
<1> QED BY <1>1, <1>2, <1>3

(* A multiple of d is followed by the next. *)
LEMMA NextMultiple ==
  ASSUME NEW d \in Nat, d > 0, NEW x \in Nat, x % d = 0
  PROVE  (x + d) % d = 0
<1>1. x = d * (x \div d) + (x % d) OBVIOUS
<1>2. x + d = d * ((x + d) \div d) + ((x + d) % d) OBVIOUS
<1>3. PICK q, r, s : q = x \div d /\ r = (x + d) \div d /\ s = (x + d) % d OBVIOUS
<1>4. q \in Int /\ r \in Int /\ s \in Int /\ 0 <= s /\ s < d BY <1>3
<1>5. d * (q + 1 - r) = s
  <2>1. x = d * q /\ x + d = d * r + s BY <1>1, <1>2, <1>3
  <2> QED BY <2>1, <1>4
<1>6. q + 1 - r = 0 BY <1>4, <1>5, OneMultiple
<1>7. s = 0 BY <1>4, <1>5, <1>6
<1> QED BY <1>3, <1>7

(* The issues of a volume, and the page of a listing l that follows what was read, a. *)
IssuesOf(v) == {i \in Issue : Home[i] = v}

PageFrom(l, a, d) == SubSeq(l, Len(a) + 1, V!Min({Len(l), Len(a) + d}))

(* What a is with one page more. *)
Extends(T, l, a, d) ==
  LET p == PageFrom(l, a, d) IN
  /\ a \o p \in Seq(T)
  /\ (Len(a) <= Len(l) /\ a = SubSeq(l, 1, Len(a))) =>
        /\ Len(a \o p) <= Len(l)
        /\ a \o p = SubSeq(l, 1, Len(a \o p))
        /\ Len(a \o p) = Len(a) + d \/ Len(a \o p) = Len(l)

(* What was read, with the page that follows it, is what was read of a longer beginning. *)
LEMMA PageProps ==
  ASSUME NEW T, NEW l \in Seq(T), NEW a \in Seq(T), NEW d \in Nat, d > 0
  PROVE  Extends(T, l, a, d)
<1>0. PICK p : p = PageFrom(l, a, d) OBVIOUS
<1>1. PICK n : n = V!Min({Len(l), Len(a) + d}) OBVIOUS
<1>2. n = IF Len(l) <= Len(a) + d THEN Len(l) ELSE Len(a) + d
  <2>1. \E x \in {Len(l), Len(a) + d} : \A y \in {Len(l), Len(a) + d} : x <= y OBVIOUS
  <2>2. n \in {Len(l), Len(a) + d} /\ \A y \in {Len(l), Len(a) + d} : n <= y BY <1>1, <2>1 DEF V!Min
  <2> QED BY <2>2
<1>3. n \in Nat /\ n <= Len(l) BY <1>2
<1>4. p = SubSeq(l, Len(a) + 1, n) BY <1>0, <1>1 DEF PageFrom
<1>5. /\ p \in Seq(T) /\ Len(p) \in Nat
      /\ Len(a) <= n => Len(p) = n - Len(a)
  <2>0. PICK m : m = Len(a) + 1 OBVIOUS
  <2>1. \A i \in m .. n : l[i] \in T BY <1>3, <2>0
  <2>2. m \in Int /\ n \in Int BY <1>3, <2>0
  <2>3. /\ SubSeq(l, m, n) \in Seq(T)
        /\ Len(SubSeq(l, m, n)) = IF m <= n THEN n - m + 1 ELSE 0
    BY <2>1, <2>2, SubSeqProperties, Zenon
  <2>4. p = SubSeq(l, m, n) BY <1>4, <2>0
  <2>5. p \in Seq(T) /\ Len(p) = IF m <= n THEN n - m + 1 ELSE 0 BY <2>3, <2>4, Zenon
  <2>6. Len(p) \in Nat BY <2>5
  <2>7. ASSUME Len(a) <= n PROVE Len(p) = n - Len(a)
    <3>1. Len(a) \in Nat OBVIOUS
    <3> QED BY <2>0, <2>5, <2>7, <3>1, <1>3
  <2> QED BY <2>5, <2>6, <2>7
<1>6. a \o p \in Seq(T) /\ Len(a \o p) = Len(a) + Len(p) BY <1>5, ConcatProperties
<1>7. ASSUME Len(a) <= Len(l), a = SubSeq(l, 1, Len(a))
      PROVE  /\ Len(a \o p) <= Len(l)
             /\ a \o p = SubSeq(l, 1, Len(a \o p))
             /\ Len(a \o p) = Len(a) + d \/ Len(a \o p) = Len(l)
  <2>1. Len(a) \in Nat /\ Len(a) <= n /\ Len(l) \in Nat BY <1>2, <1>7, <1>3
  <2>2. Len(a \o p) = n
    <3>1. PICK c, b, e : c = Len(a \o p) /\ b = Len(a) /\ e = Len(p) OBVIOUS
    <3>2. c = b + e /\ e = n - b BY <1>5, <1>6, <2>1, <3>1, Zenon
    <3>3. b \in Nat /\ n \in Nat BY <2>1, <3>1, <1>3
    <3>4. c = n BY <3>2, <3>3
    <3> QED BY <3>1, <3>4
  <2>3. SubSeq(l, 1, Len(a)) \o SubSeq(l, Len(a) + 1, n) = SubSeq(l, 1, n)
    <3>1. Len(a) \in 1 - 1 .. Len(l) /\ n \in Len(a) .. Len(l) /\ 1 \in 1 .. Len(l) + 1 BY <1>3, <1>7, <2>1
    <3> QED BY <3>1, ConcatAdjacentSubSeq
  <2>4. a \o p = SubSeq(l, 1, n) BY <1>4, <1>7, <2>3
  <2> QED BY <1>2, <1>3, <2>2, <2>4
<1> QED BY <1>0, <1>6, <1>7, Zenon DEF Extends

(* Whose row says that its issues are synced. *)
Claims(v) == volumes[v] \in V!VolumeRow /\ volumes[v].issuesSynced

(* ComicVine lists under a volume only issues of it. *)
RemoteOK ==
  /\ remote \in [Volume -> Seq(Issue) \union {Absent}]
  /\ \A v \in Volume : V!Listed(v) \in Seq(IssuesOf(v))

(* The cache has an issue under its own volume, or not at all. *)
CacheOK ==
  /\ volumes \in [Volume -> V!VolumeRow \union {Absent}]
  /\ cached \in [Issue -> Volume \union {None}]
  /\ \A i \in Issue : cached[i] \in {None, Home[i]}
  /\ stable \in [Volume -> SUBSET Issue]
  /\ \A v \in Volume : stable[v] \subseteq IssuesOf(v)

(* What was fetched of the list of a volume that nothing was taken out of. *)
ReadsThrough(v) ==
  /\ Len(sync.all) % PageSize = 0
  /\ Len(sync.all) <= Len(V!Listed(v)) /\ sync.all = SubSeq(V!Listed(v), 1, Len(sync.all))
  /\ stable[v] \subseteq V!ToSet(V!Listed(v))

(* A volume of which the cache has all that stayed listed. *)
HasIssues(v) == \A i \in stable[v] : cached[i] = v

(* Where the sync is: the volume it works on is cached and not said to be complete. *)
SyncOK ==
  /\ sync = [at |-> sync.at, queue |-> sync.queue, volume |-> sync.volume, read |-> sync.read, all |-> sync.all]
  /\ \A v \in sync.queue : v \in Volume /\ volumes[v] \in V!VolumeRow
  /\ sync.at \in {"volume", "issues", "store", "mark"} =>
        sync.volume \in Volume /\ volumes[sync.volume] \in V!VolumeRow
  /\ sync.at \in {"issues", "store", "mark"} =>
        /\ ~volumes[sync.volume].issuesSynced
        /\ sync.all \in Seq(IssuesOf(sync.volume))
  /\ sync.at = "volume" => sync.all = <<>>

(* What the sync has read is the beginning of the listing, of which it then has all that
   stayed listed, unless ComicVine took an issue out between. *)
ListOK ==
  LET v == sync.volume IN
  v \notin torn =>
     /\ sync.at = "issues" /\ sync.all # <<>> => ReadsThrough(v)
     /\ sync.at = "store" => stable[v] \subseteq V!ToSet(sync.all)
     /\ sync.at = "mark" => HasIssues(v)

(* What a scraping job has read of a volume. *)
ScrapingOK ==
  scraping # None =>
     /\ scraping = [volume |-> scraping.volume, all |-> scraping.all]
     /\ scraping.volume \in Volume /\ scraping.all \in Seq(IssuesOf(scraping.volume))

(* What a row says of its issues is true. *)
ClaimsHold == \A v \in Volume : Claims(v) /\ v \notin torn => HasIssues(v)

(* The invariant that makes a synced volume complete. *)
SyncedInv == RemoteOK /\ CacheOK /\ SyncOK /\ ListOK /\ ScrapingOK /\ ClaimsHold

(* That nothing is listed is told apart from every listing. *)
ListingsApart == Absent \notin Seq(Issue)

(* What the invariant gives. *)
LEMMA SyncedGives == ASSUME SyncedInv PROVE V!SyncedIsComplete
  BY DEF SyncedInv, CacheOK, ClaimsHold, Claims, HasIssues, V!SyncedIsComplete

(* Nothing is cached at first. *)
LEMMA SyncedStarts == ASSUME V!VolumeAssumption, ListingsApart, V!Init PROVE SyncedInv
<1>1. RemoteOK
  <2>1. \A v \in Volume : Listing[v] \in Seq(IssuesOf(v)) BY DEF V!VolumeAssumption, IssuesOf
  <2>2. Listing \in [Volume -> Seq(Issue)] BY DEF V!VolumeAssumption
  <2>3. \A v \in Volume : Listing[v] # Absent BY <2>2 DEF ListingsApart
  <2>4. remote = Listing BY DEF V!Init
  <2> QED BY <2>1, <2>2, <2>3, <2>4 DEF RemoteOK, V!Listed
<1>2. CacheOK BY DEF V!Init, CacheOK
<1>3. SyncOK /\ ListOK BY DEF V!Init, SyncOK, ListOK, V!Idle
<1>4. ScrapingOK BY DEF V!Init, ScrapingOK
<1>5. ClaimsHold BY DEF V!Init, ClaimsHold, HasIssues
<1> QED BY <1>1, <1>2, <1>3, <1>4, <1>5 DEF SyncedInv

(* A step that changes the cache and nothing else of what is said of issues. *)
LEMMA UpsertedKeeps ==
  ASSUME CacheOK, NEW v \in Volume, NEW all \in Seq(IssuesOf(v)), cached' = V!Upserted(v, all)
  PROVE  /\ cached' \in [Issue -> Volume \union {None}]
         /\ \A i \in Issue : cached'[i] \in {None, Home[i]}
         /\ \A i \in Issue : cached[i] = Home[i] => cached'[i] = Home[i]
         /\ \A i \in V!ToSet(all) : cached'[i] = v
<1>1. V!ToSet(all) \subseteq IssuesOf(v) BY DEF V!ToSet
<1> QED BY <1>1 DEF CacheOK, V!Upserted, IssuesOf

(* What is listed when a page comes, and what is known of the page. *)
LEMMA PageOf ==
  ASSUME V!VolumeAssumption, RemoteOK, NEW v \in Volume, NEW a \in Seq(IssuesOf(v))
  PROVE  /\ a \o V!Page(v, a) \in Seq(IssuesOf(v))
         /\ (Len(a) <= Len(V!Listed(v)) /\ a = SubSeq(V!Listed(v), 1, Len(a)))
               => /\ Len(a \o V!Page(v, a)) <= Len(V!Listed(v))
                  /\ a \o V!Page(v, a) = SubSeq(V!Listed(v), 1, Len(a \o V!Page(v, a)))
                  /\ \/ Len(a \o V!Page(v, a)) = Len(a) + PageSize
                     \/ Len(a \o V!Page(v, a)) = Len(V!Listed(v))
<1>1. PICK l, p : l = V!Listed(v) /\ p = V!Page(v, a) OBVIOUS
<1>2. l \in Seq(IssuesOf(v)) /\ PageSize \in Nat /\ PageSize > 0 BY <1>1 DEF RemoteOK, V!VolumeAssumption
<1>3. p = PageFrom(l, a, PageSize) BY <1>1, Zenon DEF V!Page, PageFrom
<1>4. /\ a \o p \in Seq(IssuesOf(v))
      /\ (Len(a) <= Len(l) /\ a = SubSeq(l, 1, Len(a)))
            => /\ Len(a \o p) <= Len(l)
               /\ a \o p = SubSeq(l, 1, Len(a \o p))
               /\ Len(a \o p) = Len(a) + PageSize \/ Len(a \o p) = Len(l)
  <2>1. Extends(IssuesOf(v), l, a, PageSize) BY <1>2, PageProps
  <2> QED BY <2>1, <1>3, Zenon DEF Extends
<1> QED BY <1>1, <1>4, Zenon

(* Choosing the next volume, or ending. *)
LEMMA SyncChooses ==
  ASSUME SyncedInv, V!Choose
  PROVE  SyncedInv'
<1>1. UNCHANGED <<remote, volumes, cached, scraping, stable, torn>> BY DEF V!Choose
<1>2. SyncOK' /\ (sync'.at = "issues" => sync'.all = <<>>) /\ sync'.at \in {"volume", "issues", "choose", "done"}
  <2>1. CASE sync.queue = {}
    <3>1. PICK a : a = IF V!Pending = {} THEN "done" ELSE "choose" OBVIOUS
    <3>2. sync' = [V!Idle EXCEPT !.at = a, !.queue = V!Pending] BY <2>1, <3>1, Zenon DEF V!Choose
    <3>3. sync' = [at |-> a, queue |-> V!Pending, volume |-> None, read |-> Absent, all |-> <<>>]
      BY <3>2 DEF V!Idle
    <3>4. \A v \in V!Pending : v \in Volume /\ volumes[v] \in V!VolumeRow
      BY DEF V!Pending, SyncedInv, CacheOK
    <3>5. sync'.at = a /\ sync'.queue = V!Pending BY <3>3
    <3>6. sync' = [at |-> sync'.at, queue |-> sync'.queue, volume |-> sync'.volume,
                   read |-> sync'.read, all |-> sync'.all]
      BY <3>3
    <3> QED BY <1>1, <3>1, <3>4, <3>5, <3>6 DEF SyncOK
  <2>2. CASE sync.queue # {}
    <3>1. PICK v \in sync.queue, a \in {"volume", "issues", "choose"} :
             /\ sync' = [at |-> a, queue |-> sync.queue \ {v}, volume |-> v, read |-> volumes[v], all |-> <<>>]
             /\ a = "issues" => ~volumes[v].issuesSynced
      BY <2>2 DEF V!Choose
    <3>2. v \in Volume /\ volumes[v] \in V!VolumeRow BY DEF SyncedInv, SyncOK
    <3>3. sync'.at = a /\ sync'.queue = sync.queue \ {v} /\ sync'.volume = v /\ sync'.all = <<>> BY <3>1
    <3>4. sync' = [at |-> sync'.at, queue |-> sync'.queue, volume |-> sync'.volume,
                   read |-> sync'.read, all |-> sync'.all]
      BY <3>1
    <3>5. \A u \in sync.queue : u \in Volume /\ volumes[u] \in V!VolumeRow BY DEF SyncedInv, SyncOK
    <3> QED BY <1>1, <3>1, <3>2, <3>3, <3>4, <3>5 DEF SyncOK
  <2> QED BY <2>1, <2>2
<1>3. ListOK' BY <1>2 DEF ListOK
<1> QED BY <1>1, <1>2, <1>3
    DEF SyncedInv, RemoteOK, V!Listed, CacheOK, ScrapingOK, ClaimsHold, Claims, HasIssues

(* Starting a sync. *)
LEMMA SyncStarts ==
  ASSUME SyncedInv, V!Start
  PROVE  SyncedInv'
<1>1. UNCHANGED <<remote, cached, scraping, stable, torn>> BY DEF V!Start
<1>2. volumes' = V!Ensured BY DEF V!Start
<1>3. /\ volumes' \in [Volume -> V!VolumeRow \union {Absent}]
      /\ \A v \in Volume : Claims(v)' => Claims(v)
  BY <1>2 DEF V!Ensured, SyncedInv, CacheOK, Claims, V!VolumeRow
<1>4. sync' = [at |-> "choose", queue |-> {}, volume |-> None, read |-> Absent, all |-> <<>>]
  BY DEF V!Start, V!Idle
<1>5. SyncOK' /\ ListOK' BY <1>4 DEF SyncOK, ListOK
<1>6. RemoteOK' /\ CacheOK' /\ ScrapingOK'
  BY <1>1, <1>3 DEF SyncedInv, RemoteOK, V!Listed, CacheOK, ScrapingOK
<1>7. ClaimsHold' BY <1>1, <1>3 DEF SyncedInv, ClaimsHold, HasIssues
<1> QED BY <1>5, <1>6, <1>7 DEF SyncedInv

(* A step that writes the row of the volume that is synced, and lets go of it. *)
LEMMA RowWritten ==
  ASSUME SyncedInv, NEW rec \in V!VolumeRow, sync.volume \in Volume,
         volumes' = [volumes EXCEPT ![sync.volume] = rec],
         UNCHANGED <<remote, cached, scraping, stable, torn>>
  PROVE  /\ RemoteOK' /\ CacheOK' /\ ScrapingOK'
         /\ \A u \in Volume : volumes[u] \in V!VolumeRow => volumes'[u] \in V!VolumeRow
         /\ \A u \in Volume \ {sync.volume} : volumes'[u] = volumes[u]
         /\ volumes'[sync.volume] = rec
  BY DEF SyncedInv, RemoteOK, V!Listed, CacheOK, ScrapingOK

(* Giving up on a volume, at whatever point. *)
LEMMA SyncFails ==
  ASSUME SyncedInv, V!Fail
  PROVE  SyncedInv'
<1>1. UNCHANGED <<remote, cached, scraping, stable, torn>> BY DEF V!Fail
<1>2. sync.volume \in Volume /\ volumes[sync.volume] \in V!VolumeRow BY DEF V!Fail, SyncedInv, SyncOK
<1>3. PICK rec : /\ volumes' = [volumes EXCEPT ![sync.volume] = rec]
                 /\ rec \in V!VolumeRow /\ rec.issuesSynced = volumes[sync.volume].issuesSynced
  <2>1. PICK v, r : v = sync.volume /\ r = volumes[v] OBVIOUS
  <2>2. CASE volumes' = volumes
    <3>1. volumes' = [volumes EXCEPT ![v] = r] BY <2>1, <2>2, <1>2 DEF SyncedInv, CacheOK
    <3> QED BY <3>1, <2>1, <1>2
  <2>3. CASE volumes' = V!Marked(v, "failed")
    <3>1. volumes' = [volumes EXCEPT ![v] = [r EXCEPT !.status = "failed"]]
      BY <2>1, <2>3 DEF V!Marked
    <3>2. [r EXCEPT !.status = "failed"] \in V!VolumeRow
          /\ [r EXCEPT !.status = "failed"].issuesSynced = r.issuesSynced
      BY <2>1, <1>2 DEF V!VolumeRow
    <3> QED BY <3>1, <3>2, <2>1
  <2> QED BY <2>1, <2>2, <2>3 DEF V!Fail
<1>4. /\ RemoteOK' /\ CacheOK' /\ ScrapingOK'
      /\ \A u \in Volume : volumes[u] \in V!VolumeRow => volumes'[u] \in V!VolumeRow
      /\ \A u \in Volume \ {sync.volume} : volumes'[u] = volumes[u]
      /\ volumes'[sync.volume] = rec
  BY <1>1, <1>2, <1>3, RowWritten
<1>5. sync' = [sync EXCEPT !.at = "choose"] BY DEF V!Fail
<1>6. SyncOK' /\ ListOK'
  <2>1. PICK s : s = sync OBVIOUS
  <2>2. s = [at |-> s.at, queue |-> s.queue, volume |-> s.volume, read |-> s.read, all |-> s.all]
    BY <2>1 DEF SyncedInv, SyncOK
  <2>3. sync' = [at |-> "choose", queue |-> s.queue, volume |-> s.volume, read |-> s.read, all |-> s.all]
    BY <1>5, <2>1, <2>2
  <2>4. sync'.at = "choose" /\ sync'.queue = s.queue BY <2>3
  <2>5. sync' = [at |-> sync'.at, queue |-> sync'.queue, volume |-> sync'.volume,
                 read |-> sync'.read, all |-> sync'.all]
    BY <2>3
  <2> QED BY <1>4, <2>1, <2>4, <2>5 DEF SyncedInv, SyncOK, ListOK
<1>7. ClaimsHold'
  <2>1. ASSUME NEW u \in Volume PROVE Claims(u)' => Claims(u)
    BY <1>2, <1>3, <1>4 DEF Claims
  <2> QED BY <1>1, <2>1 DEF SyncedInv, ClaimsHold, HasIssues
<1> QED BY <1>4, <1>6, <1>7 DEF SyncedInv

(* The record of the sync after a step that changes where it is. *)
LEMMA SyncAt ==
  ASSUME SyncOK, NEW a, sync' = [sync EXCEPT !.at = a]
  PROVE  /\ sync'.at = a /\ sync'.queue = sync.queue /\ sync'.volume = sync.volume /\ sync'.all = sync.all
         /\ sync' = [at |-> sync'.at, queue |-> sync'.queue, volume |-> sync'.volume,
                     read |-> sync'.read, all |-> sync'.all]
<1>1. PICK s : s = sync OBVIOUS
<1>2. s = [at |-> s.at, queue |-> s.queue, volume |-> s.volume, read |-> s.read, all |-> s.all]
  BY <1>1 DEF SyncOK
<1>3. sync' = [at |-> a, queue |-> s.queue, volume |-> s.volume, read |-> s.read, all |-> s.all]
  BY <1>1, <1>2
<1> QED BY <1>1, <1>3

(* The answer about a volume: a row that says complete no more than it did. *)
LEMMA VolumeFetched ==
  ASSUME SyncedInv, V!FetchVolume
  PROVE  SyncedInv'
<1>0. sync.at = "volume" /\ sync.volume \in Volume /\ volumes[sync.volume] \in V!VolumeRow /\ SyncOK
      /\ sync.all = <<>>
  BY DEF V!FetchVolume, SyncedInv, SyncOK
<1>1. UNCHANGED <<remote, cached, scraping, stable, torn>> BY DEF V!FetchVolume
<1>2. PICK rec : /\ rec \in V!VolumeRow /\ volumes' = [volumes EXCEPT ![sync.volume] = rec]
                 /\ rec.issuesSynced => volumes[sync.volume].issuesSynced
                 /\ remote[sync.volume] # Absent => ~rec.issuesSynced
  <2>1. PICK v, r : v = sync.volume /\ r = volumes[v] OBVIOUS
  <2>2. CASE remote[v] = Absent
    <3>1. PICK rec : rec = [r EXCEPT !.status = "missing"] OBVIOUS
    <3>2. rec \in V!VolumeRow /\ rec.issuesSynced = r.issuesSynced
      BY <2>1, <3>1, <1>0 DEF V!VolumeRow
    <3>3. volumes' = [volumes EXCEPT ![v] = rec] BY <2>1, <2>2, <3>1 DEF V!FetchVolume, V!Marked
    <3> QED BY <3>2, <3>3, <2>1, <2>2
  <2>3. CASE remote[v] # Absent
    <3>1. PICK rec : rec = [status |-> "synced", issuesSynced |-> FALSE] OBVIOUS
    <3>2. rec \in V!VolumeRow /\ ~rec.issuesSynced BY <3>1 DEF V!VolumeRow
    <3>3. volumes' = [volumes EXCEPT ![v] = rec] BY <2>1, <2>3, <3>1 DEF V!FetchVolume
    <3> QED BY <3>2, <3>3, <2>1
  <2> QED BY <2>2, <2>3
<1>2a. PICK a : /\ sync' = [sync EXCEPT !.at = a] /\ a \in {"choose", "issues"}
                /\ a = "issues" => remote[sync.volume] # Absent
  BY DEF V!FetchVolume
<1>3. /\ RemoteOK' /\ CacheOK' /\ ScrapingOK'
      /\ \A u \in Volume : volumes[u] \in V!VolumeRow => volumes'[u] \in V!VolumeRow
      /\ \A u \in Volume \ {sync.volume} : volumes'[u] = volumes[u]
      /\ volumes'[sync.volume] = rec
  BY <1>0, <1>1, <1>2, RowWritten
<1>4. /\ sync'.at = a /\ sync'.queue = sync.queue /\ sync'.volume = sync.volume /\ sync'.all = sync.all
      /\ sync' = [at |-> sync'.at, queue |-> sync'.queue, volume |-> sync'.volume,
                  read |-> sync'.read, all |-> sync'.all]
  BY <1>0, <1>2a, SyncAt
<1>5. SyncOK'
  <2>1. sync'.all \in Seq(IssuesOf(sync.volume)) BY <1>0, <1>4
  <2>2. IssuesOf(sync.volume)' = IssuesOf(sync.volume) BY <1>4 DEF IssuesOf
  <2>3. a = "issues" => ~volumes'[sync'.volume].issuesSynced BY <1>2, <1>2a, <1>3, <1>4
  <2>4. \A u \in sync'.queue : u \in Volume /\ volumes'[u] \in V!VolumeRow BY <1>0, <1>3, <1>4 DEF SyncOK
  <2>5. sync'.volume \in Volume /\ volumes'[sync'.volume] \in V!VolumeRow BY <1>0, <1>2, <1>3, <1>4
  <2> QED BY <1>2, <1>2a, <1>4, <2>1, <2>2, <2>3, <2>4, <2>5 DEF SyncOK
<1>6. ListOK' BY <1>0, <1>2a, <1>4 DEF ListOK
<1>7. ClaimsHold'
  <2>1. ASSUME NEW u \in Volume PROVE Claims(u)' => Claims(u)
    BY <1>0, <1>2, <1>3 DEF Claims
  <2> QED BY <1>1, <2>1 DEF SyncedInv, ClaimsHold, HasIssues
<1> QED BY <1>3, <1>5, <1>6, <1>7 DEF SyncedInv

(* A page of issues, the last of which gives the whole listing. *)
LEMMA PageFetched ==
  ASSUME V!VolumeAssumption, SyncedInv, V!FetchPage
  PROVE  SyncedInv'
<1> DEFINE v == sync.volume
           all == sync.all \o V!Page(v, sync.all)
<1>0. /\ v \in Volume /\ volumes[v] \in V!VolumeRow /\ ~volumes[v].issuesSynced
      /\ sync.all \in Seq(IssuesOf(v)) /\ RemoteOK /\ CacheOK /\ SyncOK
  BY DEF V!FetchPage, SyncedInv, SyncOK
<1>1. /\ sync.at = "issues"
      /\ stable' = IF sync.all = <<>> THEN [stable EXCEPT ![v] = V!ToSet(V!Listed(v))] ELSE stable
      /\ torn' = IF sync.all = <<>> THEN torn \ {v} ELSE torn
      /\ sync' = [sync EXCEPT !.all = all, !.at = IF V!LastPage(v, all) THEN "store" ELSE "issues"]
      /\ UNCHANGED <<remote, volumes, cached, scraping>>
  BY DEF V!FetchPage
<1>2. /\ all \in Seq(IssuesOf(v))
      /\ (Len(sync.all) <= Len(V!Listed(v)) /\ sync.all = SubSeq(V!Listed(v), 1, Len(sync.all)))
            => /\ Len(all) <= Len(V!Listed(v))
               /\ all = SubSeq(V!Listed(v), 1, Len(all))
               /\ Len(all) = Len(sync.all) + PageSize \/ Len(all) = Len(V!Listed(v))
  BY <1>0, PageOf
<1>3. PICK w, b : w = v /\ b = all OBVIOUS
<1>4. V!Listed(w) \in Seq(IssuesOf(w)) /\ V!Listed(w)' = V!Listed(w) BY <1>0, <1>1, <1>3 DEF RemoteOK, V!Listed
<1>5. PICK a : a = IF V!LastPage(w, b) THEN "store" ELSE "issues" OBVIOUS
<1>6. /\ sync'.at = a /\ sync'.queue = sync.queue /\ sync'.volume = w /\ sync'.all = b
      /\ sync' = [at |-> sync'.at, queue |-> sync'.queue, volume |-> sync'.volume,
                  read |-> sync'.read, all |-> sync'.all]
  <2>1. PICK s : s = sync OBVIOUS
  <2>2. s = [at |-> s.at, queue |-> s.queue, volume |-> s.volume, read |-> s.read, all |-> s.all]
    BY <2>1, <1>0 DEF SyncOK
  <2>3. sync' = [s EXCEPT !.all = b, !.at = a] BY <1>1, <1>3, <1>5, <2>1, Zenon
  <2>4. sync' = [at |-> a, queue |-> s.queue, volume |-> s.volume, read |-> s.read, all |-> b]
    <3>1. PICK z : z = [s EXCEPT !.all = b] OBVIOUS
    <3>2. z = [at |-> s.at, queue |-> s.queue, volume |-> s.volume, read |-> s.read, all |-> b]
      BY <2>2, <3>1
    <3>3. sync' = [z EXCEPT !.at = a] BY <2>3, <3>1
    <3> QED BY <3>2, <3>3
  <2> QED BY <2>1, <2>4, <1>3
<1>7. SyncOK'
  BY <1>0, <1>1, <1>2, <1>3, <1>5, <1>6 DEF SyncOK, IssuesOf
<1>8. V!ToSet(V!Listed(w)) \subseteq IssuesOf(w) BY <1>4 DEF V!ToSet
<1>9. RemoteOK' /\ CacheOK' /\ ScrapingOK'
  <2>1. IssuesOf(w) \subseteq Issue BY DEF IssuesOf
  <2>2. stable' \in [Volume -> SUBSET Issue] /\ \A u \in Volume : stable'[u] \subseteq IssuesOf(u)
    BY <1>0, <1>1, <1>3, <1>8, <2>1 DEF CacheOK
  <2>3. IssuesOf(w)' = IssuesOf(w) BY DEF IssuesOf
  <2> QED BY <1>0, <1>1, <2>2 DEF SyncedInv, RemoteOK, CacheOK, ScrapingOK, V!Listed, IssuesOf
<1>10. ClaimsHold'
  <2>1. ASSUME NEW u \in Volume, Claims(u)', u \notin torn' PROVE HasIssues(u)'
    <3>1. u # w BY <2>1, <1>0, <1>1, <1>3 DEF Claims
    <3>2. Claims(u) /\ u \notin torn /\ stable'[u] = stable[u]
      BY <2>1, <3>1, <1>0, <1>1, <1>3 DEF Claims, CacheOK
    <3> QED BY <3>2, <1>1 DEF SyncedInv, ClaimsHold, HasIssues
  <2> QED BY <2>1 DEF ClaimsHold
<1>11. ListOK'
  <2>1. SUFFICES ASSUME w \notin torn'
                 PROVE  /\ a = "issues" /\ b # <<>> => ReadsThrough(w)'
                        /\ a = "store" => stable'[w] \subseteq V!ToSet(b)
    BY <1>5, <1>6 DEF ListOK
  <2>2. /\ Len(sync.all) % PageSize = 0
        /\ Len(sync.all) <= Len(V!Listed(w)) /\ sync.all = SubSeq(V!Listed(w), 1, Len(sync.all))
        /\ stable'[w] \subseteq V!ToSet(V!Listed(w))
    <3>1. CASE sync.all = <<>>
      <4>1. stable'[w] = V!ToSet(V!Listed(w)) BY <3>1, <1>0, <1>1, <1>3 DEF CacheOK
      <4>2. Len(sync.all) = 0 /\ 0 % PageSize = 0 BY <3>1 DEF V!VolumeAssumption
      <4>3. sync.all = SubSeq(V!Listed(w), 1, 0) BY <3>1
      <4> QED BY <4>1, <4>2, <4>3, <1>4
    <3>2. CASE sync.all # <<>>
      <4>1. w \notin torn /\ stable' = stable BY <2>1, <3>2, <1>1
      <4>2. ReadsThrough(w) BY <3>2, <4>1, <1>1, <1>3 DEF SyncedInv, ListOK
      <4> QED BY <4>1, <4>2 DEF ReadsThrough
    <3> QED BY <3>1, <3>2
  <2>3. /\ Len(b) <= Len(V!Listed(w)) /\ b = SubSeq(V!Listed(w), 1, Len(b))
        /\ Len(b) = Len(sync.all) + PageSize \/ Len(b) = Len(V!Listed(w))
    BY <1>2, <1>3, <2>2
  <2>4. PageSize \in Nat /\ PageSize > 0 /\ Len(sync.all) \in Nat BY <1>0 DEF V!VolumeAssumption
  <2>5. (Len(sync.all) + PageSize) % PageSize = 0 BY <2>2, <2>4, NextMultiple
  <2>6. a = "store" => stable'[w] \subseteq V!ToSet(b)
    <3>1. SUFFICES ASSUME V!LastPage(w, b) PROVE stable'[w] \subseteq V!ToSet(b) BY <1>5
    <3>2. Len(b) = Len(V!Listed(w))
      <4>1. PICK x, y, z : x = Len(b) /\ y = Len(V!Listed(w)) /\ z = Len(sync.all) + PageSize OBVIOUS
      <4>2. x \in Nat /\ y \in Nat
        <5>1. b \in Seq(IssuesOf(w)) /\ V!Listed(w) \in Seq(IssuesOf(w)) BY <1>2, <1>3, <1>4
        <5> QED BY <4>1, <5>1, LenProperties
      <4>3. x <= y /\ (x = z \/ x = y) /\ z % PageSize = 0 BY <4>1, <2>3, <2>5, Zenon
      <4>4. x >= y \/ x % PageSize # 0 BY <3>1, <4>1, Zenon DEF V!LastPage
      <4>5. CASE x = z BY <4>2, <4>3, <4>4, <4>5, <4>1
      <4> QED BY <4>1, <4>3, <4>5
    <3>3. b = V!Listed(w) BY <3>2, <2>3, <1>4, SubSeqFull
    <3> QED BY <3>3, <2>2
  <2>7. a = "issues" => ReadsThrough(w)'
    <3>1. SUFFICES ASSUME ~V!LastPage(w, b) PROVE ReadsThrough(w)' BY <1>5
    <3>2. Len(b) % PageSize = 0 BY <3>1 DEF V!LastPage
    <3> QED BY <3>2, <2>2, <2>3, <1>4, <1>6 DEF ReadsThrough
  <2> QED BY <2>6, <2>7
<1> QED BY <1>7, <1>9, <1>10, <1>11 DEF SyncedInv

(* The issues of the listing are cached. *)
LEMMA ListStored ==
  ASSUME SyncedInv, V!Store
  PROVE  SyncedInv'
<1>0. /\ sync.at = "store" /\ sync.volume \in Volume /\ ~volumes[sync.volume].issuesSynced
      /\ sync.all \in Seq(IssuesOf(sync.volume)) /\ CacheOK /\ SyncOK
  BY DEF V!Store, SyncedInv, SyncOK
<1>1. cached' = V!Upserted(sync.volume, sync.all) /\ UNCHANGED <<remote, volumes, scraping, stable, torn>>
  BY DEF V!Store
<1>2. /\ cached' \in [Issue -> Volume \union {None}]
      /\ \A i \in Issue : cached'[i] \in {None, Home[i]}
      /\ \A i \in Issue : cached[i] = Home[i] => cached'[i] = Home[i]
      /\ \A i \in V!ToSet(sync.all) : cached'[i] = sync.volume
  BY <1>0, <1>1, UpsertedKeeps
<1>3. /\ sync'.at = "mark" /\ sync'.queue = sync.queue /\ sync'.volume = sync.volume /\ sync'.all = sync.all
      /\ sync' = [at |-> sync'.at, queue |-> sync'.queue, volume |-> sync'.volume,
                  read |-> sync'.read, all |-> sync'.all]
  BY <1>0, SyncAt DEF V!Store
<1>4. RemoteOK' /\ CacheOK' /\ ScrapingOK'
  BY <1>1, <1>2 DEF SyncedInv, RemoteOK, CacheOK, ScrapingOK, V!Listed, IssuesOf
<1>5. SyncOK' BY <1>0, <1>1, <1>3 DEF SyncOK, IssuesOf
<1>6. ListOK' BY <1>0, <1>1, <1>2, <1>3 DEF SyncedInv, ListOK, HasIssues
<1>7. ClaimsHold' BY <1>1, <1>2 DEF SyncedInv, ClaimsHold, Claims, HasIssues, CacheOK, IssuesOf
<1> QED BY <1>4, <1>5, <1>6, <1>7 DEF SyncedInv

(* Only then is the volume said to be complete. *)
LEMMA VolumeMarked ==
  ASSUME SyncedInv, V!MarkSynced
  PROVE  SyncedInv'
<1>0. /\ sync.at = "mark" /\ sync.volume \in Volume /\ volumes[sync.volume] \in V!VolumeRow
      /\ SyncOK
  BY DEF V!MarkSynced, SyncedInv, SyncOK
<1>1. UNCHANGED <<remote, cached, scraping, stable, torn>> BY DEF V!MarkSynced
<1>2. PICK rec : rec \in V!VolumeRow /\ volumes' = [volumes EXCEPT ![sync.volume] = rec]
  <2>1. PICK v, r : v = sync.volume /\ r = volumes[v] OBVIOUS
  <2>2. PICK rec : rec = [r EXCEPT !.issuesSynced = TRUE] OBVIOUS
  <2>3. rec \in V!VolumeRow BY <2>1, <2>2, <1>0 DEF V!VolumeRow
  <2>4. volumes' = [volumes EXCEPT ![v] = rec] BY <2>1, <2>2 DEF V!MarkSynced
  <2> QED BY <2>1, <2>3, <2>4
<1>3. /\ RemoteOK' /\ CacheOK' /\ ScrapingOK'
      /\ \A u \in Volume : volumes[u] \in V!VolumeRow => volumes'[u] \in V!VolumeRow
      /\ \A u \in Volume \ {sync.volume} : volumes'[u] = volumes[u]
      /\ volumes'[sync.volume] = rec
  BY <1>0, <1>1, <1>2, RowWritten
<1>4. /\ sync'.at = "choose" /\ sync'.queue = sync.queue
      /\ sync' = [at |-> sync'.at, queue |-> sync'.queue, volume |-> sync'.volume,
                  read |-> sync'.read, all |-> sync'.all]
  BY <1>0, SyncAt DEF V!MarkSynced
<1>5. SyncOK' BY <1>0, <1>3, <1>4 DEF SyncOK
<1>6. ListOK' BY <1>4 DEF ListOK
<1>7. ClaimsHold'
  <2>1. ASSUME NEW u \in Volume, Claims(u)', u \notin torn' PROVE HasIssues(u)'
    <3>1. CASE u = sync.volume BY <3>1, <2>1, <1>0, <1>1 DEF SyncedInv, ListOK, HasIssues
    <3>2. CASE u # sync.volume
      BY <3>2, <2>1, <1>1, <1>3 DEF SyncedInv, ClaimsHold, Claims, HasIssues
    <3> QED BY <3>1, <3>2
  <2> QED BY <2>1 DEF ClaimsHold
<1> QED BY <1>3, <1>5, <1>6, <1>7 DEF SyncedInv

(* The server stops, and what was under way is forgotten. *)
LEMMA SyncRestarts ==
  ASSUME SyncedInv, V!Restart
  PROVE  SyncedInv'
<1>1. /\ sync' = [at |-> "idle", queue |-> {}, volume |-> None, read |-> Absent, all |-> <<>>]
      /\ scraping' = None /\ UNCHANGED <<remote, volumes, cached, stable, torn>>
  BY DEF V!Restart, V!Idle
<1>2. SyncOK' /\ ListOK' /\ ScrapingOK' BY <1>1 DEF SyncOK, ListOK, ScrapingOK
<1> QED BY <1>1, <1>2 DEF SyncedInv, RemoteOK, V!Listed, CacheOK, ClaimsHold, Claims, HasIssues

(* A scraping job starts to read a volume, or fails. *)
LEMMA ScraperStarts ==
  ASSUME SyncedInv, NEW v, (v \in Volume /\ V!Scrape(v)) \/ V!ScrapeFails
  PROVE  SyncedInv'
<1>1. UNCHANGED <<remote, volumes, cached, sync, stable, torn>> BY DEF V!Scrape, V!ScrapeFails
<1>2. ScrapingOK'
  <2>1. CASE v \in Volume /\ V!Scrape(v)
    <3>1. scraping' = [volume |-> v, all |-> <<>>] BY <2>1 DEF V!Scrape
    <3>2. scraping'.volume = v /\ scraping'.all = <<>>
          /\ scraping' = [volume |-> scraping'.volume, all |-> scraping'.all]
      BY <3>1
    <3>3. <<>> \in Seq(IssuesOf(v)) /\ IssuesOf(v)' = IssuesOf(v) BY DEF IssuesOf
    <3>4. scraping'.volume \in Volume /\ scraping'.all \in Seq(IssuesOf(v)) BY <2>1, <3>2, <3>3
    <3>5. IssuesOf(scraping.volume)' = IssuesOf(v) BY <3>2 DEF IssuesOf
    <3> QED BY <3>2, <3>4, <3>5 DEF ScrapingOK
  <2>2. CASE V!ScrapeFails BY <2>2 DEF V!ScrapeFails, ScrapingOK
  <2> QED BY <2>1, <2>2
<1>3. SyncOK' BY <1>1 DEF SyncedInv, SyncOK, IssuesOf
<1>4. ListOK' BY <1>1 DEF SyncedInv, ListOK, ReadsThrough, HasIssues, V!Listed
<1> QED BY <1>1, <1>2, <1>3, <1>4 DEF SyncedInv, RemoteOK, V!Listed, CacheOK, IssuesOf, ClaimsHold, Claims, HasIssues

(* A page that a scraping job reads, and what it caches in the end. *)
LEMMA ScraperReads ==
  ASSUME V!VolumeAssumption, SyncedInv, V!ScrapePage
  PROVE  SyncedInv'
<1>0. /\ scraping # None /\ scraping = [volume |-> scraping.volume, all |-> scraping.all]
      /\ scraping.volume \in Volume /\ scraping.all \in Seq(IssuesOf(scraping.volume))
      /\ RemoteOK /\ CacheOK
  BY DEF V!ScrapePage, SyncedInv, ScrapingOK
<1>1. PICK v, all : v = scraping.volume /\ all = scraping.all \o V!Page(v, scraping.all) OBVIOUS
<1>2. all \in Seq(IssuesOf(v)) /\ v \in Volume BY <1>0, <1>1, PageOf
<1>3. UNCHANGED <<remote, volumes, sync, stable, torn>> BY DEF V!ScrapePage
<1>4. cached' = cached \/ cached' = V!Upserted(v, all) BY <1>1 DEF V!ScrapePage
<1>5. /\ cached' \in [Issue -> Volume \union {None}]
      /\ \A i \in Issue : cached'[i] \in {None, Home[i]}
      /\ \A i \in Issue : cached[i] = Home[i] => cached'[i] = Home[i]
  <2>1. CASE cached' = cached BY <2>1, <1>0 DEF CacheOK
  <2>2. CASE cached' = V!Upserted(v, all) BY <2>2, <1>0, <1>2, UpsertedKeeps
  <2> QED BY <1>4, <2>1, <2>2
<1>6. ScrapingOK'
  <2>1. scraping' = None \/ scraping' = [scraping EXCEPT !.all = all] BY <1>1 DEF V!ScrapePage
  <2>2. CASE scraping' = [scraping EXCEPT !.all = all]
    <3>1. PICK s : s = scraping OBVIOUS
    <3>2. s = [volume |-> s.volume, all |-> s.all] BY <3>1, <1>0
    <3>3. scraping' = [volume |-> s.volume, all |-> all] BY <2>2, <3>1, <3>2
    <3>4. scraping'.volume = v /\ scraping'.all = all
          /\ scraping' = [volume |-> scraping'.volume, all |-> scraping'.all]
      BY <3>1, <3>3, <1>1
    <3> QED BY <3>4, <1>2 DEF ScrapingOK, IssuesOf
  <2> QED BY <2>1, <2>2 DEF ScrapingOK
<1>7. RemoteOK' /\ CacheOK' BY <1>0, <1>3, <1>5 DEF RemoteOK, CacheOK, V!Listed, IssuesOf
<1>8. \A u \in Volume : HasIssues(u) => HasIssues(u)'
  BY <1>0, <1>3, <1>5 DEF CacheOK, HasIssues, IssuesOf
<1>9. SyncOK' BY <1>3 DEF SyncedInv, SyncOK, IssuesOf
<1>10. ListOK'
  BY <1>3, <1>8 DEF SyncedInv, SyncOK, ListOK, ReadsThrough, V!Listed
<1>11. ClaimsHold' BY <1>3, <1>8 DEF SyncedInv, ClaimsHold, Claims
<1> QED BY <1>6, <1>7, <1>9, <1>10, <1>11 DEF SyncedInv

(* ComicVine adds an issue, takes one out, or drops the volume. *)
LEMMA RemoteChanges ==
  ASSUME V!VolumeAssumption, ListingsApart, SyncedInv, V!Change
  PROVE  SyncedInv'
<1>0. RemoteOK /\ CacheOK /\ UNCHANGED <<volumes, cached, sync, scraping, stable>>
  BY DEF V!Change, SyncedInv
<1>a. PICK v \in Volume : \E l :
         /\ remote[v] # Absent /\ remote' = [remote EXCEPT ![v] = l]
         /\ \/ /\ \E i \in Issue : Home[i] = v /\ l = Append(remote[v], i)
               /\ UNCHANGED torn
            \/ (\E n \in DOMAIN remote[v] : l = V!RemoveAt(remote[v], n)) /\ V!TakenOut(v)
            \/ l = Absent /\ V!TakenOut(v)
  BY DEF V!Change
<1>1. PICK l :
         /\ remote[v] # Absent /\ remote' = [remote EXCEPT ![v] = l]
         /\ \/ /\ \E i \in Issue : Home[i] = v /\ l = Append(remote[v], i)
               /\ UNCHANGED torn
            \/ (\E n \in DOMAIN remote[v] : l = V!RemoveAt(remote[v], n)) /\ V!TakenOut(v)
            \/ l = Absent /\ V!TakenOut(v)
  BY <1>a
<1>2. PICK r : r = remote[v] OBVIOUS
<1>3. r \in Seq(IssuesOf(v)) BY <1>0, <1>1, <1>2 DEF RemoteOK, V!Listed
<1>4. l \in Seq(IssuesOf(v)) \/ l = Absent
  <2>1. ASSUME NEW i \in Issue, Home[i] = v, l = Append(r, i) PROVE l \in Seq(IssuesOf(v))
    <3>1. i \in IssuesOf(v) BY <2>1 DEF IssuesOf
    <3> QED BY <3>1, <2>1, <1>3
  <2>2. ASSUME NEW n \in DOMAIN r, l = V!RemoveAt(r, n) PROVE l \in Seq(IssuesOf(v))
    <3>1. n \in 1 .. Len(r) BY <1>3
    <3>2. SubSeq(r, 1, n - 1) \in Seq(IssuesOf(v)) /\ SubSeq(r, n + 1, Len(r)) \in Seq(IssuesOf(v))
      BY <3>1, <1>3
    <3> QED BY <3>2, <2>2, ConcatProperties DEF V!RemoveAt
  <2> QED BY <1>1, <1>2, <2>1, <2>2
<1>5. Seq(IssuesOf(v)) \subseteq Seq(Issue)
  <2>1. IssuesOf(v) \subseteq Issue BY DEF IssuesOf
  <2> QED BY <2>1, SeqMonotonic
<1>6. RemoteOK'
  <2>1. remote' \in [Volume -> Seq(Issue) \union {Absent}] BY <1>0, <1>1, <1>4, <1>5 DEF RemoteOK
  <2>2. ASSUME NEW u \in Volume PROVE V!Listed(u)' \in Seq(IssuesOf(u))
    <3>1. CASE u = v BY <3>1, <1>0, <1>1, <1>4 DEF RemoteOK, V!Listed
    <3>2. CASE u # v BY <3>2, <1>0, <1>1 DEF RemoteOK, V!Listed
    <3> QED BY <3>1, <3>2
  <2> QED BY <2>1, <2>2 DEF RemoteOK, IssuesOf
<1>7. CacheOK' /\ ScrapingOK' BY <1>0 DEF SyncedInv, CacheOK, ScrapingOK, IssuesOf
<1>8. SyncOK' BY <1>0 DEF SyncedInv, SyncOK, IssuesOf
<1>9. torn \subseteq torn' BY <1>1 DEF V!TakenOut
<1>10. ClaimsHold' BY <1>0, <1>9 DEF SyncedInv, ClaimsHold, Claims, HasIssues
<1>11. ListOK'
  <2>1. ASSUME sync.volume \notin torn', sync.at = "issues", sync.all # <<>> PROVE ReadsThrough(sync.volume)'
    <3>1. ReadsThrough(sync.volume) /\ sync.volume \in Volume
      BY <2>1, <1>9 DEF SyncedInv, ListOK, SyncOK
    <3>2. CASE sync.volume # v
      <4>1. V!Listed(sync.volume)' = V!Listed(sync.volume) BY <3>1, <3>2, <1>0, <1>1 DEF RemoteOK, V!Listed
      <4> QED BY <3>1, <4>1, <1>0 DEF ReadsThrough
    <3>3. CASE sync.volume = v
      <4>1. PICK i \in Issue : Home[i] = v /\ l = Append(r, i)
        BY <2>1, <3>3, <1>1, <1>2 DEF V!TakenOut
      <4>2. V!Listed(v) = r BY <1>1, <1>2 DEF V!Listed
      <4>3. i \in IssuesOf(v) BY <4>1 DEF IssuesOf
      <4>4. l \in Seq(IssuesOf(v)) /\ Len(l) = Len(r) + 1 /\ \A n \in 1 .. Len(r) : l[n] = r[n]
        BY <4>1, <4>3, <1>3
      <4>5. V!Listed(v)' = l BY <4>4, <1>0, <1>1, <1>5 DEF RemoteOK, V!Listed, ListingsApart
      <4>6. V!ToSet(r) \subseteq V!ToSet(l) BY <4>4, <1>3 DEF V!ToSet
      <4>7. PICK k : k = Len(sync.all) OBVIOUS
      <4>8. k \in Nat /\ k <= Len(r) /\ sync.all = SubSeq(r, 1, k)
        BY <3>1, <3>3, <4>2, <4>7, <2>1 DEF ReadsThrough, SyncedInv, SyncOK
      <4>9. SubSeq(l, 1, k) = SubSeq(r, 1, k) BY <4>4, <4>8, <1>3
      <4>10. k <= Len(l) BY <4>4, <4>8, <1>3
      <4> QED BY <3>1, <3>3, <4>2, <4>5, <4>6, <4>7, <4>8, <4>9, <4>10, <1>0 DEF ReadsThrough
    <3> QED BY <3>2, <3>3
  <2> QED BY <2>1, <1>0, <1>9 DEF SyncedInv, ListOK, HasIssues
<1> QED BY <1>6, <1>7, <1>8, <1>10, <1>11 DEF SyncedInv

(* Every step keeps the invariant. *)
LEMMA SyncedStep ==
  ASSUME V!VolumeAssumption, ListingsApart, SyncedInv, [V!Next]_(V!vars)
  PROVE  SyncedInv'
<1>1. ASSUME UNCHANGED V!vars PROVE SyncedInv'
  BY <1>1 DEF V!vars, SyncedInv, RemoteOK, V!Listed, CacheOK, IssuesOf, SyncOK, ListOK, ReadsThrough, HasIssues,
         ScrapingOK, ClaimsHold, Claims
<1>2. ASSUME (\E v \in Volume : V!Scrape(v)) \/ V!ScrapeFails PROVE SyncedInv' BY <1>2, ScraperStarts
<1> QED BY <1>1, <1>2, RemoteChanges, SyncStarts, SyncChooses, SyncFails, VolumeFetched, PageFetched, ListStored,
           VolumeMarked, SyncRestarts, ScraperReads DEF V!Next

--------------------------------------------------------------------------------
(* A set of numbers up to n has a greatest. *)
LEMMA MaxIn ==
  ASSUME NEW n \in Nat, NEW T, T \subseteq 1 .. n, T # {}
  PROVE  S!Max(T) \in T
<1> DEFINE U == {n - x : x \in T}
<1>1. U \subseteq Nat /\ U # {}
  <2>1. \A x \in T : n - x \in Nat OBVIOUS
  <2>2. PICK x : x \in T OBVIOUS
  <2>3. n - x \in U BY <2>2
  <2> QED BY <2>1, <2>3
<1>2. \E u \in U : \A w \in U : u <= w
  <2> HIDE DEF U
  <2> QED BY <1>1, Least
<1>3. PICK x \in T : \A y \in T : n - x <= n - y BY <1>2
<1>4. \A y \in T : x >= y BY <1>3
<1> QED BY <1>4 DEF S!Max

(* The types, and that a running job has a number. *)
JobsOK ==
  /\ book \in [Scraped -> S!Fields]
  /\ rows \in [S!Job -> [Scraped -> S!Result \union {"none"}]]
  /\ tidying \subseteq S!Job \X Scraped
  /\ jobs \in 0 .. MaxJobs
  /\ outcome \in [Scraped -> S!Outcome]
  /\ job \in S!Running \union {None} /\ (job # None => jobs \in 1 .. MaxJobs)
  /\ pass \in S!Rechecking \union {None}
  /\ request \in S!Answering \union {None}
  /\ settled \subseteq Scraped

(* A book with a review that is about to be deleted. *)
Tidied(b) == \E j \in S!Job : <<j, b>> \in tidying

(* A book that is settled. *)
Rests(b) ==
  /\ job # None => b \notin job.todo
  /\ pass # None => b \notin pass.todo
  /\ book[b].identity => outcome[b] \in {"suggested", "dismissed"}
  /\ S!PendingJobs(b) = {} \/ Tidied(b)
  /\ \A j \in S!Job : <<j, b>> \in tidying => rows[j][b] # "pending"

(* The invariant that keeps what is settled. *)
SettledInv == JobsOK /\ \A b \in settled : Rests(b)

(* The newest of some jobs is one of them, and the re-check only when there is no other. *)
LEMMA NewestIn ==
  ASSUME S!ScrapingAssumption, NEW js, js \subseteq S!Job, js # {}
  PROVE  /\ S!Newest(js) \in js
         /\ S!Newest(js) = Recheck => js = {Recheck}
<1>1. CASE js \ {Recheck} = {} BY <1>1 DEF S!Newest
<1>2. CASE js \ {Recheck} # {}
  <2>1. js \ {Recheck} \subseteq 1 .. MaxJobs BY DEF S!Job
  <2>2. S!Max(js \ {Recheck}) \in js \ {Recheck} BY <1>2, <2>1, MaxIn DEF S!ScrapingAssumption
  <2> QED BY <1>2, <2>2 DEF S!Newest
<1> QED BY <1>1, <1>2

(* What the invariant gives. *)
LEMMA SettledGives == ASSUME SettledInv PROVE S!SettledStaysSettled
  BY DEF SettledInv, Rests, Tidied, S!SettledStaysSettled, S!Shown

(* Nothing is settled at first. *)
LEMMA SettledStarts == ASSUME S!ScrapingAssumption, S!Init PROVE SettledInv
<1>1. JobsOK BY DEF S!Init, JobsOK, S!Fields, S!ScrapingAssumption, S!Outcome
<1> QED BY <1>1 DEF S!Init, SettledInv

(* What was settled, when only other books are worked on. *)
LEMMA RestsAsBefore ==
  ASSUME NEW b \in Scraped, Rests(b),
         job' # None => b \notin job'.todo,
         pass' # None => b \notin pass'.todo,
         book'[b].identity => book[b].identity,
         outcome'[b] = outcome[b] \/ outcome'[b] \in {"suggested", "dismissed"},
         \A j \in S!Job : <<j, b>> \in tidying' <=> <<j, b>> \in tidying,
         \A j \in S!Job : rows'[j][b] = "pending" => rows[j][b] = "pending"
  PROVE  Rests(b)'
<1>1. S!PendingJobs(b)' \subseteq S!PendingJobs(b) BY DEF S!PendingJobs
<1>2. Tidied(b)' <=> Tidied(b) BY DEF Tidied
<1> QED BY <1>1, <1>2 DEF Rests

(* A job takes, scrapes and finishes books, none of which is settled. *)
LEMMA JobSteps ==
  ASSUME S!ScrapingAssumption, SettledInv,
         \/ \E ids \in SUBSET Scraped : S!StartJob(ids)
         \/ \E b \in Scraped, result \in S!Result : S!ScrapeOne(b, result)
         \/ \E b \in Scraped : S!Record(b)
         \/ S!EndJob
  PROVE  SettledInv'
<1>0. JobsOK /\ \A b \in settled : b \in Scraped /\ Rests(b) BY DEF SettledInv, JobsOK
<1>1. ASSUME NEW ids \in SUBSET Scraped, S!StartJob(ids) PROVE SettledInv'
  <2>1. S!Selected(ids) \subseteq Scraped BY DEF S!Selected, S!Untagged
  <2>2. job' = [todo |-> S!Selected(ids), found |-> None] /\ jobs' = jobs + 1 /\ jobs < MaxJobs
        /\ settled' = settled \ S!Selected(ids)
        /\ UNCHANGED <<book, rows, tidying, outcome, pass, request>>
    BY <1>1 DEF S!StartJob
  <2>3. jobs' \in 1 .. MaxJobs BY <1>0, <2>2 DEF JobsOK, S!ScrapingAssumption
  <2>4. job' \in S!Running /\ job'.todo = S!Selected(ids) BY <2>1, <2>2 DEF S!Running
  <2>5. JobsOK' BY <1>0, <2>2, <2>3, <2>4 DEF JobsOK
  <2>6. ASSUME NEW b \in settled' PROVE Rests(b)'
    <3>1. b \in settled /\ b \notin job'.todo /\ b \in Scraped /\ Rests(b) BY <1>0, <2>2, <2>4, <2>6
    <3> QED BY <2>2, <3>1, RestsAsBefore DEF Rests
  <2> QED BY <2>5, <2>6 DEF SettledInv
<1>2. ASSUME NEW b \in Scraped, NEW result \in S!Result, S!ScrapeOne(b, result) PROVE SettledInv'
  <2>1. /\ job # None /\ b \in job.todo
        /\ book' = IF result = "scraped" THEN S!Matched(b) ELSE book
        /\ job' = [todo |-> job.todo, found |-> result]
        /\ UNCHANGED <<rows, tidying, jobs, outcome, pass, request, settled>>
    BY <1>2 DEF S!ScrapeOne
  <2>2. job \in S!Running BY <1>0, <2>1 DEF JobsOK
  <2>3. job' \in S!Running /\ job'.todo = job.todo BY <2>1, <2>2 DEF S!Running
  <2>4. book' \in [Scraped -> S!Fields] /\ \A c \in Scraped \ {b} : book'[c] = book[c]
    BY <1>0, <2>1 DEF JobsOK, S!Matched, S!Fields
  <2>5. JobsOK' BY <1>0, <2>1, <2>3, <2>4 DEF JobsOK
  <2>6. ASSUME NEW c \in settled' PROVE Rests(c)'
    <3>1. c \in settled /\ c \in Scraped /\ Rests(c) BY <1>0, <2>1, <2>6
    <3>2. c # b BY <2>1, <3>1 DEF Rests
    <3> QED BY <2>1, <2>3, <2>4, <3>1, <3>2, RestsAsBefore DEF Rests
  <2> QED BY <2>5, <2>6 DEF SettledInv
<1>3. ASSUME NEW b \in Scraped, S!Record(b) PROVE SettledInv'
  <2>1. /\ job # None /\ job.found # None /\ b \in job.todo
        /\ rows' = [rows EXCEPT ![jobs][b] = job.found]
        /\ tidying' = IF job.found \in {"pending", "scraped"} THEN tidying \union {<<jobs, b>>} ELSE tidying
        /\ job' = [todo |-> job.todo \ {b}, found |-> None]
        /\ UNCHANGED <<book, jobs, outcome, pass, request, settled>>
    BY <1>3 DEF S!Record, S!Write
  <2>2. job \in S!Running /\ job.found \in S!Result BY <1>0, <2>1 DEF JobsOK, S!Running
  <2>3. job' \in S!Running /\ job'.todo = job.todo \ {b} BY <2>1, <2>2 DEF S!Running
  <2>4. rows' \in [S!Job -> [Scraped -> S!Result \union {"none"}]]
        /\ \A c \in Scraped \ {b}, j \in S!Job : rows'[j][c] = rows[j][c]
    BY <1>0, <2>1, <2>2 DEF JobsOK
  <2>5. tidying' \subseteq S!Job \X Scraped BY <1>0, <2>1 DEF JobsOK, S!Job
  <2>6. JobsOK' BY <1>0, <2>1, <2>3, <2>4, <2>5 DEF JobsOK
  <2>7. ASSUME NEW c \in settled' PROVE Rests(c)'
    <3>1. c \in settled /\ c \in Scraped /\ Rests(c) BY <1>0, <2>1, <2>7
    <3>2. c # b BY <2>1, <3>1 DEF Rests
    <3>3. \A j \in S!Job : <<j, c>> \in tidying' <=> <<j, c>> \in tidying BY <2>1, <3>2
    <3> QED BY <2>1, <2>3, <2>4, <3>1, <3>2, <3>3, RestsAsBefore DEF Rests
  <2> QED BY <2>6, <2>7 DEF SettledInv
<1>4. ASSUME S!EndJob PROVE SettledInv'
  <2>1. job' = None /\ UNCHANGED <<book, rows, tidying, jobs, outcome, pass, request, settled>>
    BY <1>4 DEF S!EndJob
  <2>2. JobsOK' BY <1>0, <2>1 DEF JobsOK
  <2>3. ASSUME NEW c \in settled' PROVE Rests(c)'
    <3>1. c \in settled /\ c \in Scraped /\ Rests(c) BY <1>0, <2>1, <2>3
    <3> QED BY <2>1, <3>1, RestsAsBefore DEF Rests
  <2> QED BY <2>2, <2>3 DEF SettledInv
<1> QED BY <1>1, <1>2, <1>3, <1>4

(* The re-check does the same. *)
LEMMA PassSteps ==
  ASSUME S!ScrapingAssumption, SettledInv,
         \/ S!StartPass \/ S!Remember \/ S!EndPass
         \/ \E b \in Scraped : S!Unfound(b) \/ S!Suggest(b)
  PROVE  SettledInv'
<1>0. JobsOK /\ \A b \in settled : b \in Scraped /\ Rests(b) BY DEF SettledInv, JobsOK
<1>1. ASSUME S!StartPass PROVE SettledInv'
  <2>1. pass' = [todo |-> {b \in Scraped : S!Eligible(b)}, row |-> None]
        /\ UNCHANGED <<book, rows, tidying, jobs, job, outcome, request, settled>>
    BY <1>1 DEF S!StartPass
  <2>2. pass' \in S!Rechecking /\ pass'.todo = {b \in Scraped : S!Eligible(b)} BY <2>1 DEF S!Rechecking
  <2>3. JobsOK' BY <1>0, <2>1, <2>2 DEF JobsOK
  <2>4. ASSUME NEW c \in settled' PROVE Rests(c)'
    <3>1. c \in settled /\ c \in Scraped /\ Rests(c) BY <1>0, <2>1, <2>4
    <3>2. c \notin pass'.todo BY <2>2, <3>1 DEF Rests, S!Eligible
    <3> QED BY <2>1, <3>1, <3>2, RestsAsBefore DEF Rests
  <2> QED BY <2>3, <2>4 DEF SettledInv
<1>2. ASSUME S!Remember PROVE SettledInv'
  <2>1. PICK b, p : b = pass.row /\ p = pass OBVIOUS
  <2>2. /\ pass # None /\ b # None /\ outcome' = [outcome EXCEPT ![b] = "suggested"]
        /\ pass' = [p EXCEPT !.row = None]
        /\ UNCHANGED <<book, rows, tidying, jobs, job, request, settled>>
    BY <1>2, <2>1 DEF S!Remember
  <2>3. p \in S!Rechecking /\ b \in Scraped BY <1>0, <2>1, <2>2 DEF JobsOK, S!Rechecking
  <2>4. pass' \in S!Rechecking /\ pass'.todo = pass.todo BY <2>1, <2>2, <2>3 DEF S!Rechecking
  <2>5. outcome' \in [Scraped -> S!Outcome] /\ \A c \in Scraped : outcome'[c] \in {outcome[c], "suggested"}
    BY <1>0, <2>2, <2>3 DEF JobsOK, S!Outcome
  <2>6. JobsOK' BY <1>0, <2>2, <2>4, <2>5 DEF JobsOK
  <2>7. ASSUME NEW c \in settled' PROVE Rests(c)'
    <3>1. c \in settled /\ c \in Scraped /\ Rests(c) BY <1>0, <2>2, <2>7
    <3> QED BY <2>2, <2>4, <2>5, <3>1, RestsAsBefore DEF Rests
  <2> QED BY <2>6, <2>7 DEF SettledInv
<1>3. ASSUME S!EndPass PROVE SettledInv'
  <2>1. pass' = None /\ UNCHANGED <<book, rows, tidying, jobs, job, outcome, request, settled>>
    BY <1>3 DEF S!EndPass
  <2>2. JobsOK' BY <1>0, <2>1 DEF JobsOK
  <2>3. ASSUME NEW c \in settled' PROVE Rests(c)'
    <3>1. c \in settled /\ c \in Scraped /\ Rests(c) BY <1>0, <2>1, <2>3
    <3> QED BY <2>1, <3>1, RestsAsBefore DEF Rests
  <2> QED BY <2>2, <2>3 DEF SettledInv
<1>4. ASSUME NEW b \in Scraped, S!Unfound(b) PROVE SettledInv'
  <2>1. PICK p : p = pass OBVIOUS
  <2>2. /\ pass # None /\ b \in p.todo /\ outcome' = [outcome EXCEPT ![b] = "checked"]
        /\ pass' = [p EXCEPT !.todo = p.todo \ {b}]
        /\ UNCHANGED <<book, rows, tidying, jobs, job, request, settled>>
    BY <1>4, <2>1 DEF S!Unfound
  <2>3. p \in S!Rechecking BY <1>0, <2>1, <2>2 DEF JobsOK
  <2>4. pass' \in S!Rechecking /\ pass'.todo = pass.todo \ {b} BY <2>1, <2>2, <2>3 DEF S!Rechecking
  <2>5. outcome' \in [Scraped -> S!Outcome] /\ \A c \in Scraped \ {b} : outcome'[c] = outcome[c]
    BY <1>0, <2>2 DEF JobsOK, S!Outcome
  <2>6. JobsOK' BY <1>0, <2>2, <2>4, <2>5 DEF JobsOK
  <2>7. ASSUME NEW c \in settled' PROVE Rests(c)'
    <3>1. c \in settled /\ c \in Scraped /\ Rests(c) BY <1>0, <2>2, <2>7
    <3>2. c # b BY <2>1, <2>2, <3>1 DEF Rests
    <3> QED BY <2>2, <2>4, <2>5, <3>1, <3>2, RestsAsBefore DEF Rests
  <2> QED BY <2>6, <2>7 DEF SettledInv
<1>5. ASSUME NEW b \in Scraped, S!Suggest(b) PROVE SettledInv'
  <2>1. /\ pass # None /\ b \in pass.todo
        /\ rows' = [rows EXCEPT ![Recheck][b] = "pending"]
        /\ tidying' = tidying \union {<<Recheck, b>>}
        /\ pass' = [todo |-> pass.todo \ {b}, row |-> b]
        /\ UNCHANGED <<book, jobs, job, outcome, request, settled>>
    BY <1>5 DEF S!Suggest, S!Write
  <2>2. pass \in S!Rechecking BY <1>0, <2>1 DEF JobsOK
  <2>3. pass' \in S!Rechecking /\ pass'.todo = pass.todo \ {b} BY <2>1, <2>2 DEF S!Rechecking
  <2>4. rows' \in [S!Job -> [Scraped -> S!Result \union {"none"}]]
        /\ \A c \in Scraped \ {b}, j \in S!Job : rows'[j][c] = rows[j][c]
    BY <1>0, <2>1 DEF JobsOK, S!Result
  <2>5. tidying' \subseteq S!Job \X Scraped BY <1>0, <2>1 DEF JobsOK, S!Job
  <2>6. JobsOK' BY <1>0, <2>1, <2>3, <2>4, <2>5 DEF JobsOK
  <2>7. ASSUME NEW c \in settled' PROVE Rests(c)'
    <3>1. c \in settled /\ c \in Scraped /\ Rests(c) BY <1>0, <2>1, <2>7
    <3>2. c # b BY <2>1, <3>1 DEF Rests
    <3>3. \A j \in S!Job : <<j, c>> \in tidying' <=> <<j, c>> \in tidying BY <2>1, <3>2
    <3> QED BY <2>1, <2>3, <2>4, <3>1, <3>2, <3>3, RestsAsBefore DEF Rests
  <2> QED BY <2>6, <2>7 DEF SettledInv
<1> QED BY <1>1, <1>2, <1>3, <1>4, <1>5

(* An older review of a settled book is deleted. *)
LEMMA Tidies ==
  ASSUME S!ScrapingAssumption, SettledInv, NEW j \in S!Job, NEW b \in Scraped, S!Tidy(j, b)
  PROVE  SettledInv'
<1>0. JobsOK /\ \A c \in settled : c \in Scraped /\ Rests(c) BY DEF SettledInv, JobsOK
<1>1. /\ <<j, b>> \in tidying /\ tidying' = tidying \ {<<j, b>>}
      /\ rows' = [k \in S!Job |-> IF k # j /\ rows[k][b] = "pending" THEN [rows[k] EXCEPT ![b] = "none"] ELSE rows[k]]
      /\ UNCHANGED <<book, jobs, job, outcome, pass, request, settled>>
  BY DEF S!Tidy
<1>2. /\ rows' \in [S!Job -> [Scraped -> S!Result \union {"none"}]]
      /\ \A c \in Scraped \ {b}, k \in S!Job : rows'[k][c] = rows[k][c]
      /\ rows'[j][b] = rows[j][b]
      /\ \A k \in S!Job \ {j} : rows'[k][b] # "pending"
  BY <1>0, <1>1 DEF JobsOK
<1>3. JobsOK' BY <1>0, <1>1, <1>2 DEF JobsOK
<1>4. ASSUME NEW c \in settled' PROVE Rests(c)'
  <2>1. c \in settled /\ c \in Scraped /\ Rests(c) BY <1>0, <1>1, <1>4
  <2>2. CASE c # b
    <3>1. \A k \in S!Job : <<k, c>> \in tidying' <=> <<k, c>> \in tidying BY <1>1, <2>2
    <3> QED BY <1>1, <1>2, <2>1, <2>2, <3>1, RestsAsBefore DEF Rests
  <2>3. CASE c = b
    <3>1. rows[j][b] # "pending" BY <1>1, <2>1, <2>3 DEF Rests
    <3>2. S!PendingJobs(b)' = {} BY <1>2, <3>1 DEF S!PendingJobs
    <3>3. \A k \in S!Job : <<k, b>> \in tidying' => rows'[k][b] # "pending" BY <1>2, <3>1
    <3> QED BY <1>1, <2>1, <2>3, <3>2, <3>3 DEF Rests
  <2> QED BY <2>2, <2>3
<1> QED BY <1>3, <1>4 DEF SettledInv

(* A book that is settled now, with no review left or one that goes. *)
LEMMA RestsNow ==
  ASSUME NEW b \in Scraped, ~S!AtWork(b), UNCHANGED <<job, pass>>,
         book'[b].identity => outcome'[b] = "dismissed",
         S!PendingJobs(b)' = {} \/ Tidied(b)',
         \A j \in S!Job : <<j, b>> \in tidying' => rows'[j][b] # "pending"
  PROVE  Rests(b)'
  BY DEF S!AtWork, Rests

(* A person's answer settles a book. *)
LEMMA Answers ==
  ASSUME S!ScrapingAssumption, SettledInv,
         \/ \E result \in {"scraped", "failed", "deadEnd"} : S!FinishAccept(result)
         \/ S!FinishMatch
         \/ \E b \in Scraped : S!Dismiss(b)
  PROVE  SettledInv'
<1>0. JobsOK /\ \A c \in settled : c \in Scraped /\ Rests(c) BY DEF SettledInv, JobsOK
<1>1. ASSUME NEW result \in {"scraped", "failed", "deadEnd"}, S!FinishAccept(result) PROVE SettledInv'
  <2>1. PICK b, j : b = request.book /\ j = request.job OBVIOUS
  <2>2. /\ request # None
        /\ book' = IF result = "scraped" THEN S!Matched(b) ELSE book
        /\ rows' = [rows EXCEPT ![j][b] = result]
        /\ tidying' = IF result = "scraped" THEN tidying \union {<<j, b>>} ELSE tidying
        /\ settled' = IF result = "scraped" /\ ~S!AtWork(b) THEN settled \union {b} ELSE settled
        /\ request' = None
        /\ UNCHANGED <<jobs, job, outcome, pass>>
    BY <1>1, <2>1 DEF S!FinishAccept, S!Write, S!Settle
  <2>3. b \in Scraped /\ j \in S!Job BY <1>0, <1>1, <2>1, <2>2 DEF JobsOK, S!Answering, S!FinishAccept
  <2>4. book' \in [Scraped -> S!Fields] /\ \A c \in Scraped \ {b} : book'[c] = book[c]
    BY <1>0, <2>2, <2>3 DEF JobsOK, S!Matched, S!Fields
  <2>5. book'[b].identity => book[b].identity /\ result # "scraped"
    <3>1. CASE result = "scraped" BY <3>1, <1>0, <2>2, <2>3 DEF JobsOK, S!Matched
    <3>2. CASE result # "scraped" BY <3>2, <2>2
    <3> QED BY <3>1, <3>2
  <2>6. /\ rows' \in [S!Job -> [Scraped -> S!Result \union {"none"}]]
        /\ \A c \in Scraped, k \in S!Job : rows'[k][c] = "pending" => rows[k][c] = "pending"
        /\ rows'[j][b] = result
    BY <1>0, <2>2, <2>3 DEF JobsOK, S!Result
  <2>7. tidying' \subseteq S!Job \X Scraped BY <1>0, <2>2, <2>3 DEF JobsOK
  <2>8. JobsOK' BY <1>0, <2>2, <2>3, <2>4, <2>6, <2>7 DEF JobsOK
  <2>9. ASSUME NEW c \in settled' PROVE Rests(c)'
    <3>1. CASE c \in settled /\ c # b
      <4>1. c \in Scraped /\ Rests(c) BY <1>0, <3>1
      <4>2. \A k \in S!Job : <<k, c>> \in tidying' <=> <<k, c>> \in tidying BY <2>2, <3>1
      <4> QED BY <2>2, <2>4, <2>6, <3>1, <4>1, <4>2, RestsAsBefore DEF Rests
    <3>2. CASE c \in settled /\ c = b
      <4>1. Rests(b) BY <1>0, <3>2
      <4>2. S!PendingJobs(b)' \subseteq S!PendingJobs(b) BY <2>3, <2>6 DEF S!PendingJobs
      <4>3. Tidied(b) => Tidied(b)' BY <2>2 DEF Tidied
      <4>4. \A k \in S!Job : <<k, b>> \in tidying' => rows'[k][b] # "pending"
        BY <2>2, <2>3, <2>6, <4>1 DEF Rests
      <4> QED BY <2>2, <2>5, <3>2, <4>1, <4>2, <4>3, <4>4 DEF Rests
    <3>3. CASE c \notin settled
      <4>1. c = b /\ ~S!AtWork(b) /\ result = "scraped" BY <2>2, <2>9, <3>3
      <4>2. Tidied(b)' BY <2>2, <2>3, <4>1 DEF Tidied
      <4>3. \A k \in S!Job : <<k, b>> \notin tidying BY <4>1 DEF S!AtWork
      <4>4. \A k \in S!Job : <<k, b>> \in tidying' => rows'[k][b] # "pending" BY <2>2, <2>6, <4>1, <4>3
      <4> QED BY <2>2, <2>3, <2>5, <4>1, <4>2, <4>4, RestsNow
    <3> QED BY <3>1, <3>2, <3>3
  <2> QED BY <2>8, <2>9 DEF SettledInv
<1>2. ASSUME S!FinishMatch PROVE SettledInv'
  <2>1. PICK b : b = request.book OBVIOUS
  <2>2. /\ request # None
        /\ book' = S!Matched(b)
        /\ rows' = [j \in S!Job |-> IF rows[j][b] = "pending" THEN [rows[j] EXCEPT ![b] = "scraped"] ELSE rows[j]]
        /\ settled' = IF S!AtWork(b) THEN settled ELSE settled \union {b}
        /\ request' = None
        /\ UNCHANGED <<tidying, jobs, job, outcome, pass>>
    BY <1>2, <2>1 DEF S!FinishMatch, S!Settle
  <2>3. b \in Scraped BY <1>0, <2>1, <2>2 DEF JobsOK, S!Answering
  <2>4. book' \in [Scraped -> S!Fields] /\ (\A c \in Scraped \ {b} : book'[c] = book[c]) /\ ~book'[b].identity
    BY <1>0, <2>2, <2>3 DEF JobsOK, S!Matched, S!Fields
  <2>5. /\ rows' \in [S!Job -> [Scraped -> S!Result \union {"none"}]]
        /\ \A c \in Scraped, k \in S!Job : rows'[k][c] = "pending" => rows[k][c] = "pending" /\ c # b
    BY <1>0, <2>2, <2>3 DEF JobsOK, S!Result
  <2>6. JobsOK' BY <1>0, <2>2, <2>3, <2>4, <2>5 DEF JobsOK
  <2>7. ASSUME NEW c \in settled' PROVE Rests(c)'
    <3>1. CASE c \in settled
      <4>1. c \in Scraped /\ Rests(c) BY <1>0, <3>1
      <4>2. book'[c].identity => book[c].identity BY <2>4, <4>1
      <4> QED BY <2>2, <2>5, <4>1, <4>2, RestsAsBefore DEF Rests
    <3>2. CASE c \notin settled
      <4>1. c = b /\ ~S!AtWork(b) BY <2>2, <2>7, <3>2
      <4>2. S!PendingJobs(b)' = {} BY <2>3, <2>5 DEF S!PendingJobs
      <4>3. \A k \in S!Job : <<k, b>> \notin tidying' BY <2>2, <4>1 DEF S!AtWork
      <4> QED BY <2>2, <2>3, <2>4, <4>1, <4>2, <4>3, RestsNow
    <3> QED BY <3>1, <3>2
  <2> QED BY <2>6, <2>7 DEF SettledInv
<1>3. ASSUME NEW b \in Scraped, S!Dismiss(b) PROVE SettledInv'
  <2>1. /\ S!Shown(b) /\ book[b].identity
        /\ outcome' = [outcome EXCEPT ![b] = "dismissed"]
        /\ rows' = [rows EXCEPT ![Recheck][b] = "none"]
        /\ settled' = IF S!AtWork(b) THEN settled ELSE settled \union {b}
        /\ UNCHANGED <<book, tidying, jobs, job, pass, request>>
    BY <1>3 DEF S!Dismiss, S!Settle
  <2>2. S!PendingJobs(b) = {Recheck}
    <3>1. S!PendingJobs(b) # {} /\ S!Newest(S!PendingJobs(b)) = Recheck BY <2>1 DEF S!Shown
    <3>2. S!PendingJobs(b) \subseteq S!Job BY DEF S!PendingJobs
    <3> QED BY <3>1, <3>2, NewestIn
  <2>3. Recheck \in S!Job BY DEF S!Job
  <2>4. outcome' \in [Scraped -> S!Outcome] /\ (\A c \in Scraped \ {b} : outcome'[c] = outcome[c])
        /\ outcome'[b] = "dismissed"
    BY <1>0, <2>1 DEF JobsOK, S!Outcome
  <2>5. /\ rows' \in [S!Job -> [Scraped -> S!Result \union {"none"}]]
        /\ \A c \in Scraped, k \in S!Job : rows'[k][c] = "pending" => rows[k][c] = "pending"
        /\ rows'[Recheck][b] = "none"
    BY <1>0, <2>1, <2>3 DEF JobsOK
  <2>6. JobsOK' BY <1>0, <2>1, <2>4, <2>5 DEF JobsOK
  <2>7. ASSUME NEW c \in settled' PROVE Rests(c)'
    <3>1. CASE c \in settled
      <4>1. c \in Scraped /\ Rests(c) BY <1>0, <3>1
      <4>2. outcome'[c] = outcome[c] \/ outcome'[c] \in {"suggested", "dismissed"} BY <2>4, <4>1
      <4> QED BY <2>1, <2>5, <4>1, <4>2, RestsAsBefore DEF Rests
    <3>2. CASE c \notin settled
      <4>1. c = b /\ ~S!AtWork(b) BY <2>1, <2>7, <3>2
      <4>2. S!PendingJobs(b)' = {} BY <2>2, <2>5 DEF S!PendingJobs
      <4>3. \A k \in S!Job : <<k, b>> \notin tidying' BY <2>1, <4>1 DEF S!AtWork
      <4> QED BY <2>1, <2>4, <4>1, <4>2, <4>3, RestsNow
    <3> QED BY <3>1, <3>2
  <2> QED BY <2>6, <2>7 DEF SettledInv
<1> QED BY <1>1, <1>2, <1>3

(* What else the api, a failure or a restart do. *)
LEMMA OtherSteps ==
  ASSUME S!ScrapingAssumption, SettledInv,
         \/ \E b \in Scraped : S!Accept(b) \/ S!Match(b)
         \/ \E b \in Scraped, is \in BOOLEAN : S!SetIdentity(b, is) \/ S!SetNoMatch(b, is)
         \/ S!FailRequest \/ S!Restart
  PROVE  SettledInv'
<1>0. JobsOK /\ \A c \in settled : c \in Scraped /\ Rests(c) BY DEF SettledInv, JobsOK
<1>1. ASSUME NEW b \in Scraped, S!Accept(b) \/ S!Match(b) PROVE SettledInv'
  <2>1. PICK j : /\ request' = [book |-> b, job |-> j] /\ j \in S!Job \union {None}
                 /\ UNCHANGED <<book, rows, tidying, jobs, job, outcome, pass, settled>>
    <3>1. CASE S!Accept(b)
      <4>1. S!PendingJobs(b) # {} /\ S!PendingJobs(b) \subseteq S!Job BY <3>1 DEF S!Accept, S!Shown, S!PendingJobs
      <4>2. S!Newest(S!PendingJobs(b)) \in S!Job BY <4>1, NewestIn
      <4>3. jobs > 0 => jobs \in S!Job BY <1>0 DEF JobsOK, S!Job, S!ScrapingAssumption
      <4>4. PICK k : k = IF jobs > 0 /\ rows[jobs][b] = "pending" THEN jobs ELSE S!Newest(S!PendingJobs(b)) OBVIOUS
      <4>5. k \in S!Job BY <4>2, <4>3, <4>4
      <4> QED BY <3>1, <4>4, <4>5 DEF S!Accept
    <3>2. CASE S!Match(b) BY <3>2 DEF S!Match
    <3> QED BY <1>1, <3>1, <3>2
  <2>2. request' \in S!Answering BY <2>1 DEF S!Answering
  <2>3. JobsOK' BY <1>0, <2>1, <2>2 DEF JobsOK
  <2>4. ASSUME NEW c \in settled' PROVE Rests(c)'
    <3>1. c \in settled /\ c \in Scraped /\ Rests(c) BY <1>0, <2>1, <2>4
    <3> QED BY <2>1, <3>1, RestsAsBefore DEF Rests
  <2> QED BY <2>3, <2>4 DEF SettledInv
<1>2. ASSUME NEW b \in Scraped, NEW is \in BOOLEAN, S!SetIdentity(b, is) PROVE SettledInv'
  <2>1. /\ book' = [book EXCEPT ![b].identity = is, ![b].noMatch = @ /\ ~is]
        /\ settled' = settled \ {b}
        /\ UNCHANGED <<rows, tidying, jobs, job, outcome, pass, request>>
    BY <1>2 DEF S!SetIdentity
  <2>2. book' \in [Scraped -> S!Fields] /\ \A c \in Scraped \ {b} : book'[c] = book[c]
    <3>1. PICK f, g : f = [book EXCEPT ![b].identity = is] /\ g = [f[b] EXCEPT !.noMatch = @ /\ ~is] OBVIOUS
    <3>2. f \in [Scraped -> S!Fields] /\ \A c \in Scraped \ {b} : f[c] = book[c] BY <1>0, <3>1 DEF JobsOK, S!Fields
    <3>3. g \in S!Fields
      <4>1. PICK x, y, z \in BOOLEAN : f[b] = [tagged |-> x, identity |-> y, noMatch |-> z]
        BY <3>2 DEF S!Fields
      <4>2. g = [tagged |-> x, identity |-> y, noMatch |-> z /\ ~is] BY <3>1, <4>1
      <4> QED BY <4>2 DEF S!Fields
    <3>4. book' = [f EXCEPT ![b] = g] BY <2>1, <3>1
    <3> QED BY <3>2, <3>3, <3>4
  <2>3. JobsOK' BY <1>0, <2>1, <2>2 DEF JobsOK
  <2>4. ASSUME NEW c \in settled' PROVE Rests(c)'
    <3>1. c \in settled /\ c \in Scraped \ {b} /\ Rests(c) BY <1>0, <2>1, <2>4
    <3>2. book'[c].identity => book[c].identity BY <2>2, <3>1
    <3> QED BY <2>1, <3>1, <3>2, RestsAsBefore DEF Rests
  <2> QED BY <2>3, <2>4 DEF SettledInv
<1>3. ASSUME NEW b \in Scraped, NEW is \in BOOLEAN, S!SetNoMatch(b, is) PROVE SettledInv'
  <2>1. /\ book' = [book EXCEPT ![b].noMatch = is]
        /\ UNCHANGED <<rows, tidying, jobs, job, outcome, pass, request, settled>>
    BY <1>3 DEF S!SetNoMatch
  <2>2. book' \in [Scraped -> S!Fields] /\ \A c \in Scraped : book'[c].identity => book[c].identity
    <3>1. PICK r, g : r = book[b] /\ g = [r EXCEPT !.noMatch = is] OBVIOUS
    <3>2. r \in S!Fields BY <1>0, <3>1 DEF JobsOK
    <3>3. g \in S!Fields /\ (g.identity <=> r.identity) BY <3>1, <3>2 DEF S!Fields
    <3>4. book' = [book EXCEPT ![b] = g] BY <2>1, <3>1
    <3> QED BY <1>0, <3>1, <3>3, <3>4 DEF JobsOK
  <2>3. JobsOK' BY <1>0, <2>1, <2>2 DEF JobsOK
  <2>4. ASSUME NEW c \in settled' PROVE Rests(c)'
    <3>1. c \in settled /\ c \in Scraped /\ Rests(c) BY <1>0, <2>1, <2>4
    <3> QED BY <2>1, <2>2, <3>1, RestsAsBefore DEF Rests
  <2> QED BY <2>3, <2>4 DEF SettledInv
<1>4. ASSUME S!FailRequest PROVE SettledInv'
  <2>1. request' = None /\ UNCHANGED <<book, rows, tidying, jobs, job, outcome, pass, settled>>
    BY <1>4 DEF S!FailRequest
  <2>2. JobsOK' BY <1>0, <2>1 DEF JobsOK
  <2>3. ASSUME NEW c \in settled' PROVE Rests(c)'
    <3>1. c \in settled /\ c \in Scraped /\ Rests(c) BY <1>0, <2>1, <2>3
    <3> QED BY <2>1, <3>1, RestsAsBefore DEF Rests
  <2> QED BY <2>2, <2>3 DEF SettledInv
<1>5. ASSUME S!Restart PROVE SettledInv'
  <2>1. /\ job' = None /\ pass' = None /\ request' = None /\ tidying' = {}
        /\ settled' = {b \in settled : \A j \in S!Job : <<j, b>> \notin tidying}
        /\ UNCHANGED <<book, rows, jobs, outcome>>
    BY <1>5 DEF S!Restart
  <2>2. JobsOK' BY <1>0, <2>1 DEF JobsOK
  <2>3. ASSUME NEW c \in settled' PROVE Rests(c)'
    <3>1. c \in settled /\ c \in Scraped /\ Rests(c) /\ ~Tidied(c) BY <1>0, <2>1, <2>3 DEF Tidied
    <3>2. S!PendingJobs(c)' = {} BY <2>1, <3>1 DEF Rests, S!PendingJobs
    <3> QED BY <2>1, <3>1, <3>2 DEF Rests
  <2> QED BY <2>2, <2>3 DEF SettledInv
<1> QED BY <1>1, <1>2, <1>3, <1>4, <1>5

(* Every step keeps what is settled. *)
LEMMA SettledStep ==
  ASSUME S!ScrapingAssumption, SettledInv, [S!Next]_(S!vars)
  PROVE  SettledInv'
<1>1. ASSUME UNCHANGED S!vars PROVE SettledInv'
  BY <1>1 DEF S!vars, SettledInv, JobsOK, Rests, S!PendingJobs, Tidied
<1> QED BY <1>1, JobSteps, PassSteps, Tidies, Answers, OtherSteps DEF S!Next

--------------------------------------------------------------------------------
(* The fields of a row. *)
RowFields == {"parent", "body", "hash", "deleted"}

(* A row that has its hash cleared, or that of its body. *)
Hashed(r) ==
  r # Gone => /\ DOMAIN r = RowFields
              /\ r.hash = NoHash \/ r.hash = r.body

(* Every row has its hash cleared, or that of its body. *)
HashInv == DOMAIN row = L!List /\ \A l \in L!List : Hashed(row[l])

(* What the invariant gives. *)
LEMMA HashGives == ASSUME HashInv PROVE L!HashDescribesRow
  BY DEF HashInv, Hashed, L!HashDescribesRow, L!Exists

(* No row is there at first. *)
LEMMA HashStarts == ASSUME L!Init PROVE HashInv
  BY DEF L!Init, HashInv, Hashed

(* A row that is written in whole is one of its fields. *)
LEMMA NewRow ==
  ASSUME NEW p, NEW b, NEW h, NEW d, h = NoHash \/ h = b
  PROVE  Hashed([parent |-> p, body |-> b, hash |-> h, deleted |-> d])
  BY DEF Hashed, RowFields

(* A step that writes one row. *)
LEMMA OneRow ==
  ASSUME HashInv, NEW l, NEW r, Hashed(r), row' = [row EXCEPT ![l] = r]
  PROVE  HashInv'
<1>1. DOMAIN row' = L!List BY DEF HashInv
<1>2. \A m \in L!List : row'[m] = IF m = l THEN r ELSE row[m] BY DEF HashInv
<1> QED BY <1>1, <1>2 DEF HashInv, Hashed

(* A move writes the parent alone. *)
LEMMA HashMoves ==
  ASSUME HashInv, NEW l, NEW p, L!MoveTo(l, p)
  PROVE  HashInv'
<1>1. CASE UNCHANGED row BY <1>1 DEF HashInv, Hashed
<1>2. CASE L!Exists(l) /\ row' = [row EXCEPT ![l].parent = p]
  <2>1. PICK r, q : r = row[l] /\ q = [r EXCEPT !.parent = p] OBVIOUS
  <2>2. row' = [row EXCEPT ![l] = q] BY <1>2, <2>1
  <2>a. CASE l \notin L!List BY <2>a, <2>2 DEF HashInv, Hashed
  <2>b. CASE l \in L!List
   <3>1. DOMAIN r = RowFields /\ (r.hash = NoHash \/ r.hash = r.body)
    BY <1>2, <2>1, <2>b DEF HashInv, Hashed, L!Exists
   <3>2. DOMAIN q = RowFields /\ q.hash = r.hash /\ q.body = r.body BY <2>1, <3>1 DEF RowFields
   <3>3. Hashed(q) BY <3>1, <3>2 DEF Hashed
   <3> QED BY <2>2, <3>3, OneRow
  <2> QED BY <2>a, <2>b
<1> QED BY <1>1, <1>2 DEF L!MoveTo

(* An import writes the hash of what it writes, and keeps rows whole. *)
LEMMA HashImports ==
  ASSUME HashInv, NEW f \in LibraryFile, L!Import(f)
  PROVE  HashInv'
<1>1. row' = [l \in L!List |-> IF l \in DOMAIN FileLists[f] THEN L!Imported(l, f)
                             ELSE IF L!Exists(l) THEN [row[l] EXCEPT !.deleted = TRUE] ELSE Gone]
  BY DEF L!Import
<1>2. ASSUME NEW l \in L!List PROVE Hashed(row'[l])
  <2>1. Hashed(row[l]) BY DEF HashInv
  <2>2. CASE l \in DOMAIN FileLists[f]
    <3>1. PICK b, p : b = FileLists[f][l].body /\ p = FileLists[f][l].parent OBVIOUS
    <3>2. Hashed([parent |-> p, body |-> b, hash |-> b, deleted |-> FALSE]) BY NewRow
    <3>3. row'[l] = row[l] \/ row'[l] = [parent |-> p, body |-> b, hash |-> b, deleted |-> FALSE]
      BY <1>1, <2>2, <3>1 DEF L!Imported, L!Hash
    <3> QED BY <2>1, <3>2, <3>3
  <2>3. CASE l \notin DOMAIN FileLists[f] /\ L!Exists(l)
    <3>1. PICK r : r = row[l] OBVIOUS
    <3>2. row'[l] = [r EXCEPT !.deleted = TRUE] BY <1>1, <2>3, <3>1
    <3>3. DOMAIN r = RowFields /\ (r.hash = NoHash \/ r.hash = r.body)
      BY <2>1, <2>3, <3>1 DEF Hashed, L!Exists
    <3>4. DOMAIN row'[l] = RowFields /\ row'[l].hash = r.hash /\ row'[l].body = r.body
      BY <3>2, <3>3 DEF RowFields
    <3> QED BY <3>3, <3>4 DEF Hashed
  <2>4. CASE l \notin DOMAIN FileLists[f] /\ ~L!Exists(l) BY <1>1, <2>4 DEF Hashed
  <2> QED BY <2>2, <2>3, <2>4
<1>3. DOMAIN row' = L!List BY <1>1
<1> QED BY <1>2, <1>3 DEF HashInv, Hashed

(* An edit clears the hash. *)
LEMMA HashSaves ==
  ASSUME HashInv, L!SaveEdit
  PROVE  HashInv'
<1>1. CASE UNCHANGED row BY <1>1 DEF HashInv, Hashed
<1>2. CASE L!Exists(editing.list) /\ row' = [row EXCEPT ![editing.list] = L!Written(@, editing.body)]
  <2>1. PICK l, b, r, q : /\ l = editing.list /\ b = editing.body /\ r = row[l]
                          /\ q = L!Written(r, b)
    OBVIOUS
  <2>2. row' = [row EXCEPT ![l] = q] BY <1>2, <2>1
  <2>3. CASE l \notin L!List BY <2>2, <2>3 DEF HashInv, Hashed
  <2>4. CASE l \in L!List
    <3>1. DOMAIN r = RowFields BY <1>2, <2>1, <2>4 DEF HashInv, Hashed, L!Exists
    <3>2. PICK s : s = [r EXCEPT !.body = b] OBVIOUS
    <3>3. PICK u : u = [s EXCEPT !.hash = NoHash] OBVIOUS
    <3>4. q = [u EXCEPT !.deleted = FALSE] BY <2>1, <3>2, <3>3 DEF L!Written
    <3>5. DOMAIN s = RowFields BY <3>1, <3>2
    <3>6. DOMAIN u = RowFields /\ u.hash = NoHash BY <3>3, <3>5 DEF RowFields
    <3>7. DOMAIN q = RowFields /\ q.hash = NoHash BY <3>4, <3>6 DEF RowFields
    <3>8. Hashed(q) BY <3>7 DEF Hashed
    <3> QED BY <2>2, <3>8, OneRow
  <2> QED BY <2>3, <2>4
<1> QED BY <1>1, <1>2 DEF L!SaveEdit

(* Every step keeps the invariant. *)
LEMMA HashStep == ASSUME HashInv, [L!Next]_(L!vars) PROVE HashInv'
<1>1. CASE UNCHANGED row BY <1>1 DEF HashInv, Hashed
<1>2. ASSUME NEW l, NEW b, L!New(l, b) PROVE HashInv'
  <2>1. row' = [row EXCEPT ![l] = [parent |-> Root, body |-> b, hash |-> NoHash, deleted |-> FALSE]]
    BY <1>2 DEF L!New
  <2> QED BY <2>1, NewRow, OneRow
<1>3. ASSUME NEW l, L!DeleteList(l) PROVE HashInv'
  BY <1>3 DEF L!DeleteList, HashInv, Hashed
<1>4. ASSUME NEW l, NEW p, L!MoveList(l, p) PROVE HashInv' BY <1>4, HashMoves DEF L!MoveList
<1>5. ASSUME L!PlaceFolder PROVE HashInv' BY <1>5, HashMoves DEF L!PlaceFolder
<1>6. \/ UNCHANGED row
      \/ (\E f \in LibraryFile : L!Import(f)) \/ L!PlaceFolder \/ L!SaveEdit
      \/ \E l, b : L!New(l, b)
      \/ \E l, p : L!MoveList(l, p)
      \/ \E l : L!DeleteList(l)
  BY DEF L!Next, L!vars, L!InvalidateAll, L!CreateList, L!CreateFolder, L!BeginCount, L!EndCount, L!Expire,
         L!AddMember, L!DropMember, L!ShiftMember, L!EditRules, L!DeleteBook, L!Lock
<1> QED BY <1>1, <1>2, <1>3, <1>4, <1>5, <1>6, HashImports, HashSaves

--------------------------------------------------------------------------------
(* The tree.  The lists that are shown are below the root, or some step has    *)
(* happened that the tree does not survive (calm).  What is below a list is    *)
(* closed downwards (BelowIs), so that a move out of it, or its deletion,      *)
(* leaves no list hanging.                                                     *)
Shown == {l \in L!List : L!Found(l)}

(* A set that has the shown lists below the root, and those below its own. *)
Closed(A) == \A m \in Shown : row[m].parent \in A \union {Root} => m \in A

(* That a list has no row is told apart from every row. *)
RowsApart == \A r : DOMAIN r = RowFields => r # Gone

(* The lists that are shown are in every such set, so that none hangs elsewhere. *)
TreeInv == calm => \A A \in SUBSET L!List : Closed(A) => Shown \subseteq A

(* What is below the lists of top is closed downwards. *)
LEMMA BelowIs ==
  ASSUME NEW top, NEW table
  PROVE  /\ top \subseteq L!Below(top, table) /\ L!Below(top, table) \subseteq top \union table
         /\ \A m \in table : row[m].parent \in L!Below(top, table) => m \in L!Below(top, table)
<1> DEFINE Has(A) == top \subseteq A /\ \A l \in table : row[l].parent \in A => l \in A
<1>1. L!Below(top, table) = {l \in top \union table : \A A \in SUBSET (top \union table) : Has(A) => l \in A}
  BY DEF L!Below
<1>2. ASSUME NEW m \in table, row[m].parent \in L!Below(top, table) PROVE m \in L!Below(top, table)
  <2>1. ASSUME NEW A \in SUBSET (top \union table), Has(A) PROVE m \in A
    <3>1. row[m].parent \in A BY <1>1, <1>2, <2>1
    <3> QED BY <2>1, <3>1
  <2> HIDE DEF Has
  <2> QED BY <1>1, <2>1
<1>3. top \subseteq L!Below(top, table) BY <1>1
<1> HIDE DEF Has
<1>4. L!Below(top, table) \subseteq top \union table BY <1>1
<1> QED BY <1>2, <1>3, <1>4

(* What the invariant gives. *)
LEMMA TreeGives == ASSUME L!ListAssumption, TreeInv PROVE L!ListsStayVisible
<1> SUFFICES ASSUME calm, NEW l \in L!List, L!Found(l) PROVE l \in L!Visible
  BY DEF L!ListsStayVisible
<1>1. l # Root /\ l \in Shown BY DEF L!ListAssumption, Shown
<1>2. ASSUME NEW A \in SUBSET ({Root} \union Shown), Root \in A, \A m \in Shown : row[m].parent \in A => m \in A
      PROVE  l \in A
  <2>1. PICK T : T = A \ {Root} OBVIOUS
  <2>2. T \in SUBSET L!List BY <2>1 DEF Shown
  <2>3. Closed(T) BY <1>2, <2>1 DEF Closed, Shown, L!ListAssumption
  <2> QED BY <1>1, <2>1, <2>2, <2>3 DEF TreeInv
<1>3. l \in L!Below({Root}, Shown)
  <2>1. l \in {Root} \union Shown BY <1>1
  <2> QED BY <1>2, <2>1 DEF L!Below
<1> QED BY <1>1, <1>3 DEF L!Visible, Shown

(* The lists there are below the root in every set with the root's and its own. *)
LEMMA TreeStarts == ASSUME L!Init PROVE TreeInv
  BY DEF L!Init, TreeInv, Shown, L!Found, L!Exists

(* A step that shows the same lists at the same places. *)
LEMMA TreeStays ==
  ASSUME TreeInv, calm' => calm, Shown' = Shown, \A l \in Shown : row'[l].parent = row[l].parent
  PROVE  TreeInv'
<1> SUFFICES ASSUME calm', NEW A \in SUBSET L!List, Closed(A)' PROVE Shown' \subseteq A
  BY DEF TreeInv
<1>1. Closed(A) BY DEF Closed
<1> QED BY <1>1 DEF TreeInv

(* A list that is made is at the root. *)
LEMMA TreeGrows ==
  ASSUME HashInv, TreeInv, NEW l, NEW body, L!New(l, body), UNCHANGED calm
  PROVE  TreeInv'
<1> SUFFICES ASSUME calm', NEW A \in SUBSET L!List, Closed(A)' PROVE Shown' \subseteq A
  BY DEF TreeInv
<1>1. PICK new : new = [parent |-> Root, body |-> body, hash |-> NoHash, deleted |-> FALSE] OBVIOUS
<1>2. row' = [row EXCEPT ![l] = new] /\ ~L!Exists(l) BY <1>1 DEF L!New
<1>3. DOMAIN row = L!List BY DEF HashInv
<1>4. \A m \in L!List : m # l => row'[m] = row[m] BY <1>2, <1>3
<1>5. l \in L!List => row'[l] = new BY <1>2, <1>3
<1>6. l \notin Shown BY <1>2 DEF Shown, L!Found
<1>7. Shown \subseteq Shown' /\ Shown' \subseteq Shown \union {l} BY <1>4, <1>6 DEF Shown, L!Found, L!Exists
<1>8. Closed(A) BY <1>4, <1>6, <1>7 DEF Closed, Shown
<1>9. Shown \subseteq A BY <1>8 DEF TreeInv
<1>10. l \in Shown' => l \in A BY <1>1, <1>5 DEF Closed, Shown
<1> QED BY <1>7, <1>9, <1>10

(* What is below a list is shown without it. *)
LEMMA OutsideIsShown ==
  ASSUME TreeInv, calm, NEW D, \A m \in Shown : row[m].parent \in D => m \in D,
         NEW A \in SUBSET L!List, \A m \in Shown \ D : row[m].parent \in A \union {Root} => m \in A
  PROVE  Shown \subseteq A \union D
<1>1. PICK T : T = (A \union D) \intersect L!List OBVIOUS
<1>2. ASSUME NEW m \in Shown, row[m].parent \in T \union {Root} PROVE m \in T
  <2>1. CASE m \in D BY <1>1, <2>1 DEF Shown
  <2>2. CASE m \notin D
    <3>1. row[m].parent \notin D BY <2>2
    <3>2. row[m].parent \in A \union {Root} BY <1>1, <1>2, <3>1
    <3> QED BY <1>1, <2>2, <3>2
  <2> QED BY <2>1, <2>2
<1>3. Closed(T) BY <1>2 DEF Closed
<1> QED BY <1>1, <1>3 DEF TreeInv

(* A list is moved to one that is shown and not below itself. *)
LEMMA TreeMoves ==
  ASSUME RowsApart, HashInv, TreeInv, NEW l, NEW p, L!MoveTo(l, p)
  PROVE  TreeInv'
<1>1. CASE UNCHANGED <<row, calm>> BY <1>1, TreeStays DEF Shown, L!Found, L!Exists
<1>2. CASE /\ L!Exists(l) /\ row' = [row EXCEPT ![l].parent = p]
           /\ calm' = (calm /\ (p = Root \/ p \in L!Visible) /\ p \notin L!Below({l}, {m \in L!List : L!Exists(m)}))
  <2>1. PICK r, q : r = row[l] /\ q = [r EXCEPT !.parent = p] OBVIOUS
  <2>2. row' = [row EXCEPT ![l] = q] /\ DOMAIN row = L!List BY <1>2, <2>1 DEF HashInv
  <2>3. \A m \in L!List : m # l => row'[m] = row[m] BY <2>2
  <2>4. l \in L!List => row'[l] = q /\ q.parent = p /\ q.deleted = r.deleted /\ q # Gone
    <3>1. l \in L!List => DOMAIN r = RowFields BY <1>2, <2>1 DEF HashInv, Hashed, L!Exists
    <3>2. l \in L!List => DOMAIN q = RowFields /\ q.parent = p /\ q.deleted = r.deleted BY <2>1, <3>1 DEF RowFields
    <3>3. l \in L!List => q # Gone BY <3>2 DEF RowsApart
    <3> QED BY <2>2, <3>2, <3>3
  <2>5. Shown' \subseteq Shown BY <1>2, <2>1, <2>3, <2>4 DEF Shown, L!Found, L!Exists
  <2> SUFFICES ASSUME calm', NEW A \in SUBSET L!List, Closed(A)' PROVE Shown' \subseteq A
    BY DEF TreeInv
  <2>6. calm BY <1>2
  <2>7. \A m \in Shown : m # l => m \in Shown' /\ row'[m].parent = row[m].parent
    BY <2>3 DEF Shown, L!Found, L!Exists
  <2>8. CASE l \notin Shown
    <3>1. Closed(A) BY <2>7, <2>8 DEF Closed
    <3> QED BY <2>5, <2>6, <3>1 DEF TreeInv
  <2>9. CASE l \in Shown
    <3>1. PICK table : table = {m \in L!List : L!Exists(m)} OBVIOUS
    <3>2. PICK D : D = L!Below({l}, table) OBVIOUS
    <3>3. l \in D /\ \A m \in table : row[m].parent \in D => m \in D BY <3>2, BelowIs
    <3>4. \A m \in Shown : row[m].parent \in D => m \in D BY <3>1, <3>3 DEF Shown, L!Found
    <3>5. \A m \in Shown \ D : row[m].parent \in A \union {Root} => m \in A
      BY <2>7, <3>3 DEF Closed
    <3>6. Shown \subseteq A \union D BY <2>6, <3>4, <3>5, OutsideIsShown
    <3>7. p = Root \/ p \in Shown
      <4>1. L!Below({Root}, Shown) \subseteq {Root} \union Shown BY BelowIs
      <4> QED BY <1>2, <4>1 DEF L!Visible, Shown
    <3>8. p \notin D BY <1>2, <3>1, <3>2
    <3>9. p \in A \union {Root} BY <3>6, <3>7, <3>8
    <3>10. l \in L!List /\ row'[l].parent = p /\ l \in Shown'
      BY <1>2, <2>1, <2>4, <2>9 DEF Shown, L!Found, L!Exists
    <3>11. l \in A BY <3>9, <3>10 DEF Closed
    <3>12. Closed(A) BY <2>7, <3>11 DEF Closed
    <3> QED BY <2>5, <2>6, <3>12 DEF TreeInv
  <2> QED BY <2>8, <2>9
<1> QED BY <1>1, <1>2 DEF L!MoveTo

(* A list is deleted with those below it. *)
LEMMA TreeShrinks ==
  ASSUME HashInv, TreeInv, NEW l, L!DeleteList(l)
  PROVE  TreeInv'
<1>1. PICK table, D : table = {m \in L!List : L!Exists(m)} /\ D = L!Deleted(l) OBVIOUS
<1>2. \A m \in table : row[m].parent \in D => m \in D BY <1>1, BelowIs DEF L!Deleted
<1>3. row' = [m \in L!List |-> IF m \in D THEN Gone ELSE row[m]] /\ calm' = calm BY <1>1 DEF L!DeleteList
<1>4. Shown' = Shown \ D /\ \A m \in Shown \ D : row'[m] = row[m] BY <1>3 DEF Shown, L!Found, L!Exists
<1> SUFFICES ASSUME calm', NEW A \in SUBSET L!List, Closed(A)' PROVE Shown' \subseteq A
  BY DEF TreeInv
<1>5. \A m \in Shown : row[m].parent \in D => m \in D BY <1>1, <1>2 DEF Shown, L!Found
<1>6. \A m \in Shown \ D : row[m].parent \in A \union {Root} => m \in A BY <1>4 DEF Closed
<1>7. Shown \subseteq A \union D BY <1>3, <1>5, <1>6, OutsideIsShown
<1> QED BY <1>4, <1>7

(* After an import that finds the lists it keeps where the file has them, the *)
(* lists are those of the file.                                               *)
LEMMA TreeImports ==
  ASSUME RowsApart, L!FileAssumption, NEW f \in LibraryFile, L!Import(f)
  PROVE  TreeInv'
<1>1. PICK file : file = FileLists[f] OBVIOUS
<1> SUFFICES ASSUME calm', NEW A \in SUBSET L!List, Closed(A)' PROVE Shown' \subseteq A
  BY DEF TreeInv
<1>2. row' = [l \in L!List |-> IF l \in DOMAIN file THEN L!Imported(l, f)
                             ELSE IF L!Exists(l) THEN [row[l] EXCEPT !.deleted = TRUE] ELSE Gone]
  BY <1>1 DEF L!Import
<1>3. \A l \in {m \in DOMAIN file : L!Found(m) /\ row[m].hash = L!Hash(file[m])} : row[l].parent = file[l].parent
  BY <1>1 DEF L!Import
<1>4. DOMAIN file \subseteq L!List BY <1>1 DEF L!FileAssumption
<1>5. \A l \in DOMAIN file : l \in Shown' /\ row'[l].parent = file[l].parent
  <2> SUFFICES ASSUME NEW l \in DOMAIN file PROVE l \in Shown' /\ row'[l].parent = file[l].parent
    OBVIOUS
  <2>1. PICK p, b : p = file[l].parent /\ b = file[l].body OBVIOUS
  <2>2. PICK new : new = [parent |-> p, body |-> b, hash |-> b, deleted |-> FALSE] OBVIOUS
  <2>3. row'[l] = IF L!Found(l) /\ row[l].hash = b THEN row[l] ELSE new
    BY <1>1, <1>2, <1>4, <2>1, <2>2 DEF L!Imported, L!Hash
  <2>4. CASE L!Found(l) /\ row[l].hash = b
    <3>1. row'[l] = row[l] BY <2>3, <2>4
    <3>2. row[l].parent = file[l].parent BY <1>3, <2>1, <2>4 DEF L!Hash
    <3> QED BY <1>4, <2>4, <3>1, <3>2 DEF Shown, L!Found, L!Exists
  <2>5. CASE ~(L!Found(l) /\ row[l].hash = b)
    <3>1. row'[l] = new BY <2>3, <2>5
    <3>2. new # Gone /\ new.parent = p /\ ~new.deleted
      <4>1. DOMAIN new = RowFields BY <2>2 DEF RowFields
      <4>2. new.parent = p /\ ~new.deleted BY <2>2
      <4> QED BY <4>1, <4>2 DEF RowsApart
    <3> QED BY <1>4, <2>1, <3>1, <3>2 DEF Shown, L!Found, L!Exists
  <2> QED BY <2>4, <2>5
<1>6. Shown' \subseteq DOMAIN file
  <2> SUFFICES ASSUME NEW l \in L!List, L!Found(l)', l \notin DOMAIN file PROVE FALSE
    BY DEF Shown
  <2>1. PICK r : r = row[l] OBVIOUS
  <2>2. row'[l] = IF L!Exists(l) THEN [r EXCEPT !.deleted = TRUE] ELSE Gone BY <1>2, <2>1
  <2> QED BY <2>2 DEF L!Found, L!Exists
<1>7. PICK T : T = A \intersect DOMAIN file OBVIOUS
<1>8. \A l \in DOMAIN file : file[l].parent \in T \union {Root} => l \in T BY <1>5, <1>7 DEF Closed
<1>9. T = DOMAIN file BY <1>1, <1>7, <1>8 DEF L!FileAssumption
<1> QED BY <1>6, <1>7, <1>9

(* An edit leaves the list where it is, and brings back no list that was deleted. *)
LEMMA TreeSaves ==
  ASSUME RowsApart, HashInv, TreeInv, L!SaveEdit
  PROVE  TreeInv'
<1>1. CASE UNCHANGED <<row, calm>> BY <1>1, TreeStays DEF Shown, L!Found, L!Exists
<1>2. CASE /\ L!Exists(editing.list) /\ row' = [row EXCEPT ![editing.list] = L!Written(@, editing.body)]
           /\ calm' = (calm /\ ~row[editing.list].deleted)
  <2>1. PICK l, b, r, q : l = editing.list /\ b = editing.body /\ r = row[l] /\ q = L!Written(r, b)
    OBVIOUS
  <2>2. row' = [row EXCEPT ![l] = q] /\ DOMAIN row = L!List BY <1>2, <2>1 DEF HashInv
  <2>3. \A m \in L!List : m # l => row'[m] = row[m] BY <2>2
  <2> SUFFICES ASSUME calm' PROVE TreeInv'
    BY DEF TreeInv
  <2>4. calm /\ ~r.deleted BY <1>2, <2>1
  <2>5. l \in L!List => row'[l] = q /\ q # Gone /\ q.parent = r.parent /\ ~q.deleted
    <3> SUFFICES ASSUME l \in L!List PROVE row'[l] = q /\ q # Gone /\ q.parent = r.parent /\ ~q.deleted
      OBVIOUS
    <3>1. DOMAIN r = RowFields BY <1>2, <2>1 DEF HashInv, Hashed, L!Exists
    <3>2. PICK s : s = [r EXCEPT !.body = b] OBVIOUS
    <3>3. PICK u : u = [s EXCEPT !.hash = NoHash] OBVIOUS
    <3>4. q = [u EXCEPT !.deleted = FALSE] BY <2>1, <3>2, <3>3 DEF L!Written
    <3>5. DOMAIN s = RowFields /\ s.parent = r.parent BY <3>1, <3>2 DEF RowFields
    <3>6. DOMAIN u = RowFields /\ u.parent = r.parent BY <3>3, <3>5 DEF RowFields
    <3>7. DOMAIN q = RowFields /\ q.parent = r.parent /\ ~q.deleted BY <3>4, <3>6 DEF RowFields
    <3> QED BY <2>2, <3>7 DEF RowsApart
  <2>6. l \in L!List => l \in Shown BY <1>2, <2>1, <2>4 DEF Shown, L!Found, L!Exists
  <2>7. Shown' = Shown /\ \A m \in Shown : row'[m].parent = row[m].parent
    BY <2>1, <2>3, <2>5, <2>6 DEF Shown, L!Found, L!Exists
  <2> QED BY <2>4, <2>7, TreeStays
<1> QED BY <1>1, <1>2 DEF L!SaveEdit

(* Every step keeps the lists that are shown below the root. *)
LEMMA TreeStep ==
  ASSUME RowsApart, L!FileAssumption, HashInv, TreeInv, [L!Next]_(L!vars)
  PROVE  TreeInv'
<1>1. CASE UNCHANGED <<row, calm>> BY <1>1, TreeStays DEF Shown, L!Found, L!Exists
<1>2. ASSUME NEW l, NEW b, L!New(l, b), UNCHANGED calm PROVE TreeInv' BY <1>2, TreeGrows
<1>3. ASSUME NEW l, L!DeleteList(l) PROVE TreeInv' BY <1>3, TreeShrinks
<1>4. ASSUME NEW l, NEW p, L!MoveList(l, p) PROVE TreeInv' BY <1>4, TreeMoves DEF L!MoveList
<1>5. ASSUME L!PlaceFolder PROVE TreeInv' BY <1>5, TreeMoves DEF L!PlaceFolder
<1>6. \/ UNCHANGED <<row, calm>>
      \/ (\E f \in LibraryFile : L!Import(f)) \/ L!PlaceFolder \/ L!SaveEdit
      \/ \E l, b : L!New(l, b) /\ UNCHANGED calm
      \/ \E l, p : L!MoveList(l, p)
      \/ \E l : L!DeleteList(l)
  BY DEF L!Next, L!vars, L!InvalidateAll, L!CreateList, L!CreateFolder, L!BeginCount, L!EndCount, L!Expire,
         L!AddMember, L!DropMember, L!ShiftMember, L!EditRules, L!DeleteBook, L!Lock
<1> QED BY <1>1, <1>2, <1>3, <1>4, <1>5, <1>6, TreeImports, TreeSaves

--------------------------------------------------------------------------------
(* Counts.  What is cached of a manual list that no change has overtaken is    *)
(* the number of its members that are books: a change either makes the count   *)
(* stale or writes it with the list, and an evaluation that a change overtakes *)
(* knows it (Outdated).                                                        *)
BodiesOK == \A l \in Manual : L!Exists(l) => row[l].body \in Seq(Book)

EditOK == editing # None => (editing.list \in Manual => editing.body \in Seq(Book))

(* An evaluation that is current is of the list as it is. *)
ViewOK(l) == view[l] # None =>
  /\ DOMAIN view[l] = {"body", "current"}
  /\ view[l].current => L!Exists(l) /\ row[l].body = view[l].body

CountOK(l) ==
  /\ count[l] # None => DOMAIN count[l] = {"n", "fresh"}
  /\ L!Found(l) /\ l \notin doubtful /\ L!Fresh(l) /\ ~importing => count[l].n = Len(L!Members(l))

CountsInv ==
  /\ BodiesOK /\ EditOK
  /\ DOMAIN view = L!List /\ DOMAIN count = L!List
  /\ \A l \in Manual : ViewOK(l) /\ CountOK(l)

(* What the invariant gives. *)
LEMMA CountsGive == ASSUME CountsInv PROVE L!FreshCountsTrue
  BY DEF CountsInv, CountOK, L!FreshCountsTrue

(* There is no list at first. *)
LEMMA CountsStart == ASSUME L!Init PROVE CountsInv
  BY DEF L!Init, CountsInv, BodiesOK, EditOK, ViewOK, CountOK, L!Exists, L!Found, L!Fresh, L!List

(* The loops of the lists are those of the other parts. *)
LEMMA SameKept == ASSUME NEW s, NEW these PROVE L!Kept(s, these) = Kept(s, these)
  BY DEF L!Kept, Kept

(* The members of a list are books. *)
LEMMA MembersAreBooks == ASSUME CountsInv, NEW l \in Manual, L!Exists(l) PROVE L!Members(l) \in Seq(Book)
  BY SameKept, KeptIsSeq DEF CountsInv, BodiesOK, L!Members

(* A book that is put in a sequence of books leaves it one. *)
LEMMA Inserted ==
  ASSUME NEW s \in Seq(Book), NEW b \in Book, NEW i \in Nat \ {0}
  PROVE  L!InsertMember(s, b, i) \in Seq(Book)
<1>1. PICK j : j = IF i > Len(s) + 1 THEN Len(s) + 1 ELSE i OBVIOUS
<1>2. j \in 1 .. Len(s) + 1 BY <1>1
<1>3. SubSeq(s, 1, j - 1) \in Seq(Book)
  <2>1. \A k \in 1 .. j - 1 : k \in 1 .. Len(s) BY <1>2
  <2> QED BY <1>2, <2>1
<1>4. SubSeq(s, j, Len(s)) \in Seq(Book)
  <2>1. \A k \in j .. Len(s) : k \in 1 .. Len(s) BY <1>2
  <2> QED BY <1>2, <2>1
<1>5. <<b>> \in Seq(Book) OBVIOUS
<1>6. L!InsertAt(s, j, b) \in Seq(Book) BY <1>3, <1>4, <1>5 DEF L!InsertAt
<1>7. L!InsertMember(s, b, i) = s \/ L!InsertMember(s, b, i) = L!InsertAt(s, j, b)
  BY <1>1 DEF L!InsertMember
<1> QED BY <1>6, <1>7

(* What is about to be written to a manual list is a sequence of books. *)
LEMMA EditsAreBooks ==
  ASSUME CountsInv, NEW l \in Manual, NEW b \in Book, NEW i \in 1 .. Cardinality(Book),
         L!AddMember(l, b, i) \/ L!DropMember(l, b) \/ L!ShiftMember(l, b, i)
  PROVE  CountsInv'
<1>1. L!Found(l) /\ L!Members(l) \in Seq(Book)
  BY MembersAreBooks DEF L!AddMember, L!DropMember, L!ShiftMember, L!Found
<1>2. L!RemoveMember(L!Members(l), b) \in Seq(Book) BY <1>1, SameKept, KeptIsSeq DEF L!RemoveMember
<1>3. \E s \in Seq(Book) : L!Lock(l, s)
  BY <1>1, <1>2, Inserted DEF L!AddMember, L!DropMember, L!ShiftMember, L!MoveMember
<1>4. PICK s \in Seq(Book) : editing' = [list |-> l, body |-> s] /\ UNCHANGED <<row, live, view, count, importing, doubtful>>
  BY <1>3 DEF L!Lock, L!cacheVars
<1>5. EditOK' BY <1>4 DEF EditOK
<1> QED BY <1>4, <1>5 DEF CountsInv, BodiesOK, ViewOK, CountOK, L!Exists, L!Found, L!Fresh, L!Members

(* A step that leaves what the manual lists hold, and their counts. *)
LEMMA CountsStay ==
  ASSUME CountsInv, UNCHANGED <<live, view, count, importing, doubtful>>, EditOK',
         \A l \in Manual : row'[l] = row[l] \/ /\ L!Exists(l) /\ L!Exists(l)'
                                               /\ row'[l].body = row[l].body
                                               /\ L!Found(l)' => L!Found(l)
  PROVE  CountsInv'
<1>1. ASSUME NEW l \in Manual
      PROVE  /\ L!Exists(l)' <=> L!Exists(l)
             /\ L!Exists(l) => row'[l].body = row[l].body
             /\ L!Found(l)' => L!Found(l)
  BY DEF L!Exists, L!Found
<1>2. BodiesOK' BY <1>1 DEF CountsInv, BodiesOK
<1>3. ASSUME NEW l \in Manual PROVE ViewOK(l)' BY <1>1 DEF CountsInv, ViewOK
<1>4. ASSUME NEW l \in Manual PROVE CountOK(l)'
  <2>1. L!Found(l)' => L!Members(l)' = L!Members(l) BY <1>1 DEF L!Members, L!Found
  <2> QED BY <1>1, <2>1 DEF CountsInv, CountOK, L!Fresh
<1> QED BY <1>2, <1>3, <1>4 DEF CountsInv

(* No evaluation is current after a change. *)
LEMMA ViewsOutdated ==
  ASSUME CountsInv, L!Outdated
  PROVE  DOMAIN view' = L!List /\ \A l \in Manual : ViewOK(l)'
<1>1. ASSUME NEW l \in Manual PROVE ViewOK(l)'
  <2>1. PICK v : v = view[l] OBVIOUS
  <2>2. view'[l] = IF v = None THEN None ELSE [v EXCEPT !.current = FALSE]
    BY <2>1 DEF L!Outdated, L!List
  <2>3. CASE v = None BY <2>2, <2>3 DEF ViewOK
  <2>4. CASE v # None
    <3>1. DOMAIN v = {"body", "current"} BY <2>1, <2>4 DEF CountsInv, ViewOK
    <3>2. DOMAIN view'[l] = {"body", "current"} /\ ~view'[l].current BY <2>2, <2>4, <3>1
    <3> QED BY <3>2 DEF ViewOK
  <2> QED BY <2>3, <2>4
<1> QED BY <1>1 DEF L!Outdated

(* A stale count is no claim. *)
LEMMA StaleCount ==
  ASSUME CountsInv, NEW l \in Manual, count'[l] = L!Stale(count[l])
  PROVE  CountOK(l)'
<1>1. PICK c : c = count[l] OBVIOUS
<1>2. CASE c = None BY <1>1, <1>2 DEF CountOK, L!Stale, L!Fresh
<1>3. CASE c # None
  <2>1. DOMAIN c = {"n", "fresh"} BY <1>1, <1>3 DEF CountsInv, CountOK
  <2>2. count'[l] = [c EXCEPT !.fresh = FALSE] BY <1>1, <1>3 DEF L!Stale
  <2>3. DOMAIN count'[l] = {"n", "fresh"} /\ ~count'[l].fresh BY <2>1, <2>2
  <2> QED BY <2>3 DEF CountOK, L!Fresh
<1> QED BY <1>2, <1>3

(* An import changes lists and books, and makes every count stale afterwards. *)
LEMMA CountsImport ==
  ASSUME L!FileAssumption, CountsInv, NEW f \in LibraryFile, L!Import(f)
  PROVE  CountsInv'
<1>1. /\ row' = [l \in L!List |-> IF l \in DOMAIN FileLists[f] THEN L!Imported(l, f)
                                ELSE IF L!Exists(l) THEN [row[l] EXCEPT !.deleted = TRUE] ELSE Gone]
      /\ importing' = TRUE /\ L!Outdated /\ UNCHANGED <<editing, count>>
  BY DEF L!Import
<1>2. ASSUME NEW l \in Manual, L!Exists(l)' PROVE row'[l].body \in Seq(Book)
  <2>1. L!Exists(l) => row[l].body \in Seq(Book) BY DEF CountsInv, BodiesOK
  <2>2. CASE l \in DOMAIN FileLists[f]
    <3>1. PICK b, p : b = FileLists[f][l].body /\ p = FileLists[f][l].parent OBVIOUS
    <3>2. b \in Seq(Book)
      <4>1. b \in L!SeqOf(Book, Cardinality(Book))
        BY <2>2, <3>1 DEF L!FileAssumption, L!Body, L!Cardinality, Cardinality
      <4>2. PICK m \in Nat : b \in [1 .. m -> Book] BY <4>1 DEF L!SeqOf
      <4> QED BY <4>2
    <3>3. PICK new : new = [parent |-> p, body |-> b, hash |-> b, deleted |-> FALSE] OBVIOUS
    <3>4. row'[l] = IF L!Found(l) /\ row[l].hash = b THEN row[l] ELSE new
      BY <1>1, <2>2, <3>1, <3>3 DEF L!Imported, L!Hash, L!List
    <3>5. new.body = b BY <3>3
    <3> QED BY <2>1, <3>2, <3>4, <3>5 DEF L!Found
  <2>3. CASE l \notin DOMAIN FileLists[f]
    <3>1. PICK r : r = row[l] OBVIOUS
    <3>2. row'[l] = IF L!Exists(l) THEN [r EXCEPT !.deleted = TRUE] ELSE Gone
      BY <1>1, <2>3, <3>1 DEF L!List
    <3>3. L!Exists(l) /\ row'[l] = [r EXCEPT !.deleted = TRUE] BY <1>2, <3>2 DEF L!Exists
    <3>4. row'[l].body = r.body BY <3>3
    <3> QED BY <2>1, <3>1, <3>3, <3>4
  <2> QED BY <2>2, <2>3
<1>3. BodiesOK' BY <1>2 DEF BodiesOK
<1>4. EditOK' BY <1>1 DEF CountsInv, EditOK
<1>5. ASSUME NEW l \in Manual PROVE CountOK(l)' BY <1>1 DEF CountsInv, CountOK
<1> QED BY <1>1, <1>3, <1>4, <1>5, ViewsOutdated DEF CountsInv

(* A list that is made has no count. *)
LEMMA CountsGrow ==
  ASSUME CountsInv, HashInv, NEW l, NEW body, l \in Manual => body = <<>>, L!New(l, body), EditOK',
         UNCHANGED <<live, view, count, importing, doubtful>>
  PROVE  CountsInv'
<1>1. PICK new : new = [parent |-> Root, body |-> body, hash |-> NoHash, deleted |-> FALSE] OBVIOUS
<1>2. row' = [row EXCEPT ![l] = new] /\ DOMAIN row = L!List /\ view[l] = None /\ count[l] = None
  BY <1>1 DEF L!New, HashInv
<1>3. new.body = body BY <1>1
<1>4. \A m \in Manual : m # l => row'[m] = row[m] BY <1>2
<1>5. l \in Manual => row'[l] = new BY <1>2 DEF L!List
<1>6. BodiesOK'
  <2>1. <<>> \in Seq(Book) OBVIOUS
  <2> QED BY <1>3, <1>4, <1>5, <2>1 DEF CountsInv, BodiesOK, L!Exists
<1>7. ASSUME NEW m \in Manual PROVE ViewOK(m)' /\ CountOK(m)'
  <2>1. CASE m = l BY <1>2, <2>1 DEF ViewOK, CountOK, L!Fresh
  <2>2. CASE m # l
    <3>1. row'[m] = row[m] BY <1>4, <2>2
    <3> QED BY <3>1 DEF CountsInv, ViewOK, CountOK, L!Exists, L!Found, L!Fresh, L!Members
  <2> QED BY <2>1, <2>2
<1> QED BY <1>6, <1>7 DEF CountsInv

(* A list that is moved holds what it held. *)
LEMMA CountsMove ==
  ASSUME RowsApart, CountsInv, HashInv, NEW l, NEW p, L!MoveTo(l, p), EditOK',
         UNCHANGED <<live, view, count, importing, doubtful>>
  PROVE  CountsInv'
<1>1. CASE UNCHANGED row BY <1>1, CountsStay
<1>2. CASE L!Exists(l) /\ row' = [row EXCEPT ![l].parent = p]
  <2>1. PICK r, q : r = row[l] /\ q = [r EXCEPT !.parent = p] OBVIOUS
  <2>2. row' = [row EXCEPT ![l] = q] /\ DOMAIN row = L!List BY <1>2, <2>1 DEF HashInv
  <2>3. ASSUME NEW m \in Manual
        PROVE  row'[m] = row[m] \/ /\ L!Exists(m) /\ L!Exists(m)'
                                   /\ row'[m].body = row[m].body
                                   /\ L!Found(m)' => L!Found(m)
    <3>1. CASE m # l BY <2>2, <3>1
    <3>2. CASE m = l
      <4>1. m \in L!List BY DEF L!List
      <4>2. DOMAIN r = RowFields BY <1>2, <2>1, <3>2, <4>1 DEF HashInv, Hashed, L!Exists
      <4>3. DOMAIN q = RowFields /\ q.body = r.body /\ q.deleted = r.deleted BY <2>1, <4>2 DEF RowFields
      <4>4. q # Gone BY <4>3 DEF RowsApart
      <4>5. row'[m] = q /\ row[m] = r BY <2>1, <2>2, <3>2, <4>1
      <4> QED BY <1>2, <3>2, <4>3, <4>4, <4>5 DEF L!Exists, L!Found
    <3> QED BY <3>1, <3>2
  <2> QED BY <2>3, CountsStay
<1> QED BY <1>1, <1>2 DEF L!MoveTo

(* The lists that are deleted have no count, and no evaluation is current. *)
LEMMA CountsShrink ==
  ASSUME CountsInv, NEW l, L!DeleteList(l)
  PROVE  CountsInv'
<1>1. PICK D : D = L!Deleted(l) OBVIOUS
<1>2. /\ row' = [m \in L!List |-> IF m \in D THEN Gone ELSE row[m]]
      /\ count' = [count EXCEPT ![l] = L!Stale(@)]
      /\ L!Outdated /\ UNCHANGED <<live, editing, importing, doubtful>>
  BY <1>1 DEF L!DeleteList
<1>3. \A m \in Manual : L!Exists(m)' => row'[m] = row[m] BY <1>2 DEF L!Exists, L!List
<1>4. BodiesOK'
  <2>1. ASSUME NEW m \in Manual, L!Exists(m)' PROVE row'[m].body \in Seq(Book)
    <3>1. row'[m] = row[m] BY <1>3, <2>1
    <3>2. L!Exists(m) BY <2>1, <3>1 DEF L!Exists
    <3> QED BY <3>1, <3>2 DEF CountsInv, BodiesOK
  <2> QED BY <2>1 DEF BodiesOK
<1>5. EditOK' BY <1>2 DEF CountsInv, EditOK
<1>6. ASSUME NEW m \in Manual PROVE CountOK(m)'
  <2>1. CASE m = l
    <3>1. count'[l] = L!Stale(count[l]) BY <1>2, <2>1 DEF CountsInv, L!List
    <3> QED BY <2>1, <3>1, StaleCount
  <2>2. CASE m # l
    <3>1. count'[m] = count[m] BY <1>2, <2>2 DEF CountsInv, L!List
    <3>2. L!Found(m)' => row'[m] = row[m] BY <1>3 DEF L!Found
    <3> QED BY <1>2, <3>1, <3>2 DEF CountsInv, CountOK, L!Exists, L!Found, L!Fresh, L!Members
  <2> QED BY <2>1, <2>2
<1>7. DOMAIN count' = L!List BY <1>2 DEF CountsInv
<1> QED BY <1>2, <1>4, <1>5, <1>6, <1>7, ViewsOutdated DEF CountsInv

(* An edit of a manual list writes the count with the list. *)
LEMMA CountsSave ==
  ASSUME CountsInv, HashInv, L!SaveEdit
  PROVE  CountsInv'
<1>0. EditOK' BY DEF L!SaveEdit, EditOK
<1>1. CASE UNCHANGED <<row, count, doubtful, view>>
  BY <1>0, <1>1, CountsStay DEF L!SaveEdit
<1>2. CASE ~UNCHANGED <<row, count, doubtful, view>>
  <2>1. PICK l, b, r, q : l = editing.list /\ b = editing.body /\ r = row[l] /\ q = L!Written(r, b)
    OBVIOUS
  <2>2. L!Exists(l) /\ row' = [row EXCEPT ![l] = q] /\ DOMAIN row = L!List /\ L!Outdated
        /\ UNCHANGED <<live, importing>>
    BY <1>2, <2>1 DEF L!SaveEdit, HashInv
  <2>3. \A m \in Manual : m # l => row'[m] = row[m] BY <2>2
  <2>4. l \in Manual => row'[l] = q /\ q.body = b /\ b \in Seq(Book)
    <3> SUFFICES ASSUME l \in Manual PROVE row'[l] = q /\ q.body = b /\ b \in Seq(Book)
      OBVIOUS
    <3>0. l \in L!List BY DEF L!List
    <3>1. DOMAIN r = RowFields BY <2>1, <2>2, <3>0 DEF HashInv, Hashed, L!Exists
    <3>2. PICK s : s = [r EXCEPT !.body = b] OBVIOUS
    <3>3. PICK u : u = [s EXCEPT !.hash = NoHash] OBVIOUS
    <3>4. q = [u EXCEPT !.deleted = FALSE] BY <2>1, <3>2, <3>3 DEF L!Written
    <3>5. s.body = b /\ u.body = s.body /\ q.body = u.body BY <3>1, <3>2, <3>3, <3>4 DEF RowFields
    <3>6. b \in Seq(Book) BY <2>1 DEF CountsInv, EditOK, L!SaveEdit
    <3> QED BY <2>2, <3>0, <3>5, <3>6
  <2>5. BodiesOK' BY <2>3, <2>4 DEF CountsInv, BodiesOK, L!Exists
  <2>6. ASSUME NEW m \in Manual, m # l, count'[m] = count[m], m \notin doubtful' => m \notin doubtful
        PROVE  CountOK(m)'
    <3>1. row'[m] = row[m] BY <2>3, <2>6
    <3> QED BY <2>2, <2>6, <3>1 DEF CountsInv, CountOK, L!Exists, L!Found, L!Fresh, L!Members
  <2>7. CASE l \notin Manual
    <3>1. count' = [count EXCEPT ![l] = L!Stale(@)] /\ UNCHANGED doubtful
      BY <1>2, <2>1, <2>7 DEF L!SaveEdit
    <3>2. \A m \in Manual : CountOK(m)' BY <2>6, <2>7, <3>1
    <3>3. DOMAIN count' = L!List BY <3>1 DEF CountsInv
    <3> QED BY <1>0, <2>2, <2>5, <3>2, <3>3, ViewsOutdated DEF CountsInv
  <2>8. CASE l \in Manual
    <3>0. L!Recount(l) BY <1>2, <2>1, <2>8 DEF L!SaveEdit
    <3>1. PICK c : c = [n |-> Len(b), fresh |-> TRUE] OBVIOUS
    <3>2. /\ count' = [count EXCEPT ![l] = c]
          /\ doubtful' = IF \A i \in DOMAIN b : b[i] \in live THEN doubtful \ {l} ELSE doubtful \union {l}
      BY <2>1, <3>0, <3>1 DEF L!Recount
    <3>3. DOMAIN count' = L!List /\ count'[l] = c BY <2>8, <3>2 DEF CountsInv, L!List
    <3>4. CountOK(l)'
      <4>1. DOMAIN c = {"n", "fresh"} /\ c.n = Len(b) BY <3>1
      <4>2. ASSUME l \notin doubtful' PROVE L!Members(l)' = b
        <5>1. \A i \in DOMAIN b : b[i] \in live BY <3>2, <4>2
        <5>2. b \in Seq(live) BY <2>4, <2>8, <5>1
        <5>3. Kept(b, live) = b BY <5>2, KeptAll
        <5>4. L!Members(l)' = L!Kept(b, live) BY <2>2, <2>4, <2>8 DEF L!Members
        <5> QED BY <5>3, <5>4, SameKept
      <4> QED BY <3>3, <4>1, <4>2 DEF CountOK
    <3>5. ASSUME NEW m \in Manual, m # l PROVE CountOK(m)'
      <4>1. count'[m] = count[m] /\ (m \notin doubtful' => m \notin doubtful)
        BY <3>2, <3>5 DEF CountsInv, L!List
      <4> QED BY <2>6, <3>5, <4>1
    <3> QED BY <1>0, <2>2, <2>5, <3>3, <3>4, <3>5, ViewsOutdated DEF CountsInv
  <2> QED BY <2>7, <2>8
<1> QED BY <1>1, <1>2

(* An evaluation starts with the list as it is. *)
LEMMA CountsBegin ==
  ASSUME CountsInv, NEW l, L!BeginCount(l)
  PROVE  CountsInv'
<1>1. PICK b, v : b = row[l].body /\ v = [body |-> b, current |-> TRUE] OBVIOUS
<1>2. /\ view' = [view EXCEPT ![l] = v]
      /\ UNCHANGED <<row, live, editing, count, importing, doubtful>>
      /\ l \in Manual /\ l \in L!Visible
  BY <1>1 DEF L!BeginCount
<1>3. L!Exists(l)
  <2>1. PICK table : table = {m \in L!List : L!Found(m)} OBVIOUS
  <2>2. L!Below({Root}, table) \subseteq {Root} \union table BY BelowIs
  <2>3. l \in table BY <1>2, <2>1, <2>2 DEF L!Visible
  <2> QED BY <2>1, <2>3 DEF L!Found
<1>4. DOMAIN v = {"body", "current"} /\ v.body = b BY <1>1
<1>5. ASSUME NEW m \in Manual PROVE ViewOK(m)'
  <2>1. m \in DOMAIN view BY DEF CountsInv, L!List
  <2>2. CASE m = l
    <3>1. view'[m] = v BY <1>2, <2>1, <2>2
    <3> QED BY <1>1, <1>2, <1>3, <1>4, <2>2, <3>1 DEF ViewOK, L!Exists
  <2>3. CASE m # l
    <3>1. view'[m] = view[m] BY <1>2, <2>1, <2>3
    <3> QED BY <1>2, <3>1 DEF CountsInv, ViewOK, L!Exists
  <2> QED BY <2>2, <2>3
<1>6. DOMAIN view' = L!List BY <1>2 DEF CountsInv
<1> QED BY <1>2, <1>5, <1>6 DEF CountsInv, BodiesOK, EditOK, CountOK, L!Exists, L!Found, L!Fresh, L!Members

(* It stores the number of the books that the list had then. *)
LEMMA CountsEnd ==
  ASSUME CountsInv, NEW l \in L!List, L!EndCount(l)
  PROVE  CountsInv'
<1>1. PICK w, n, c : w = view[l] /\ n = Len(L!Kept(w.body, live)) /\ c = [n |-> n, fresh |-> TRUE] OBVIOUS
<1>2. /\ w # None
      /\ count' = [count EXCEPT ![l] = c]
      /\ doubtful' = IF w.current THEN doubtful \ {l} ELSE doubtful \union {l}
      /\ view' = [view EXCEPT ![l] = None]
      /\ UNCHANGED <<row, live, editing, importing>>
  BY <1>1 DEF L!EndCount
<1>3. DOMAIN view' = L!List /\ DOMAIN count' = L!List BY <1>2 DEF CountsInv
<1>4. ASSUME NEW m \in Manual PROVE ViewOK(m)'
  <2>1. view'[m] = None \/ view'[m] = view[m] BY <1>2 DEF CountsInv, L!List
  <2> QED BY <1>2, <2>1 DEF CountsInv, ViewOK, L!Exists
<1>5. ASSUME NEW m \in Manual PROVE CountOK(m)'
  <2>1. m \in DOMAIN count BY DEF CountsInv, L!List
  <2>2. CASE m = l
    <3>1. count'[m] = c BY <1>2, <2>1, <2>2
    <3>2. DOMAIN c = {"n", "fresh"} /\ c.n = n BY <1>1
    <3>3. m \notin doubtful' => w.current BY <1>2, <2>2
    <3>4. w.current => row[l].body = w.body BY <1>1, <1>2, <2>2 DEF CountsInv, ViewOK
    <3>5. w.current => n = Len(L!Members(l)) BY <1>1, <3>4 DEF L!Members
    <3>6. L!Members(m)' = L!Members(l) BY <1>2, <2>2 DEF L!Members
    <3> QED BY <3>1, <3>2, <3>3, <3>5, <3>6 DEF CountOK
  <2>3. CASE m # l
    <3>1. count'[m] = count[m] /\ (m \notin doubtful' => m \notin doubtful) BY <1>2, <2>1, <2>3
    <3> QED BY <1>2, <3>1 DEF CountsInv, CountOK, L!Exists, L!Found, L!Fresh, L!Members
  <2> QED BY <2>2, <2>3
<1> QED BY <1>2, <1>3, <1>4, <1>5 DEF CountsInv, BodiesOK, EditOK, L!Exists

(* Counts that expire, or are invalidated, are no claims. *)
LEMMA CountsExpire ==
  ASSUME CountsInv, L!InvalidateAll \/ \E l : L!Expire(l)
  PROVE  CountsInv'
<1>1. CASE L!InvalidateAll
  <2>1. /\ count' = [l \in L!List |-> L!Stale(count[l])]
        /\ UNCHANGED <<row, live, editing, view, doubtful>>
    BY <1>1 DEF L!InvalidateAll
  <2>2. \A l \in Manual : CountOK(l)' BY <2>1, StaleCount DEF L!List
  <2> QED BY <2>1, <2>2 DEF CountsInv, BodiesOK, EditOK, ViewOK, L!Exists
<1>2. ASSUME NEW l, L!Expire(l) PROVE CountsInv'
  <2>1. /\ count' = [count EXCEPT ![l] = L!Stale(@)]
        /\ UNCHANGED <<row, live, editing, view, importing, doubtful>>
    BY <1>2 DEF L!Expire
  <2>2. ASSUME NEW m \in Manual PROVE CountOK(m)'
    <3>1. m \in DOMAIN count BY DEF CountsInv, L!List
    <3>2. CASE m = l
      <4>1. count'[m] = L!Stale(count[m]) BY <2>1, <3>1, <3>2
      <4> QED BY <4>1, StaleCount
    <3>3. CASE m # l
      <4>1. count'[m] = count[m] BY <2>1, <3>1, <3>3
      <4> QED BY <2>1, <4>1 DEF CountsInv, CountOK, L!Exists, L!Found, L!Fresh, L!Members
    <3> QED BY <3>2, <3>3
  <2>3. DOMAIN count' = L!List BY <2>1 DEF CountsInv
  <2> QED BY <2>1, <2>2, <2>3 DEF CountsInv, BodiesOK, EditOK, ViewOK, L!Exists
<1> QED BY <1>1, <1>2

(* A book that is deleted leaves the counts of the lists without it true. *)
LEMMA CountsOfBooks == ASSUME CountsInv, NEW b \in Book, L!DeleteBook(b) PROVE CountsInv'
<1>1. /\ live' = live \ {b} /\ UNCHANGED <<row, editing, count, importing>>
      /\ doubtful' = doubtful \union {l \in Manual : L!Exists(l) /\ L!Fresh(l) /\ L!Contains(row[l].body, b)}
      /\ view' = [l \in L!List |->
            IF l \in Manual /\ view[l] # None /\ L!Contains(view[l].body, b) THEN [view[l] EXCEPT !.current = FALSE] ELSE view[l]]
  BY DEF L!DeleteBook
<1>2. ASSUME NEW l \in Manual PROVE ViewOK(l)'
  <2>1. PICK v : v = view[l] OBVIOUS
  <2>2. view'[l] = v \/ (v # None /\ view'[l] = [v EXCEPT !.current = FALSE]) BY <1>1, <2>1 DEF L!List
  <2>3. CASE view'[l] = v BY <1>1, <2>1, <2>3 DEF CountsInv, ViewOK, L!Exists
  <2>4. CASE v # None /\ view'[l] = [v EXCEPT !.current = FALSE]
    <3>1. DOMAIN v = {"body", "current"} BY <2>1, <2>4 DEF CountsInv, ViewOK
    <3>2. DOMAIN view'[l] = {"body", "current"} /\ ~view'[l].current BY <2>4, <3>1
    <3> QED BY <3>2 DEF ViewOK
  <2> QED BY <2>2, <2>3, <2>4
<1>3. ASSUME NEW l \in Manual PROVE CountOK(l)'
  <2>1. count'[l] = count[l] BY <1>1
  <2>2. ASSUME L!Found(l), l \notin doubtful', L!Fresh(l) PROVE L!Members(l)' = L!Members(l)
    <3>1. L!Exists(l) /\ ~L!Contains(row[l].body, b) BY <1>1, <2>2 DEF L!Found
    <3>2. row[l].body \in Seq(Book) BY <3>1 DEF CountsInv, BodiesOK
    <3>3. \A i \in 1 .. Len(row[l].body) : row[l].body[i] # b BY <3>1, <3>2 DEF L!Contains
    <3>4. Kept(row[l].body, live \ {b}) = Kept(row[l].body, live)
      <4>1. PICK s, those : s = row[l].body /\ those = live \ {b} OBVIOUS
      <4>2. s \in Seq(Book) /\ \A i \in 1 .. Len(s) : s[i] \in those <=> s[i] \in live BY <4>1, <3>2, <3>3
      <4>5. Kept(s, those) = Kept(s, live) BY <4>2, KeptAlike
      <4> QED BY <4>1, <4>5
    <3> QED BY <1>1, <3>4, SameKept DEF L!Members
  <2>3. (l \notin doubtful' => l \notin doubtful) BY <1>1
  <2> QED BY <1>1, <2>1, <2>2, <2>3 DEF CountsInv, CountOK, L!Found, L!Exists, L!Fresh
<1>4. DOMAIN view' = L!List /\ DOMAIN count' = L!List BY <1>1 DEF CountsInv
<1>5. BodiesOK' /\ EditOK' BY <1>1 DEF CountsInv, BodiesOK, EditOK, L!Exists
<1> QED BY <1>2, <1>3, <1>4, <1>5 DEF CountsInv

(* What a request may write: a manual list is made empty, and only the requests *)
(* for members write to one.                                                   *)
LEMMA CountsStep ==
  ASSUME RowsApart, L!ListAssumption, L!FileAssumption, HashInv, CountsInv, [L!Next]_(L!vars)
  PROVE  CountsInv'
<1>0. Manual \intersect Folder = {} /\ L!List = Folder \union Manual BY DEF L!ListAssumption, L!List
<1>1. CASE UNCHANGED L!vars
  BY <1>1 DEF L!vars, L!cacheVars, CountsInv, BodiesOK, EditOK, ViewOK, CountOK, L!Exists, L!Found, L!Fresh, L!Members
<1>2. ASSUME NEW f \in LibraryFile, L!Import(f) PROVE CountsInv' BY <1>2, CountsImport
<1>3. CASE L!InvalidateAll BY <1>3, CountsExpire
<1>4. ASSUME NEW l \in Local, NEW b \in IF l \in Manual THEN {<<>>} ELSE Rules,
             L!CreateList(l, b) \/ \E p \in L!List \ {l} : L!CreateFolder(l, b, p)
      PROVE  CountsInv'
  <2>1. l \in Manual => b = <<>> OBVIOUS
  <2>2. L!New(l, b) /\ UNCHANGED <<editing, live, view, count, importing, doubtful>>
    BY <1>4 DEF L!CreateList, L!CreateFolder, L!cacheVars
  <2>3. EditOK' BY <2>2 DEF CountsInv, EditOK
  <2> QED BY <2>1, <2>2, <2>3, CountsGrow
<1>5. ASSUME L!PlaceFolder \/ \E l, p : L!MoveList(l, p) PROVE CountsInv'
  <2>1. /\ \E l, p : L!MoveTo(l, p)
        /\ UNCHANGED <<editing, live, view, count, importing, doubtful>>
    BY <1>5 DEF L!PlaceFolder, L!MoveList, L!cacheVars
  <2>2. EditOK' BY <2>1 DEF CountsInv, EditOK
  <2> QED BY <2>1, <2>2, CountsMove
<1>6. ASSUME NEW l \in L!List, L!DeleteList(l) \/ L!BeginCount(l) \/ L!EndCount(l) \/ L!Expire(l) PROVE CountsInv'
  BY <1>6, CountsShrink, CountsBegin, CountsEnd, CountsExpire
<1>7. ASSUME NEW l \in Manual, NEW b \in Book, NEW i \in 1 .. Cardinality(Book),
             L!AddMember(l, b, i) \/ L!DropMember(l, b) \/ L!ShiftMember(l, b, i)
      PROVE  CountsInv'
  BY <1>7, EditsAreBooks
<1>8. ASSUME NEW l \in Folder, NEW r \in Rules, L!EditRules(l, r) PROVE CountsInv'
  <2>1. editing' = [list |-> l, body |-> r] /\ UNCHANGED <<row, live, view, count, importing, doubtful>>
    BY <1>8 DEF L!EditRules, L!Lock, L!cacheVars
  <2>2. EditOK' BY <1>0, <2>1 DEF EditOK
  <2> QED BY <2>1, <2>2, CountsStay
<1>9. CASE L!SaveEdit BY <1>9, CountsSave
<1>11. ASSUME NEW b \in Book, L!DeleteBook(b) PROVE CountsInv' BY <1>11, CountsOfBooks
<1>10. Cardinality(Book) = L!Cardinality(Book) BY DEF Cardinality, L!Cardinality
<1> QED BY <1>1, <1>2, <1>3, <1>4, <1>5, <1>6, <1>7, <1>8, <1>9, <1>10, <1>11 DEF L!Next

--------------------------------------------------------------------------------
(* What is cached is what is in the database. *)
CacheInv ==
  /\ books = [t \in Title |-> books[t]] /\ \A t \in Title : books[t] \in Facts
  /\ cache = Cold \/ cache = [books |-> books, base |-> base]

(* What can be said of a book. *)
IsFact(fact) == fact.series \in Seq(DOMAIN LowerCase) /\ fact.number \in Seq(DOMAIN LowerCase) /\ fact.rating \in Nat

(* A matcher with a predicate looks at the row alone. *)
LEMMA LeafLooksAtRow ==
  ASSUME NEW m, E!TranslatableLeaf(m), NEW among, NEW t, NEW others, NEW u, among[t] = others[u]
  PROVE  E!Holds(m, among, t) <=> E!Holds(m, others, u)
<1>1. E!Value(m, among[t]) = E!Value(m, others[u]) OBVIOUS
<1>2. CASE m.kind = "series" BY <1>1, <1>2 DEF E!Holds
<1>3. CASE m.kind = "number" BY <1>1, <1>3 DEF E!Holds
<1>4. CASE m.kind \in {"year", "rating"} BY <1>1, <1>4 DEF E!Holds
<1>5. CASE m.kind = "complete" BY <1>1, <1>5 DEF E!Holds
<1> QED BY <1>2, <1>3, <1>4, <1>5 DEF E!TranslatableLeaf

LEMMA NodeLooksAtRow ==
  ASSUME NEW n, E!Translatable(n), NEW among, NEW t, NEW others, NEW u, among[t] = others[u]
  PROVE  E!HoldsNode(n, among, t) <=> E!HoldsNode(n, others, u)
<1>1. CASE n.kind # "group"
  <2>1. E!TranslatableLeaf(n) BY <1>1 DEF E!Translatable
  <2> QED BY <1>1, <2>1, LeafLooksAtRow DEF E!HoldsNode
<1>2. CASE n.kind = "group"
  <2>1. \A m \in n.matchers : E!Holds(m, among, t) <=> E!Holds(m, others, u)
    BY <1>2, LeafLooksAtRow DEF E!Translatable
  <2>2. PICK some : some = \E m \in n.matchers : E!Holds(m, among, t) OBVIOUS
  <2>3. PICK all : all = \A m \in n.matchers : E!Holds(m, among, t) OBVIOUS
  <2>4. some = \E m \in n.matchers : E!Holds(m, others, u) BY <2>1, <2>2
  <2>5. all = \A m \in n.matchers : E!Holds(m, others, u) BY <2>1, <2>3
  <2>6. E!HoldsNode(n, among, t) <=> n.matchers # {} /\ n.not # IF n.mode = "Or" THEN some ELSE all
    BY <1>2, <2>2, <2>3 DEF E!HoldsNode
  <2>7. E!HoldsNode(n, others, u) <=> n.matchers # {} /\ n.not # IF n.mode = "Or" THEN some ELSE all
    BY <1>2, <2>4, <2>5 DEF E!HoldsNode
  <2> QED BY <2>6, <2>7
<1> QED BY <1>1, <1>2

(* Without a letter that only one of them folds, a text that Go finds is found by SQL. *)
LEMMA FoldsAlike ==
  ASSUME NEW value \in Seq(DOMAIN LowerCase), NEW text \in Seq(DOMAIN LowerCase), NEW i \in Nat, i >= 1,
         E!StandsAt(value, text, i, LowerCase),
         \A k \in 1 .. Len(text), j \in 1 .. Len(value) :
             LowerCase[text[k]] = LowerCase[value[j]] => AsciiLower[text[k]] = AsciiLower[value[j]]
  PROVE  E!StandsAt(value, text, i, AsciiLower)
<1>1. Len(value) \in Nat /\ Len(text) \in Nat OBVIOUS
<1>2. i + Len(value) <= Len(text) + 1 BY DEF E!StandsAt
<1>3. ASSUME NEW j \in 1 .. Len(value) PROVE AsciiLower[text[i + j - 1]] = AsciiLower[value[j]]
  <2>1. i + j - 1 \in 1 .. Len(text) BY <1>1, <1>2
  <2>2. LowerCase[text[i + j - 1]] = LowerCase[value[j]] BY DEF E!StandsAt
  <2> QED BY <2>1, <2>2
<1> QED BY <1>2, <1>3 DEF E!StandsAt

LEMMA TextsAlike ==
  ASSUME NEW op, op \in {"equals", "contains", "starts", "ends"},
         NEW value \in Seq(DOMAIN LowerCase), NEW text \in Seq(DOMAIN LowerCase),
         E!MatchText(op, value, text, LowerCase),
         \A k \in 1 .. Len(text), j \in 1 .. Len(value) :
             LowerCase[text[k]] = LowerCase[value[j]] => AsciiLower[text[k]] = AsciiLower[value[j]]
  PROVE  E!MatchText(op, value, text, AsciiLower)
<1>0. Len(value) \in Nat /\ Len(text) \in Nat OBVIOUS
<1>1. \A i \in Nat : i >= 1 /\ E!StandsAt(value, text, i, LowerCase) => E!StandsAt(value, text, i, AsciiLower)
  BY FoldsAlike
<1>2. CASE op = "equals"
  <2>1. Len(text) = Len(value) /\ E!StandsAt(value, text, 1, LowerCase) BY <1>2 DEF E!MatchText
  <2> QED BY <1>1, <1>2, <2>1 DEF E!MatchText
<1>3. CASE op = "contains"
  <2>1. PICK i \in 1 .. Len(text) + 1 : E!StandsAt(value, text, i, LowerCase) BY <1>3 DEF E!MatchText
  <2>2. i \in Nat /\ i >= 1 BY <1>0
  <2>3. E!StandsAt(value, text, i, AsciiLower) BY <1>1, <2>1, <2>2
  <2> QED BY <1>3, <2>3 DEF E!MatchText
<1>4. CASE op = "starts"
  <2>1. E!StandsAt(value, text, 1, LowerCase) BY <1>4 DEF E!MatchText
  <2> QED BY <1>1, <1>4, <2>1 DEF E!MatchText
<1>5. CASE op = "ends"
  <2>1. Len(value) <= Len(text) /\ E!StandsAt(value, text, Len(text) - Len(value) + 1, LowerCase)
    BY <1>5 DEF E!MatchText
  <2>2. Len(text) - Len(value) + 1 \in Nat /\ Len(text) - Len(value) + 1 >= 1 BY <1>0, <2>1
  <2>3. E!StandsAt(value, text, Len(text) - Len(value) + 1, AsciiLower) BY <1>1, <2>1, <2>2
  <2> QED BY <1>5, <2>1, <2>3 DEF E!MatchText
<1> QED BY <1>2, <1>3, <1>4, <1>5

(* A text is found in itself. *)
LEMMA TextIsItself ==
  ASSUME NEW text \in Seq(DOMAIN LowerCase)
  PROVE  E!MatchText("equals", text, text, AsciiLower)
<1>1. Len(text) \in Nat OBVIOUS
<1>2. \A j \in 1 .. Len(text) : 1 + j - 1 = j BY <1>1
<1>3. E!StandsAt(text, text, 1, AsciiLower) BY <1>1, <1>2 DEF E!StandsAt
<1> QED BY <1>3 DEF E!MatchText

(* A row that a matcher matches is selected by its predicate, unless it asks of  *)
(* the book something that SQL does not mean.                                   *)
LEMMA LeafSelects ==
  ASSUME NEW m, E!Known(m), E!TranslatableLeaf(m), ~m.not, NEW among, NEW t, IsFact(among[t]),
         E!Holds(m, among, t), ~E!Unlike(m, among[t])
  PROVE  E!Selects(m, among[t])
<1>0. PICK fact : fact = among[t] OBVIOUS
<1>7. m.not = FALSE BY DEF E!Known
<1>1. CASE m.kind = "series"
  <2>1. m.op \in {"equals", "contains", "starts", "ends"}
    BY <1>1 DEF E!TranslatableLeaf, E!TextOperator, E!Known
  <2>2. E!TextOperator(m.op) = m.op BY <2>1 DEF E!TextOperator
  <2>3. PICK x : x = E!MatchText(m.op, m.value, fact.series, LowerCase) OBVIOUS
  <2>4. x \in BOOLEAN
    <3>1. CASE m.op = "equals" BY <2>3, <3>1 DEF E!MatchText
    <3>2. CASE m.op = "contains" BY <2>3, <3>2 DEF E!MatchText
    <3>3. CASE m.op = "starts" BY <2>3, <3>3 DEF E!MatchText, E!StandsAt
    <3>4. CASE m.op = "ends" BY <2>3, <3>4 DEF E!MatchText
    <3> QED BY <2>1, <3>1, <3>2, <3>3, <3>4
  <2>5. m.not # x BY <1>0, <1>1, <2>3 DEF E!Holds, E!Value, E!MatchString
  <2>6. E!MatchText(m.op, m.value, fact.series, LowerCase) BY <1>7, <2>3, <2>4, <2>5
  <2>7. \A k \in 1 .. Len(fact.series), j \in 1 .. Len(m.value) :
            LowerCase[fact.series[k]] = LowerCase[m.value[j]] => AsciiLower[fact.series[k]] = AsciiLower[m.value[j]]
    BY <1>0, <1>1 DEF E!Unlike
  <2>8. m.value \in Seq(DOMAIN LowerCase) /\ fact.series \in Seq(DOMAIN LowerCase) BY <1>0, <1>1 DEF E!Known, IsFact
  <2>9. E!MatchText(m.op, m.value, fact.series, AsciiLower) BY <2>1, <2>6, <2>7, <2>8, TextsAlike
  <2> QED BY <1>0, <1>1, <2>2, <2>9 DEF E!Selects
<1>2. CASE m.kind = "number"
  <2>1. PICK x : x = E!MatchNumber(m, fact.number) OBVIOUS
  <2>2. m.not # x BY <1>0, <1>2, <2>1 DEF E!Holds, E!Value
  <2>3. m.op # "greater" /\ m.op # "lesser" /\ m.op # "containsAny"
    BY <1>0, <1>2 DEF E!Unlike, E!TranslatableLeaf, E!TextOperator, E!Known
  <2>4. CASE m.op = "equals"
    <3>1. fact.number = m.value BY <1>0, <1>2, <2>4 DEF E!Unlike
    <3>2. E!MatchText("equals", m.value, fact.number, AsciiLower) BY <1>0, <3>1, TextIsItself DEF IsFact
    <3>3. E!TextOperator(m.op) = "equals" BY <2>4 DEF E!TextOperator
    <3> QED BY <1>0, <1>2, <3>2, <3>3 DEF E!Selects
  <2>5. CASE m.op # "equals"
    <3>1. x = FALSE BY <2>1, <2>3, <2>5 DEF E!MatchNumber
    <3> QED BY <1>7, <2>2, <3>1
  <2> QED BY <2>4, <2>5
<1>3. CASE m.kind \in {"year", "rating"}
  <2>1. PICK n : n = IF m.kind = "year" THEN fact.year ELSE fact.rating OBVIOUS
  <2>2. E!Value(m, fact) = n
    <3>1. CASE m.kind = "year" BY <2>1, <3>1 DEF E!Value
    <3>2. CASE m.kind = "rating"
      <4>1. fact.rating \in Nat /\ fact.rating % 10 = 0 BY <1>0, <3>2 DEF IsFact, E!Unlike
      <4>2. E!Tenths(fact.rating) = fact.rating BY <4>1 DEF E!Tenths
      <4> QED BY <2>1, <3>2, <4>2 DEF E!Value
    <3> QED BY <1>3, <3>1, <3>2
  <2>3. PICK x : x = E!MatchNumeric(m, n) OBVIOUS
  <2>4. x \in BOOLEAN
    <3>0. m.value # NoValue BY <1>3 DEF E!TranslatableLeaf
    <3>1. CASE m.op = "equals" BY <2>3, <3>0, <3>1 DEF E!MatchNumeric
    <3>2. CASE m.op = "greater" BY <2>3, <3>0, <3>2 DEF E!MatchNumeric
    <3>3. CASE m.op = "lesser" BY <2>3, <3>0, <3>3 DEF E!MatchNumeric
    <3> QED BY <1>3, <3>1, <3>2, <3>3 DEF E!Known
  <2>5. m.not # x BY <1>0, <1>3, <2>2, <2>3 DEF E!Holds
  <2>6. E!MatchNumeric(m, n) BY <1>7, <2>3, <2>4, <2>5
  <2>7. CASE m.kind = "year" BY <1>0, <2>1, <2>6, <2>7 DEF E!Selects
  <2>8. CASE m.kind = "rating" BY <1>0, <2>1, <2>6, <2>8 DEF E!Selects
  <2> QED BY <1>3, <2>7, <2>8
<1>4. CASE m.kind = "complete"
  <2>1. PICK x : x = E!MatchYesNo(m, fact.complete) OBVIOUS
  <2>2. x \in BOOLEAN
    <3>1. CASE m.op = "yes" BY <2>1, <3>1 DEF E!MatchYesNo
    <3>2. CASE m.op = "no" BY <2>1, <3>2 DEF E!MatchYesNo
    <3>3. CASE m.op = "unknown"
      <4> DEFINE answers == {"Unknown", ""}
      <4>1. x = (fact.complete \in answers) BY <2>1, <3>3 DEF E!MatchYesNo
      <4> HIDE DEF answers
      <4> QED BY <4>1
    <3> QED BY <1>4, <3>1, <3>2, <3>3 DEF E!Known
  <2>3. m.not # x BY <1>0, <1>4, <2>1 DEF E!Holds, E!Value
  <2>4. E!MatchYesNo(m, fact.complete) BY <1>7, <2>1, <2>2, <2>3
  <2> QED BY <1>0, <1>4, <2>4 DEF E!Selects
<1> QED BY <1>1, <1>2, <1>3, <1>4 DEF E!TranslatableLeaf

(* So does that of a group, or of a matcher that stands alone. *)
LEMMA NodeSelects ==
  ASSUME NEW n, E!Translatable(n), NEW among, NEW t, IsFact(among[t]), E!HoldsNode(n, among, t),
         IF n.kind = "group" THEN n.not \in BOOLEAN /\ \A m \in n.matchers : E!Known(m) ELSE E!Known(n),
         ~(IF n.kind = "group" THEN \E m \in n.matchers : E!Unlike(m, among[t]) ELSE E!Unlike(n, among[t]))
  PROVE  E!SelectsNode(n, among[t])
<1>1. CASE n.kind # "group"
  <2>1. E!Holds(n, among, t) /\ E!TranslatableLeaf(n) /\ ~n.not BY <1>1 DEF E!HoldsNode, E!Translatable
  <2>2. E!Selects(n, among[t]) BY <1>1, <2>1, LeafSelects
  <2> QED BY <1>1, <2>2 DEF E!SelectsNode
<1>2. CASE n.kind = "group"
  <2>1. n.not = FALSE /\ n.matchers # {} BY <1>2 DEF E!Translatable
  <2>2. \A m \in n.matchers : E!Holds(m, among, t) => E!Selects(m, among[t])
    BY <1>2, LeafSelects DEF E!Translatable
  <2>3. CASE n.mode = "Or"
    <3>1. PICK x : x = \E m \in n.matchers : E!Holds(m, among, t) OBVIOUS
    <3>2. n.not # x BY <1>2, <2>3, <3>1 DEF E!HoldsNode
    <3>3. \E m \in n.matchers : E!Selects(m, among[t]) BY <2>1, <2>2, <3>1, <3>2
    <3> QED BY <1>2, <2>3, <3>3 DEF E!SelectsNode
  <2>4. CASE n.mode # "Or"
    <3>1. PICK x : x = \A m \in n.matchers : E!Holds(m, among, t) OBVIOUS
    <3>2. n.not # x BY <1>2, <2>4, <3>1 DEF E!HoldsNode
    <3>3. \A m \in n.matchers : E!Selects(m, among[t]) BY <2>1, <2>2, <3>1, <3>2
    <3> QED BY <1>2, <2>4, <3>3 DEF E!SelectsNode
  <2> QED BY <2>3, <2>4
<1> QED BY <1>1, <1>2

(* Narrowing the candidates by the predicates adds no book, and loses one only where *)
(* a matcher asks of it what SQL does not mean.                                      *)
LEMMA NarrowingAgrees ==
  ASSUME E!SmartListAssumption, CacheInv, NEW list \in SmartList, ~E!NeedsWarmSnapshot(list)
  PROVE  LET all == E!MatchBooks(list, [books |-> books, base |-> base])
         IN  /\ E!Evaluate(list) \subseteq all
             /\ \A t \in all \ E!Evaluate(list) : E!UnlikeIn(list, books[t])
<1>1. list.base = NoBase /\ list.matchers # {} /\ \A n \in list.matchers : E!Translatable(n)
  BY DEF E!NeedsWarmSnapshot
<1>2. PICK some, narrow : some = E!BooksWhere(list) /\ narrow = [t \in some |-> books[t]] OBVIOUS
<1>3. DOMAIN books = Title /\ \A t \in Title : IsFact(books[t]) BY DEF CacheInv, E!SmartListAssumption, IsFact
<1>4. DOMAIN narrow = some /\ some \subseteq Title /\ \A t \in some : narrow[t] = books[t]
  BY <1>2 DEF E!BooksWhere
<1>5. E!Matching(list, narrow) = some \intersect E!Matching(list, books)
  <2>1. \A t \in some : \A n \in list.matchers : E!HoldsNode(n, narrow, t) <=> E!HoldsNode(n, books, t)
    BY <1>1, <1>4, NodeLooksAtRow
  <2>2. \A t \in some : t \in Title BY <1>4
  <2>3. CASE list.mode = "Or" BY <1>3, <1>4, <2>1, <2>2, <2>3 DEF E!Matching
  <2>4. CASE list.mode # "Or" BY <1>3, <1>4, <2>1, <2>2, <2>4 DEF E!Matching
  <2> QED BY <2>3, <2>4
<1>6. ASSUME NEW t \in E!Matching(list, books), ~E!UnlikeIn(list, books[t]) PROVE t \in some
  <2>1. t \in Title BY <1>3 DEF E!Matching
  <2>2. \A n \in list.matchers : E!HoldsNode(n, books, t) => E!SelectsNode(n, books[t])
    BY <1>1, <1>3, <1>6, <2>1, NodeSelects DEF E!UnlikeIn, E!SmartListAssumption
  <2>3. CASE list.mode = "Or"
    <3>1. \E n \in list.matchers : E!HoldsNode(n, books, t) BY <2>3 DEF E!Matching
    <3> QED BY <1>2, <2>1, <2>2, <2>3, <3>1 DEF E!BooksWhere
  <2>4. CASE list.mode # "Or"
    <3>1. \A n \in list.matchers : E!HoldsNode(n, books, t) BY <2>4 DEF E!Matching
    <3> QED BY <1>2, <2>1, <2>2, <2>4, <3>1 DEF E!BooksWhere
  <2> QED BY <2>3, <2>4
<1>7. E!MatchBooks(list, [books |-> books, base |-> base]) = E!Matching(list, books)
  <2>1. [t \in DOMAIN books |-> books[t]] = books BY DEF CacheInv
  <2>2. PICK lib : lib = [books |-> books, base |-> base] OBVIOUS
  <2>3. E!MatchBooks(list, lib) = E!Matching(list, [t \in DOMAIN lib.books |-> lib.books[t]])
    BY <1>1 DEF E!MatchBooks
  <2>4. lib.books = books BY <2>2
  <2> QED BY <2>1, <2>2, <2>3, <2>4
<1>8. E!Evaluate(list) = E!Matching(list, narrow)
  <2>1. E!Evaluate(list) = E!MatchBooks(list, [books |-> narrow, base |-> [kind |-> "gone"]])
    BY <1>2 DEF E!Evaluate
  <2>2. [t \in DOMAIN narrow |-> narrow[t]] = narrow BY <1>2
  <2>3. PICK lib : lib = [books |-> narrow, base |-> [kind |-> "gone"]] OBVIOUS
  <2>4. E!MatchBooks(list, lib) = E!Matching(list, [t \in DOMAIN lib.books |-> lib.books[t]])
    BY <1>1 DEF E!MatchBooks
  <2>5. lib.books = narrow BY <2>3
  <2> QED BY <2>1, <2>2, <2>3, <2>4, <2>5
<1>9. \A t \in E!Matching(list, books) : t \in some \/ E!UnlikeIn(list, books[t]) BY <1>6
<1> QED BY <1>5, <1>7, <1>8, <1>9

(* What the invariant gives. *)
LEMMA FastGives == ASSUME E!SmartListAssumption, CacheInv PROVE E!FastPathAgrees
<1>1. ASSUME NEW list \in SmartList, E!NeedsWarmSnapshot(list)
      PROVE  E!Evaluate(list) = E!MatchBooks(list, [books |-> books, base |-> base])
  BY <1>1 DEF E!Evaluate, E!CachedLibrary, CacheInv
<1>2. ASSUME NEW list \in SmartList
      PROVE  LET all == E!MatchBooks(list, [books |-> books, base |-> base])
             IN  /\ E!Evaluate(list) \subseteq all
                 /\ \A t \in all \ E!Evaluate(list) : ~E!NeedsWarmSnapshot(list) /\ E!UnlikeIn(list, books[t])
  <2>1. CASE E!NeedsWarmSnapshot(list) BY <1>1, <2>1
  <2>2. CASE ~E!NeedsWarmSnapshot(list) BY <2>2, NarrowingAgrees
  <2> QED BY <2>1, <2>2
<1> QED BY <1>2 DEF E!FastPathAgrees

(* Nothing is cached at first. *)
LEMMA FastStarts == ASSUME E!SmartListAssumption, E!Init PROVE CacheInv
<1>1. PICK fact : fact = CHOOSE x \in Facts : TRUE OBVIOUS
<1>2. fact \in Facts BY <1>1 DEF E!SmartListAssumption
<1> QED BY <1>1, <1>2 DEF E!Init, CacheInv

(* Every change of the database empties the cache. *)
LEMMA FastStep == ASSUME CacheInv, [E!Next]_(E!vars) PROVE CacheInv'
<1>1. CASE E!Warm BY <1>1 DEF E!Warm, E!CachedLibrary, CacheInv
<1>2. ASSUME NEW t \in Title, NEW fact \in Facts, E!ChangeBook(t, fact) PROVE CacheInv'
  BY <1>2 DEF E!ChangeBook, CacheInv
<1>3. ASSUME NEW b \in BaseList, E!ChangeBase(b) PROVE CacheInv'
  BY <1>3 DEF E!ChangeBase, CacheInv
<1>4. CASE UNCHANGED E!vars BY <1>4 DEF E!vars, CacheInv
<1> QED BY <1>1, <1>2, <1>3, <1>4 DEF E!Next

--------------------------------------------------------------------------------
(* The workflow.  A row that a request writes is one of the fields that rows   *)
(* have, and in place if the row was that it was made from: Kin says that a    *)
(* change leaves file and stage alone, Beside that it leaves the place alone   *)
(* too.                                                                        *)
Kin(r, s) ==
  /\ DOMAIN s = DOMAIN r /\ s.file = r.file /\ s.stage = r.stage
  /\ (r.dirty \in BOOLEAN => s.dirty \in BOOLEAN) /\ DOMAIN s.custom = DOMAIN r.custom
SameFieldsOfPlace(r, s) == \A f \in W!PlaceFields : s[f] = r[f]
Beside(r, s) == Kin(r, s) /\ SameFieldsOfPlace(r, s)

LEMMA FieldsOfPlace ==
  /\ W!PlaceFields \subseteq W!Organizing /\ W!PlaceFields \subseteq W!RowFields
  /\ W!PlaceFields \intersect {"file", "stage", "dirty", "custom", "opened"} = {}
  BY DEF W!PlaceFields, W!Organizing, W!RowFields

LEMMA SamePlace == ASSUME NEW r, NEW s, SameFieldsOfPlace(r, s) PROVE W!PlaceOf(s) = W!PlaceOf(r)
  BY DEF SameFieldsOfPlace, W!PlaceOf

LEMMA KinIsRow == ASSUME NEW r, NEW s, W!IsRow(r), Kin(r, s) PROVE W!IsRow(s)
  BY DEF W!IsRow, Kin, W!HasFile

LEMMA BesideInPlace == ASSUME NEW r, NEW s, W!InPlace(r), Beside(r, s) PROVE W!InPlace(s)
  BY SamePlace DEF W!InPlace, Kin, Beside, W!HasFile, W!GetStage

(* One field is set. *)
LEMMA OneField ==
  ASSUME NEW r, W!IsRow(r), NEW f, NEW v, f \notin {"file", "stage", "dirty", "custom"}
  PROVE  Kin(r, [r EXCEPT ![f] = v]) /\ (f \notin W!PlaceFields => Beside(r, [r EXCEPT ![f] = v]))
<1>1. PICK s : s = [r EXCEPT ![f] = v] OBVIOUS
<1>2. Kin(r, s) BY <1>1 DEF W!IsRow, Kin, W!RowFields
<1>3. \A g \in DOMAIN r : g # f => s[g] = r[g] BY <1>1
<1>4. f \notin W!PlaceFields => SameFieldsOfPlace(r, s) BY <1>3, FieldsOfPlace DEF SameFieldsOfPlace, W!IsRow
<1> QED BY <1>1, <1>2, <1>4 DEF Beside

LEMMA DirtySet ==
  ASSUME NEW r, W!IsRow(r), NEW v \in BOOLEAN
  PROVE  Beside(r, [r EXCEPT !.dirty = v])
<1>1. PICK s : s = [r EXCEPT !.dirty = v] OBVIOUS
<1>2. DOMAIN s = DOMAIN r /\ s.file = r.file /\ s.stage = r.stage /\ s.custom = r.custom
  BY <1>1 DEF W!IsRow, W!RowFields
<1>3. s.dirty = v BY <1>1 DEF W!IsRow, W!RowFields
<1>4. SameFieldsOfPlace(r, s) BY <1>1, FieldsOfPlace DEF SameFieldsOfPlace, W!IsRow
<1> QED BY <1>1, <1>2, <1>3, <1>4 DEF Kin, Beside

LEMMA CustomSet ==
  ASSUME NEW r, W!IsRow(r), NEW c, NEW v
  PROVE  Beside(r, [r EXCEPT !.custom[c] = v])
<1>1. PICK d : d = [r.custom EXCEPT ![c] = v] OBVIOUS
<1>2. PICK s : s = [r EXCEPT !.custom = d] OBVIOUS
<1>3. s = [r EXCEPT !.custom[c] = v] BY <1>1, <1>2
<1>4. DOMAIN s = DOMAIN r /\ s.file = r.file /\ s.stage = r.stage /\ s.dirty = r.dirty /\ s.custom = d
  BY <1>2 DEF W!IsRow, W!RowFields
<1>5. DOMAIN d = DOMAIN r.custom BY <1>1
<1>6. SameFieldsOfPlace(r, s) BY <1>2, FieldsOfPlace DEF SameFieldsOfPlace, W!IsRow
<1> QED BY <1>3, <1>4, <1>5, <1>6 DEF Kin, Beside

(* Only the stage is set. *)
LEMMA OneStage ==
  ASSUME NEW r, W!IsRow(r), NEW n \in 0 .. 6
  PROVE  /\ W!IsRow([r EXCEPT !.stage = n])
         /\ n # 6 \/ r.stage = 6 => (W!InPlace(r) => W!InPlace([r EXCEPT !.stage = n]))
<1>1. PICK s : s = [r EXCEPT !.stage = n] OBVIOUS
<1>2. DOMAIN s = DOMAIN r /\ s.stage = n /\ s.file = r.file /\ s.dirty = r.dirty /\ s.custom = r.custom
  BY <1>1 DEF W!IsRow, W!RowFields
<1>3. SameFieldsOfPlace(r, s) BY <1>1, FieldsOfPlace DEF SameFieldsOfPlace, W!IsRow
<1>4. W!PlaceOf(s) = W!PlaceOf(r) BY <1>3, SamePlace
<1>5. W!IsRow(s) BY <1>2 DEF W!IsRow, W!HasFile, W!StageUnknown, W!StageOrganized
<1> QED BY <1>1, <1>2, <1>4, <1>5 DEF W!IsRow, W!InPlace, W!GetStage, W!HasFile, W!StageUnknown, W!StageOrganized

(* A book that is completed at a stage before the last goes to the next. *)
LEMMA Advances ==
  ASSUME NEW r, W!IsRow(r), NEW n \in 1 .. 4, NEW sets
  PROVE  LET s == W!AdvanceIfAtOrBefore(r, n, sets) IN W!IsRow(s) /\ (W!InPlace(r) => W!InPlace(s))
<1>1. PICK s : s = W!AdvanceIfAtOrBefore(r, n, sets) OBVIOUS
<1>2. PICK m \in 0 .. 6 : m = W!NextStage(n) /\ m # 6 BY DEF W!NextStage, W!StageOrganized
<1>3. s = r \/ s = [r EXCEPT !.stage = m] BY <1>1, <1>2 DEF W!AdvanceIfAtOrBefore
<1>4. CASE s = r BY <1>1, <1>4
<1>5. CASE s = [r EXCEPT !.stage = m]
  <2>1. W!IsRow(s) /\ (W!InPlace(r) => W!InPlace(s)) BY <1>2, <1>5, OneStage
  <2> QED BY <1>1, <2>1
<1> QED BY <1>3, <1>4, <1>5

(* A book goes back. *)
LEMMA Regresses ==
  ASSUME NEW r, W!IsRow(r), NEW n \in 1 .. 6
  PROVE  LET s == W!RegressToStageIfPast(r, n) IN W!IsRow(s) /\ (n # 6 \/ W!InPlace(r) => W!InPlace(s))
<1>1. PICK s : s = W!RegressToStageIfPast(r, n) OBVIOUS
<1>2. W!GetStage(r) \in 0 .. 6
  BY DEF W!IsRow, W!GetStage, W!StageUnknown, W!StageOrganized
<1>3. CASE W!GetStage(r) > n
  <2>1. s = [r EXCEPT !.stage = n] /\ n # 6 BY <1>1, <1>2, <1>3 DEF W!RegressToStageIfPast
  <2>2. s.stage = n /\ W!IsRow(s)
    <3>1. "stage" \in DOMAIN r BY DEF W!IsRow, W!RowFields
    <3>2. n \in 0 .. 6 OBVIOUS
    <3> QED BY <2>1, <3>1, <3>2, OneStage
  <2>3. W!InPlace(s) BY <2>1, <2>2 DEF W!InPlace, W!GetStage, W!StageUnknown, W!StageOrganized
  <2> QED BY <1>1, <2>2, <2>3
<1>4. CASE ~(W!GetStage(r) > n)
  <2>1. s = r BY <1>1, <1>4 DEF W!RegressToStageIfPast
  <2>2. n # 6 => W!GetStage(r) # 6 BY <1>2, <1>4
  <2>3. n # 6 => W!InPlace(r) BY <2>2 DEF W!InPlace, W!StageOrganized
  <2> QED BY <1>1, <2>1, <2>3
<1> QED BY <1>3, <1>4

(* What follows from a change: where the place changed, the book goes back. *)
LEMMA TouchedInPlace ==
  ASSUME NEW r, NEW s, NEW changed, W!IsRow(r), Kin(r, s),
         changed \intersect W!PlaceFields # {} \/ Beside(r, s)
  PROVE  LET t == W!Touched(s, changed) IN W!IsRow(t) /\ (W!InPlace(r) => W!InPlace(t))
<1>1. PICK u : u = IF W!HasFile(s) /\ changed \intersect W!InComicInfo # {} THEN [s EXCEPT !.dirty = TRUE] ELSE s
  OBVIOUS
<1>2. PICK t : t = W!Touched(s, changed) OBVIOUS
<1>3. t = IF changed \intersect W!Organizing # {} THEN W!RegressToStageIfPast(u, 5) ELSE u
  BY <1>1, <1>2 DEF W!Touched, W!StageToMove
<1>4. W!IsRow(s) BY KinIsRow
<1>5. Beside(s, u)
  <2>1. Beside(s, s) BY DEF Beside, Kin, SameFieldsOfPlace
  <2>2. Beside(s, [s EXCEPT !.dirty = TRUE]) BY <1>4, DirtySet
  <2> QED BY <1>1, <2>1, <2>2
<1>6. W!IsRow(u) /\ Kin(s, u) BY <1>4, <1>5, KinIsRow DEF Beside
<1>7. CASE changed \intersect W!Organizing # {}
  <2>1. t = W!RegressToStageIfPast(u, 5) BY <1>3, <1>7
  <2> QED BY <1>2, <1>6, <2>1, Regresses
<1>8. CASE changed \intersect W!Organizing = {}
  <2>1. t = u /\ Beside(r, s) BY <1>3, <1>8, FieldsOfPlace
  <2>2. Beside(r, u) BY <1>5, <2>1 DEF Beside, Kin, SameFieldsOfPlace
  <2> QED BY <1>2, <1>6, <2>1, <2>2, BesideInPlace
<1> QED BY <1>7, <1>8

(* Some fields are written, which are not file and stage. *)
LEMMA ValuesBeside ==
  ASSUME NEW r, W!IsRow(r), NEW values, DOMAIN values \intersect {"file", "stage", "dirty"} = {}
  PROVE  LET s == W!WithValues(r, values) IN Kin(r, s) /\ (DOMAIN values \intersect W!PlaceFields # {} \/ Beside(r, s))
<1>1. PICK s : s = W!WithValues(r, values) OBVIOUS
<1>2. DOMAIN s = DOMAIN r /\ s.file = r.file /\ s.stage = r.stage /\ s.dirty = r.dirty
  BY <1>1 DEF W!WithValues, W!IsRow, W!RowFields
<1>4. DOMAIN values \intersect W!PlaceFields # {} \/ SameFieldsOfPlace(r, s)
  BY <1>1, FieldsOfPlace DEF W!WithValues, W!IsRow, SameFieldsOfPlace
<1>3. DOMAIN s.custom = DOMAIN r.custom
  <2>1. s.custom = [c \in Custom |-> IF c \notin DOMAIN values THEN r.custom[c] ELSE IF values[c] = <<>> THEN Absent ELSE values[c]]
    BY <1>1 DEF W!WithValues, W!IsRow, W!RowFields
  <2> QED BY <2>1 DEF W!IsRow
<1> QED BY <1>1, <1>2, <1>3, <1>4 DEF Kin, Beside

(* What a rule writes is of the fields that rules may write. *)
ByRules(r, s) == Kin(r, s) /\ \A f \in W!RowFields \ (W!Writable \union {"custom"}) : s[f] = r[f]

LEMMA SetsKin ==
  ASSUME W!WorkflowAssumption, NEW r, W!IsRow(r), NEW f \in W!Writable, NEW v
  PROVE  Kin(r, W!SetFieldString(r, f, v))
<1>0. Custom \intersect (W!RowFields \union {"published"}) = {} BY DEF W!WorkflowAssumption
<1>1. PICK s : s = W!SetFieldString(r, f, v) OBVIOUS
<1>2. CASE f \in W!Numbers
  <2>1. PICK n : s = [r EXCEPT ![f] = n]
    BY <1>0, <1>1, <1>2 DEF W!SetFieldString, W!Numbers, W!RowFields
  <2>2. f \notin {"file", "stage", "dirty", "custom"} BY <1>2 DEF W!Numbers
  <2>3. Kin(r, [r EXCEPT ![f] = n]) BY <2>2, OneField
  <2> QED BY <1>1, <2>1, <2>3
<1>3. CASE f = "published"
  <2>1. PICK y, m : y = (IF v = <<>> THEN 1 ELSE v[1]) /\ m = (IF v = <<>> THEN 1 ELSE v[2]) OBVIOUS
  <2>2. PICK q : q = [r EXCEPT !.year = y] OBVIOUS
  <2>3. s = [q EXCEPT !.month = m]
    BY <1>0, <1>1, <1>3, <2>1, <2>2 DEF W!SetFieldString, W!Numbers
  <2>4. Kin(r, q) BY <2>2, OneField
  <2>5. W!IsRow(q) BY <2>4, KinIsRow
  <2>6. Kin(q, s) BY <2>3, <2>5, OneField
  <2> QED BY <1>1, <2>4, <2>6 DEF Kin
<1>4. CASE f \in Custom
  <2>1. f \notin W!Numbers /\ f # "published" /\ f # "dirty" BY <1>0, <1>4 DEF W!Numbers, W!RowFields
  <2>2. s = [r EXCEPT !.custom[f] = v] BY <1>1, <1>4, <2>1 DEF W!SetFieldString
  <2> QED BY <1>1, <2>2, CustomSet DEF Beside
<1>5. CASE f = "dirty"
  <2>1. PICK d \in BOOLEAN : s = [r EXCEPT !.dirty = d]
    BY <1>0, <1>1, <1>5 DEF W!SetFieldString, W!Numbers, W!RowFields
  <2> QED BY <1>1, <2>1, DirtySet DEF Beside
<1>6. CASE f \notin W!Numbers /\ f # "published" /\ f \notin Custom /\ f # "dirty"
  <2>1. s = [r EXCEPT ![f] = v] BY <1>1, <1>6 DEF W!SetFieldString
  <2>2. f \notin {"file", "stage", "dirty", "custom"} BY <1>6 DEF W!Writable
  <2>3. Kin(r, [r EXCEPT ![f] = v]) BY <2>2, OneField
  <2> QED BY <1>1, <2>1, <2>3
<1> QED BY <1>2, <1>3, <1>4, <1>5, <1>6

LEMMA SetsByRules ==
  ASSUME W!WorkflowAssumption, NEW r, W!IsRow(r), NEW f \in W!Writable, NEW v
  PROVE  ByRules(r, W!SetFieldString(r, f, v))
<1>1. Kin(r, W!SetFieldString(r, f, v)) BY SetsKin
<1>2. DOMAIN r = W!RowFields BY DEF W!IsRow
<1>3. {"year", "month", "dirty"} \subseteq W!Writable BY DEF W!Writable
<1>4. ASSUME NEW g \in W!RowFields, g \notin W!Writable, g # "custom" PROVE W!SetFieldString(r, f, v)[g] = r[g]
  BY <1>2, <1>3, <1>4 DEF W!SetFieldString
<1> QED BY <1>1, <1>4 DEF ByRules

LEMMA TakesWritable == ASSUME NEW f, NEW v, W!Takes(f, v) PROVE f \in W!Writable
<1>1. CASE f \in W!Numbers BY <1>1 DEF W!Numbers, W!Writable
<1>2. CASE f = "published" BY <1>2 DEF W!Writable
<1>3. CASE f \notin W!Numbers /\ f # "published" BY <1>3 DEF W!Takes
<1> QED BY <1>1, <1>2, <1>3

(* So it is for an action, ... *)
LEMMA ActionByRules ==
  ASSUME W!WorkflowAssumption, NEW r, W!IsRow(r), NEW a
  PROVE  ByRules(r, W!ApplyAction(a, r).book)
<1>1. PICK d : d = W!ApplyAction(a, r) OBVIOUS
<1>2. d.book = r \/ \E f, v : W!Takes(f, v) /\ d.book = W!SetFieldString(r, f, v)
  <2>1. \A x, y : [book |-> x, ok |-> y].book = x OBVIOUS
  <2>2. PICK f, v : \/ d = [book |-> r, ok |-> FALSE] \/ d = [book |-> r, ok |-> TRUE]
                    \/ W!Takes(f, v) /\ d = [book |-> W!SetFieldString(r, f, v), ok |-> TRUE]
    BY <1>1 DEF W!ApplyAction, W!Stored
  <2> QED BY <2>1, <2>2
<1>3. CASE d.book = r BY <1>1, <1>3 DEF ByRules, Kin
<1>4. CASE d.book # r
  <2>1. PICK f, v : W!Takes(f, v) /\ d.book = W!SetFieldString(r, f, v) BY <1>2, <1>4
  <2>2. f \in W!Writable BY <2>1, TakesWritable
  <2> QED BY <1>1, <2>1, <2>2, SetsByRules
<1> QED BY <1>3, <1>4

(* ... for the actions of a ruleset, one after another, ... *)
Acted(actions, r, n, k) ==
  k = [m \in 0 .. n |-> IF m = 0 THEN [book |-> r, ok |-> TRUE]
                        ELSE IF k[m - 1].ok THEN W!ApplyAction(actions[m], k[m - 1].book) ELSE k[m - 1]]

LEMMA ActedIs ==
  ASSUME NEW actions, NEW r, NEW n, NEW k, Acted(actions, r, n, k), NEW m \in 0 .. n
  PROVE  k[m] = IF m = 0 THEN [book |-> r, ok |-> TRUE]
                ELSE IF k[m - 1].ok THEN W!ApplyAction(actions[m], k[m - 1].book) ELSE k[m - 1]
BY DEF Acted

LEMMA ActedExists == ASSUME NEW actions, NEW r PROVE \A n \in Nat : \E k : Acted(actions, r, n, k)
<1> DEFINE T == {n \in Nat : \E k : Acted(actions, r, n, k)}
<1>1. 0 \in T
  <2>1. Acted(actions, r, 0, [m \in 0 .. 0 |-> [book |-> r, ok |-> TRUE]]) BY DEF Acted
  <2> QED BY <2>1
<1>2. ASSUME NEW n \in Nat, n \in T PROVE n + 1 \in T
  <2>1. PICK k : Acted(actions, r, n, k) BY <1>2
  <2>2. PICK j : j = [m \in 0 .. n + 1 |-> IF m = 0 THEN [book |-> r, ok |-> TRUE]
                        ELSE IF k[m - 1].ok THEN W!ApplyAction(actions[m], k[m - 1].book) ELSE k[m - 1]]
    OBVIOUS
  <2>3. \A m \in 0 .. n : j[m] = k[m] BY <2>1, <2>2, ActedIs
  <2>4. \A m \in 0 .. n + 1 : m # 0 => m - 1 \in 0 .. n OBVIOUS
  <2>5. Acted(actions, r, n + 1, j) BY <2>2, <2>3, <2>4 DEF Acted
  <2> QED BY <2>5
<1> HIDE DEF T
<1>3. Nat \subseteq T BY <1>1, <1>2, Induction
<1> QED BY <1>3 DEF T

LEMMA ApplyByRules ==
  ASSUME W!WorkflowAssumption, NEW r, W!IsRow(r), NEW set, Len(set.actions) \in Nat
  PROVE  ByRules(r, W!Apply(set, r).book)
<1> DEFINE last == Len(set.actions)
<1>0. \A x, y : [book |-> x, ok |-> y].book = x OBVIOUS
<1>1. PICK k : k = (CHOOSE done : Acted(set.actions, r, last, done)) OBVIOUS
<1>2. Acted(set.actions, r, last, k) BY <1>1, ActedExists
<1> DEFINE T == {n \in Nat : n <= last => ByRules(r, k[n].book)}
<1>3. 0 \in T
  <2>1. k[0] = [book |-> r, ok |-> TRUE] BY <1>2, ActedIs
  <2> QED BY <1>0, <2>1 DEF ByRules, Kin
<1>4. ASSUME NEW n \in Nat, n \in T PROVE n + 1 \in T
  <2> SUFFICES ASSUME n + 1 <= last PROVE ByRules(r, k[n + 1].book)
    OBVIOUS
  <2>1. ByRules(r, k[n].book) BY <1>4
  <2>2. k[n + 1] = IF k[n].ok THEN W!ApplyAction(set.actions[n + 1], k[n].book) ELSE k[n]
    <3>1. PICK m \in 0 .. last : m = n + 1 /\ m - 1 = n /\ m # 0 OBVIOUS
    <3>2. k[m] = IF m = 0 THEN [book |-> r, ok |-> TRUE]
                 ELSE IF k[m - 1].ok THEN W!ApplyAction(set.actions[m], k[m - 1].book) ELSE k[m - 1]
      BY <1>2, ActedIs
    <3> QED BY <3>1, <3>2
  <2>3. W!IsRow(k[n].book) BY <2>1, KinIsRow DEF ByRules
  <2>4. ByRules(k[n].book, k[n + 1].book) BY <2>2, <2>3, ActionByRules DEF ByRules, Kin
  <2> QED BY <2>1, <2>4 DEF ByRules, Kin
<1>5. ByRules(r, k[last].book)
  <2> HIDE DEF T
  <2>1. Nat \subseteq T BY <1>3, <1>4, Induction
  <2> QED BY <2>1 DEF T
<1>6. \/ W!Apply(set, r) = [book |-> r, ok |-> FALSE] \/ W!Apply(set, r) = [book |-> r, ok |-> TRUE]
      \/ W!Apply(set, r) = k[last]
  BY <1>1 DEF W!Apply, Acted
<1>7. ByRules(r, r) BY DEF ByRules, Kin
<1> QED BY <1>0, <1>5, <1>6, <1>7

(* ... for rulesets, one after another, ... *)
Applied(sets, r, n, k) ==
  k = [m \in 0 .. n |-> IF m = 0 THEN [book |-> r, ok |-> TRUE]
                        ELSE W!AndThen(k[m - 1], W!Apply(sets[m], k[m - 1].book))]

LEMMA AppliedIs ==
  ASSUME NEW sets, NEW r, NEW n, NEW k, Applied(sets, r, n, k), NEW m \in 0 .. n
  PROVE  k[m] = IF m = 0 THEN [book |-> r, ok |-> TRUE]
                ELSE W!AndThen(k[m - 1], W!Apply(sets[m], k[m - 1].book))
BY DEF Applied

LEMMA AppliedStarts ==
  ASSUME NEW sets, NEW r, NEW n \in Nat, NEW k, Applied(sets, r, n, k)
  PROVE  k[0] = [book |-> r, ok |-> TRUE]
BY DEF Applied

LEMMA AppliedExists == ASSUME NEW sets, NEW r PROVE \A n \in Nat : \E k : Applied(sets, r, n, k)
<1> DEFINE T == {n \in Nat : \E k : Applied(sets, r, n, k)}
<1>1. 0 \in T
  <2>1. Applied(sets, r, 0, [m \in 0 .. 0 |-> [book |-> r, ok |-> TRUE]]) BY DEF Applied
  <2> QED BY <2>1
<1>2. ASSUME NEW n \in Nat, n \in T PROVE n + 1 \in T
  <2>1. PICK k : Applied(sets, r, n, k) BY <1>2
  <2>2. PICK j : j = [m \in 0 .. n + 1 |-> IF m = 0 THEN [book |-> r, ok |-> TRUE]
                        ELSE W!AndThen(k[m - 1], W!Apply(sets[m], k[m - 1].book))]
    OBVIOUS
  <2>3. \A m \in 0 .. n : j[m] = k[m] BY <2>1, <2>2, AppliedIs
  <2>4. \A m \in 0 .. n + 1 : m # 0 => m - 1 \in 0 .. n OBVIOUS
  <2>5. Applied(sets, r, n + 1, j) BY <2>2, <2>3, <2>4 DEF Applied
  <2> QED BY <2>5
<1> HIDE DEF T
<1>3. Nat \subseteq T BY <1>1, <1>2, Induction
<1> QED BY <1>3 DEF T

LEMMA EvaluatedByRules ==
  ASSUME W!WorkflowAssumption, NEW r, W!IsRow(r), NEW sets \in RulesetList
  PROVE  ByRules(r, W!Evaluated(r, sets))
<1> DEFINE last == Len(sets)
<1>0. /\ \A x, y : [book |-> x, ok |-> y].book = x
      /\ last \in Nat /\ \A i \in 1 .. last : Len(sets[i].actions) \in Nat
  BY DEF W!WorkflowAssumption
<1>1. PICK k : k = (CHOOSE done : Applied(sets, r, last, done)) OBVIOUS
<1>2. Applied(sets, r, last, k) BY <1>0, <1>1, AppliedExists
<1> DEFINE T == {n \in Nat : n <= last => ByRules(r, k[n].book)}
<1>3. 0 \in T
  <2>1. k[0] = [book |-> r, ok |-> TRUE] BY <1>0, <1>2, AppliedStarts
  <2>2. k[0].book = r BY <1>0, <2>1
  <2> QED BY <2>2 DEF ByRules, Kin
<1>4. ASSUME NEW n \in Nat, n \in T PROVE n + 1 \in T
  <2> SUFFICES ASSUME n + 1 <= last PROVE ByRules(r, k[n + 1].book)
    OBVIOUS
  <2>1. ByRules(r, k[n].book) BY <1>0, <1>4
  <2>2. k[n + 1].book = W!Apply(sets[n + 1], k[n].book).book
    <3>1. PICK m \in 0 .. last : m = n + 1 /\ m - 1 = n /\ m # 0 BY <1>0
    <3>2. k[m] = IF m = 0 THEN [book |-> r, ok |-> TRUE]
                 ELSE W!AndThen(k[m - 1], W!Apply(sets[m], k[m - 1].book))
      BY <1>2, AppliedIs
    <3> QED BY <1>0, <3>1, <3>2 DEF W!AndThen
  <2>3. W!IsRow(k[n].book) BY <2>1, KinIsRow DEF ByRules
  <2>4. Len(sets[n + 1].actions) \in Nat BY <1>0
  <2>5. ByRules(k[n].book, k[n + 1].book) BY <2>2, <2>3, <2>4, ApplyByRules
  <2> QED BY <2>1, <2>5 DEF ByRules, Kin
<1>5. ByRules(r, k[last].book)
  <2> HIDE DEF T
  <2>1. Nat \subseteq T BY <1>3, <1>4, Induction
  <2> QED BY <1>0, <2>1 DEF T
<1>6. W!ApplyAll(r, sets) = k[last] BY <1>1 DEF W!ApplyAll, Applied
<1> QED BY <1>5, <1>6 DEF W!Evaluated

(* ... and for the changes that were chosen. *)
Selected(fields, after, r, n, k) ==
  k = [m \in 0 .. n |-> IF m = 0 THEN r
                        ELSE W!SetFieldString(k[m - 1], fields[m], W!GetFieldString(after, fields[m]))]

LEMMA SelectedIs ==
  ASSUME NEW fields, NEW after, NEW r, NEW n, NEW k, Selected(fields, after, r, n, k), NEW m \in 0 .. n
  PROVE  k[m] = IF m = 0 THEN r ELSE W!SetFieldString(k[m - 1], fields[m], W!GetFieldString(after, fields[m]))
BY DEF Selected

LEMMA SelectedExists ==
  ASSUME NEW fields, NEW after, NEW r
  PROVE  \A n \in Nat : \E k : Selected(fields, after, r, n, k)
<1> DEFINE T == {n \in Nat : \E k : Selected(fields, after, r, n, k)}
<1>1. 0 \in T
  <2>1. Selected(fields, after, r, 0, [m \in 0 .. 0 |-> r]) BY DEF Selected
  <2> QED BY <2>1
<1>2. ASSUME NEW n \in Nat, n \in T PROVE n + 1 \in T
  <2>1. PICK k : Selected(fields, after, r, n, k) BY <1>2
  <2>2. PICK j : j = [m \in 0 .. n + 1 |-> IF m = 0 THEN r
                        ELSE W!SetFieldString(k[m - 1], fields[m], W!GetFieldString(after, fields[m]))]
    OBVIOUS
  <2>3. \A m \in 0 .. n : j[m] = k[m] BY <2>1, <2>2, SelectedIs
  <2>4. \A m \in 0 .. n + 1 : m # 0 => m - 1 \in 0 .. n OBVIOUS
  <2>5. Selected(fields, after, r, n + 1, j) BY <2>2, <2>3, <2>4 DEF Selected
  <2> QED BY <2>5
<1> HIDE DEF T
<1>3. Nat \subseteq T BY <1>1, <1>2, Induction
<1> QED BY <1>3 DEF T

LEMMA SelectedByRules ==
  ASSUME W!WorkflowAssumption, NEW r, W!IsRow(r), NEW after, NEW fields, Len(fields) \in Nat,
         \A i \in 1 .. Len(fields) : fields[i] \in W!Writable
  PROVE  ByRules(r, W!SelectedFields(r, after, fields))
<1> DEFINE last == Len(fields)
<1>1. PICK k : k = (CHOOSE done : Selected(fields, after, r, last, done)) OBVIOUS
<1>2. Selected(fields, after, r, last, k) BY <1>1, SelectedExists
<1> DEFINE T == {n \in Nat : n <= last => ByRules(r, k[n])}
<1>3. 0 \in T
  <2>1. k[0] = r BY <1>2, SelectedIs
  <2> QED BY <2>1 DEF ByRules, Kin
<1>4. ASSUME NEW n \in Nat, n \in T PROVE n + 1 \in T
  <2> SUFFICES ASSUME n + 1 <= last PROVE ByRules(r, k[n + 1])
    OBVIOUS
  <2>1. ByRules(r, k[n]) BY <1>4
  <2>2. k[n + 1] = W!SetFieldString(k[n], fields[n + 1], W!GetFieldString(after, fields[n + 1]))
    <3>1. PICK m \in 0 .. last : m = n + 1 /\ m - 1 = n /\ m # 0 OBVIOUS
    <3>2. k[m] = IF m = 0 THEN r ELSE W!SetFieldString(k[m - 1], fields[m], W!GetFieldString(after, fields[m]))
      BY <1>2, SelectedIs
    <3> QED BY <3>1, <3>2
  <2>3. W!IsRow(k[n]) BY <2>1, KinIsRow DEF ByRules
  <2>4. fields[n + 1] \in W!Writable OBVIOUS
  <2>5. ByRules(k[n], k[n + 1]) BY <2>2, <2>3, <2>4, SetsByRules
  <2> QED BY <2>1, <2>5 DEF ByRules, Kin
<1>5. ByRules(r, k[last])
  <2> HIDE DEF T
  <2>1. Nat \subseteq T BY <1>3, <1>4, Induction
  <2> QED BY <2>1 DEF T
<1>6. W!SelectedFields(r, after, fields) = k[last] BY <1>1 DEF W!SelectedFields, Selected
<1> QED BY <1>5, <1>6

(* A finite set as a sequence. *)
LEMMA SetAsSeq ==
  ASSUME NEW A, IsFiniteSet(A)
  PROVE  /\ Len(W!SetToSeq(A)) \in Nat
         /\ W!SetToSeq(A) \in [1 .. Len(W!SetToSeq(A)) -> A]
         /\ \A i, j \in 1 .. Len(W!SetToSeq(A)) : W!SetToSeq(A)[i] = W!SetToSeq(A)[j] => i = j
         /\ \A x \in A : \E i \in 1 .. Len(W!SetToSeq(A)) : W!SetToSeq(A)[i] = x
<1>1. PICK n : n = Cardinality(A) OBVIOUS
<1>2. n \in Nat /\ ExistsBijection(1 .. n, A) BY <1>1, FS_CardinalityType
<1>3. PICK f \in [1 .. n -> A] : \A i, j \in 1 .. n : f[i] = f[j] => i = j
  BY <1>2 DEF ExistsBijection, Bijection, Injection, IsInjective
<1>4. W!Cardinality(A) = n BY <1>1 DEF W!Cardinality, Cardinality
<1>5. PICK s : s = W!SetToSeq(A) OBVIOUS
<1>6. s \in [1 .. n -> A] /\ \A i, j \in 1 .. n : s[i] = s[j] => i = j
  <2>1. W!IsInjective(f) BY <1>3 DEF W!IsInjective
  <2>2. s = CHOOSE g \in [1 .. n -> A] : W!IsInjective(g) BY <1>4, <1>5 DEF W!SetToSeq
  <2>3. s \in [1 .. n -> A] /\ W!IsInjective(s) BY <1>3, <2>1, <2>2
  <2> QED BY <2>3 DEF W!IsInjective
<1>7. Len(s) = n
  <2>1. s \in Seq(A) BY <1>2, <1>6
  <2> QED BY <1>2, <1>6, <2>1
<1>8. \A x \in A : \E i \in 1 .. n : s[i] = x
  <2>1. IsFiniteSet(1 .. n) /\ Cardinality(1 .. n) = n BY <1>2, FS_Interval
  <2>2. s \in Injection(1 .. n, A) BY <1>6 DEF Injection, IsInjective
  <2>3. s \in Surjection(1 .. n, A) BY <1>1, <2>1, <2>2, FS_Injection
  <2> QED BY <2>3 DEF Surjection
<1> QED BY <1>2, <1>5, <1>6, <1>7, <1>8

(* A book that the rules have changed is before its place again. *)
LEMMA RuledInPlace ==
  ASSUME W!WorkflowAssumption, NEW read, NEW sets \in RulesetList, NEW chosen, NEW b \in DOMAIN W!Ruled(read, sets, chosen),
         W!IsRow(read[b])
  PROVE  W!IsRow(W!Ruled(read, sets, chosen)[b]) /\ W!InPlace(W!Ruled(read, sets, chosen)[b])
<1>1. PICK r, after, fields : /\ r = read[b] /\ after = W!Evaluated(r, sets)
                              /\ fields = W!Changes(r, after) \intersect chosen
  OBVIOUS
<1>2. PICK result : result = IF chosen = W!Writable THEN after ELSE W!SelectedFields(r, after, W!SetToSeq(fields))
  OBVIOUS
<1>3. Kin(r, result)
  <2>1. CASE chosen = W!Writable BY <1>1, <1>2, <2>1, EvaluatedByRules DEF ByRules
  <2>2. CASE chosen # W!Writable
    <3>1. fields \subseteq W!Writable BY <1>1 DEF W!Changes
    <3>2. IsFiniteSet(fields)
      <4>1. IsFiniteSet(W!Writable) BY DEF W!WorkflowAssumption, W!IsFiniteSet, IsFiniteSet
      <4> QED BY <3>1, <4>1, FS_Subset
    <3>3. PICK s : s = W!SetToSeq(fields) OBVIOUS
    <3>4. Len(s) \in Nat /\ s \in [1 .. Len(s) -> fields] BY <3>2, <3>3, SetAsSeq
    <3>5. \A i \in 1 .. Len(s) : s[i] \in W!Writable BY <3>1, <3>4
    <3>6. Kin(r, W!SelectedFields(r, after, s)) BY <1>1, <3>4, <3>5, SelectedByRules DEF ByRules
    <3> QED BY <1>2, <2>2, <3>3, <3>6
  <2> QED BY <2>1, <2>2
<1>4. W!IsRow(result) BY <1>1, <1>3, KinIsRow
<1>5. PICK s, t : s = W!AdvanceIfAtOrBefore(result, 4, sets) /\ t = W!RegressToStageIfPast(s, 5) OBVIOUS
<1>6. W!IsRow(s) BY <1>4, <1>5, Advances
<1>7. W!IsRow(t) /\ W!InPlace(t) BY <1>5, <1>6, Regresses
<1>8. W!Ruled(read, sets, chosen)[b] = t
  BY <1>1, <1>2, <1>5 DEF W!Ruled, W!Selected, W!StageDataManager, W!StageToMove
<1> QED BY <1>7, <1>8

(* The rows are in place, save those that have strayed; so are those that are  *)
(* about to be written, save by what lets them stray.                          *)
PendingOK(s) ==
  /\ s.phase = "read" => /\ s.action = "rules" /\ s.sets \in RulesetList
                         /\ \A b \in DOMAIN s.rows : b \in Comic => W!IsRow(s.rows[b])
  /\ s.phase \in {"compare", "write"} =>
       \A b \in DOMAIN s.new : b \in Comic =>
         W!IsRow(s.new[b]) /\ (s.action \notin W!Straying /\ b \notin strayed => W!InPlace(s.new[b]))

FiledInv ==
  /\ DOMAIN record = Comic
  /\ \A b \in Comic : W!IsRow(record[b]) /\ (b \notin strayed => W!InPlace(record[b]))
  /\ DOMAIN saving = Writer
  /\ \A w \in Writer : saving[w] # None => PendingOK(saving[w])

(* What the invariant gives. *)
LEMMA FiledGives == ASSUME FiledInv PROVE W!FiledWhereItSays
  BY DEF FiledInv, W!FiledWhereItSays

(* The books that are there at first are in place. *)
LEMMA FiledStarts == ASSUME W!WorkflowAssumption, W!Init PROVE FiledInv
  BY DEF W!Init, W!WorkflowAssumption, FiledInv

(* A request of rows that are in place if they were. *)
RowsOK(new, action) ==
  \A b \in DOMAIN new : b \in Comic =>
    W!IsRow(new[b]) /\ (action \notin W!Straying /\ W!InPlace(record[b]) => W!InPlace(new[b]))

LEMMA RequestKeeps ==
  ASSUME FiledInv, NEW w \in Writer, NEW new, NEW action, RowsOK(new, action), W!UpdateBooks(w, new, action)
  PROVE  FiledInv'
<1>1. PICK changed : changed = {b \in DOMAIN new : new[b] # record[b]} OBVIOUS
<1>2. PICK some : some = [b \in changed |-> new[b]] OBVIOUS
<1>3. PICK s : s = IF changed = {} THEN None ELSE [phase |-> "compare", action |-> action, new |-> some] OBVIOUS
<1>4. saving' = [saving EXCEPT ![w] = s] /\ UNCHANGED <<record, strayed>>
  BY <1>1, <1>2, <1>3 DEF W!UpdateBooks
<1>5. s # None => PendingOK(s)'
  <2>1. CASE changed = {} BY <1>3, <2>1
  <2>2. CASE changed # {}
    <3>1. s.phase = "compare" /\ s.action = action /\ s.new = some BY <1>3, <2>2
    <3>2. ASSUME NEW b \in DOMAIN some, b \in Comic
          PROVE  W!IsRow(some[b]) /\ (action \notin W!Straying /\ b \notin strayed' => W!InPlace(some[b]))
      BY <1>1, <1>2, <1>4, <3>2 DEF RowsOK, FiledInv
    <3> QED BY <3>1, <3>2 DEF PendingOK
  <2> QED BY <2>1, <2>2
<1>6. ASSUME NEW v \in Writer, saving'[v] # None PROVE PendingOK(saving[v])'
  <2>1. CASE v = w BY <1>4, <1>5, <1>6, <2>1 DEF FiledInv
  <2>2. CASE v # w
    <3>1. saving'[v] = saving[v] BY <1>4, <2>2 DEF FiledInv
    <3> QED BY <1>4, <1>6, <3>1 DEF FiledInv, PendingOK
  <2> QED BY <2>1, <2>2
<1> QED BY <1>4, <1>6 DEF FiledInv

(* One row of it. *)
LEMMA RowKeeps ==
  ASSUME FiledInv, NEW w \in Writer, NEW b, NEW r, NEW action,
         b \in Comic => W!IsRow(r) /\ (action \notin W!Straying /\ W!InPlace(record[b]) => W!InPlace(r)),
         W!UpdateBook(w, b, r, action)
  PROVE  FiledInv'
<1>1. PICK new : new = [x \in {b} |-> r] OBVIOUS
<1>2. RowsOK(new, action) BY <1>1 DEF RowsOK
<1>3. W!UpdateBooks(w, new, action) BY <1>1 DEF W!UpdateBook
<1> QED BY <1>2, <1>3, RequestKeeps

(* What the requests make of a row, one by one. *)
Keeps(r, s) == W!IsRow(s) /\ (W!InPlace(r) => W!InPlace(s))

LEMMA KeepsSame == ASSUME NEW r, W!IsRow(r) PROVE Keeps(r, r) BY DEF Keeps

LEMMA KeepsBeside == ASSUME NEW r, NEW s, W!IsRow(r), Beside(r, s) PROVE Keeps(r, s)
  BY KinIsRow, BesideInPlace DEF Keeps, Beside

LEMMA KeepsTwice == ASSUME NEW r, NEW s, NEW t, Keeps(r, s), Keeps(s, t) PROVE Keeps(r, t)
  BY DEF Keeps

(* A field is set that the place does not depend on. *)
LEMMA SetsAside ==
  ASSUME NEW r, W!IsRow(r), NEW f, NEW v, f \notin W!PlaceFields \union {"file", "stage", "dirty", "custom"}
  PROVE  Keeps(r, [r EXCEPT ![f] = v])
<1>1. Beside(r, [r EXCEPT ![f] = v]) BY OneField
<1> QED BY <1>1, KeepsBeside

LEMMA Edits ==
  ASSUME W!WorkflowAssumption, NEW r, W!IsRow(r), NEW form \in EditForm
  PROVE  Keeps(r, W!Edited(r, form))
<1>1. PICK changed, values : /\ changed = {f \in DOMAIN form.fields : W!GetFieldString(r, f) # form.fields[f]}
                             /\ values = [f \in changed |-> W!SetFieldString(r, f, form.fields[f])[f]]
  OBVIOUS
<1>2. PICK s : s = W!WithValues(r, values) OBVIOUS
<1>3. PICK t : t = W!ReadAs(s, form.read) OBVIOUS
<1>4. changed \subseteq W!InComicInfo BY <1>1 DEF W!WorkflowAssumption
<1>5. DOMAIN values = changed BY <1>1
<1>6. DOMAIN values \intersect {"file", "stage", "dirty"} = {} BY <1>4, <1>5 DEF W!InComicInfo, W!Organizing
<1>7. Kin(r, s) /\ (changed \intersect W!PlaceFields # {} \/ Beside(r, s)) BY <1>2, <1>5, <1>6, ValuesBeside
<1>8. W!IsRow(s) BY <1>7, KinIsRow
<1>9. Beside(s, t)
  <2>1. PICK o : t = [s EXCEPT !.opened = o] BY <1>3 DEF W!ReadAs
  <2>2. Beside(s, [s EXCEPT !.opened = o]) BY <1>8, OneField, FieldsOfPlace
  <2> QED BY <2>1, <2>2
<1>10. Kin(r, t) /\ (changed \intersect W!PlaceFields # {} \/ Beside(r, t))
  BY <1>7, <1>9 DEF Kin, Beside, SameFieldsOfPlace
<1>11. Keeps(r, W!Touched(t, changed)) BY <1>10, TouchedInPlace DEF Keeps
<1>12. W!Edited(r, form) = W!Touched(t, changed) BY <1>1, <1>2, <1>3 DEF W!Edited
<1> QED BY <1>11, <1>12

LEMMA Undoes ==
  ASSUME W!WorkflowAssumption, NEW r, W!IsRow(r), NEW its, NEW force
  PROVE  Keeps(r, W!Undone(r, its, force))
<1>1. PICK restored : restored = {f \in (DOMAIN its \intersect W!Undoable) \ r.locked :
                        W!FieldValue(r, f) # its[f][1] /\ (force \/ W!FieldValue(r, f) = its[f][2])}
  OBVIOUS
<1>2. PICK values : values = [f \in restored |-> its[f][1]] OBVIOUS
<1>3. PICK s : s = W!WithValues(r, values) OBVIOUS
<1>4. DOMAIN values = restored BY <1>2
<1>5. DOMAIN values \intersect {"file", "stage", "dirty"} = {}
  <2>1. restored \subseteq W!Undoable BY <1>1
  <2>2. "file" \notin Custom /\ "stage" \notin Custom /\ "dirty" \notin Custom BY DEF W!WorkflowAssumption, W!RowFields
  <2> QED BY <1>4, <2>1, <2>2 DEF W!Undoable, W!InComicInfo, W!Organizing
<1>6. Kin(r, s) /\ (restored \intersect W!PlaceFields # {} \/ Beside(r, s)) BY <1>3, <1>4, <1>5, ValuesBeside
<1>7. Keeps(r, W!Touched(s, restored)) BY <1>6, TouchedInPlace DEF Keeps
<1>8. W!Undone(r, its, force) = W!Touched(s, restored) BY <1>1, <1>2, <1>3 DEF W!Undone, W!Restored
<1> QED BY <1>7, <1>8

LEMMA Exempts == ASSUME NEW r, W!IsRow(r) PROVE Keeps(r, W!Exempted(r))
  BY Advances DEF W!Exempted, W!StageScrape, Keeps

LEMMA Demands == ASSUME NEW r, W!IsRow(r) PROVE Keeps(r, W!Demanded(r))
<1>1. Keeps(r, W!RegressToStageIfPast(r, 2)) BY Regresses DEF Keeps
<1> QED BY <1>1, KeepsSame DEF W!Demanded, W!StageScrape

LEMMA Identifies == ASSUME NEW r, W!IsRow(r) PROVE Keeps(r, W!Identified(r))
<1>1. PICK q, s : q = [r EXCEPT !.local = TRUE] /\ s = [q EXCEPT !.nomatch = FALSE] OBVIOUS
<1>2. Keeps(r, q) BY <1>1, SetsAside DEF W!PlaceFields
<1>3. Keeps(q, s) BY <1>1, <1>2, SetsAside DEF Keeps, W!PlaceFields
<1>4. Keeps(s, W!Exempted(s)) BY <1>3, Exempts DEF Keeps
<1>5. Keeps(r, W!Exempted(s)) BY <1>2, <1>3, <1>4 DEF Keeps
<1>6. W!Identified(r) = r \/ W!Identified(r) = W!Exempted(s) BY <1>1 DEF W!Identified
<1> QED BY <1>5, <1>6, KeepsSame

LEMMA MarksKeep == ASSUME NEW r, W!IsRow(r), NEW mark PROVE Keeps(r, W!Marked(r, mark))
<1>1. PICK m : m = IF mark \in r.marks THEN r.marks \ {mark} ELSE r.marks \union {mark} OBVIOUS
<1>2. PICK q : q = [r EXCEPT !.marks = m] OBVIOUS
<1>3. PICK s : s = [q EXCEPT !.dirty = IF mark = "covers" THEN FALSE ELSE q.dirty]
  OBVIOUS
<1>4. Keeps(r, q) BY <1>2, SetsAside DEF W!PlaceFields
<1>5. Keeps(q, s)
  <2>1. PICK d \in BOOLEAN : s = [q EXCEPT !.dirty = d] BY <1>3, <1>4 DEF Keeps, W!IsRow
  <2>2. Keeps(q, [q EXCEPT !.dirty = d]) BY <1>4, DirtySet, KeepsBeside DEF Keeps
  <2> QED BY <2>1, <2>2
<1>6. q.dirty = r.dirty BY <1>2 DEF W!IsRow, W!RowFields
<1>7. W!Marked(r, mark) = s BY <1>1, <1>2, <1>3, <1>6 DEF W!Marked
<1> QED BY <1>4, <1>5, <1>7, KeepsTwice

LEMMA PagesKeep == ASSUME NEW r, W!IsRow(r), NEW type PROVE Keeps(r, W!Paged(r, type))
<1>1. PICK q, s : q = [r EXCEPT !.pages = <<type>>] /\ s = [q EXCEPT !.dirty = TRUE] OBVIOUS
<1>2. Keeps(r, q) BY <1>1, SetsAside DEF W!PlaceFields
<1>3. Keeps(q, s) BY <1>1, <1>2, DirtySet, KeepsBeside DEF Keeps
<1>4. W!Paged(r, type) = r \/ W!Paged(r, type) = s BY <1>1 DEF W!Paged
<1> QED BY <1>2, <1>3, <1>4, KeepsTwice, KeepsSame

(* Rows that are written but need not be in place. *)
LEMMA SetsRow ==
  ASSUME NEW r, W!IsRow(r), NEW f, NEW v, f \notin {"file", "stage", "dirty", "custom"}
  PROVE  W!IsRow([r EXCEPT ![f] = v])
<1>1. Kin(r, [r EXCEPT ![f] = v]) BY OneField
<1> QED BY <1>1, KinIsRow

LEMMA FillsAreRows == ASSUME NEW r, W!IsRow(r) PROVE W!IsRow(W!CountFilled(r))
<1>1. PICK q, a : q = [r EXCEPT !.count = IssueCount] /\ a = [q.auto EXCEPT !.count = IssueCount] OBVIOUS
<1>2. PICK s : s = [q EXCEPT !.auto = a] OBVIOUS
<1>3. W!IsRow(q) BY <1>1, SetsRow
<1>4. W!IsRow(s) BY <1>2, <1>3, SetsRow
<1> QED BY <1>1, <1>2, <1>4 DEF W!CountFilled

LEMMA FormatsAreRows == ASSUME NEW r, W!IsRow(r) PROVE W!IsRow(W!FormatSet(r))
<1>1. PICK c : c = W!Classify(r) OBVIOUS
<1>2. PICK q, a : q = [r EXCEPT !.format = c] /\ a = [q.auto EXCEPT !.format = c] OBVIOUS
<1>3. PICK s : s = [q EXCEPT !.auto = a] OBVIOUS
<1>4. W!IsRow(q) BY <1>2, SetsRow
<1>5. W!IsRow(s) BY <1>3, <1>4, SetsRow
<1> QED BY <1>1, <1>2, <1>3, <1>5 DEF W!FormatSet

LEMMA RelinkedAreRows == ASSUME NEW r, W!IsRow(r), W!HasFile(r) PROVE W!IsRow(W!Relinked(r))
<1>1. PICK file : file = [r.file EXCEPT ![2] = Elsewhere] OBVIOUS
<1>2. PICK s : s = [r EXCEPT !.file = file] OBVIOUS
<1>3. s = W!Relinked(r) BY <1>1, <1>2 DEF W!Relinked
<1>4. /\ DOMAIN s = DOMAIN r /\ s.stage = r.stage /\ s.file = file /\ DOMAIN file = DOMAIN r.file
      /\ s.dirty = r.dirty /\ s.custom = r.custom
  BY <1>1, <1>2 DEF W!IsRow, W!RowFields
<1> QED BY <1>3, <1>4 DEF W!IsRow, W!HasFile

(* A book at its stage is converted, or scanned, and goes on. *)
LEMMA ConvertsKeep ==
  ASSUME NEW r, W!IsRow(r), W!GetStage(r) = 1, NEW sets
  PROVE  Keeps(r, W!AdvanceIfAtOrBefore([r EXCEPT !.file[1] = "cbz"], 1, sets))
<1>1. PICK file : file = [r.file EXCEPT ![1] = "cbz"] OBVIOUS
<1>2. PICK s : s = [r EXCEPT !.file = file] OBVIOUS
<1>3. s = [r EXCEPT !.file[1] = "cbz"] BY <1>1, <1>2
<1>4. W!HasFile(r) /\ r.stage = 1 BY DEF W!GetStage, W!StageUnknown
<1>5. /\ DOMAIN s = DOMAIN r /\ s.stage = r.stage /\ s.file = file /\ DOMAIN file = DOMAIN r.file
      /\ s.dirty = r.dirty /\ s.custom = r.custom
  BY <1>1, <1>2 DEF W!IsRow, W!RowFields
<1>6. W!IsRow(s) BY <1>4, <1>5 DEF W!IsRow, W!HasFile
<1>7. W!InPlace(s) BY <1>4, <1>5 DEF W!InPlace, W!GetStage, W!StageUnknown, W!StageOrganized
<1>8. Keeps(s, W!AdvanceIfAtOrBefore(s, 1, sets)) BY <1>6, Advances DEF Keeps
<1> QED BY <1>3, <1>7, <1>8 DEF Keeps

LEMMA ScansKeep ==
  ASSUME NEW r, W!IsRow(r), NEW sets
  PROVE  Keeps(r, W!AdvanceIfAtOrBefore([r EXCEPT !.scan = W!MergeTag(@, Detected)], 3, sets))
<1>1. PICK v : v = W!MergeTag(r.scan, Detected) OBVIOUS
<1>2. PICK s : s = [r EXCEPT !.scan = v] OBVIOUS
<1>3. Keeps(r, s) BY <1>2, SetsAside DEF W!PlaceFields
<1>4. Keeps(s, W!AdvanceIfAtOrBefore(s, 3, sets)) BY <1>3, Advances DEF Keeps
<1>5. Keeps(r, W!AdvanceIfAtOrBefore(s, 3, sets)) BY <1>3, <1>4 DEF Keeps
<1> QED BY <1>1, <1>2, <1>5

(* A book is filed where its fields say. *)
LEMMA FilesInPlace ==
  ASSUME NEW r, W!IsRow(r), W!GetStage(r) = 5, NEW sets
  PROVE  Keeps(r, W!Filed(r, sets))
<1>1. PICK p, file : p = W!PlaceOf(r) /\ file = [r.file EXCEPT ![2] = p] OBVIOUS
<1>2. PICK s : s = [r EXCEPT !.file = file] OBVIOUS
<1>3. s = [r EXCEPT !.file[2] = W!PlaceOf(r)] BY <1>1, <1>2
<1>4. W!HasFile(r) /\ r.stage = 5 BY DEF W!GetStage, W!StageUnknown
<1>5. /\ DOMAIN s = W!RowFields /\ s.stage = 5 /\ s.file = file
      /\ 2 \in DOMAIN file /\ file[2] = p /\ s.dirty = r.dirty /\ s.custom = r.custom
  BY <1>1, <1>2, <1>4 DEF W!IsRow, W!RowFields
<1>6. W!IsRow(s) BY <1>5 DEF W!IsRow, W!HasFile, W!StageUnknown, W!StageOrganized
<1>7. PICK t : t = W!Filed(r, sets) OBVIOUS
<1>8. t = s \/ t = [s EXCEPT !.stage = 6]
  BY <1>3, <1>7 DEF W!Filed, W!AdvanceIfAtOrBefore, W!NextStage, W!StageToMove, W!StageOrganized
<1>9. PICK u : u = [s EXCEPT !.stage = 6] OBVIOUS
<1>10. t.file = file /\ W!PlaceOf(t) = p
  <2>1. u.file = file BY <1>5, <1>9 DEF W!RowFields
  <2>2. SameFieldsOfPlace(r, s) /\ SameFieldsOfPlace(s, u)
    BY <1>2, <1>5, <1>9, FieldsOfPlace DEF SameFieldsOfPlace, W!IsRow
  <2>3. W!PlaceOf(s) = p /\ W!PlaceOf(u) = p BY <1>1, <2>2, SamePlace
  <2> QED BY <1>5, <1>8, <1>9, <2>1, <2>3
<1>11. W!IsRow(t)
  <2>1. PICK n \in 0 .. 6 : n = 6 OBVIOUS
  <2>2. W!IsRow([s EXCEPT !.stage = n]) BY <1>6, OneStage
  <2> QED BY <1>6, <1>8, <2>1, <2>2
<1>12. W!InPlace(t) BY <1>5, <1>10 DEF W!InPlace
<1> QED BY <1>7, <1>11, <1>12 DEF Keeps

(* A request whose rows are in place if they were. *)
LEMMA KeepsRequest ==
  ASSUME FiledInv, NEW w \in Writer, NEW new, NEW action,
         \A b \in DOMAIN new : b \in Comic => Keeps(record[b], new[b]), W!UpdateBooks(w, new, action)
  PROVE  FiledInv'
<1>1. RowsOK(new, action) BY DEF RowsOK, Keeps
<1> QED BY <1>1, RequestKeeps

LEMMA KeepsRow ==
  ASSUME FiledInv, NEW w \in Writer, NEW b, NEW r, NEW action, b \in Comic => Keeps(record[b], r),
         W!UpdateBook(w, b, r, action)
  PROVE  FiledInv'
<1>1. b \in Comic => W!IsRow(r) /\ (action \notin W!Straying /\ W!InPlace(record[b]) => W!InPlace(r)) BY DEF Keeps
<1> QED BY <1>1, RowKeeps

LEMMA RowsAre == ASSUME FiledInv, NEW b \in Comic PROVE W!IsRow(record[b])
  BY DEF FiledInv

(* What a user does to books. *)
LEMMA UserKeeps ==
  ASSUME W!WorkflowAssumption, FiledInv, NEW w \in Writer,
         W!Edit(w) \/ W!BulkEdit(w) \/ W!LockField(w) \/ W!Rollback(w) \/ W!Undo(w) \/ W!Mark(w) \/ W!PagesMeta(w)
  PROVE  FiledInv'
<1>1. CASE W!Edit(w)
  <2>1. PICK b \in Comic, form \in EditForm : W!UpdateBook(w, b, W!Edited(record[b], form), "edit")
    BY <1>1 DEF W!Edit
  <2>2. Keeps(record[b], W!Edited(record[b], form)) BY RowsAre, Edits
  <2> QED BY <2>1, <2>2, KeepsRow
<1>2. CASE W!BulkEdit(w)
  <2>1. PICK chosen \in SUBSET Comic \ {{}}, form \in EditForm :
          W!UpdateBooks(w, [b \in chosen |-> W!Edited(record[b], form)], "edit")
    BY <1>2 DEF W!BulkEdit
  <2>2. \A b \in Comic : Keeps(record[b], W!Edited(record[b], form)) BY RowsAre, Edits
  <2>3. PICK new : new = [b \in chosen |-> W!Edited(record[b], form)] OBVIOUS
  <2>4. \A b \in DOMAIN new : b \in Comic => Keeps(record[b], new[b]) BY <2>2, <2>3
  <2> QED BY <2>1, <2>3, <2>4, KeepsRequest
<1>3. CASE W!LockField(w)
  <2>1. PICK b \in Comic, f \in Lockable, locked \in BOOLEAN :
          W!UpdateBook(w, b, W!SetFieldLocked(record[b], f, locked), "edit")
    BY <1>3 DEF W!LockField
  <2>2. PICK some : W!SetFieldLocked(record[b], f, locked) = [record[b] EXCEPT !.locked = some]
    BY DEF W!SetFieldLocked
  <2>3. Keeps(record[b], [record[b] EXCEPT !.locked = some]) BY RowsAre, SetsAside DEF W!PlaceFields
  <2> QED BY <2>1, <2>2, <2>3, KeepsRow
<1>4. CASE W!Rollback(w)
  <2>1. PICK b \in Comic, target \in 1 .. 6 : W!UpdateBook(w, b, W!RegressToStageIfPast(record[b], target), "rollback")
    BY <1>4 DEF W!Rollback, W!StageConvertToCBZ, W!StageOrganized
  <2>2. Keeps(record[b], W!RegressToStageIfPast(record[b], target)) BY RowsAre, Regresses DEF Keeps
  <2> QED BY <2>1, <2>2, KeepsRow
<1>5. CASE W!Undo(w)
  <2>1. PICK i \in DOMAIN audit, force \in BOOLEAN :
          W!UpdateBook(w, audit[i].book, W!Undone(record[audit[i].book], audit[i].changes, force), "undo")
    BY <1>5 DEF W!Undo
  <2>2. PICK b, its : b = audit[i].book /\ its = audit[i].changes OBVIOUS
  <2>3. b \in Comic => Keeps(record[b], W!Undone(record[b], its, force)) BY RowsAre, Undoes
  <2> QED BY <2>1, <2>2, <2>3, KeepsRow
<1>6. CASE W!Mark(w)
  <2>1. PICK b \in Comic, mark \in Marks : W!UpdateBook(w, b, W!Marked(record[b], mark), "mark")
    BY <1>6 DEF W!Mark
  <2>2. Keeps(record[b], W!Marked(record[b], mark)) BY RowsAre, MarksKeep
  <2> QED BY <2>1, <2>2, KeepsRow
<1>7. CASE W!PagesMeta(w)
  <2>1. PICK b \in Comic, type \in PageType : W!UpdateBook(w, b, W!Paged(record[b], type), "pages")
    BY <1>7 DEF W!PagesMeta
  <2>2. Keeps(record[b], W!Paged(record[b], type)) BY RowsAre, PagesKeep
  <2> QED BY <2>1, <2>2, KeepsRow
<1> QED BY <1>1, <1>2, <1>3, <1>4, <1>5, <1>6, <1>7

(* A book that need not be scraped, or must again. *)
LEMMA ExemptionKeeps ==
  ASSUME FiledInv, NEW w \in Writer,
         W!SetNoCVMatch(w) \/ W!ClearNoCVMatch(w) \/ W!MigrateCVDBSkip(w) \/ W!SetLocalIdentity(w) \/ W!ClearLocalIdentity(w)
  PROVE  FiledInv'
<1>1. ASSUME NEW b \in Comic PROVE Keeps(record[b], W!Exempted([record[b] EXCEPT !.nomatch = TRUE]))
  <2>1. PICK s : s = [record[b] EXCEPT !.nomatch = TRUE] OBVIOUS
  <2>2. Keeps(record[b], s) BY <2>1, RowsAre, SetsAside DEF W!PlaceFields
  <2>3. Keeps(s, W!Exempted(s)) BY <2>2, Exempts DEF Keeps
  <2> QED BY <2>1, <2>2, <2>3, KeepsTwice
<1>2. ASSUME NEW b \in Comic PROVE Keeps(record[b], W!Demanded([record[b] EXCEPT !.nomatch = FALSE]))
  <2>1. PICK s : s = [record[b] EXCEPT !.nomatch = FALSE] OBVIOUS
  <2>2. Keeps(record[b], s) BY <2>1, RowsAre, SetsAside DEF W!PlaceFields
  <2>3. Keeps(s, W!Demanded(s)) BY <2>2, Demands DEF Keeps
  <2> QED BY <2>1, <2>2, <2>3, KeepsTwice
<1>3. ASSUME NEW b \in Comic PROVE Keeps(record[b], W!Demanded([record[b] EXCEPT !.local = FALSE]))
  <2>1. PICK s : s = [record[b] EXCEPT !.local = FALSE] OBVIOUS
  <2>2. Keeps(record[b], s) BY <2>1, RowsAre, SetsAside DEF W!PlaceFields
  <2>3. Keeps(s, W!Demanded(s)) BY <2>2, Demands DEF Keeps
  <2> QED BY <2>1, <2>2, <2>3, KeepsTwice
<1>4. CASE W!SetNoCVMatch(w)
  <2>1. PICK chosen : W!UpdateBooks(w, [b \in chosen |-> W!Exempted([record[b] EXCEPT !.nomatch = TRUE])], "no match")
    BY <1>4 DEF W!SetNoCVMatch
  <2>2. PICK new : new = [b \in chosen |-> W!Exempted([record[b] EXCEPT !.nomatch = TRUE])] OBVIOUS
  <2>3. \A b \in DOMAIN new : b \in Comic => Keeps(record[b], new[b]) BY <1>1, <2>2
  <2> QED BY <2>1, <2>2, <2>3, KeepsRequest
<1>5. CASE W!ClearNoCVMatch(w)
  <2>1. PICK chosen : W!UpdateBooks(w, [b \in chosen |-> W!Demanded([record[b] EXCEPT !.nomatch = FALSE])], "no match")
    BY <1>5 DEF W!ClearNoCVMatch
  <2>2. PICK new : new = [b \in chosen |-> W!Demanded([record[b] EXCEPT !.nomatch = FALSE])] OBVIOUS
  <2>3. \A b \in DOMAIN new : b \in Comic => Keeps(record[b], new[b]) BY <1>2, <2>2
  <2> QED BY <2>1, <2>2, <2>3, KeepsRequest
<1>6. CASE W!MigrateCVDBSkip(w)
  <2>1. PICK chosen : chosen = {x \in Comic : /\ W!HasFile(record[x]) /\ W!Contains(record[x].tags, Skip)
                                            /\ ~record[x].nomatch /\ ~record[x].scraped}
    OBVIOUS
  <2>2. PICK new : new = [b \in chosen |-> W!Exempted([record[b] EXCEPT !.nomatch = TRUE])] OBVIOUS
  <2>3. W!UpdateBooks(w, new, "no match") BY <1>6, <2>1, <2>2 DEF W!MigrateCVDBSkip
  <2>4. \A b \in DOMAIN new : b \in Comic => Keeps(record[b], new[b]) BY <1>1, <2>2
  <2> QED BY <2>3, <2>4, KeepsRequest
<1>7. CASE W!SetLocalIdentity(w)
  <2>1. PICK chosen : W!UpdateBooks(w, [b \in chosen |-> W!Identified(record[b])], "local")
    BY <1>7 DEF W!SetLocalIdentity
  <2>2. PICK new : new = [b \in chosen |-> W!Identified(record[b])] OBVIOUS
  <2>3. \A b \in DOMAIN new : b \in Comic => Keeps(record[b], new[b]) BY <2>2, RowsAre, Identifies
  <2> QED BY <2>1, <2>2, <2>3, KeepsRequest
<1>8. CASE W!ClearLocalIdentity(w)
  <2>1. PICK b \in Comic : W!UpdateBook(w, b, W!Demanded([record[b] EXCEPT !.local = FALSE]), "local")
    BY <1>8 DEF W!ClearLocalIdentity
  <2> QED BY <1>3, <2>1, KeepsRow
<1> QED BY <1>4, <1>5, <1>6, <1>7, <1>8

(* What lets books stray: its rows are rows, in place or not. *)
LEMMA StrayKeeps ==
  ASSUME FiledInv, NEW w \in Writer, NEW new, NEW action, action \in W!Straying,
         \A b \in DOMAIN new : b \in Comic => W!IsRow(new[b]), W!UpdateBooks(w, new, action)
  PROVE  FiledInv'
<1>1. RowsOK(new, action) BY DEF RowsOK
<1> QED BY <1>1, RequestKeeps

LEMMA RelinkKeeps == ASSUME FiledInv, NEW w \in Writer, W!Relink(w) PROVE FiledInv'
<1>1. PICK b \in Comic : W!HasFile(record[b]) /\ W!UpdateBook(w, b, W!Relinked(record[b]), "relink") BY DEF W!Relink
<1>2. W!IsRow(W!Relinked(record[b])) BY <1>1, RowsAre, RelinkedAreRows
<1>3. "relink" \in W!Straying BY DEF W!Straying
<1> QED BY <1>1, <1>2, <1>3, RowKeeps

(* The book at ComicVine. *)
LEMMA ScrapeKeeps == ASSUME FiledInv, NEW w \in Writer, W!Scrape(w) PROVE FiledInv'
<1>1. PICK b \in Comic : LET found == W!Matched(record[b])
                         IN  W!UpdateBook(w, b, IF found = record[b] THEN found
                                                ELSE W!AdvanceIfAtOrBefore(found, 2, <<>>), "scrape")
  BY DEF W!Scrape, W!StageScrape
<1>2. PICK found : found = W!Matched(record[b]) OBVIOUS
<1>3. Kin(record[b], found)
  BY <1>2, RowsAre DEF W!Matched, W!IsRow, W!RowFields, Kin
<1>4. W!IsRow(found) BY <1>3, RowsAre, KinIsRow
<1>5. W!IsRow(W!AdvanceIfAtOrBefore(found, 2, <<>>)) BY <1>4, Advances
<1>6. PICK r : r = IF found = record[b] THEN found ELSE W!AdvanceIfAtOrBefore(found, 2, <<>>) OBVIOUS
<1>7. W!IsRow(r) BY <1>4, <1>5, <1>6
<1>8. W!UpdateBook(w, b, r, "scrape") /\ "scrape" \in W!Straying BY <1>1, <1>2, <1>6 DEF W!Straying
<1> QED BY <1>7, <1>8, RowKeeps

(* The steps of the workflow, and what is written into files and counted. *)
LEMMA StageKeeps ==
  ASSUME FiledInv, NEW w \in Writer,
         W!Convert(w) \/ W!ScanInfo(w) \/ W!Organize(w) \/ W!WriteMetadata(w) \/ W!CountFill(w) \/ W!FormatDetect(w)
  PROVE  FiledInv'
<1>1. CASE W!Convert(w)
  <2>1. PICK chosen \in SUBSET W!AtStage(1), sets \in RulesetList :
          W!UpdateBooks(w, [b \in chosen |-> W!AdvanceIfAtOrBefore([record[b] EXCEPT !.file[1] = "cbz"], 1, sets)], "convert")
    BY <1>1 DEF W!Convert, W!StageConvertToCBZ
  <2>2. PICK new : new = [b \in chosen |-> W!AdvanceIfAtOrBefore([record[b] EXCEPT !.file[1] = "cbz"], 1, sets)] OBVIOUS
  <2>3. \A b \in chosen : b \in Comic /\ W!GetStage(record[b]) = 1 BY <2>1 DEF W!AtStage
  <2>4. ASSUME NEW b \in chosen PROVE Keeps(record[b], W!AdvanceIfAtOrBefore([record[b] EXCEPT !.file[1] = "cbz"], 1, sets))
    BY <2>3, RowsAre, ConvertsKeep
  <2>5. \A b \in DOMAIN new : b \in Comic => Keeps(record[b], new[b]) BY <2>2, <2>4
  <2> QED BY <2>1, <2>2, <2>5, KeepsRequest
<1>2. CASE W!ScanInfo(w)
  <2>1. PICK chosen \in SUBSET W!AtStage(3), sets \in RulesetList :
          W!UpdateBooks(w, [b \in chosen |-> W!AdvanceIfAtOrBefore([record[b] EXCEPT !.scan = W!MergeTag(@, Detected)], 3, sets)], "scan")
    BY <1>2 DEF W!ScanInfo, W!StageScanInfo
  <2>2. PICK new : new = [b \in chosen |-> W!AdvanceIfAtOrBefore([record[b] EXCEPT !.scan = W!MergeTag(@, Detected)], 3, sets)]
    OBVIOUS
  <2>3. \A b \in chosen : b \in Comic BY <2>1 DEF W!AtStage
  <2>4. ASSUME NEW b \in chosen
        PROVE  Keeps(record[b], W!AdvanceIfAtOrBefore([record[b] EXCEPT !.scan = W!MergeTag(@, Detected)], 3, sets))
    BY <2>3, RowsAre, ScansKeep
  <2>5. \A b \in DOMAIN new : b \in Comic => Keeps(record[b], new[b]) BY <2>2, <2>4
  <2> QED BY <2>1, <2>2, <2>5, KeepsRequest
<1>3. CASE W!Organize(w)
  <2>1. PICK chosen \in SUBSET W!AtStage(5), sets \in RulesetList :
          W!UpdateBooks(w, [b \in chosen |-> W!Filed(record[b], sets)], "organize")
    BY <1>3 DEF W!Organize, W!StageToMove
  <2>2. PICK new : new = [b \in chosen |-> W!Filed(record[b], sets)] OBVIOUS
  <2>3. \A b \in chosen : b \in Comic /\ W!GetStage(record[b]) = 5 BY <2>1 DEF W!AtStage
  <2>4. \A b \in chosen : Keeps(record[b], W!Filed(record[b], sets)) BY <2>3, RowsAre, FilesInPlace
  <2>5. \A b \in DOMAIN new : b \in Comic => Keeps(record[b], new[b]) BY <2>2, <2>4
  <2> QED BY <2>1, <2>2, <2>5, KeepsRequest
<1>4. CASE W!WriteMetadata(w)
  <2>1. PICK chosen : W!UpdateBooks(w, [b \in chosen |-> [record[b] EXCEPT !.dirty = FALSE]], "write")
    BY <1>4 DEF W!WriteMetadata
  <2>2. PICK new : new = [b \in chosen |-> [record[b] EXCEPT !.dirty = FALSE]] OBVIOUS
  <2>3. ASSUME NEW b \in Comic PROVE Keeps(record[b], [record[b] EXCEPT !.dirty = FALSE])
    BY RowsAre, DirtySet, KeepsBeside
  <2>4. \A b \in DOMAIN new : b \in Comic => Keeps(record[b], new[b]) BY <2>2, <2>3
  <2> QED BY <2>1, <2>2, <2>4, KeepsRequest
<1>5. CASE W!CountFill(w)
  <2>1. PICK new : new = [b \in Comic |-> W!CountFilled(record[b])] OBVIOUS
  <2>2. W!UpdateBooks(w, new, "counts") BY <1>5, <2>1 DEF W!CountFill
  <2>3. \A b \in DOMAIN new : b \in Comic => W!IsRow(new[b]) BY <2>1, RowsAre, FillsAreRows
  <2>4. "counts" \in W!Straying BY DEF W!Straying
  <2> QED BY <2>2, <2>3, <2>4, StrayKeeps
<1>6. CASE W!FormatDetect(w)
  <2>1. PICK new : new = [b \in Comic |-> W!FormatSet(record[b])] OBVIOUS
  <2>2. W!UpdateBooks(w, new, "formats") BY <1>6, <2>1 DEF W!FormatDetect
  <2>3. \A b \in DOMAIN new : b \in Comic => W!IsRow(new[b]) BY <2>1, RowsAre, FormatsAreRows
  <2>4. "formats" \in W!Straying BY DEF W!Straying
  <2> QED BY <2>2, <2>3, <2>4, StrayKeeps
<1> QED BY <1>1, <1>2, <1>3, <1>4, <1>5, <1>6

(* A request that is at another point, and no row changes. *)
LEMMA OneSaves ==
  ASSUME FiledInv, NEW w \in Writer, NEW s, saving' = [saving EXCEPT ![w] = s], UNCHANGED <<record, strayed>>,
         s # None => PendingOK(s)
  PROVE  FiledInv'
<1>1. ASSUME NEW v \in Writer, saving'[v] # None PROVE PendingOK(saving[v])'
  <2>1. CASE v = w
    <3>1. saving'[v] = s BY <2>1 DEF FiledInv
    <3>2. PendingOK(s) BY <1>1, <3>1
    <3> QED BY <3>1, <3>2 DEF PendingOK
  <2>2. CASE v # w
    <3>1. saving'[v] = saving[v] BY <2>2 DEF FiledInv
    <3> QED BY <1>1, <3>1 DEF FiledInv, PendingOK
  <2> QED BY <2>1, <2>2
<1> QED BY <1>1 DEF FiledInv

(* The job of the rules. *)
LEMMA JobKeeps ==
  ASSUME W!WorkflowAssumption, FiledInv, NEW w \in Writer, W!ReadForRules(w) \/ W!RunRules(w)
  PROVE  FiledInv'
<1>1. CASE W!ReadForRules(w)
  <2>1. PICK chosen \in SUBSET Comic \ {{}}, sets \in RulesetList \ {<<>>} :
          saving' = [saving EXCEPT ![w] =
                      [phase |-> "read", action |-> "rules", rows |-> [b \in chosen |-> record[b]], sets |-> sets]]
    BY <1>1 DEF W!ReadForRules
  <2>2. PICK read : read = [b \in chosen |-> record[b]] OBVIOUS
  <2>3. PICK s : s = [phase |-> "read", action |-> "rules", rows |-> read, sets |-> sets] OBVIOUS
  <2>4. s.phase = "read" /\ s.action = "rules" /\ s.rows = read /\ s.sets = sets BY <2>3
  <2>5. \A b \in DOMAIN read : b \in Comic => W!IsRow(read[b]) BY <2>2, RowsAre
  <2>6. PendingOK(s) BY <2>1, <2>4, <2>5 DEF PendingOK
  <2>7. saving' = [saving EXCEPT ![w] = s] BY <2>1, <2>2, <2>3
  <2> QED BY <1>1, <2>6, <2>7, OneSaves DEF W!ReadForRules
<1>2. CASE W!RunRules(w)
  <2>1. UNCHANGED <<record, strayed>> /\ saving[w] # None /\ saving[w].phase = "read" BY <1>2 DEF W!RunRules
  <2>2. CASE saving' = [saving EXCEPT ![w] = None] BY <2>1, <2>2, OneSaves
  <2>3. CASE saving' # [saving EXCEPT ![w] = None]
    <3>1. PICK read, sets : read = saving[w].rows /\ sets = saving[w].sets OBVIOUS
    <3>2. PICK chosen : LET new == W!Ruled(read, sets, chosen)
                        IN  saving' = [saving EXCEPT ![w] =
                              IF DOMAIN new = {} THEN None ELSE [phase |-> "compare", action |-> "rules", new |-> new]]
      BY <1>2, <2>3, <3>1 DEF W!RunRules
    <3>3. PICK new : new = W!Ruled(read, sets, chosen) OBVIOUS
    <3>4. DOMAIN new # {} BY <2>3, <3>2, <3>3
    <3>5. PICK s : s = [phase |-> "compare", action |-> "rules", new |-> new] OBVIOUS
    <3>6. saving' = [saving EXCEPT ![w] = s] BY <3>2, <3>3, <3>4, <3>5
    <3>7. DOMAIN new \subseteq DOMAIN read BY <3>3 DEF W!Ruled
    <3>8. sets \in RulesetList /\ \A b \in DOMAIN read : b \in Comic => W!IsRow(read[b])
      BY <2>1, <3>1 DEF FiledInv, PendingOK
    <3>9. ASSUME NEW b \in DOMAIN new, b \in Comic PROVE W!IsRow(new[b]) /\ W!InPlace(new[b])
      BY <3>3, <3>7, <3>8, <3>9, RuledInPlace
    <3>10. s.phase = "compare" /\ s.new = new BY <3>5
    <3>11. PendingOK(s) BY <3>9, <3>10 DEF PendingOK
    <3> QED BY <2>1, <3>6, <3>11, OneSaves
  <2> QED BY <2>2, <2>3
<1> QED BY <1>1, <1>2

(* The audited write: it writes what it compared. *)
LEMMA CompareKeeps == ASSUME FiledInv, NEW w \in Writer, W!Compare(w) PROVE FiledInv'
<1>1. PICK s, seen, entries :
        /\ seen = [b \in DOMAIN saving[w].new |-> record[b]] /\ entries = W!RowsFor(saving[w].new)
        /\ s = [phase |-> "write", action |-> saving[w].action, new |-> saving[w].new, seen |-> seen, entries |-> entries]
  OBVIOUS
<1>2. saving' = [saving EXCEPT ![w] = s]
  <2>1. w \in DOMAIN saving BY DEF FiledInv
  <2> QED BY <1>1, <2>1 DEF W!Compare
<1>3. s.phase = "write" /\ s.action = saving[w].action /\ s.new = saving[w].new BY <1>1
<1>4. PendingOK(saving[w]) /\ saving[w].phase = "compare" BY DEF W!Compare, FiledInv
<1>5. PendingOK(s) BY <1>3, <1>4 DEF PendingOK
<1> QED BY <1>2, <1>5, OneSaves DEF W!Compare

LEMMA AppendKeeps == ASSUME FiledInv, NEW w \in Writer, W!AppendAudit(w) \/ W!AppendFails(w) PROVE FiledInv'
  BY OneSaves DEF W!AppendAudit, W!AppendFails

LEMMA WriteKeeps == ASSUME FiledInv, NEW w \in Writer, W!Write(w) PROVE FiledInv'
<1>1. PICK new, action : new = saving[w].new /\ action = saving[w].action OBVIOUS
<1>2. PICK written \in SUBSET DOMAIN new :
        /\ record' = [b \in Comic |-> IF b \in written THEN new[b] ELSE record[b]]
        /\ \E s : saving' = [saving EXCEPT ![w] = s] /\ (s = None \/ s.phase = "append")
        /\ strayed' = strayed \union
             IF action \in W!Straying THEN {b \in written : ~W!InPlace(new[b])} ELSE {}
  <2>1. PICK written \in SUBSET DOMAIN saving[w].new :
          /\ record' = [b \in Comic |-> IF b \in written THEN saving[w].new[b] ELSE record[b]]
          /\ saving' = [saving EXCEPT ![w] =
               IF written = DOMAIN saving[w].new /\ @.entries # {}
               THEN [phase |-> "append", action |-> @.action, entries |-> @.entries] ELSE None]
          /\ strayed' = strayed \union
               IF saving[w].action \in W!Straying THEN {b \in written : ~W!InPlace(saving[w].new[b])} ELSE {}
    BY DEF W!Write
  <2>2. PICK s : s = IF written = DOMAIN saving[w].new /\ saving[w].entries # {}
                     THEN [phase |-> "append", action |-> saving[w].action, entries |-> saving[w].entries] ELSE None
    OBVIOUS
  <2>3. s = None \/ s.phase = "append" BY <2>2
  <2>4. saving' = [saving EXCEPT ![w] = s] BY <2>1, <2>2
  <2>5. written \in SUBSET DOMAIN new /\ record' = [b \in Comic |-> IF b \in written THEN new[b] ELSE record[b]]
    BY <1>1, <2>1
  <2>6. strayed' = strayed \union IF action \in W!Straying THEN {b \in written : ~W!InPlace(new[b])} ELSE {}
    BY <1>1, <2>1
  <2>7. \E t : saving' = [saving EXCEPT ![w] = t] /\ (t = None \/ t.phase = "append") BY <2>3, <2>4
  <2> QED BY <2>5, <2>6, <2>7
<1>3. PICK s : saving' = [saving EXCEPT ![w] = s] /\ (s = None \/ s.phase = "append") BY <1>2
<1>4. PendingOK(saving[w]) /\ saving[w].phase = "write" BY DEF W!Write, FiledInv
<1>5. \A b \in DOMAIN new : b \in Comic => W!IsRow(new[b]) /\ (action \notin W!Straying /\ b \notin strayed => W!InPlace(new[b]))
  BY <1>1, <1>4 DEF PendingOK
<1>6. strayed \subseteq strayed' BY <1>2
<1>7. ASSUME NEW b \in Comic PROVE (W!IsRow(record[b]) /\ (b \notin strayed => W!InPlace(record[b])))'
  <2>1. CASE b \in written
    <3>1. record'[b] = new[b] BY <1>2, <2>1
    <3>2. W!IsRow(new[b]) BY <1>2, <1>5, <2>1
    <3>3. ASSUME b \notin strayed' PROVE W!InPlace(new[b])
      <4>1. CASE action \notin W!Straying BY <1>2, <1>5, <1>6, <2>1, <3>3, <4>1
      <4>2. CASE action \in W!Straying BY <1>2, <2>1, <3>3, <4>2
      <4> QED BY <4>1, <4>2
    <3>4. W!IsRow(record'[b]) /\ (b \notin strayed' => W!InPlace(record'[b])) BY <3>1, <3>2, <3>3
    <3> QED BY <3>4
  <2>2. CASE b \notin written
    <3>1. record'[b] = record[b] BY <1>2, <2>2
    <3>2. W!IsRow(record'[b]) /\ (b \notin strayed' => W!InPlace(record'[b])) BY <1>6, <3>1 DEF FiledInv
    <3> QED BY <3>2
  <2> QED BY <2>1, <2>2
<1>8. ASSUME NEW v \in Writer, saving'[v] # None PROVE PendingOK(saving[v])'
  <2>1. CASE v = w
    <3>1. saving'[v] = s BY <1>3, <2>1 DEF FiledInv
    <3>2. saving'[v].phase = "append" BY <1>3, <1>8, <3>1
    <3> QED BY <3>2 DEF PendingOK
  <2>2. CASE v # w
    <3>1. saving'[v] = saving[v] BY <1>3, <2>2 DEF FiledInv
    <3>2. PendingOK(saving[v]) BY <1>8, <3>1 DEF FiledInv
    <3> QED BY <1>6, <3>1, <3>2 DEF PendingOK
  <2> QED BY <2>1, <2>2
<1>9. DOMAIN record' = Comic /\ DOMAIN saving' = Writer BY <1>2, <1>3 DEF FiledInv
<1> QED BY <1>7, <1>8, <1>9 DEF FiledInv

LEMMA FiledStep == ASSUME W!WorkflowAssumption, FiledInv, [W!Next]_(W!vars) PROVE FiledInv'
<1>1. ASSUME NEW w \in Writer,
             W!Edit(w) \/ W!BulkEdit(w) \/ W!LockField(w) \/ W!Rollback(w) \/ W!Undo(w) \/ W!Mark(w) \/ W!PagesMeta(w)
      PROVE  FiledInv'
  BY <1>1, UserKeeps
<1>2. ASSUME NEW w \in Writer,
             W!SetNoCVMatch(w) \/ W!ClearNoCVMatch(w) \/ W!MigrateCVDBSkip(w) \/ W!SetLocalIdentity(w) \/ W!ClearLocalIdentity(w)
      PROVE  FiledInv'
  BY <1>2, ExemptionKeeps
<1>3. ASSUME NEW w \in Writer,
             W!Convert(w) \/ W!ScanInfo(w) \/ W!Organize(w) \/ W!WriteMetadata(w) \/ W!CountFill(w) \/ W!FormatDetect(w)
      PROVE  FiledInv'
  BY <1>3, StageKeeps
<1>4. ASSUME NEW w \in Writer, W!ReadForRules(w) \/ W!RunRules(w) PROVE FiledInv'
  BY <1>4, JobKeeps
<1>5. CASE UNCHANGED W!vars BY <1>5 DEF W!vars, FiledInv, PendingOK
<1> QED BY <1>1, <1>2, <1>3, <1>4, <1>5, ScrapeKeeps, RelinkKeeps, CompareKeeps, WriteKeeps, AppendKeeps DEF W!Next

(* The members of a finite set one after another are a sequence of all of them. *)
Taken(A, n, k) == k = [m \in 0 .. n |-> IF m = 0 THEN A ELSE W!WithoutOne(k[m - 1])]

LEMMA TakenIs ==
  ASSUME NEW A, NEW n, NEW k, Taken(A, n, k), NEW m \in 0 .. n
  PROVE  k[m] = IF m = 0 THEN A ELSE W!WithoutOne(k[m - 1])
BY DEF Taken

LEMMA TakenExists == ASSUME NEW A PROVE \A n \in Nat : \E k : Taken(A, n, k)
<1> DEFINE T == {n \in Nat : \E k : Taken(A, n, k)}
<1>1. 0 \in T
  <2>1. Taken(A, 0, [m \in 0 .. 0 |-> A]) BY DEF Taken
  <2> QED BY <2>1
<1>2. ASSUME NEW n \in Nat, n \in T PROVE n + 1 \in T
  <2>1. PICK k : Taken(A, n, k) BY <1>2
  <2>2. PICK j : j = [m \in 0 .. n + 1 |-> IF m = 0 THEN A ELSE W!WithoutOne(k[m - 1])] OBVIOUS
  <2>3. \A m \in 0 .. n : j[m] = k[m] BY <2>1, <2>2, TakenIs
  <2>4. \A m \in 0 .. n + 1 : m # 0 => m - 1 \in 0 .. n OBVIOUS
  <2>5. Taken(A, n + 1, j) BY <2>2, <2>3, <2>4 DEF Taken
  <2> QED BY <2>5
<1> HIDE DEF T
<1>3. Nat \subseteq T BY <1>1, <1>2, Induction
<1> QED BY <1>3 DEF T

LEMMA OrderCovers ==
  ASSUME NEW A, IsFiniteSet(A)
  PROVE  LET s == W!InSomeOrder(A) IN s \in Seq(A) /\ \A x \in A : \E i \in 1 .. Len(s) : s[i] = x
<1>1. PICK n \in Nat : n = Cardinality(A) BY FS_CardinalityType
<1>2. PICK k : k = CHOOSE left : Taken(A, n, left) OBVIOUS
<1>3. Taken(A, n, k) BY <1>2, TakenExists
<1>4. PICK s : s = [m \in 1 .. n |-> CHOOSE x \in k[m - 1] : TRUE] OBVIOUS
<1>5. W!InSomeOrder(A) = s
  <2>1. W!Cardinality(A) = n BY <1>1 DEF W!Cardinality, Cardinality
  <2> QED BY <1>2, <1>4, <2>1 DEF W!InSomeOrder, Taken
<1> DEFINE T == {m \in Nat : m <= n =>
        /\ k[m] \subseteq A /\ IsFiniteSet(k[m]) /\ Cardinality(k[m]) = n - m
        /\ \A x \in A \ k[m] : \E i \in 1 .. m : s[i] = x}
<1>6. 0 \in T
  <2>1. k[0] = A BY <1>3, TakenIs
  <2> QED BY <1>1, <2>1
<1>7. ASSUME NEW m \in Nat, m \in T PROVE m + 1 \in T
  <2> SUFFICES ASSUME m + 1 <= n
               PROVE  /\ k[m + 1] \subseteq A /\ IsFiniteSet(k[m + 1]) /\ Cardinality(k[m + 1]) = n - (m + 1)
                      /\ \A x \in A \ k[m + 1] : \E i \in 1 .. m + 1 : s[i] = x
    OBVIOUS
  <2>1. /\ k[m] \subseteq A /\ IsFiniteSet(k[m]) /\ Cardinality(k[m]) = n - m
        /\ \A x \in A \ k[m] : \E i \in 1 .. m : s[i] = x
    BY <1>7
  <2>2. PICK p \in 0 .. n : p = m + 1 /\ p - 1 = m /\ p # 0 OBVIOUS
  <2>3. k[p] = IF p = 0 THEN A ELSE W!WithoutOne(k[p - 1]) BY <1>3, TakenIs
  <2>4. PICK y : y = CHOOSE x \in k[m] : TRUE OBVIOUS
  <2>5. k[m + 1] = k[m] \ {y} BY <2>2, <2>3, <2>4 DEF W!WithoutOne
  <2>6. s[m + 1] = y BY <1>4, <2>2, <2>4
  <2>7. y \in k[m]
    <3>1. k[m] # {} BY <2>1, FS_EmptySet
    <3> QED BY <2>4, <3>1
  <2>8. IsFiniteSet(k[m + 1]) /\ Cardinality(k[m + 1]) = n - m - 1 BY <2>1, <2>5, <2>7, FS_RemoveElement
  <2>9. ASSUME NEW x \in A \ k[m + 1] PROVE \E i \in 1 .. m + 1 : s[i] = x
    <3>1. CASE x = y BY <2>6, <3>1
    <3>2. CASE x # y
      <4>1. PICK i \in 1 .. m : s[i] = x BY <2>1, <2>5, <3>2
      <4> QED BY <4>1
    <3> QED BY <3>1, <3>2
  <2> QED BY <2>1, <2>5, <2>8, <2>9
<1>8. \A m \in 0 .. n : /\ k[m] \subseteq A /\ IsFiniteSet(k[m]) /\ Cardinality(k[m]) = n - m
                        /\ \A x \in A \ k[m] : \E i \in 1 .. m : s[i] = x
  <2> HIDE DEF T
  <2>1. Nat \subseteq T BY <1>6, <1>7, Induction
  <2> QED BY <2>1 DEF T
<1>9. \A m \in 1 .. n : s[m] \in A
  <2> SUFFICES ASSUME NEW m \in 1 .. n PROVE s[m] \in A OBVIOUS
  <2>1. PICK p \in 0 .. n : p = m - 1 /\ p < n OBVIOUS
  <2>2. k[p] \subseteq A /\ IsFiniteSet(k[p]) /\ Cardinality(k[p]) # 0 BY <1>8, <2>1
  <2>3. k[p] # {} BY <2>2, FS_EmptySet
  <2>4. s[m] = CHOOSE x \in k[p] : TRUE BY <1>4, <2>1
  <2> QED BY <2>2, <2>3, <2>4
<1>10. s \in Seq(A) /\ Len(s) = n
  <2>1. s \in [1 .. n -> A] BY <1>4, <1>9
  <2> QED BY <2>1
<1>11. k[n] = {}
  <2>1. IsFiniteSet(k[n]) /\ Cardinality(k[n]) = 0 BY <1>8
  <2> QED BY <2>1, FS_EmptySet
<1>12. \A x \in A : \E i \in 1 .. n : s[i] = x BY <1>8, <1>11
<1> QED BY <1>5, <1>10, <1>12

(* The kinds of fields, of which each field has one. *)
LEMMA Kinds ==
  ASSUME W!WorkflowAssumption, NEW f
  PROVE  /\ f \in W!Numbers => f \notin Custom /\ f # "published" /\ f \notin W!Flags /\ f # "custom" /\ f \in W!RowFields
         /\ f = "published" => f \notin Custom /\ f \notin W!Numbers /\ f \notin W!Flags /\ f \notin W!Audited
         /\ f = "dirty" => f \notin Custom /\ f \in W!Flags /\ f \notin W!Numbers
         /\ f \in Custom => f \notin W!Flags /\ f \notin W!RowFields
  BY DEF W!WorkflowAssumption, W!RowFields, W!Numbers, W!Flags, W!Audited

LEMMA TextIs ==
  ASSUME W!WorkflowAssumption, NEW r, NEW f
  PROVE  /\ f \in W!Numbers => W!GetFieldString(r, f) = <<r[f]>>
         /\ f = "published" => W!GetFieldString(r, f) = <<r.year, IF r.month < 1 THEN 1 ELSE r.month>>
         /\ f = "dirty" => W!GetFieldString(r, f) = W!YesNo(r.dirty)
         /\ f \in Custom => W!GetFieldString(r, f) = IF r.custom[f] = Absent THEN <<>> ELSE r.custom[f]
         /\ f \notin W!Numbers \union W!Flags \union Custom \union {"published"} => W!GetFieldString(r, f) = r[f]
  BY Kinds DEF W!GetFieldString

LEMMA NumberSet ==
  ASSUME W!WorkflowAssumption, NEW r, NEW f \in W!Numbers, NEW v
  PROVE  W!SetFieldString(r, f, v) = [r EXCEPT ![f] = IF v = <<>> THEN 0 ELSE v[1]]
<1>1. f # "dirty" BY DEF W!Numbers
<1> QED BY <1>1, Kinds DEF W!SetFieldString

LEMMA DateSet ==
  ASSUME W!WorkflowAssumption, NEW r, NEW v
  PROVE  W!SetFieldString(r, "published", v) =
           [r EXCEPT !.year = IF v = <<>> THEN 1 ELSE v[1], !.month = IF v = <<>> THEN 1 ELSE v[2]]
  BY Kinds DEF W!SetFieldString

LEMMA FlagSet ==
  ASSUME W!WorkflowAssumption, NEW r, NEW v
  PROVE  W!SetFieldString(r, "dirty", v) = [r EXCEPT !.dirty = (v = <<Yes>>)]
  BY Kinds DEF W!SetFieldString

(* What the log shows of a field. *)
LEMMA FieldsShow ==
  ASSUME NEW r, NEW f
  PROVE  /\ f \notin Custom => W!FieldValue(r, f) = r[f]
         /\ W!WorkflowAssumption /\ f \in Custom =>
              W!FieldValue(r, f) = IF r.custom[f] = Absent THEN <<>> ELSE r.custom[f]
  BY DEF W!FieldValue, W!GetFieldString, W!WorkflowAssumption, W!RowFields, W!Numbers, W!Flags

LEMMA SameShown ==
  ASSUME W!WorkflowAssumption, NEW r, NEW s, NEW after, s.custom = r.custom,
         \A h \in W!RowFields : h # "custom" => s[h] = r[h] \/ s[h] = after[h], NEW g \in W!Audited, g # "custom"
  PROVE  W!FieldValue(s, g) = W!FieldValue(r, g) \/ W!FieldValue(s, g) = W!FieldValue(after, g)
<1>1. CASE g \in Custom BY <1>1, FieldsShow
<1>2. CASE g \notin Custom
  <2>1. g \in W!RowFields BY <1>2 DEF W!Audited
  <2> QED BY <1>2, <2>1, FieldsShow
<1> QED BY <1>1, <1>2

(* What is written of one field is what the field has after the rules, and the others stay. *)
LEMMA WritesOne ==
  ASSUME W!WorkflowAssumption, Yes # No, NEW r, W!IsRow(r), NEW after, W!IsRow(after),
         NEW f \in W!Writable, f = "published" => ~(after.month < 1), NEW g \in W!Audited
  PROVE  LET s == W!SetFieldString(r, f, W!GetFieldString(after, f))
         IN  /\ W!FieldValue(s, g) \in {W!FieldValue(r, g), W!FieldValue(after, g)}
             /\ f = g => W!FieldValue(s, g) = W!FieldValue(after, g)
<1>0. Custom \intersect (W!RowFields \union {"published"}) = {} BY DEF W!WorkflowAssumption
<1>1. PICK v, s : v = W!GetFieldString(after, f) /\ s = W!SetFieldString(r, f, v) OBVIOUS
<1>2. DOMAIN r = W!RowFields /\ DOMAIN r.custom = Custom BY DEF W!IsRow
<1>3. g # "custom" BY <1>0 DEF W!Audited, W!RowFields
<1>4. SUFFICES /\ W!FieldValue(s, g) \in {W!FieldValue(r, g), W!FieldValue(after, g)}
               /\ f = g => W!FieldValue(s, g) = W!FieldValue(after, g)
  BY <1>1
<1>5. CASE f \in W!Numbers
  <2>1. f \notin Custom /\ f # "custom" /\ f \in W!RowFields BY <1>0, <1>5 DEF W!Numbers, W!RowFields
  <2>2. v = <<after[f]>> BY <1>1, <1>5, TextIs
  <2>3. v # <<>> /\ v[1] = after[f] BY <2>2
  <2>4. s = [r EXCEPT ![f] = after[f]]
    <3>1. s = [r EXCEPT ![f] = IF v = <<>> THEN 0 ELSE v[1]] BY <1>1, <1>5, NumberSet, Zenon
    <3>2. (IF v = <<>> THEN 0 ELSE v[1]) = after[f] BY <2>3
    <3> QED BY ONLY <3>1, <3>2
  <2>5. s.custom = r.custom /\ s[f] = after[f] /\ \A h \in W!RowFields : h # f => s[h] = r[h]
    BY <1>2, <2>1, <2>4 DEF W!RowFields
  <2>6. W!FieldValue(s, g) = W!FieldValue(r, g) \/ W!FieldValue(s, g) = W!FieldValue(after, g)
    BY <1>3, <2>1, <2>5, SameShown
  <2>7. f = g => W!FieldValue(s, g) = W!FieldValue(after, g) BY <2>1, <2>5, FieldsShow
  <2> QED BY <2>6, <2>7
<1>6. CASE f = "published"
  <2>1. v = <<after.year, after.month>> BY <1>1, <1>6, TextIs
  <2>2. v # <<>> /\ v[1] = after.year /\ v[2] = after.month BY <2>1
  <2>3. s = [r EXCEPT !.year = after.year, !.month = after.month]
    <3>1. s = [r EXCEPT !.year = IF v = <<>> THEN 1 ELSE v[1], !.month = IF v = <<>> THEN 1 ELSE v[2]]
      BY <1>1, <1>6, DateSet, Zenon
    <3>2. (IF v = <<>> THEN 1 ELSE v[1]) = after.year /\ (IF v = <<>> THEN 1 ELSE v[2]) = after.month BY <2>2
    <3> QED BY ONLY <3>1, <3>2
  <2>4. /\ s.custom = r.custom /\ s.year = after.year /\ s.month = after.month
        /\ \A h \in W!RowFields : h # "year" /\ h # "month" => s[h] = r[h]
    BY <1>2, <2>3 DEF W!RowFields
  <2>5. f # g BY <1>6, Kinds
  <2>6. \A h \in W!RowFields : h # "custom" => s[h] = r[h] \/ s[h] = after[h] BY <2>4
  <2>7. W!FieldValue(s, g) = W!FieldValue(r, g) \/ W!FieldValue(s, g) = W!FieldValue(after, g)
    BY <1>3, <2>4, <2>6, SameShown
  <2> QED BY <2>5, <2>7
<1>7. CASE f = "dirty"
  <2>1. v = W!YesNo(after.dirty) BY <1>1, <1>7, TextIs
  <2>2. after.dirty \in BOOLEAN BY DEF W!IsRow
  <2>3. (v = <<Yes>>) = after.dirty BY <2>1, <2>2 DEF W!YesNo
  <2>4. s = [r EXCEPT !.dirty = after.dirty]
    <3>1. s = [r EXCEPT !.dirty = (v = <<Yes>>)] BY <1>1, <1>7, FlagSet, Zenon
    <3> QED BY ONLY <2>3, <3>1
  <2>5. s.custom = r.custom /\ s.dirty = after.dirty /\ \A h \in W!RowFields : h # "dirty" => s[h] = r[h]
    BY <1>2, <2>4 DEF W!RowFields
  <2>6. \A h \in W!RowFields : h # "custom" => s[h] = r[h] \/ s[h] = after[h] BY <2>5
  <2>7. W!FieldValue(s, g) = W!FieldValue(r, g) \/ W!FieldValue(s, g) = W!FieldValue(after, g)
    BY <1>3, <2>5, <2>6, SameShown
  <2>8. "dirty" \notin Custom BY Kinds
  <2>9. f = g => W!FieldValue(s, g) = W!FieldValue(after, g) BY <1>7, <2>5, <2>8, FieldsShow
  <2> QED BY <2>7, <2>9
<1>8. CASE f \in Custom
  <2>1. f \notin W!Numbers /\ f # "published" /\ f \notin W!Flags /\ f # "dirty"
    BY <1>0, <1>8 DEF W!Numbers, W!Flags, W!RowFields
  <2>2. s = [r EXCEPT !.custom[f] = v] BY <1>1, <1>8, <2>1 DEF W!SetFieldString
  <2>3. PICK c : c = [r.custom EXCEPT ![f] = v] OBVIOUS
  <2>4. s = [r EXCEPT !.custom = c] BY <2>2, <2>3
  <2>5. /\ s.custom = c /\ c[f] = v /\ \A d \in Custom : d # f => c[d] = r.custom[d]
        /\ \A h \in W!RowFields : h # "custom" => s[h] = r[h]
    BY <1>2, <1>8, <2>3, <2>4 DEF W!RowFields
  <2>6. v = IF after.custom[f] = Absent THEN <<>> ELSE after.custom[f] BY <1>1, <1>8, <2>1 DEF W!GetFieldString
  <2>7. (IF v = Absent THEN <<>> ELSE v) = v BY <2>6
  <2>8. W!FieldValue(after, f) = v BY <1>8, <2>6, FieldsShow
  <2>9. CASE g \in Custom BY <1>8, <2>5, <2>7, <2>8, <2>9, FieldsShow
  <2>10. CASE g \notin Custom
    <3>1. g \in W!RowFields /\ g # "custom" /\ f # g BY <1>8, <2>10 DEF W!Audited
    <3> QED BY <2>5, <2>10, <3>1, FieldsShow
  <2> QED BY <2>9, <2>10
<1>9. CASE f \notin W!Numbers /\ f # "published" /\ f # "dirty" /\ f \notin Custom
  <2>1. f \in W!RowFields /\ f # "custom" /\ f \notin W!Flags BY <1>9 DEF W!Writable, W!RowFields, W!Flags
  <2>2. v = after[f] BY <1>1, <1>9, <2>1 DEF W!GetFieldString
  <2>3. s = [r EXCEPT ![f] = after[f]] BY <1>1, <1>9, <2>2 DEF W!SetFieldString
  <2>4. s.custom = r.custom /\ s[f] = after[f] /\ \A h \in W!RowFields : h # f => s[h] = r[h]
    BY <1>2, <2>1, <2>3 DEF W!RowFields
  <2>5. \A h \in W!RowFields : h # "custom" => s[h] = r[h] \/ s[h] = after[h] BY <2>4
  <2>6. W!FieldValue(s, g) = W!FieldValue(r, g) \/ W!FieldValue(s, g) = W!FieldValue(after, g)
    BY <1>3, <2>4, <2>5, SameShown
  <2>7. f = g => W!FieldValue(s, g) = W!FieldValue(after, g) BY <1>9, <2>4, FieldsShow
  <2> QED BY <2>6, <2>7
<1> QED BY <1>5, <1>6, <1>7, <1>8, <1>9

(* Fields of the same text have the same value. *)
LEMMA SameText ==
  ASSUME W!WorkflowAssumption, Yes # No, NEW r, W!IsRow(r), NEW after, W!IsRow(after),
         NEW g \in W!Audited \intersect W!Writable, W!GetFieldString(r, g) = W!GetFieldString(after, g)
  PROVE  W!FieldValue(r, g) = W!FieldValue(after, g)
<1>0. Custom \intersect (W!RowFields \union {"published"}) = {} BY DEF W!WorkflowAssumption
<1>1. CASE g \in Custom BY <1>1 DEF W!FieldValue
<1>2. CASE g \in W!Numbers
  <2>1. <<r[g]>> = <<after[g]>> BY <1>2, TextIs
  <2>2. g \notin Custom BY <1>0, <1>2 DEF W!Numbers, W!RowFields
  <2> QED BY <2>1, <2>2 DEF W!FieldValue
<1>3. CASE g = "dirty"
  <2>1. W!YesNo(r.dirty) = W!YesNo(after.dirty) BY <1>3, TextIs
  <2>2. r.dirty \in BOOLEAN /\ after.dirty \in BOOLEAN BY DEF W!IsRow
  <2>3. <<Yes>> # <<No>> OBVIOUS
  <2>4. r.dirty = after.dirty BY <2>1, <2>2, <2>3 DEF W!YesNo
  <2>5. "dirty" \notin Custom BY <1>0 DEF W!RowFields
  <2> QED BY <1>3, <2>4, <2>5 DEF W!FieldValue
<1>4. CASE g \notin Custom /\ g \notin W!Numbers /\ g # "dirty"
  <2>1. g # "published" /\ g \notin W!Flags BY <1>0, <1>4 DEF W!Audited, W!RowFields, W!Writable, W!Flags
  <2> QED BY <1>4, <2>1 DEF W!FieldValue, W!GetFieldString
<1> QED BY <1>1, <1>2, <1>3, <1>4

(* All that the rules change of a row, in whatever order, makes it what they make it. *)
LEMMA ChosenAll ==
  ASSUME W!WorkflowAssumption, Yes # No, NEW r, W!IsRow(r), NEW after, ByRules(r, after), NEW fields,
         Len(fields) \in Nat, \A i \in 1 .. Len(fields) : fields[i] \in W!Changes(r, after),
         \A f \in W!Changes(r, after) : \E i \in 1 .. Len(fields) : fields[i] = f,
         "published" \in W!Changes(r, after) => ~(after.month < 1)
  PROVE  W!SameFields(after, W!SelectedFields(r, after, fields))
<1> DEFINE last == Len(fields)
<1>1. PICK k : k = (CHOOSE done : Selected(fields, after, r, last, done)) OBVIOUS
<1>2. Selected(fields, after, r, last, k) BY <1>1, SelectedExists
<1>3. W!SelectedFields(r, after, fields) = k[last] BY <1>1 DEF W!SelectedFields, Selected
<1>4. W!IsRow(after) BY KinIsRow DEF ByRules
<1>5. \A i \in 1 .. last : fields[i] \in W!Writable BY DEF W!Changes
<1>6. \A g \in W!RowFields \ (W!Writable \union {"custom"}) : after[g] = r[g] BY DEF ByRules
<1>7. SUFFICES ASSUME NEW g \in W!Audited PROVE W!FieldValue(after, g) = W!FieldValue(k[last], g)
  BY <1>3 DEF W!SameFields
<1>8. g \notin W!Changes(r, after) => W!FieldValue(after, g) = W!FieldValue(r, g)
  <2> SUFFICES ASSUME g \notin W!Changes(r, after) PROVE W!FieldValue(after, g) = W!FieldValue(r, g) OBVIOUS
  <2>1. CASE g \in W!Writable
    <3>1. W!GetFieldString(r, g) = W!GetFieldString(after, g) BY <2>1 DEF W!Changes
    <3> QED BY <1>4, <2>1, <3>1, SameText
  <2>2. CASE g \notin W!Writable
    <3>1. g \notin Custom /\ g \in W!RowFields /\ g # "custom"
      <4>1. Custom \intersect (W!RowFields \union {"published"}) = {} BY DEF W!WorkflowAssumption
      <4> QED BY <2>2, <4>1 DEF W!Audited, W!Writable, W!RowFields
    <3> QED BY <1>6, <2>2, <3>1 DEF W!FieldValue
  <2> QED BY <2>1, <2>2
<1> DEFINE T == {n \in Nat : n <= last =>
        /\ W!IsRow(k[n]) /\ W!FieldValue(k[n], g) \in {W!FieldValue(r, g), W!FieldValue(after, g)}
        /\ \A i \in 1 .. n : fields[i] = g => W!FieldValue(k[n], g) = W!FieldValue(after, g)}
<1>9. 0 \in T
  <2>1. k[0] = r BY <1>2, SelectedIs
  <2> QED BY <2>1
<1>10. ASSUME NEW n \in Nat, n \in T PROVE n + 1 \in T
  <2> SUFFICES ASSUME n + 1 <= last
               PROVE  /\ W!IsRow(k[n + 1])
                      /\ W!FieldValue(k[n + 1], g) \in {W!FieldValue(r, g), W!FieldValue(after, g)}
                      /\ \A i \in 1 .. n + 1 : fields[i] = g => W!FieldValue(k[n + 1], g) = W!FieldValue(after, g)
    OBVIOUS
  <2>1. /\ W!IsRow(k[n]) /\ W!FieldValue(k[n], g) \in {W!FieldValue(r, g), W!FieldValue(after, g)}
        /\ \A i \in 1 .. n : fields[i] = g => W!FieldValue(k[n], g) = W!FieldValue(after, g)
    BY <1>10
  <2>2. PICK m \in 0 .. last : m = n + 1 /\ m - 1 = n /\ m # 0 OBVIOUS
  <2>3. PICK f : f = fields[m] OBVIOUS
  <2>4. f \in W!Writable /\ (f = "published" => ~(after.month < 1)) BY <1>5, <2>2, <2>3
  <2>5. k[m] = IF m = 0 THEN r ELSE W!SetFieldString(k[m - 1], fields[m], W!GetFieldString(after, fields[m]))
    BY <1>2, SelectedIs
  <2>6. k[m] = W!SetFieldString(k[n], f, W!GetFieldString(after, f)) BY <2>2, <2>3, <2>5
  <2>7. /\ W!FieldValue(k[m], g) \in {W!FieldValue(k[n], g), W!FieldValue(after, g)}
        /\ f = g => W!FieldValue(k[m], g) = W!FieldValue(after, g)
    BY <1>4, <2>1, <2>4, <2>6, WritesOne
  <2>8. W!IsRow(k[m])
    <3>1. Kin(k[n], k[m]) BY <2>1, <2>4, <2>6, SetsKin
    <3> QED BY <2>1, <3>1, KinIsRow
  <2>9. ASSUME NEW i \in 1 .. m, fields[i] = g PROVE W!FieldValue(k[m], g) = W!FieldValue(after, g)
    <3>1. CASE i = m BY <2>3, <2>7, <2>9, <3>1
    <3>2. CASE i # m
      <4>1. i \in 1 .. n BY <2>2, <3>2
      <4> QED BY <2>1, <2>7, <2>9, <4>1
    <3> QED BY <3>1, <3>2
  <2> QED BY <2>1, <2>2, <2>7, <2>8, <2>9
<1>11. /\ W!FieldValue(k[last], g) \in {W!FieldValue(r, g), W!FieldValue(after, g)}
       /\ \A i \in 1 .. last : fields[i] = g => W!FieldValue(k[last], g) = W!FieldValue(after, g)
  <2> HIDE DEF T
  <2>1. Nat \subseteq T BY <1>9, <1>10, Induction
  <2> QED BY <2>1 DEF T
<1> QED BY <1>8, <1>11

(* The rows being rows, so it is for each book and each list of rulesets. *)
LEMMA FiledGivesWhole == ASSUME W!WorkflowAssumption, Yes # No, FiledInv PROVE W!SelectedAsWhole
<1> SUFFICES ASSUME NEW b \in Comic, NEW sets \in RulesetList, NEW after, NEW differing,
                    after = W!ApplyAll(record[b], sets).book, differing = W!Changes(record[b], after),
                    ~(after.month < 1 /\ "published" \in differing), NEW final \in differing
             PROVE  W!SameFields(after, W!SelectedFields(record[b], after, Append(W!InSomeOrder(differing \ {final}), final)))
  BY DEF W!SelectedAsWhole
<1>1. W!IsRow(record[b]) BY RowsAre
<1>2. ByRules(record[b], after) BY <1>1, EvaluatedByRules DEF W!Evaluated
<1>3. PICK others, s : others = differing \ {final} /\ s = W!InSomeOrder(others) OBVIOUS
<1>4. IsFiniteSet(others)
  <2>1. IsFiniteSet(W!Writable) BY DEF W!WorkflowAssumption, W!IsFiniteSet, IsFiniteSet
  <2>2. others \subseteq W!Writable BY <1>3 DEF W!Changes
  <2> QED BY <2>1, <2>2, FS_Subset
<1>5. s \in Seq(others) /\ \A x \in others : \E i \in 1 .. Len(s) : s[i] = x
  <2>1. LET o == W!InSomeOrder(others) IN o \in Seq(others) /\ \A x \in others : \E i \in 1 .. Len(o) : o[i] = x
    BY <1>4, OrderCovers
  <2> QED BY <1>3, <2>1
<1>6. PICK fields : fields = Append(s, final) OBVIOUS
<1>7. /\ Len(fields) = Len(s) + 1 /\ Len(s) \in Nat /\ fields[Len(s) + 1] = final
      /\ \A i \in 1 .. Len(s) : fields[i] = s[i] /\ s[i] \in others
  BY <1>5, <1>6
<1>8. ASSUME NEW i \in 1 .. Len(fields) PROVE fields[i] \in differing
  <2>1. CASE i \in 1 .. Len(s) BY <1>3, <1>7, <2>1
  <2>2. CASE i \notin 1 .. Len(s)
    <3>1. i = Len(s) + 1 BY <1>7, <2>2
    <3> QED BY <1>7, <3>1
  <2> QED BY <2>1, <2>2
<1>9. ASSUME NEW f \in differing PROVE \E i \in 1 .. Len(fields) : fields[i] = f
  <2>1. CASE f = final BY <1>7, <2>1
  <2>2. CASE f # final
    <3>1. PICK i \in 1 .. Len(s) : s[i] = f BY <1>3, <1>5, <2>2
    <3> QED BY <1>7, <3>1
  <2> QED BY <2>1, <2>2
<1>10. Len(fields) \in Nat BY <1>7
<1>11. W!SameFields(after, W!SelectedFields(record[b], after, fields))
  BY <1>1, <1>2, <1>8, <1>9, <1>10, ChosenAll
<1> QED BY <1>3, <1>6, <1>11

(* The audit log.  What its entries make of a row, one after another. *)
ToldSteps(log, b, r, n, k) ==
  k = [m \in 0 .. n |-> IF m = 0 THEN r ELSE IF log[m].book = b THEN W!After(k[m - 1], log[m]) ELSE k[m - 1]]

LEMMA ToldStepsAre ==
  ASSUME NEW log, NEW b, NEW r, NEW n, NEW k, ToldSteps(log, b, r, n, k), NEW m \in 0 .. n
  PROVE  k[m] = IF m = 0 THEN r ELSE IF log[m].book = b THEN W!After(k[m - 1], log[m]) ELSE k[m - 1]
BY DEF ToldSteps

LEMMA ToldStepsExist == ASSUME NEW log, NEW b, NEW r PROVE \A n \in Nat : \E k : ToldSteps(log, b, r, n, k)
<1> DEFINE T == {n \in Nat : \E k : ToldSteps(log, b, r, n, k)}
<1>1. 0 \in T
  <2>1. ToldSteps(log, b, r, 0, [m \in 0 .. 0 |-> r]) BY DEF ToldSteps
  <2> QED BY <2>1
<1>2. ASSUME NEW n \in Nat, n \in T PROVE n + 1 \in T
  <2>1. PICK k : ToldSteps(log, b, r, n, k) BY <1>2
  <2>2. PICK j : j = [m \in 0 .. n + 1 |-> IF m = 0 THEN r
                        ELSE IF log[m].book = b THEN W!After(k[m - 1], log[m]) ELSE k[m - 1]]
    OBVIOUS
  <2>3. \A m \in 0 .. n : j[m] = k[m] BY <2>1, <2>2, ToldStepsAre
  <2>4. \A m \in 0 .. n + 1 : m # 0 => m - 1 \in 0 .. n OBVIOUS
  <2>5. ToldSteps(log, b, r, n + 1, j) BY <2>2, <2>3, <2>4 DEF ToldSteps
  <2> QED BY <2>5
<1> HIDE DEF T
<1>3. Nat \subseteq T BY <1>1, <1>2, Induction
<1> QED BY <1>3 DEF T

ToldIn(log, b, r) == LET k == CHOOSE told : ToldSteps(log, b, r, Len(log), told) IN k[Len(log)]

LEMMA ToldIsIn == ASSUME NEW b PROVE W!Told(b) = ToldIn(audit, b, W!Known(first[b]))
  BY DEF W!Told, ToldIn, ToldSteps

LEMMA ToldNextIsIn == ASSUME NEW b PROVE W!Told(b)' = ToldIn(audit', b, W!Known(first[b])')
  BY DEF W!Told, ToldIn, ToldSteps

LEMMA ToldInIsLast ==
  ASSUME NEW log, Len(log) \in Nat, NEW b, NEW r
  PROVE  \E k : ToldSteps(log, b, r, Len(log), k) /\ ToldIn(log, b, r) = k[Len(log)]
<1>1. PICK k : k = CHOOSE told : ToldSteps(log, b, r, Len(log), told) OBVIOUS
<1>2. ToldSteps(log, b, r, Len(log), k) BY <1>1, ToldStepsExist
<1>3. ToldIn(log, b, r) = k[Len(log)] BY <1>1 DEF ToldIn
<1> QED BY <1>2, <1>3

(* No entries say nothing. *)
LEMMA ToldNothing == ASSUME NEW b, NEW r PROVE ToldIn(<<>>, b, r) = r
<1>1. Len(<<>>) = 0 OBVIOUS
<1>2. PICK k : ToldSteps(<<>>, b, r, 0, k) /\ ToldIn(<<>>, b, r) = k[0] BY <1>1, ToldInIsLast
<1> QED BY <1>2, ToldStepsAre

(* More entries of which only the one at p, if there is one, is of the book. *)
LEMMA ToldMore ==
  ASSUME NEW X, NEW log \in Seq(X), NEW more \in Seq(X), NEW b, NEW r, NEW p \in 1 .. Len(more) + 1,
         \A i \in 1 .. Len(more) : (more[i].book = b) <=> (i = p)
  PROVE  ToldIn(log \o more, b, r) =
           IF p = Len(more) + 1 THEN ToldIn(log, b, r) ELSE W!After(ToldIn(log, b, r), more[p])
<1>1. PICK m, n, all : m = Len(log) /\ n = Len(more) /\ all = log \o more OBVIOUS
<1>2. /\ m \in Nat /\ n \in Nat /\ Len(all) = m + n
      /\ \A i \in 1 .. m : all[i] = log[i]
      /\ \A i \in 1 .. n : all[m + i] = more[i]
  BY <1>1
<1>3. PICK k : ToldSteps(log, b, r, m, k) /\ ToldIn(log, b, r) = k[m] BY <1>1, <1>2, ToldInIsLast
<1>4. PICK j : ToldSteps(all, b, r, m + n, j) /\ ToldIn(all, b, r) = j[m + n] BY <1>2, ToldInIsLast
<1>5. j[m] = k[m]
  <2> DEFINE T == {i \in Nat : i <= m => j[i] = k[i]}
  <2>1. 0 \in T BY <1>2, <1>3, <1>4, ToldStepsAre
  <2>2. ASSUME NEW i \in Nat, i \in T PROVE i + 1 \in T
    <3> SUFFICES ASSUME i + 1 <= m PROVE j[i + 1] = k[i + 1]
      OBVIOUS
    <3>1. j[i] = k[i] BY <1>2, <2>2
    <3>2. PICK q \in 0 .. m : q = i + 1 /\ q # 0 /\ q - 1 = i /\ q \in 0 .. m + n /\ all[q] = log[q] BY <1>2
    <3>3. k[q] = IF q = 0 THEN r ELSE IF log[q].book = b THEN W!After(k[q - 1], log[q]) ELSE k[q - 1]
      BY <1>3, ToldStepsAre
    <3>4. j[q] = IF q = 0 THEN r ELSE IF all[q].book = b THEN W!After(j[q - 1], all[q]) ELSE j[q - 1]
      BY <1>4, <3>2, ToldStepsAre
    <3> QED BY <3>1, <3>2, <3>3, <3>4
  <2> HIDE DEF T
  <2>3. m \in T BY <1>2, <2>1, <2>2, Induction
  <2> QED BY <1>2, <2>3 DEF T
<1>6. j[m + n] = IF n < p THEN k[m] ELSE W!After(k[m], more[p])
  <2> DEFINE T == {i \in Nat : i <= n => j[m + i] = IF i < p THEN k[m] ELSE W!After(k[m], more[p])}
  <2>1. 0 \in T BY <1>2, <1>5
  <2>2. ASSUME NEW i \in Nat, i \in T PROVE i + 1 \in T
    <3> SUFFICES ASSUME i + 1 <= n PROVE j[m + (i + 1)] = IF i + 1 < p THEN k[m] ELSE W!After(k[m], more[p])
      OBVIOUS
    <3>1. j[m + i] = IF i < p THEN k[m] ELSE W!After(k[m], more[p]) BY <1>2, <2>2
    <3>0. i + 1 \in 1 .. n BY <1>2
    <3>2. PICK q \in 0 .. m + n : q = m + (i + 1) /\ q # 0 /\ q - 1 = m + i /\ all[q] = more[i + 1]
      <4>0. i \in Nat /\ m \in Nat /\ n \in Nat /\ i + 1 <= n BY <1>2, <3>0
      <4> HIDE DEF T
      <4>1. m + (i + 1) \in 0 .. m + n /\ m + (i + 1) # 0 /\ (m + (i + 1)) - 1 = m + i BY <4>0
      <4>2. all[m + (i + 1)] = more[i + 1] BY <1>2, <3>0
      <4> QED BY <4>1, <4>2
    <3>3. j[q] = IF q = 0 THEN r ELSE IF all[q].book = b THEN W!After(j[q - 1], all[q]) ELSE j[q - 1]
      BY <1>4, ToldStepsAre
    <3>4. j[q] = IF i + 1 = p THEN W!After(j[m + i], more[p]) ELSE j[m + i]
      <4>1. (more[i + 1].book = b) <=> (i + 1 = p) BY <1>1, <3>0
      <4> QED BY <3>2, <3>3, <4>1
    <3>5. CASE i + 1 = p BY <3>1, <3>2, <3>4, <3>5
    <3>6. CASE i + 1 # p
      <4>1. (i < p) <=> (i + 1 < p) BY <1>2, <3>6
      <4> QED BY <3>1, <3>2, <3>4, <3>6, <4>1
    <3> QED BY <3>5, <3>6
  <2> HIDE DEF T
  <2>3. n \in T BY <1>2, <2>1, <2>2, Induction
  <2> QED BY <1>2, <2>3 DEF T
<1>7. n < p <=> p = Len(more) + 1 BY <1>1, <1>2
<1> QED BY <1>1, <1>3, <1>4, <1>6, <1>7

(* Rows that the log cannot tell apart. *)
Alike(x, y) == W!SameFields(x, y) /\ W!GetStage(x) = W!GetStage(y)

(* What an entry has that tells how x became y. *)
Tells(e, x, y) ==
  /\ DOMAIN e.changes = {f \in W!Audited : W!FieldValue(x, f) # W!FieldValue(y, f)}
  /\ \A f \in DOMAIN e.changes : e.changes[f][2] = W!Logged(y, f)
  /\ e.stages[2] = W!GetStage(y)

(* A field with the same value is logged in the same way. *)
LEMMA SameLogged ==
  ASSUME W!WorkflowAssumption, NEW x, NEW y, NEW f, W!FieldValue(x, f) = W!FieldValue(y, f)
  PROVE  W!Logged(x, f) = W!Logged(y, f)
<1>1. CASE f \in W!Listed
  <2>1. f \notin Custom BY <1>1 DEF W!Listed, W!WorkflowAssumption, W!RowFields
  <2>2. x[f] = y[f] BY <2>1 DEF W!FieldValue
  <2> QED BY <1>1, <2>2 DEF W!Logged
<1>2. CASE f \notin W!Listed BY <1>2 DEF W!Logged
<1> QED BY <1>1, <1>2

LEMMA AlikeExplained ==
  ASSUME W!WorkflowAssumption, NEW t, NEW x, NEW y, W!Explains(t, x), Alike(x, y)
  PROVE  W!Explains(t, y)
<1>1. ASSUME NEW f \in W!Audited PROVE t[f] \in {W!FieldValue(y, f), W!Logged(y, f)}
  <2>1. t[f] \in {W!FieldValue(x, f), W!Logged(x, f)} BY DEF W!Explains
  <2>2. W!FieldValue(x, f) = W!FieldValue(y, f) BY DEF Alike, W!SameFields
  <2>3. W!Logged(x, f) = W!Logged(y, f) BY <2>2, SameLogged
  <2> QED BY <2>1, <2>2, <2>3
<1> QED BY <1>1 DEF Alike, W!Explains

LEMMA KnownExplains == ASSUME W!WorkflowAssumption, NEW x PROVE W!Explains(W!Known(x), x)
<1>1. "stage" \notin W!Audited BY DEF W!Audited, W!WorkflowAssumption, W!RowFields
<1>2. PICK k : k = W!Known(x) OBVIOUS
<1>3. k["stage"] = W!GetStage(x) /\ \A f \in W!Audited : k[f] = W!FieldValue(x, f) BY <1>1, <1>2 DEF W!Known
<1> QED BY <1>2, <1>3 DEF W!Explains

(* Such an entry makes of what is known of x what is known of y. *)
LEMMA TellsOn ==
  ASSUME W!WorkflowAssumption, NEW t, DOMAIN t = W!Audited \union {"stage"}, NEW x, NEW y, NEW e,
         W!Explains(t, x), Tells(e, x, y)
  PROVE  W!Explains(W!After(t, e), y)
<1>1. "stage" \notin W!Audited BY DEF W!Audited, W!WorkflowAssumption, W!RowFields
<1>2. PICK a : a = W!After(t, e) OBVIOUS
<1>3. a["stage"] = W!GetStage(y) BY <1>2 DEF W!After, Tells
<1>4. ASSUME NEW f \in W!Audited PROVE a[f] \in {W!FieldValue(y, f), W!Logged(y, f)}
  <2>1. a[f] = IF f \in DOMAIN e.changes THEN e.changes[f][2] ELSE t[f] BY <1>1, <1>2 DEF W!After
  <2>2. CASE f \in DOMAIN e.changes BY <2>1, <2>2 DEF Tells
  <2>3. CASE f \notin DOMAIN e.changes
    <3>1. W!FieldValue(x, f) = W!FieldValue(y, f) BY <2>3 DEF Tells
    <3>2. W!Logged(x, f) = W!Logged(y, f) BY <3>1, SameLogged
    <3>3. t[f] \in {W!FieldValue(x, f), W!Logged(x, f)} BY DEF W!Explains
    <3> QED BY <2>1, <2>3, <3>1, <3>2, <3>3
  <2> QED BY <2>2, <2>3
<1> QED BY <1>2, <1>3, <1>4 DEF W!Explains

LEMMA AfterHasFields ==
  ASSUME NEW t, NEW D, DOMAIN t = D, NEW e
  PROVE  DOMAIN W!After(t, e) = D
  BY DEF W!After

(* What the comparison finds is told. *)
LEMMA ComparedTells ==
  ASSUME NEW new, NEW e \in W!RowsFor(new)
  PROVE  e.book \in DOMAIN new /\ Tells(e, record[e.book], new[e.book])
<1>1. PICK b \in DOMAIN new : e = [book |-> b, changes |-> W!Diff(record[b], new[b]),
                                   stages |-> <<W!GetStage(record[b]), W!GetStage(new[b])>>]
  BY DEF W!RowsFor
<1>2. PICK d : d = W!Diff(record[b], new[b]) OBVIOUS
<1>3. e.book = b /\ e.changes = d /\ e.stages[2] = W!GetStage(new[b]) BY <1>1, <1>2
<1>4. /\ DOMAIN d = {f \in W!Audited : W!FieldValue(record[b], f) # W!FieldValue(new[b], f)}
      /\ \A f \in DOMAIN d : d[f][2] = W!Logged(new[b], f)
  BY <1>2 DEF W!Diff, W!ChangesIn
<1> QED BY <1>3, <1>4 DEF Tells

LEMMA ComparedOnce ==
  ASSUME NEW new, NEW d \in W!RowsFor(new), NEW e \in W!RowsFor(new), d.book = e.book
  PROVE  d = e
<1> DEFINE entry(b) == [book |-> b, changes |-> W!Diff(record[b], new[b]),
                        stages |-> <<W!GetStage(record[b]), W!GetStage(new[b])>>]
<1>1. \A x \in W!RowsFor(new) : \E b : x = entry(b) BY DEF W!RowsFor
<1>2. \A b : entry(b).book = b OBVIOUS
<1> HIDE DEF entry
<1> QED BY <1>1, <1>2

LEMMA ComparedAll ==
  ASSUME NEW new, NEW b \in DOMAIN new
  PROVE  Alike(record[b], new[b]) \/ \E e \in W!RowsFor(new) : e.book = b
<1>1. PICK d : d = W!Diff(record[b], new[b]) OBVIOUS
<1>2. PICK e : e = [book |-> b, changes |-> d, stages |-> <<W!GetStage(record[b]), W!GetStage(new[b])>>] OBVIOUS
<1>3. e.book = b /\ e.changes = d /\ e.stages[1] = W!GetStage(record[b]) /\ e.stages[2] = W!GetStage(new[b]) BY <1>2
<1>4. CASE DOMAIN d # {} \/ e.stages[1] # e.stages[2]
  <2>1. e \in W!RowsFor(new) BY <1>1, <1>2, <1>3, <1>4 DEF W!RowsFor
  <2> QED BY <1>3, <2>1
<1>5. CASE DOMAIN d = {} /\ e.stages[1] = e.stages[2]
  <2>1. DOMAIN d = {f \in W!Audited : W!FieldValue(record[b], f) # W!FieldValue(new[b], f)}
    BY <1>1 DEF W!Diff, W!ChangesIn
  <2> QED BY <1>3, <1>5, <2>1 DEF Alike, W!SameFields
<1> QED BY <1>4, <1>5

LEMMA ComparedFinite == ASSUME NEW new, IsFiniteSet(DOMAIN new) PROVE IsFiniteSet(W!RowsFor(new))
<1>1. PICK f : f = [e \in W!RowsFor(new) |-> e.book] OBVIOUS
<1>2. f \in Injection(W!RowsFor(new), DOMAIN new)
  <2>1. \A e \in W!RowsFor(new) : e.book \in DOMAIN new BY ComparedTells
  <2>2. \A d, e \in W!RowsFor(new) : d.book = e.book => d = e BY ComparedOnce
  <2> QED BY <1>1, <2>1, <2>2 DEF Injection, IsInjective
<1> QED BY <1>2, FS_Injection

(* A request that reads, compares and writes: what it has is finite, and what  *)
(* it is going to tell is what it saw and writes, once for a book.             *)
SavesWell(s) ==
  /\ s.phase = "read" => IsFiniteSet(DOMAIN s.rows)
  /\ s.phase \in {"compare", "write"} => IsFiniteSet(DOMAIN s.new)
  /\ s.phase = "write" =>
       /\ \A e \in s.entries : e.book \in DOMAIN s.new /\ Tells(e, s.seen[e.book], s.new[e.book])
       /\ \A b \in DOMAIN s.new : Alike(s.seen[b], s.new[b]) \/ \E e \in s.entries : e.book = b
  /\ s.phase \in {"write", "append"} =>
       IsFiniteSet(s.entries) /\ \A d, e \in s.entries : d.book = e.book => d = e

Appends(w) == saving[w] # None /\ saving[w].phase = "append"

(* What the log tells of a book is what it is, but for the entry that is yet   *)
(* to come, of which there is one at most.                                     *)
ToldOK(b) ==
  /\ \A v, w \in Writer : W!Telling(v, b) /\ W!Telling(w, b) => v = w
  /\ (\A w \in Writer : ~W!Telling(w, b)) => W!Explains(W!Told(b), record[b])
  /\ \A w \in Writer : Appends(w) =>
       \A e \in saving[w].entries : e.book = b => W!Explains(W!After(W!Told(b), e), record[b])

LogInv ==
  /\ DOMAIN saving = Writer
  /\ \A w \in Writer : saving[w] # None => SavesWell(saving[w])
  /\ \E X : audit \in Seq(X)
  /\ \A b \in Comic : DOMAIN W!Told(b) = W!Audited \union {"stage"}
  /\ \A b \in Comic \ unexplained : ToldOK(b)

LEMMA LogGives == ASSUME LogInv PROVE W!AuditExplains
  BY DEF LogInv, ToldOK, W!AuditExplains

LEMMA LogStarts == ASSUME W!WorkflowAssumption, W!Init PROVE LogInv
<1>1. saving = [w \in Writer |-> None] /\ audit = <<>> /\ first = record /\ unexplained = {} BY DEF W!Init
<1>2. \A b \in Comic : W!Told(b) = W!Known(record[b]) BY <1>1, ToldIsIn, ToldNothing
<1>3. \A b \in Comic : DOMAIN W!Known(record[b]) = W!Audited \union {"stage"} BY DEF W!Known
<1>4. audit \in Seq({}) BY <1>1
<1>5. \A b : \A w \in Writer : ~W!Telling(w, b) /\ ~Appends(w) BY <1>1 DEF W!Telling, Appends
<1>6. \A b \in Comic : ToldOK(b) BY <1>2, <1>5, KnownExplains DEF ToldOK
<1> QED BY <1>1, <1>2, <1>3, <1>4, <1>6 DEF LogInv

(* A step of a request that neither writes nor appends. *)
LEMMA OneGoesOn ==
  ASSUME LogInv, NEW w \in Writer, NEW s, saving' = [saving EXCEPT ![w] = s],
         UNCHANGED <<record, audit, first, unexplained>>, ~Appends(w),
         s # None => s.phase # "append" /\ SavesWell(s)
  PROVE  LogInv'
<1>1. DOMAIN saving' = Writer /\ saving'[w] = s /\ \A v \in Writer : v # w => saving'[v] = saving[v] BY DEF LogInv
<1>2. ASSUME NEW v \in Writer, saving'[v] # None PROVE SavesWell(saving[v])'
  <2>1. SavesWell(saving'[v]) BY <1>1, <1>2 DEF LogInv
  <2> QED BY <2>1 DEF SavesWell
<1>3. \A b : W!Told(b)' = W!Told(b) BY ToldIsIn, ToldNextIsIn
<1>4. ASSUME NEW v \in Writer PROVE (Appends(v)' <=> Appends(v)) /\ (Appends(v) => saving'[v] = saving[v])
  BY <1>1 DEF Appends
<1>5. ASSUME NEW v \in Writer, NEW b PROVE W!Telling(v, b)' <=> W!Telling(v, b)
  BY <1>4 DEF W!Telling, Appends
<1>6. ASSUME NEW b \in Comic \ unexplained PROVE ToldOK(b)'
  <2>1. ToldOK(b) BY DEF LogInv
  <2>2. (\A v, x \in Writer : W!Telling(v, b) /\ W!Telling(x, b) => v = x)' BY <1>5, <2>1 DEF ToldOK
  <2>3. ((\A v \in Writer : ~W!Telling(v, b)) => W!Explains(W!Told(b), record[b]))'
    <3>1. (\A v \in Writer : ~W!Telling(v, b)') => W!Explains(W!Told(b)', record'[b]) BY <1>3, <1>5, <2>1 DEF ToldOK
    <3> QED BY <3>1
  <2>4. ASSUME NEW v \in Writer, Appends(v)', NEW e \in saving'[v].entries, e.book = b
        PROVE  W!Explains(W!After(W!Told(b)', e), record'[b])
    BY <1>3, <1>4, <2>1, <2>4 DEF ToldOK
  <2> QED BY <2>2, <2>3, <2>4 DEF ToldOK
<1>7. (\E X : audit \in Seq(X))' BY DEF LogInv
<1>8. (\A b \in Comic : DOMAIN W!Told(b) = W!Audited \union {"stage"})'
  <2>1. \A b \in Comic : DOMAIN W!Told(b)' = W!Audited \union {"stage"} BY <1>3 DEF LogInv
  <2> QED BY <2>1
<1> QED BY <1>1, <1>2, <1>6, <1>7, <1>8 DEF LogInv

(* A request begins. *)
Begins(w) == \E new, action : IsFiniteSet(DOMAIN new) /\ W!UpdateBooks(w, new, action)

LEMMA BeginsWell == ASSUME LogInv, NEW w \in Writer, Begins(w) PROVE LogInv'
<1>1. PICK new, action : IsFiniteSet(DOMAIN new) /\ W!UpdateBooks(w, new, action) BY DEF Begins
<1>2. PICK changed : changed = {b \in DOMAIN new : new[b] # record[b]} OBVIOUS
<1>3. PICK some : some = [b \in changed |-> new[b]] OBVIOUS
<1>4. PICK s : s = IF changed = {} THEN None ELSE [phase |-> "compare", action |-> action, new |-> some] OBVIOUS
<1>5. saving' = [saving EXCEPT ![w] = s] /\ UNCHANGED <<record, audit, first, unexplained>> /\ ~Appends(w)
  BY <1>1, <1>2, <1>3, <1>4 DEF W!UpdateBooks, W!MayStart, Appends
<1>6. IsFiniteSet(DOMAIN some) BY <1>1, <1>2, <1>3, FS_Subset
<1>7. ASSUME s # None PROVE s.phase # "append" /\ SavesWell(s)
  <2>1. s.phase = "compare" /\ s.new = some BY <1>4, <1>7
  <2> QED BY <1>6, <2>1 DEF SavesWell
<1> QED BY <1>5, <1>7, OneGoesOn

LEMMA SomeBegin ==
  ASSUME W!WorkflowAssumption, NEW w \in Writer, NEW new, NEW action, DOMAIN new \subseteq Comic, W!UpdateBooks(w, new, action)
  PROVE  Begins(w)
<1>1. IsFiniteSet(Comic) BY DEF W!WorkflowAssumption, W!IsFiniteSet, IsFiniteSet
<1>2. IsFiniteSet(DOMAIN new) BY <1>1, FS_Subset
<1> QED BY <1>2 DEF Begins

LEMMA OneBegins ==
  ASSUME NEW w \in Writer, NEW b, NEW r, NEW action, W!UpdateBook(w, b, r, action)
  PROVE  Begins(w)
<1>1. PICK new : new = [x \in {b} |-> r] OBVIOUS
<1>2. IsFiniteSet(DOMAIN new) BY <1>1, FS_Singleton
<1> QED BY <1>1, <1>2 DEF W!UpdateBook, Begins

LEMMA RequestsBegin ==
  ASSUME W!WorkflowAssumption, NEW w \in Writer,
         \/ W!Edit(w) \/ W!BulkEdit(w) \/ W!LockField(w) \/ W!Rollback(w) \/ W!Undo(w) \/ W!Mark(w)
         \/ W!PagesMeta(w) \/ W!Relink(w)
         \/ W!SetNoCVMatch(w) \/ W!ClearNoCVMatch(w) \/ W!MigrateCVDBSkip(w) \/ W!SetLocalIdentity(w)
         \/ W!ClearLocalIdentity(w) \/ W!Convert(w) \/ W!Scrape(w) \/ W!ScanInfo(w) \/ W!Organize(w)
         \/ W!WriteMetadata(w) \/ W!CountFill(w) \/ W!FormatDetect(w)
  PROVE  Begins(w)
<1>1. CASE W!Edit(w) BY <1>1, OneBegins DEF W!Edit
<1>2. CASE W!LockField(w) BY <1>2, OneBegins DEF W!LockField
<1>3. CASE W!Rollback(w) BY <1>3, OneBegins DEF W!Rollback
<1>4. CASE W!Undo(w) BY <1>4, OneBegins DEF W!Undo
<1>5. CASE W!Mark(w) BY <1>5, OneBegins DEF W!Mark
<1>6. CASE W!ClearLocalIdentity(w) BY <1>6, OneBegins DEF W!ClearLocalIdentity
<1>19. CASE W!PagesMeta(w) BY <1>19, OneBegins DEF W!PagesMeta
<1>20. CASE W!Relink(w) BY <1>20, OneBegins DEF W!Relink
<1>7. CASE W!Scrape(w) BY <1>7, OneBegins DEF W!Scrape
<1>8. CASE W!BulkEdit(w)
  <2>1. PICK chosen \in SUBSET Comic, form \in EditForm :
          W!UpdateBooks(w, [b \in chosen |-> W!Edited(record[b], form)], "edit")
    BY <1>8 DEF W!BulkEdit
  <2>2. PICK new : new = [b \in chosen |-> W!Edited(record[b], form)] OBVIOUS
  <2> QED BY <2>1, <2>2, SomeBegin
<1>9. CASE W!SetNoCVMatch(w)
  <2>1. PICK chosen \in SUBSET Comic :
          W!UpdateBooks(w, [b \in chosen |-> W!Exempted([record[b] EXCEPT !.nomatch = TRUE])], "no match")
    BY <1>9 DEF W!SetNoCVMatch
  <2>2. PICK new : new = [b \in chosen |-> W!Exempted([record[b] EXCEPT !.nomatch = TRUE])] OBVIOUS
  <2>3. W!UpdateBooks(w, new, "no match") BY <2>1, <2>2
  <2>4. DOMAIN new \subseteq Comic BY <2>1, <2>2
  <2> QED BY <2>3, <2>4, SomeBegin
<1>10. CASE W!ClearNoCVMatch(w)
  <2>1. PICK chosen \in SUBSET Comic :
          W!UpdateBooks(w, [b \in chosen |-> W!Demanded([record[b] EXCEPT !.nomatch = FALSE])], "no match")
    BY <1>10 DEF W!ClearNoCVMatch
  <2>2. PICK new : new = [b \in chosen |-> W!Demanded([record[b] EXCEPT !.nomatch = FALSE])] OBVIOUS
  <2>3. W!UpdateBooks(w, new, "no match") BY <2>1, <2>2
  <2>4. DOMAIN new \subseteq Comic BY <2>1, <2>2
  <2> QED BY <2>3, <2>4, SomeBegin
<1>11. CASE W!MigrateCVDBSkip(w)
  <2>1. PICK chosen : chosen = {x \in Comic : /\ W!HasFile(record[x]) /\ W!Contains(record[x].tags, Skip)
                                              /\ ~record[x].nomatch /\ ~record[x].scraped}
    OBVIOUS
  <2>2. PICK new : new = [b \in chosen |-> W!Exempted([record[b] EXCEPT !.nomatch = TRUE])] OBVIOUS
  <2>3. W!UpdateBooks(w, new, "no match") BY <1>11, <2>1, <2>2 DEF W!MigrateCVDBSkip
  <2>4. DOMAIN new \subseteq Comic BY <2>1, <2>2
  <2> QED BY <2>3, <2>4, SomeBegin
<1>12. CASE W!SetLocalIdentity(w)
  <2>1. PICK chosen \in SUBSET Comic : W!UpdateBooks(w, [b \in chosen |-> W!Identified(record[b])], "local")
    BY <1>12 DEF W!SetLocalIdentity
  <2>2. PICK new : new = [b \in chosen |-> W!Identified(record[b])] OBVIOUS
  <2> QED BY <2>1, <2>2, SomeBegin
<1>13. CASE W!Convert(w)
  <2>1. PICK chosen \in SUBSET W!AtStage(W!StageConvertToCBZ), sets \in RulesetList :
          W!UpdateBooks(w, [b \in chosen |-> W!AdvanceIfAtOrBefore([record[b] EXCEPT !.file[1] = "cbz"],
                                                                   W!StageConvertToCBZ, sets)], "convert")
    BY <1>13 DEF W!Convert
  <2>2. PICK new : new = [b \in chosen |-> W!AdvanceIfAtOrBefore([record[b] EXCEPT !.file[1] = "cbz"],
                                                                 W!StageConvertToCBZ, sets)]
    OBVIOUS
  <2>3. chosen \subseteq Comic BY <2>1 DEF W!AtStage
  <2> QED BY <2>1, <2>2, <2>3, SomeBegin
<1>14. CASE W!ScanInfo(w)
  <2>1. PICK chosen \in SUBSET W!AtStage(W!StageScanInfo), sets \in RulesetList :
          W!UpdateBooks(w, [b \in chosen |-> W!AdvanceIfAtOrBefore([record[b] EXCEPT !.scan = W!MergeTag(@, Detected)],
                                                                   W!StageScanInfo, sets)], "scan")
    BY <1>14 DEF W!ScanInfo
  <2>2. PICK new : new = [b \in chosen |-> W!AdvanceIfAtOrBefore([record[b] EXCEPT !.scan = W!MergeTag(@, Detected)],
                                                                 W!StageScanInfo, sets)]
    OBVIOUS
  <2>3. chosen \subseteq Comic BY <2>1 DEF W!AtStage
  <2> QED BY <2>1, <2>2, <2>3, SomeBegin
<1>15. CASE W!Organize(w)
  <2>1. PICK chosen \in SUBSET W!AtStage(W!StageToMove), sets \in RulesetList :
          W!UpdateBooks(w, [b \in chosen |-> W!Filed(record[b], sets)], "organize")
    BY <1>15 DEF W!Organize
  <2>2. PICK new : new = [b \in chosen |-> W!Filed(record[b], sets)] OBVIOUS
  <2>3. chosen \subseteq Comic BY <2>1 DEF W!AtStage
  <2> QED BY <2>1, <2>2, <2>3, SomeBegin
<1>16. CASE W!WriteMetadata(w)
  <2>1. PICK chosen \in SUBSET Comic : W!UpdateBooks(w, [b \in chosen |-> [record[b] EXCEPT !.dirty = FALSE]], "write")
    BY <1>16 DEF W!WriteMetadata
  <2>2. PICK new : new = [b \in chosen |-> [record[b] EXCEPT !.dirty = FALSE]] OBVIOUS
  <2> QED BY <2>1, <2>2, SomeBegin
<1>17. CASE W!CountFill(w)
  <2>1. PICK new : new = [b \in Comic |-> W!CountFilled(record[b])] OBVIOUS
  <2>2. W!UpdateBooks(w, new, "counts") BY <1>17, <2>1 DEF W!CountFill
  <2> QED BY <2>1, <2>2, SomeBegin
<1>18. CASE W!FormatDetect(w)
  <2>1. PICK new : new = [b \in Comic |-> W!FormatSet(record[b])] OBVIOUS
  <2>2. W!UpdateBooks(w, new, "formats") BY <1>18, <2>1 DEF W!FormatDetect
  <2> QED BY <2>1, <2>2, SomeBegin
<1> QED
  BY <1>1, <1>2, <1>3, <1>4, <1>5, <1>6, <1>7, <1>8, <1>9, <1>10, <1>11, <1>12, <1>13, <1>14, <1>15, <1>16, <1>17, <1>18, <1>19,
     <1>20

(* The job of the rules, and the comparison. *)
LEMMA JobGoesOn ==
  ASSUME W!WorkflowAssumption, LogInv, NEW w \in Writer, W!ReadForRules(w) \/ W!RunRules(w)
  PROVE  LogInv'
<1>1. CASE W!ReadForRules(w)
  <2>1. PICK chosen \in SUBSET Comic \ {{}}, sets \in RulesetList \ {<<>>} :
          saving' = [saving EXCEPT ![w] =
                      [phase |-> "read", action |-> "rules", rows |-> [b \in chosen |-> record[b]], sets |-> sets]]
    BY <1>1 DEF W!ReadForRules
  <2>2. PICK read : read = [b \in chosen |-> record[b]] OBVIOUS
  <2>3. PICK s : s = [phase |-> "read", action |-> "rules", rows |-> read, sets |-> sets] OBVIOUS
  <2>4. s.phase = "read" /\ s.rows = read BY <2>3
  <2>5. IsFiniteSet(DOMAIN read)
    <3>1. IsFiniteSet(Comic) BY DEF W!WorkflowAssumption, W!IsFiniteSet, IsFiniteSet
    <3> QED BY <2>1, <2>2, <3>1, FS_Subset
  <2>6. SavesWell(s) BY <2>4, <2>5 DEF SavesWell
  <2>7. saving' = [saving EXCEPT ![w] = s] BY <2>1, <2>2, <2>3
  <2>8. UNCHANGED <<record, audit, first, unexplained>> /\ ~Appends(w)
    BY <1>1 DEF W!ReadForRules, W!MayStart, Appends
  <2> QED BY <2>4, <2>6, <2>7, <2>8, OneGoesOn
<1>2. CASE W!RunRules(w)
  <2>1. UNCHANGED <<record, audit, first, unexplained>> /\ ~Appends(w) /\ saving[w] # None /\ saving[w].phase = "read"
    BY <1>2 DEF W!RunRules, Appends
  <2>2. CASE saving' = [saving EXCEPT ![w] = None]
    <3>1. PICK s : s = None OBVIOUS
    <3> QED BY <2>1, <2>2, <3>1, OneGoesOn
  <2>3. CASE saving' # [saving EXCEPT ![w] = None]
    <3>1. PICK read, sets : read = saving[w].rows /\ sets = saving[w].sets OBVIOUS
    <3>2. PICK chosen : LET new == W!Ruled(read, sets, chosen)
                        IN  saving' = [saving EXCEPT ![w] =
                              IF DOMAIN new = {} THEN None ELSE [phase |-> "compare", action |-> "rules", new |-> new]]
      BY <1>2, <2>3, <3>1 DEF W!RunRules
    <3>3. PICK new : new = W!Ruled(read, sets, chosen) OBVIOUS
    <3>4. PICK s : s = [phase |-> "compare", action |-> "rules", new |-> new] OBVIOUS
    <3>5. saving' = [saving EXCEPT ![w] = s] BY <2>3, <3>2, <3>3, <3>4
    <3>6. DOMAIN new \subseteq DOMAIN read BY <3>3 DEF W!Ruled
    <3>7. IsFiniteSet(DOMAIN read) BY <2>1, <3>1 DEF LogInv, SavesWell
    <3>8. IsFiniteSet(DOMAIN new) BY <3>6, <3>7, FS_Subset
    <3>9. s.phase = "compare" /\ s.new = new BY <3>4
    <3>10. SavesWell(s) BY <3>8, <3>9 DEF SavesWell
    <3> QED BY <2>1, <3>5, <3>9, <3>10, OneGoesOn
  <2> QED BY <2>2, <2>3
<1> QED BY <1>1, <1>2

LEMMA CompareGoesOn == ASSUME LogInv, NEW w \in Writer, W!Compare(w) PROVE LogInv'
<1>1. PICK new, seen, entries :
        new = saving[w].new /\ seen = [b \in DOMAIN new |-> record[b]] /\ entries = W!RowsFor(new)
  OBVIOUS
<1>2. PICK s : s = [phase |-> "write", action |-> saving[w].action, new |-> new, seen |-> seen, entries |-> entries]
  OBVIOUS
<1>3. saving' = [saving EXCEPT ![w] = s]
  <2>1. w \in DOMAIN saving BY DEF LogInv
  <2> QED BY <1>1, <1>2, <2>1 DEF W!Compare
<1>4. s.phase = "write" /\ s.new = new /\ s.seen = seen /\ s.entries = entries BY <1>2
<1>5. IsFiniteSet(DOMAIN new) BY <1>1 DEF W!Compare, LogInv, SavesWell
<1>6. IsFiniteSet(entries) BY <1>1, <1>5, ComparedFinite
<1>7. \A d, e \in entries : d.book = e.book => d = e BY <1>1, ComparedOnce
<1>8. ASSUME NEW e \in entries PROVE e.book \in DOMAIN new /\ Tells(e, seen[e.book], new[e.book])
  BY <1>1, ComparedTells
<1>9. ASSUME NEW b \in DOMAIN new PROVE Alike(seen[b], new[b]) \/ \E e \in entries : e.book = b
  BY <1>1, ComparedAll
<1>10. SavesWell(s) BY <1>4, <1>5, <1>6, <1>7, <1>8, <1>9 DEF SavesWell
<1>11. UNCHANGED <<record, audit, first, unexplained>> /\ ~Appends(w) BY DEF W!Compare, Appends
<1> QED BY <1>3, <1>4, <1>10, <1>11, OneGoesOn

(* That a writer has nothing to do is told from a request that is yet to be told. *)
WritersApart == \A r : DOMAIN r = {"phase", "action", "entries"} => r # None

(* A write: what it writes is what it will tell. *)
LEMMA WriteTells == ASSUME WritersApart, W!WorkflowAssumption, LogInv, NEW w \in Writer, W!Write(w) PROVE LogInv'
<1>1. PICK new, seen, entries : new = saving[w].new /\ seen = saving[w].seen /\ entries = saving[w].entries OBVIOUS
<1>2. PICK written \in SUBSET DOMAIN new :
        /\ record' = [b \in Comic |-> IF b \in written THEN new[b] ELSE record[b]]
        /\ saving' = [saving EXCEPT ![w] = IF written = DOMAIN new /\ entries # {}
                        THEN [phase |-> "append", action |-> saving[w].action, entries |-> entries] ELSE None]
        /\ unexplained' = unexplained \union
             {b \in written : written # DOMAIN new \/ record[b] # seen[b] \/ \E v \in Writer : W!Telling(v, b)}
  <2>1. PICK written \in SUBSET DOMAIN saving[w].new :
          LET all == written = DOMAIN saving[w].new
          IN  /\ record' = [b \in Comic |-> IF b \in written THEN saving[w].new[b] ELSE record[b]]
              /\ saving' = [saving EXCEPT ![w] =
                   IF all /\ @.entries # {} THEN [phase |-> "append", action |-> @.action, entries |-> @.entries] ELSE None]
              /\ unexplained' = unexplained \union
                   {b \in written : ~all \/ record[b] # saving[w].seen[b] \/ \E v \in Writer : W!Telling(v, b)}
    BY DEF W!Write
  <2>2. record' = [b \in Comic |-> IF b \in written THEN new[b] ELSE record[b]] BY <1>1, <2>1
  <2>3. saving' = [saving EXCEPT ![w] = IF written = DOMAIN new /\ entries # {}
                     THEN [phase |-> "append", action |-> saving[w].action, entries |-> entries] ELSE None]
    BY <1>1, <2>1
  <2>4. unexplained' = unexplained \union
          {b \in written : written # DOMAIN new \/ record[b] # seen[b] \/ \E v \in Writer : W!Telling(v, b)}
    BY <1>1, <2>1
  <2> QED BY <1>1, <2>2, <2>3, <2>4
<1>3. UNCHANGED <<audit, first>> /\ saving[w] # None /\ saving[w].phase = "write" BY DEF W!Write
<1>4. PICK s : s = IF written = DOMAIN new /\ entries # {}
                   THEN [phase |-> "append", action |-> saving[w].action, entries |-> entries] ELSE None
  OBVIOUS
<1>5. DOMAIN saving' = Writer /\ saving'[w] = s /\ \A v \in Writer : v # w => saving'[v] = saving[v]
  BY <1>2, <1>4 DEF LogInv
<1>6. SavesWell(saving[w]) BY <1>3 DEF LogInv
<1>7. /\ \A e \in entries : e.book \in DOMAIN new /\ Tells(e, seen[e.book], new[e.book])
      /\ \A b \in DOMAIN new : Alike(seen[b], new[b]) \/ \E e \in entries : e.book = b
      /\ IsFiniteSet(entries) /\ \A d, e \in entries : d.book = e.book => d = e
  BY <1>1, <1>3, <1>6 DEF SavesWell
<1>8. s # None => s.phase = "append" /\ s.entries = entries /\ written = DOMAIN new BY <1>4
<1>9. entries # {} /\ written = DOMAIN new => s.phase = "append" /\ s.entries = entries BY <1>4
<1>10. ASSUME NEW v \in Writer, saving'[v] # None PROVE SavesWell(saving[v])'
  <2>1. CASE v = w
    <3>1. saving'[v].phase = "append" /\ saving'[v].entries = entries BY <1>5, <1>8, <1>10, <2>1
    <3> QED BY <1>7, <3>1 DEF SavesWell
  <2>2. CASE v # w
    <3>1. saving'[v] = saving[v] BY <1>5, <2>2
    <3>2. SavesWell(saving'[v]) BY <1>10, <3>1 DEF LogInv
    <3> QED BY <3>2 DEF SavesWell
  <2> QED BY <2>1, <2>2
<1>11. \A b : W!Told(b)' = W!Told(b) BY <1>3, ToldIsIn, ToldNextIsIn
<1>12. ASSUME NEW v \in Writer, v # w PROVE (Appends(v)' <=> Appends(v)) /\ \A b : W!Telling(v, b)' <=> W!Telling(v, b)
  BY <1>5, <1>12 DEF Appends, W!Telling
<1>13. ~Appends(w) /\ \A b : ~W!Telling(w, b) BY <1>3 DEF Appends, W!Telling
<1>14. ASSUME NEW b, W!Telling(w, b)' PROVE b \in written /\ \E e \in entries : e.book = b
  <2>1. saving'[w] # None /\ \E e \in saving'[w].entries : e.book = b BY <1>14 DEF W!Telling
  <2> QED BY <1>5, <1>7, <1>8, <2>1
<1>15. ASSUME NEW b \in Comic, b \notin unexplained' PROVE ToldOK(b)'
  <2>1. ToldOK(b) BY <1>2, <1>15 DEF LogInv
  <2>2. CASE b \notin written
    <3>1. record'[b] = record[b] /\ ~W!Telling(w, b)' BY <1>2, <1>14, <2>2
    <3>2. \A v \in Writer : W!Telling(v, b)' <=> W!Telling(v, b) BY <1>12, <1>13, <3>1
    <3>3. (\A v, x \in Writer : W!Telling(v, b) /\ W!Telling(x, b) => v = x)' BY <2>1, <3>2 DEF ToldOK
    <3>4. ((\A v \in Writer : ~W!Telling(v, b)) => W!Explains(W!Told(b), record[b]))'
      <4>1. (\A v \in Writer : ~W!Telling(v, b)') => W!Explains(W!Told(b)', record'[b]) BY <1>11, <2>1, <3>1, <3>2 DEF ToldOK
      <4> QED BY <4>1
    <3>5. ASSUME NEW v \in Writer, Appends(v)', NEW e \in saving'[v].entries, e.book = b
          PROVE  W!Explains(W!After(W!Told(b)', e), record'[b])
      <4>1. v # w
        <5>1. W!Telling(v, b)' BY <3>5 DEF Appends, W!Telling
        <5> QED BY <3>1, <5>1
      <4>2. Appends(v) /\ saving'[v] = saving[v] BY <1>5, <1>12, <3>5, <4>1
      <4> QED BY <1>11, <2>1, <3>1, <3>5, <4>2 DEF ToldOK
    <3> QED BY <3>3, <3>4, <3>5 DEF ToldOK
  <2>3. CASE b \in written
    <3>1. record'[b] = new[b] /\ written = DOMAIN new /\ record[b] = seen[b] /\ \A v \in Writer : ~W!Telling(v, b)
      BY <1>2, <1>15, <2>3
    <3>2. W!Explains(W!Told(b), seen[b]) BY <2>1, <3>1 DEF ToldOK
    <3>3. \A v \in Writer : v # w => ~W!Telling(v, b)' BY <1>12, <3>1
    <3>4. (\A v, x \in Writer : W!Telling(v, b) /\ W!Telling(x, b) => v = x)' BY <3>3
    <3>5. ASSUME \A v \in Writer : ~W!Telling(v, b)' PROVE W!Explains(W!Told(b)', record'[b])
      <4>1. ~ \E e \in entries : e.book = b
        <5>1. ASSUME NEW e \in entries, e.book = b PROVE FALSE
          <6>0. entries # {} BY <5>1
          <6>1. s.phase = "append" /\ s.entries = entries BY <1>9, <3>1, <6>0
          <6>3. s # None
            <7>1. s = [phase |-> "append", action |-> saving[w].action, entries |-> entries] BY <1>4, <3>1, <6>0
            <7>2. DOMAIN s = {"phase", "action", "entries"} BY <7>1
            <7> QED BY <7>2 DEF WritersApart
          <6>2. W!Telling(w, b)' BY <1>5, <5>1, <6>1, <6>3 DEF W!Telling
          <6> QED BY <3>5, <6>2
        <5> QED BY <5>1
      <4>2. Alike(seen[b], new[b]) BY <1>7, <2>3, <4>1
      <4> QED BY <1>11, <3>1, <3>2, <4>2, AlikeExplained
    <3>6. ASSUME NEW v \in Writer, Appends(v)', NEW e \in saving'[v].entries, e.book = b
          PROVE  W!Explains(W!After(W!Told(b)', e), record'[b])
      <4>1. v = w
        <5>1. W!Telling(v, b)' BY <3>6 DEF Appends, W!Telling
        <5> QED BY <3>3, <5>1
      <4>2. e \in entries
        <5>1. s # None BY <1>5, <3>6, <4>1 DEF Appends
        <5> QED BY <1>5, <1>8, <3>6, <4>1, <5>1
      <4>3. Tells(e, seen[b], new[b]) BY <1>7, <3>6, <4>2
      <4>4. DOMAIN W!Told(b) = W!Audited \union {"stage"} BY DEF LogInv
      <4>5. W!Explains(W!After(W!Told(b), e), new[b]) BY <3>2, <4>3, <4>4, TellsOn
      <4> QED BY <1>11, <3>1, <4>5
    <3>7. ((\A v \in Writer : ~W!Telling(v, b)) => W!Explains(W!Told(b), record[b]))' BY <3>5
    <3> QED BY <3>4, <3>6, <3>7 DEF ToldOK
  <2> QED BY <2>2, <2>3
<1>16. (\E X : audit \in Seq(X))' BY <1>3 DEF LogInv
<1>17. (\A b \in Comic : DOMAIN W!Told(b) = W!Audited \union {"stage"})'
  <2>1. \A b \in Comic : DOMAIN W!Told(b)' = W!Audited \union {"stage"} BY <1>11 DEF LogInv
  <2> QED BY <2>1
<1> QED BY <1>5, <1>10, <1>15, <1>16, <1>17 DEF LogInv

(* The log gets what a request has to tell. *)
LEMMA AppendTells == ASSUME LogInv, NEW w \in Writer, W!AppendAudit(w) PROVE LogInv'
<1>1. PICK entries, more : entries = saving[w].entries /\ more = W!SetToSeq(entries) OBVIOUS
<1>2. /\ Appends(w) /\ audit' = audit \o more
      /\ saving' = [saving EXCEPT ![w] = None] /\ UNCHANGED <<record, first, unexplained>>
  BY <1>1 DEF W!AppendAudit, Appends
<1>3. DOMAIN saving' = Writer /\ saving'[w] = None /\ \A v \in Writer : v # w => saving'[v] = saving[v]
  BY <1>2 DEF LogInv
<1>4. IsFiniteSet(entries) /\ \A d, e \in entries : d.book = e.book => d = e
  <2>1. SavesWell(saving[w]) BY <1>2 DEF LogInv, Appends
  <2> QED BY <1>1, <1>2, <2>1 DEF SavesWell, Appends
<1>5. /\ Len(more) \in Nat /\ more \in [1 .. Len(more) -> entries]
      /\ \A i, j \in 1 .. Len(more) : more[i] = more[j] => i = j
      /\ \A x \in entries : \E i \in 1 .. Len(more) : more[i] = x
  BY <1>1, <1>4, SetAsSeq
<1>6. PICK X : audit \in Seq(X) BY DEF LogInv
<1>7. audit \in Seq(X \union entries) /\ more \in Seq(X \union entries)
  <2>1. audit \in Seq(X \union entries) BY <1>6
  <2>2. more \in Seq(entries) BY <1>5
  <2>3. more \in Seq(X \union entries) BY <2>2
  <2> QED BY <2>1, <2>3
<1>8. \A b : W!Told(b) = ToldIn(audit, b, W!Known(first[b])) /\ W!Told(b)' = ToldIn(audit \o more, b, W!Known(first[b]))
  BY <1>2, ToldIsIn, ToldNextIsIn
<1>9. ASSUME NEW b, NEW e \in entries, e.book = b PROVE W!Told(b)' = W!After(W!Told(b), e)
  <2>1. PICK p \in 1 .. Len(more) : more[p] = e BY <1>5
  <2>2. \A i \in 1 .. Len(more) : (more[i].book = b) <=> (i = p)
    <3>1. ASSUME NEW i \in 1 .. Len(more), more[i].book = b PROVE i = p
      <4>1. more[i] \in entries BY <1>5
      <4>2. more[i] = e BY <1>4, <1>9, <3>1, <4>1
      <4> QED BY <1>5, <2>1, <4>2
    <3> QED BY <1>9, <2>1, <3>1
  <2>3. p \in 1 .. Len(more) + 1 /\ p # Len(more) + 1 BY <1>5
  <2>4. ToldIn(audit \o more, b, W!Known(first[b])) =
          IF p = Len(more) + 1 THEN ToldIn(audit, b, W!Known(first[b])) ELSE W!After(ToldIn(audit, b, W!Known(first[b])), more[p])
    BY <1>7, <2>2, <2>3, ToldMore
  <2> QED BY <1>8, <2>1, <2>3, <2>4
<1>10. ASSUME NEW b, \A e \in entries : e.book # b PROVE W!Told(b)' = W!Told(b)
  <2>1. PICK p : p = Len(more) + 1 OBVIOUS
  <2>2. p \in 1 .. Len(more) + 1 BY <1>5, <2>1
  <2>3. \A i \in 1 .. Len(more) : (more[i].book = b) <=> (i = p)
    <3>1. \A i \in 1 .. Len(more) : more[i].book # b BY <1>5, <1>10
    <3>2. \A i \in 1 .. Len(more) : i # p BY <1>5, <2>1
    <3> QED BY <3>1, <3>2
  <2>4. ToldIn(audit \o more, b, W!Known(first[b])) =
          IF p = Len(more) + 1 THEN ToldIn(audit, b, W!Known(first[b])) ELSE W!After(ToldIn(audit, b, W!Known(first[b])), more[p])
    BY <1>7, <2>2, <2>3, ToldMore
  <2> QED BY <1>8, <2>1, <2>4
<1>11. ASSUME NEW v \in Writer, saving'[v] # None PROVE SavesWell(saving[v])'
  <2>1. saving'[v] = saving[v] BY <1>3, <1>11
  <2>2. SavesWell(saving'[v]) BY <1>11, <2>1 DEF LogInv
  <2> QED BY <2>2 DEF SavesWell
<1>12. ASSUME NEW v \in Writer, v # w PROVE (Appends(v)' <=> Appends(v)) /\ \A b : W!Telling(v, b)' <=> W!Telling(v, b)
  BY <1>3, <1>12 DEF Appends, W!Telling
<1>13. ~Appends(w)' /\ \A b : ~W!Telling(w, b)' BY <1>3 DEF Appends, W!Telling
<1>14. \A b : W!Telling(w, b) <=> \E e \in entries : e.book = b BY <1>1, <1>2 DEF Appends, W!Telling
<1>15. ASSUME NEW b \in Comic, b \notin unexplained PROVE ToldOK(b)'
  <2>1. ToldOK(b) BY <1>15 DEF LogInv
  <2>2. (\A v, x \in Writer : W!Telling(v, b) /\ W!Telling(x, b) => v = x)'
    <3>1. \A v \in Writer : W!Telling(v, b)' => W!Telling(v, b) BY <1>12, <1>13
    <3> QED BY <2>1, <3>1 DEF ToldOK
  <2>3. CASE W!Telling(w, b)
    <3>1. PICK e \in entries : e.book = b BY <1>14, <2>3
    <3>2. W!Explains(W!Told(b)', record'[b])
      <4>1. W!Explains(W!After(W!Told(b), e), record[b]) BY <1>1, <1>2, <2>1, <3>1 DEF ToldOK
      <4> QED BY <1>2, <1>9, <3>1, <4>1
    <3>3. ASSUME NEW v \in Writer, Appends(v)', NEW d \in saving'[v].entries, d.book = b PROVE FALSE
      <4>1. v # w BY <1>13, <3>3
      <4>2. W!Telling(v, b)' BY <3>3 DEF Appends, W!Telling
      <4> QED BY <1>12, <2>1, <2>3, <4>1, <4>2 DEF ToldOK
    <3>4. ((\A v \in Writer : ~W!Telling(v, b)) => W!Explains(W!Told(b), record[b]))' BY <3>2
    <3> QED BY <2>2, <3>3, <3>4 DEF ToldOK
  <2>4. CASE ~W!Telling(w, b)
    <3>1. W!Told(b)' = W!Told(b) BY <1>10, <1>14, <2>4
    <3>2. \A v \in Writer : W!Telling(v, b)' <=> W!Telling(v, b) BY <1>12, <1>13, <2>4
    <3>3. ((\A v \in Writer : ~W!Telling(v, b)) => W!Explains(W!Told(b), record[b]))'
      <4>1. (\A v \in Writer : ~W!Telling(v, b)') => W!Explains(W!Told(b)', record'[b]) BY <1>2, <2>1, <3>1, <3>2 DEF ToldOK
      <4> QED BY <4>1
    <3>4. ASSUME NEW v \in Writer, Appends(v)', NEW e \in saving'[v].entries, e.book = b
          PROVE  W!Explains(W!After(W!Told(b)', e), record'[b])
      <4>1. v # w BY <1>13, <3>4
      <4>2. Appends(v) /\ saving'[v] = saving[v] BY <1>3, <1>12, <3>4, <4>1
      <4> QED BY <1>2, <2>1, <3>1, <3>4, <4>2 DEF ToldOK
    <3> QED BY <2>2, <3>3, <3>4 DEF ToldOK
  <2> QED BY <2>3, <2>4
<1>16. audit' \in Seq(X \union entries) BY <1>2, <1>7
<1>17. ASSUME NEW b \in Comic PROVE DOMAIN W!Told(b)' = W!Audited \union {"stage"}
  <2>1. DOMAIN W!Told(b) = W!Audited \union {"stage"} BY DEF LogInv
  <2>2. CASE \E e \in entries : e.book = b BY <1>9, <2>1, <2>2, AfterHasFields
  <2>3. CASE ~ \E e \in entries : e.book = b BY <1>10, <2>1, <2>3
  <2> QED BY <2>2, <2>3
<1>18. (\A b \in Comic : DOMAIN W!Told(b) = W!Audited \union {"stage"})' BY <1>17
<1>19. (\A b \in Comic \ unexplained : ToldOK(b))' BY <1>2, <1>15
<1> QED BY <1>3, <1>11, <1>16, <1>18, <1>19 DEF LogInv

(* It cannot: what was to be told is not. *)
LEMMA FailsUntold == ASSUME LogInv, NEW w \in Writer, W!AppendFails(w) PROVE LogInv'
<1>1. /\ saving' = [saving EXCEPT ![w] = None] /\ UNCHANGED <<record, audit, first>>
      /\ unexplained' = unexplained \union {b \in Comic : W!Telling(w, b)}
  BY DEF W!AppendFails
<1>2. DOMAIN saving' = Writer /\ saving'[w] = None /\ \A v \in Writer : v # w => saving'[v] = saving[v]
  BY <1>1 DEF LogInv
<1>3. ASSUME NEW v \in Writer, saving'[v] # None PROVE SavesWell(saving[v])'
  <2>1. saving'[v] = saving[v] BY <1>2, <1>3
  <2>2. SavesWell(saving'[v]) BY <1>3, <2>1 DEF LogInv
  <2> QED BY <2>2 DEF SavesWell
<1>4. \A b : W!Told(b)' = W!Told(b) BY <1>1, ToldIsIn, ToldNextIsIn
<1>5. ASSUME NEW v \in Writer, v # w PROVE (Appends(v)' <=> Appends(v)) /\ \A b : W!Telling(v, b)' <=> W!Telling(v, b)
  BY <1>2, <1>5 DEF Appends, W!Telling
<1>6. ~Appends(w)' /\ \A b : ~W!Telling(w, b)' BY <1>2 DEF Appends, W!Telling
<1>7. ASSUME NEW b \in Comic, b \notin unexplained' PROVE ToldOK(b)'
  <2>1. ToldOK(b) /\ ~W!Telling(w, b) BY <1>1, <1>7 DEF LogInv
  <2>2. \A v \in Writer : W!Telling(v, b)' <=> W!Telling(v, b) BY <1>5, <1>6, <2>1
  <2>3. (\A v, x \in Writer : W!Telling(v, b) /\ W!Telling(x, b) => v = x)' BY <2>1, <2>2 DEF ToldOK
  <2>4. ((\A v \in Writer : ~W!Telling(v, b)) => W!Explains(W!Told(b), record[b]))'
    <3>1. (\A v \in Writer : ~W!Telling(v, b)') => W!Explains(W!Told(b)', record'[b]) BY <1>1, <1>4, <2>1, <2>2 DEF ToldOK
    <3> QED BY <3>1
  <2>5. ASSUME NEW v \in Writer, Appends(v)', NEW e \in saving'[v].entries, e.book = b
        PROVE  W!Explains(W!After(W!Told(b)', e), record'[b])
    <3>1. v # w BY <1>6, <2>5
    <3>2. Appends(v) /\ saving'[v] = saving[v] BY <1>2, <1>5, <2>5, <3>1
    <3> QED BY <1>1, <1>4, <2>1, <2>5, <3>2 DEF ToldOK
  <2> QED BY <2>3, <2>4, <2>5 DEF ToldOK
<1>8. (\A b \in Comic : DOMAIN W!Told(b) = W!Audited \union {"stage"})'
  <2>1. \A b \in Comic : DOMAIN W!Told(b)' = W!Audited \union {"stage"} BY <1>4 DEF LogInv
  <2> QED BY <2>1
<1>9. (\E X : audit \in Seq(X))' BY <1>1 DEF LogInv
<1> QED BY <1>2, <1>3, <1>7, <1>8, <1>9 DEF LogInv

LEMMA LogStep == ASSUME WritersApart, W!WorkflowAssumption, LogInv, [W!Next]_(W!vars) PROVE LogInv'
<1>1. ASSUME NEW w \in Writer,
             \/ W!Edit(w) \/ W!BulkEdit(w) \/ W!LockField(w) \/ W!Rollback(w) \/ W!Undo(w) \/ W!Mark(w)
             \/ W!PagesMeta(w) \/ W!Relink(w)
             \/ W!SetNoCVMatch(w) \/ W!ClearNoCVMatch(w) \/ W!MigrateCVDBSkip(w) \/ W!SetLocalIdentity(w)
             \/ W!ClearLocalIdentity(w) \/ W!Convert(w) \/ W!Scrape(w) \/ W!ScanInfo(w) \/ W!Organize(w)
             \/ W!WriteMetadata(w) \/ W!CountFill(w) \/ W!FormatDetect(w)
      PROVE  LogInv'
  BY <1>1, RequestsBegin, BeginsWell
<1>2. ASSUME NEW w \in Writer, W!ReadForRules(w) \/ W!RunRules(w) PROVE LogInv'
  BY <1>2, JobGoesOn
<1>3. CASE UNCHANGED W!vars
  <2>1. UNCHANGED <<record, saving, audit, first, unexplained>> BY <1>3 DEF W!vars
  <2>2. \A b : W!Told(b)' = W!Told(b) BY <2>1, ToldIsIn, ToldNextIsIn
  <2>3. ASSUME NEW b \in Comic \ unexplained PROVE ToldOK(b)'
    <3>1. ToldOK(b) BY DEF LogInv
    <3>2. \A v \in Writer : (Appends(v)' <=> Appends(v)) /\ (W!Telling(v, b)' <=> W!Telling(v, b))
      BY <2>1 DEF Appends, W!Telling
    <3>3. (\A v, x \in Writer : W!Telling(v, b) /\ W!Telling(x, b) => v = x)' BY <3>1, <3>2 DEF ToldOK
    <3>4. ((\A v \in Writer : ~W!Telling(v, b)) => W!Explains(W!Told(b), record[b]))'
      <4>1. (\A v \in Writer : ~W!Telling(v, b)') => W!Explains(W!Told(b)', record'[b]) BY <2>1, <2>2, <3>1, <3>2 DEF ToldOK
      <4> QED BY <4>1
    <3>5. ASSUME NEW v \in Writer, Appends(v)', NEW e \in saving'[v].entries, e.book = b
          PROVE  W!Explains(W!After(W!Told(b)', e), record'[b])
      BY <2>1, <2>2, <3>1, <3>2, <3>5 DEF ToldOK
    <3> QED BY <3>3, <3>4, <3>5 DEF ToldOK
  <2>4. (\A b \in Comic : DOMAIN W!Told(b) = W!Audited \union {"stage"})'
    <3>1. \A b \in Comic : DOMAIN W!Told(b)' = W!Audited \union {"stage"} BY <2>2 DEF LogInv
    <3> QED BY <3>1
  <2>5. (\A v \in Writer : saving[v] # None => SavesWell(saving[v]))' BY <2>1 DEF LogInv, SavesWell
  <2> QED BY <2>1, <2>3, <2>4, <2>5 DEF LogInv
<1> QED BY <1>1, <1>2, <1>3, CompareGoesOn, WriteTells, AppendTells, FailsUntold DEF W!Next

--------------------------------------------------------------------------------
(* The rule tree.  A set of groups is closed upwards from p if it has p and, with a *)
(* group, the one above it; Above is the least of them.                          *)
ClosedUp(p, tree, A) ==
  p \in A \union {Root} /\ \A g \in A : tree[g] # Gone => tree[g].parent \in A \union {Root}

(* Rows are rows, and what they are in is there. *)
InTree(x, tree) == x \in R!Row /\ (x.parent # Root => tree[x.parent] # Gone)
IsTree(tree) == DOMAIN tree = RuleGroup /\ \A g \in RuleGroup : tree[g] # Gone => InTree(tree[g], tree)
HangsIn(sets, tree) == DOMAIN sets = Ruleset /\ \A r \in Ruleset : sets[r] # Gone => InTree(sets[r], tree)

(* The marks for the top of the tree and for no row are no group and no row. *)
TreesApart == Root \notin RuleGroup /\ Gone \notin R!Row

RulesInv ==
  /\ IsTree(group) /\ HangsIn(ruleset, group)
  /\ updating # None => updating.row \in R!Row

LEMMA AboveIs ==
  ASSUME NEW p, NEW tree
  PROVE  /\ R!Above(p, tree) \subseteq RuleGroup
         /\ \A A \in SUBSET RuleGroup : ClosedUp(p, tree, A) => R!Above(p, tree) \subseteq A
         /\ p \in RuleGroup /\ Root \notin RuleGroup => p \in R!Above(p, tree)
         /\ \A g \in R!Above(p, tree) : tree[g] # Gone /\ tree[g].parent # Root /\ tree[g].parent \in RuleGroup
                => tree[g].parent \in R!Above(p, tree)
<1>1. R!Above(p, tree) = {g \in RuleGroup : \A A \in SUBSET RuleGroup : ClosedUp(p, tree, A) => g \in A}
  BY DEF R!Above, ClosedUp
<1>2. ASSUME p \in RuleGroup, Root \notin RuleGroup PROVE p \in R!Above(p, tree)
  <2>1. ASSUME NEW A \in SUBSET RuleGroup, ClosedUp(p, tree, A) PROVE p \in A BY <1>2, <2>1 DEF ClosedUp
  <2> QED BY <1>1, <1>2, <2>1
<1>3. ASSUME NEW g \in R!Above(p, tree), tree[g] # Gone, tree[g].parent # Root, tree[g].parent \in RuleGroup
      PROVE  tree[g].parent \in R!Above(p, tree)
  <2>1. ASSUME NEW A \in SUBSET RuleGroup, ClosedUp(p, tree, A) PROVE tree[g].parent \in A
    <3>1. g \in A BY <1>1, <2>1
    <3> QED BY <1>3, <2>1, <3>1 DEF ClosedUp
  <2> QED BY <1>1, <1>3, <2>1
<1> QED BY <1>1, <1>2, <1>3

(* What is above a row of a tree is there, and what is above that is above the row. *)
LEMMA AboveInTree ==
  ASSUME TreesApart, NEW tree, IsTree(tree), NEW p \in RuleGroup \union {Root}, p # Root => tree[p] # Gone
  PROVE  /\ ClosedUp(p, tree, R!Above(p, tree))
         /\ \A g \in R!Above(p, tree) : tree[g] # Gone /\ R!Above(g, tree) \subseteq R!Above(p, tree)
<1>1. ASSUME NEW g \in R!Above(p, tree), tree[g] # Gone PROVE tree[g].parent \in R!Above(p, tree) \union {Root}
  <2>1. tree[g].parent \in RuleGroup \union {Root} BY <1>1, AboveIs DEF IsTree, InTree, R!Row
  <2> QED BY <1>1, <2>1, AboveIs
<1>2. p \in R!Above(p, tree) \union {Root} BY AboveIs DEF TreesApart
<1>3. ClosedUp(p, tree, R!Above(p, tree)) BY <1>1, <1>2 DEF ClosedUp
<1>4. ASSUME NEW g \in R!Above(p, tree) PROVE tree[g] # Gone
  <2> DEFINE A == {h \in RuleGroup : tree[h] # Gone}
  <2>1. p \in A \union {Root} OBVIOUS
  <2>2. ASSUME NEW h \in A PROVE tree[h].parent \in A \union {Root}
    <3>1. tree[h] # Gone /\ h \in RuleGroup OBVIOUS
    <3>2. InTree(tree[h], tree) BY <3>1 DEF IsTree
    <3> QED BY <3>2 DEF InTree, R!Row
  <2>3. ClosedUp(p, tree, A) BY <2>1, <2>2 DEF ClosedUp
  <2>4. A \in SUBSET RuleGroup OBVIOUS
  <2> QED BY <1>4, <2>3, <2>4, AboveIs
<1>5. ASSUME NEW g \in R!Above(p, tree) PROVE R!Above(g, tree) \subseteq R!Above(p, tree)
  <2>1. ClosedUp(g, tree, R!Above(p, tree)) BY <1>1, <1>5 DEF ClosedUp
  <2> QED BY <2>1, AboveIs
<1> QED BY <1>3, <1>4, <1>5

(* A cascade of deletions leaves a tree. *)
LEMMA CascadeLeavesTree ==
  ASSUME TreesApart, NEW tree, IsTree(tree), NEW sets, HangsIn(sets, tree), NEW deleted
  PROVE  IsTree(R!GroupsWithout(deleted, tree))
         /\ HangsIn(R!RulesetsWithout(deleted, tree, sets), R!GroupsWithout(deleted, tree))
<1> DEFINE left == R!GroupsWithout(deleted, tree)  setsLeft == R!RulesetsWithout(deleted, tree, sets)
<1>1. /\ DOMAIN left = RuleGroup
      /\ \A g \in RuleGroup : left[g] # Gone => left[g] = tree[g] /\ R!Above(g, tree) \intersect deleted = {}
      /\ \A g \in RuleGroup : tree[g] # Gone /\ R!Above(g, tree) \intersect deleted = {} => left[g] # Gone
  BY DEF R!GroupsWithout
<1>2. /\ DOMAIN setsLeft = Ruleset
      /\ \A r \in Ruleset : setsLeft[r] # Gone => setsLeft[r] = sets[r] /\ R!Above(sets[r].parent, tree) \intersect deleted = {}
  BY DEF R!RulesetsWithout
<1> HIDE DEF left, setsLeft
<1>3. ASSUME NEW g \in RuleGroup, left[g] # Gone PROVE InTree(left[g], left)
  <2>1. InTree(tree[g], tree) /\ tree[g] # Gone BY <1>1, <1>3 DEF IsTree
  <2>2. g \in R!Above(g, tree) BY AboveIs DEF TreesApart
  <2>3. SUFFICES ASSUME tree[g].parent # Root PROVE left[tree[g].parent] # Gone
    BY <1>1, <1>3, <2>1 DEF InTree
  <2>4. PICK y : y = tree[g].parent OBVIOUS
  <2>5. y \in RuleGroup /\ tree[y] # Gone BY <2>1, <2>3, <2>4 DEF InTree, R!Row
  <2>6. y \in R!Above(g, tree) BY <2>1, <2>2, <2>3, <2>4, <2>5, AboveIs
  <2>7. R!Above(y, tree) \subseteq R!Above(g, tree) BY <2>1, <2>6, AboveInTree
  <2> QED BY <1>1, <1>3, <2>4, <2>5, <2>7
<1>4. ASSUME NEW r \in Ruleset, setsLeft[r] # Gone PROVE InTree(setsLeft[r], left)
  <2>1. InTree(sets[r], tree) BY <1>2, <1>4 DEF HangsIn
  <2>2. sets[r].parent # Root => left[sets[r].parent] # Gone BY <1>1, <1>2, <1>4, <2>1 DEF InTree, R!Row
  <2> QED BY <1>2, <1>4, <2>1, <2>2 DEF InTree
<1>5. IsTree(left) /\ HangsIn(setsLeft, left) BY <1>1, <1>2, <1>3, <1>4 DEF IsTree, HangsIn
<1> QED BY <1>5 DEF left, setsLeft

(* One step of survivingAncestor, and what its loop has after n. *)
Onward(q) == IF R!Imported(q) THEN group[q].parent ELSE q
Walked(p, n, k) == k = [m \in 0 .. n |-> IF m = 0 THEN p ELSE Onward(k[m - 1])]

LEMMA WalkedIs ==
  ASSUME NEW p, NEW n, NEW k, Walked(p, n, k)
  PROVE  /\ 0 \in 0 .. n => k[0] = p
         /\ \A m \in Nat : m + 1 \in 0 .. n => k[m + 1] = Onward(k[m])
<1>1. \A m \in 0 .. n : k[m] = IF m = 0 THEN p ELSE Onward(k[m - 1]) BY DEF Walked
<1>2. ASSUME NEW m \in Nat, m + 1 \in 0 .. n PROVE k[m + 1] = Onward(k[m])
  <2>1. PICK i \in 0 .. n : i = m + 1 BY <1>2
  <2>2. i # 0 /\ i - 1 = m BY <2>1
  <2>3. k[i] = Onward(k[m]) BY <1>1, <2>2
  <2> QED BY <2>1, <2>3
<1> QED BY <1>1, <1>2

LEMMA WalkExists == ASSUME NEW p PROVE \A n \in Nat : \E k : Walked(p, n, k)
<1> DEFINE T == {n \in Nat : \E k : Walked(p, n, k)}
<1>1. 0 \in T
  <2>1. Walked(p, 0, [m \in 0 .. 0 |-> p]) BY DEF Walked
  <2> QED BY <2>1
<1>2. ASSUME NEW n \in Nat, n \in T PROVE n + 1 \in T
  <2>1. PICK k : Walked(p, n, k) BY <1>2
  <2>2. PICK j : j = [m \in 0 .. n + 1 |-> IF m = 0 THEN p ELSE Onward(k[m - 1])] OBVIOUS
  <2>3. \A m \in 0 .. n : j[m] = k[m]
    <3>1. \A m \in 0 .. n : k[m] = IF m = 0 THEN p ELSE Onward(k[m - 1]) BY <2>1 DEF Walked
    <3> QED BY <2>2, <3>1
  <2>4. \A m \in 0 .. n + 1 : m # 0 => m - 1 \in 0 .. n OBVIOUS
  <2>5. Walked(p, n + 1, j) BY <2>2, <2>3, <2>4 DEF Walked
  <2> QED BY <2>5
<1> HIDE DEF T
<1>3. Nat \subseteq T BY <1>1, <1>2, Induction
<1> QED BY <1>3 DEF T

LEMMA SomeGroups == ASSUME R!RuleFileAssumption
  PROVE Cardinality(RuleGroup) \in Nat /\ (RuleGroup # {} => Cardinality(RuleGroup) # 0)
<1>1. IsFiniteSet(RuleGroup) BY DEF R!RuleFileAssumption, R!IsFiniteSet, IsFiniteSet
<1> QED BY <1>1, FS_CardinalityType, FS_EmptySet

LEMMA Walks ==
  ASSUME R!RuleFileAssumption, NEW p
  PROVE  \E k : /\ Walked(p, Cardinality(RuleGroup), k)
                /\ R!SurvivingAncestor(p) = k[Cardinality(RuleGroup)]
                /\ R!Upwards(p)[Cardinality(RuleGroup)] = k[Cardinality(RuleGroup)]
<1>0. \A A : R!Cardinality(A) = Cardinality(A) BY DEF R!Cardinality, Cardinality
<1>1. PICK k : k = CHOOSE up : Walked(p, Cardinality(RuleGroup), up) OBVIOUS
<1>2. Walked(p, Cardinality(RuleGroup), k) BY <1>1, WalkExists, SomeGroups
<1>3. R!Upwards(p) = k BY <1>0, <1>1 DEF R!Upwards, Walked, Onward
<1> QED BY <1>0, <1>2, <1>3 DEF R!SurvivingAncestor

(* A walk stays where it comes to a group that is not imported, *)
LEMMA WalkStops == ASSUME R!RuleFileAssumption, NEW p, ~R!Imported(p) PROVE R!SurvivingAncestor(p) = p
<1>1. PICK n \in Nat : n = Cardinality(RuleGroup) BY SomeGroups
<1>2. PICK k : Walked(p, n, k) /\ R!SurvivingAncestor(p) = k[n] BY <1>1, Walks
<1> DEFINE T == {m \in Nat : m <= n => k[m] = p}
<1>3. 0 \in T BY <1>2, WalkedIs
<1>4. ASSUME NEW m \in Nat, m \in T PROVE m + 1 \in T
  <2> SUFFICES ASSUME m + 1 <= n PROVE k[m + 1] = p OBVIOUS
  <2>1. k[m] = p BY <1>4
  <2>2. k[m + 1] = Onward(k[m]) BY <1>2, WalkedIs
  <2> QED BY <2>1, <2>2 DEF Onward
<1> HIDE DEF T
<1>5. n \in T BY <1>3, <1>4, Induction
<1> QED BY <1>2, <1>5 DEF T

(* never leaves groups that are closed upwards, *)
LEMMA WalkStaysIn ==
  ASSUME R!RuleFileAssumption, NEW A, \A g \in A : group[g].parent \in A \union {Root}, NEW p \in A \union {Root}
  PROVE  R!SurvivingAncestor(p) \in A \union {Root}
<1>1. PICK n \in Nat : n = Cardinality(RuleGroup) BY SomeGroups
<1>2. PICK k : Walked(p, n, k) /\ R!SurvivingAncestor(p) = k[n] BY <1>1, Walks
<1> DEFINE T == {m \in Nat : m <= n => k[m] \in A \union {Root}}
<1>3. 0 \in T BY <1>2, WalkedIs
<1>4. ASSUME NEW m \in Nat, m \in T PROVE m + 1 \in T
  <2> SUFFICES ASSUME m + 1 <= n PROVE k[m + 1] \in A \union {Root} OBVIOUS
  <2>1. k[m] \in A \union {Root} BY <1>4
  <2>2. k[m + 1] = Onward(k[m]) BY <1>2, WalkedIs
  <2> QED BY <2>1, <2>2 DEF Onward, R!Imported
<1> HIDE DEF T
<1>5. n \in T BY <1>3, <1>4, Induction
<1> QED BY <1>2, <1>5 DEF T

LEMMA WalkStays ==
  ASSUME R!RuleFileAssumption, RulesInv, NEW p \in RuleGroup \union {Root}, p # Root => group[p] # Gone
  PROVE  LET q == R!SurvivingAncestor(p) IN q \in RuleGroup \union {Root} /\ (q # Root => group[q] # Gone)
<1> DEFINE A == {g \in RuleGroup : group[g] # Gone}
<1>1. ASSUME NEW g \in A PROVE group[g].parent \in A \union {Root}
  <2>1. InTree(group[g], group) BY DEF RulesInv, IsTree
  <2> QED BY <2>1 DEF InTree, R!Row
<1>2. R!SurvivingAncestor(p) \in A \union {Root} BY <1>1, WalkStaysIn
<1> QED BY <1>2

(* and ends where it would if it began one group further up. *)
LEMMA WalkGoesOn ==
  ASSUME R!RuleFileAssumption, NEW p \in RuleGroup, R!Imported(p), ~R!Imported(R!SurvivingAncestor(p))
  PROVE  R!SurvivingAncestor(group[p].parent) = R!SurvivingAncestor(p)
<1>1. PICK n \in Nat : n = Cardinality(RuleGroup) /\ n # 0 BY SomeGroups
<1>2. PICK k : Walked(p, n, k) /\ R!SurvivingAncestor(p) = k[n] BY <1>1, Walks
<1>3. PICK j : Walked(group[p].parent, n, j) /\ R!SurvivingAncestor(group[p].parent) = j[n] BY <1>1, Walks
<1> DEFINE T == {m \in Nat : m + 1 <= n => k[m + 1] = j[m]}
<1>4. 0 \in T
  <2>1. k[0] = p /\ k[0 + 1] = Onward(k[0]) /\ j[0] = group[p].parent BY <1>1, <1>2, <1>3, WalkedIs
  <2> QED BY <2>1 DEF Onward
<1>5. ASSUME NEW m \in Nat, m \in T PROVE m + 1 \in T
  <2> SUFFICES ASSUME (m + 1) + 1 <= n PROVE k[(m + 1) + 1] = j[m + 1] OBVIOUS
  <2>1. k[m + 1] = j[m] BY <1>5
  <2>2. m + 1 \in Nat /\ (m + 1) + 1 \in 0 .. n /\ m + 1 \in 0 .. n OBVIOUS
  <2>3. k[(m + 1) + 1] = Onward(k[m + 1]) BY <1>2, <2>2, WalkedIs
  <2>4. j[m + 1] = Onward(j[m]) BY <1>3, <2>2, WalkedIs
  <2> QED BY <2>1, <2>3, <2>4
<1> HIDE DEF T
<1>6. PICK i \in Nat : i + 1 = n /\ i \in T
  <2>1. Nat \subseteq T BY <1>4, <1>5, Induction
  <2>2. n - 1 \in Nat /\ (n - 1) + 1 = n BY <1>1
  <2> QED BY <2>1, <2>2
<1>7. j[i] = k[n] BY <1>6 DEF T
<1>8. j[n] = Onward(j[i]) BY <1>3, <1>6, WalkedIs
<1> QED BY <1>2, <1>3, <1>7, <1>8 DEF Onward

(* The groups that were made by hand, and a row that is put where its walk ends. *)
ByHand == {g \in RuleGroup : group[g] # Gone /\ group[g].source = "manual"}
Lifted(x) == [x EXCEPT !.parent = R!SurvivingAncestor(x.parent)]

LEMMA NotImported ==
  ASSUME RulesInv, NEW p \in RuleGroup \union {Root}, p # Root => group[p] # Gone, ~R!Imported(p)
  PROVE  p \in ByHand \union {Root}
<1> SUFFICES ASSUME p # Root PROVE p \in ByHand OBVIOUS
<1>1. group[p] \in R!Row BY DEF RulesInv, IsTree, InTree
<1>2. group[p].source = "import" \/ group[p].source = "manual" BY <1>1 DEF R!Row
<1> QED BY <1>2 DEF ByHand, R!Imported

(* The walk from a row that was made by hand ends at a group made by hand, or the top. *)
LEMMA WalkEnds ==
  ASSUME R!RuleFileAssumption, TreesApart, RulesInv, R!Returns, NEW x, InTree(x, group), x.source = "manual",
         (\E g \in RuleGroup : x = group[g]) \/ (\E r \in Ruleset : x = ruleset[r])
  PROVE  R!SurvivingAncestor(x.parent) \in ByHand \union {Root}
<1>1. x \in R!Range(group) \union R!Range(ruleset) BY DEF R!Range, RulesInv, IsTree, HangsIn
<1>2. x # Gone BY DEF InTree, TreesApart
<1>3. R!Upwards(x.parent)[R!Cardinality(RuleGroup)] = R!SurvivingAncestor(x.parent) BY DEF R!SurvivingAncestor
<1>4. ~R!Imported(R!SurvivingAncestor(x.parent)) BY <1>1, <1>2, <1>3 DEF R!Returns
<1>5. x.parent \in RuleGroup \union {Root} /\ (x.parent # Root => group[x.parent] # Gone) BY DEF InTree, R!Row
<1> QED BY <1>4, <1>5, WalkStays, NotImported

(* reparentManualDescendantsOfImportGroups puts every row made by hand there. *)
LEMMA LiftedRow ==
  ASSUME TreesApart, RulesInv, R!RuleFileAssumption, NEW x, InTree(x, group),
         R!SurvivingAncestor(x.parent) \in ByHand \union {Root}
  PROVE  /\ Lifted(x) \in R!Row /\ Lifted(x).parent = R!SurvivingAncestor(x.parent)
         /\ Lifted(x).source = x.source /\ Lifted(x).disabled = x.disabled
         /\ ~R!Imported(x.parent) => Lifted(x) = x
<1>1. x \in R!Row /\ x = [parent |-> x.parent, source |-> x.source, disabled |-> x.disabled]
  BY DEF InTree, R!Row
<1>2. R!SurvivingAncestor(x.parent) \in RuleGroup \union {Root} BY DEF ByHand
<1>3. Lifted(x) = [parent |-> R!SurvivingAncestor(x.parent), source |-> x.source, disabled |-> x.disabled]
  BY <1>1 DEF Lifted
<1>4. ~R!Imported(x.parent) => R!SurvivingAncestor(x.parent) = x.parent BY WalkStops
<1> QED BY <1>1, <1>2, <1>3, <1>4 DEF R!Row

LEMMA Reparents ==
  ASSUME R!RuleFileAssumption, TreesApart, RulesInv, R!Returns
  PROVE  /\ IsTree(R!Reparented(group)) /\ HangsIn(R!Reparented(ruleset), R!Reparented(group))
         /\ \A g \in RuleGroup : R!Reparented(group)[g] = IF g \in ByHand THEN Lifted(group[g]) ELSE group[g]
         /\ \A r \in Ruleset : R!Reparented(ruleset)[r] =
                IF ruleset[r] # Gone /\ ruleset[r].source = "manual" THEN Lifted(ruleset[r]) ELSE ruleset[r]
<1> DEFINE tree == R!Reparented(group)  sets == R!Reparented(ruleset)
<1>1. /\ DOMAIN group = RuleGroup /\ DOMAIN ruleset = Ruleset
      /\ \A g \in RuleGroup : group[g] # Gone => InTree(group[g], group)
      /\ \A r \in Ruleset : ruleset[r] # Gone => InTree(ruleset[r], group)
  BY DEF RulesInv, IsTree, HangsIn
<1>2. DOMAIN tree = RuleGroup /\ DOMAIN sets = Ruleset BY <1>1 DEF R!Reparented
<1>3. ASSUME NEW g \in RuleGroup PROVE tree[g] = IF g \in ByHand THEN Lifted(group[g]) ELSE group[g]
  <2>1. tree[g] = IF group[g] # Gone /\ group[g].source = "manual" /\ R!Imported(group[g].parent)
                  THEN Lifted(group[g]) ELSE group[g]
    BY <1>1 DEF R!Reparented, Lifted
  <2>2. g \in ByHand /\ ~R!Imported(group[g].parent) => Lifted(group[g]) = group[g]
    BY <1>1, WalkEnds, LiftedRow DEF ByHand
  <2> QED BY <2>1, <2>2 DEF ByHand
<1>4. ASSUME NEW r \in Ruleset
      PROVE  sets[r] = IF ruleset[r] # Gone /\ ruleset[r].source = "manual" THEN Lifted(ruleset[r]) ELSE ruleset[r]
  <2>1. sets[r] = IF ruleset[r] # Gone /\ ruleset[r].source = "manual" /\ R!Imported(ruleset[r].parent)
                  THEN Lifted(ruleset[r]) ELSE ruleset[r]
    BY <1>1 DEF R!Reparented, Lifted
  <2>2. ruleset[r] # Gone /\ ruleset[r].source = "manual" /\ ~R!Imported(ruleset[r].parent) => Lifted(ruleset[r]) = ruleset[r]
    BY <1>1, WalkEnds, LiftedRow
  <2> QED BY <2>1, <2>2
<1> HIDE DEF tree, sets
<1>5. \A g \in RuleGroup : group[g] # Gone => tree[g] # Gone
  <2>1. \A g \in ByHand : Lifted(group[g]) # Gone
    BY <1>1, WalkEnds, LiftedRow DEF ByHand, TreesApart
  <2> QED BY <1>3, <2>1
<1>6. ASSUME NEW x, InTree(x, group), NEW y, x.source = "manual" => y = Lifted(x), x.source # "manual" => y = x,
             (\E g \in RuleGroup : x = group[g]) \/ (\E r \in Ruleset : x = ruleset[r])
      PROVE  InTree(y, tree)
  <2>1. CASE x.source = "manual"
    <3>1. R!SurvivingAncestor(x.parent) \in ByHand \union {Root} BY <1>6, <2>1, WalkEnds
    <3>2. y \in R!Row /\ y.parent \in ByHand \union {Root} BY <1>6, <2>1, <3>1, LiftedRow
    <3> QED BY <1>5, <3>2 DEF InTree, ByHand
  <2>2. CASE x.source # "manual" BY <1>5, <1>6, <2>2 DEF InTree, R!Row
  <2> QED BY <2>1, <2>2
<1>7. ASSUME NEW g \in RuleGroup, tree[g] # Gone PROVE InTree(tree[g], tree)
  <2>1. group[g] # Gone BY <1>3, <1>7 DEF ByHand
  <2> QED BY <1>1, <1>3, <1>6, <2>1 DEF ByHand
<1>8. ASSUME NEW r \in Ruleset, sets[r] # Gone PROVE InTree(sets[r], tree)
  <2>1. ruleset[r] # Gone BY <1>4, <1>8
  <2> QED BY <1>1, <1>4, <1>6, <2>1
<1>9. IsTree(tree) /\ HangsIn(sets, tree) BY <1>2, <1>7, <1>8 DEF IsTree, HangsIn
<1> QED BY <1>3, <1>4, <1>9 DEF tree, sets

(* The wipe keeps all that was made by hand, where its walk ended. *)
LEMMA WipeKeeps ==
  ASSUME R!RuleFileAssumption, TreesApart, RulesInv, R!Returns
  PROVE  /\ IsTree(R!KeptGroups) /\ HangsIn(R!KeptRulesets, R!KeptGroups)
         /\ \A g \in ByHand : R!KeptGroups[g] # Gone /\ R!KeptGroups[g] = Lifted(group[g])
         /\ \A r \in Ruleset : ruleset[r] # Gone /\ ruleset[r].source = "manual"
                => R!KeptRulesets[r] # Gone /\ R!KeptRulesets[r] = Lifted(ruleset[r])
<1> DEFINE tree == R!Reparented(group)  sets == R!Reparented(ruleset)
           left == R!GroupsWithout(R!ImportedGroups, tree)
           setsLeft == R!RulesetsWithout(R!ImportedGroups, tree, sets)
<1>1. /\ IsTree(tree) /\ HangsIn(sets, tree)
      /\ \A g \in ByHand : tree[g] = Lifted(group[g])
      /\ \A r \in Ruleset : ruleset[r] # Gone /\ ruleset[r].source = "manual" => sets[r] = Lifted(ruleset[r])
  BY Reparents DEF ByHand
<1>2. IsTree(left) /\ HangsIn(setsLeft, left) BY <1>1, CascadeLeavesTree
<1>3. /\ \A g \in ByHand : InTree(group[g], group)
      /\ \A r \in Ruleset : ruleset[r] # Gone => InTree(ruleset[r], group)
  BY DEF RulesInv, IsTree, HangsIn, ByHand
<1>4. ASSUME NEW g \in ByHand PROVE tree[g] \in R!Row /\ tree[g].parent \in ByHand \union {Root}
  <2>1. R!SurvivingAncestor(group[g].parent) \in ByHand \union {Root} BY <1>3, WalkEnds DEF ByHand
  <2> QED BY <1>1, <1>3, <2>1, LiftedRow
<1>5. ASSUME NEW p \in ByHand \union {Root} PROVE R!Above(p, tree) \intersect R!ImportedGroups = {}
  <2>1. ByHand \in SUBSET RuleGroup BY DEF ByHand
  <2>2. ClosedUp(p, tree, ByHand) BY <1>4 DEF ClosedUp
  <2>3. R!Above(p, tree) \subseteq ByHand BY <2>1, <2>2, AboveIs
  <2> QED BY <2>3 DEF ByHand, R!ImportedGroups, R!Imported
<1>6. ASSUME NEW g \in ByHand PROVE left[g] # Gone /\ left[g] = Lifted(group[g])
  <2>1. g \in RuleGroup /\ tree[g] # Gone BY <1>4 DEF ByHand, TreesApart
  <2>2. left[g] = tree[g] BY <1>5, <2>1 DEF R!GroupsWithout
  <2> QED BY <1>1, <2>1, <2>2
<1>7. ASSUME NEW r \in Ruleset, ruleset[r] # Gone, ruleset[r].source = "manual"
      PROVE  setsLeft[r] # Gone /\ setsLeft[r] = Lifted(ruleset[r]) /\ Lifted(ruleset[r]).source = "manual"
  <2>1. R!SurvivingAncestor(ruleset[r].parent) \in ByHand \union {Root} BY <1>3, <1>7, WalkEnds
  <2>2. /\ sets[r] \in R!Row /\ sets[r].parent \in ByHand \union {Root}
        /\ sets[r] = Lifted(ruleset[r]) /\ sets[r].source = "manual"
    BY <1>1, <1>3, <1>7, <2>1, LiftedRow
  <2>3. setsLeft[r] = sets[r] BY <1>5, <2>2 DEF R!RulesetsWithout, TreesApart
  <2> QED BY <2>2, <2>3 DEF TreesApart
<1>8. R!KeptGroups = left BY DEF R!KeptGroups
<1>9. R!KeptRulesets = [r \in Ruleset |-> IF setsLeft[r] # Gone /\ setsLeft[r].source = "import" THEN Gone ELSE setsLeft[r]]
  BY DEF R!KeptRulesets
<1> HIDE DEF left, setsLeft, tree, sets
<1>10. HangsIn(R!KeptRulesets, left) BY <1>2, <1>9 DEF HangsIn
<1>11. ASSUME NEW r \in Ruleset, ruleset[r] # Gone, ruleset[r].source = "manual"
       PROVE  R!KeptRulesets[r] # Gone /\ R!KeptRulesets[r] = Lifted(ruleset[r])
  BY <1>7, <1>9, <1>11
<1> QED BY <1>2, <1>6, <1>8, <1>10, <1>11

(* A file is put beside what is left. *)
LEMMA FileIsRead ==
  ASSUME R!RuleFileAssumption, TreesApart, NEW tree, IsTree(tree), NEW sets, HangsIn(sets, tree), NEW file \in RuleFile,
         NEW gs \in R!FreshIds(file.groups, tree), NEW rs \in R!FreshIds(file.rulesets, sets)
  PROVE  LET tree2 == R!Read(file.groups, gs, gs, tree)
             sets2 == R!Read(file.rulesets, rs, gs, sets)
         IN  /\ IsTree(tree2) /\ HangsIn(sets2, tree2)
             /\ \A g \in RuleGroup : tree[g] # Gone => tree2[g] = tree[g]
             /\ \A r \in Ruleset : sets[r] # Gone => sets2[r] = sets[r] /\ ~\E i \in DOMAIN rs : rs[i] = r
<1> DEFINE tree2 == R!Read(file.groups, gs, gs, tree)
           sets2 == R!Read(file.rulesets, rs, gs, sets)
           New(entry) == [parent |-> IF entry.parent = 0 THEN Root ELSE gs[entry.parent],
                          source |-> "import", disabled |-> entry.disabled]
<1>1. /\ DOMAIN tree = RuleGroup /\ DOMAIN sets = Ruleset
      /\ \A g \in RuleGroup : tree[g] # Gone => InTree(tree[g], tree)
      /\ \A r \in Ruleset : sets[r] # Gone => InTree(sets[r], tree)
  BY DEF IsTree, HangsIn
<1>2. /\ file.groups \in Seq([parent : Nat, disabled : BOOLEAN])
      /\ file.rulesets \in Seq([parent : Nat, disabled : BOOLEAN])
      /\ \A i \in DOMAIN file.groups : file.groups[i].parent < i
      /\ \A i \in DOMAIN file.rulesets : file.rulesets[i].parent <= Len(file.groups)
  BY DEF R!RuleFileAssumption
<1>3. /\ gs \in [DOMAIN file.groups -> RuleGroup] /\ \A i \in DOMAIN file.groups : tree[gs[i]] = Gone
      /\ rs \in [DOMAIN file.rulesets -> Ruleset] /\ \A i \in DOMAIN file.rulesets : sets[rs[i]] = Gone
  BY <1>1 DEF R!FreshIds, R!Injection
<1>4. ASSUME NEW g \in RuleGroup
      PROVE  IF \E i \in DOMAIN file.groups : gs[i] = g
             THEN \E i \in DOMAIN file.groups : gs[i] = g /\ tree2[g] = New(file.groups[i])
             ELSE tree2[g] = tree[g]
  BY <1>1 DEF R!Read
<1>5. ASSUME NEW r \in Ruleset
      PROVE  IF \E i \in DOMAIN file.rulesets : rs[i] = r
             THEN \E i \in DOMAIN file.rulesets : rs[i] = r /\ sets2[r] = New(file.rulesets[i])
             ELSE sets2[r] = sets[r]
  BY <1>1 DEF R!Read
<1>6. DOMAIN tree2 = RuleGroup /\ DOMAIN sets2 = Ruleset BY <1>1 DEF R!Read
<1> HIDE DEF tree2, sets2
<1>7. ASSUME NEW entry \in [parent : Nat, disabled : BOOLEAN], entry.parent <= Len(file.groups)
      PROVE  /\ New(entry) \in R!Row /\ New(entry) # Gone
             /\ New(entry).parent # Root => \E i \in DOMAIN file.groups : New(entry).parent = gs[i]
  <2>1. entry.parent # 0 => entry.parent \in DOMAIN file.groups BY <1>2, <1>7
  <2>2. New(entry).parent \in RuleGroup \union {Root} BY <1>3, <2>1
  <2>3. New(entry) \in R!Row BY <2>2 DEF R!Row
  <2> QED BY <2>1, <2>3 DEF TreesApart
<1>8. ASSUME NEW i \in DOMAIN file.groups
      PROVE  file.groups[i] \in [parent : Nat, disabled : BOOLEAN] /\ file.groups[i].parent <= Len(file.groups)
  <2>1. Len(file.groups) \in Nat /\ i \in 1 .. Len(file.groups) BY <1>2
  <2>2. file.groups[i] \in [parent : Nat, disabled : BOOLEAN] BY <1>2, <2>1, ElementOfSeq
  <2>3. file.groups[i].parent \in Nat BY <2>2
  <2> QED BY <1>2, <2>1, <2>2, <2>3
<1>9. ASSUME NEW i \in DOMAIN file.rulesets PROVE file.rulesets[i] \in [parent : Nat, disabled : BOOLEAN]
  <2>1. i \in 1 .. Len(file.rulesets) BY <1>2
  <2> QED BY <1>2, <2>1, ElementOfSeq
<1>10. \A i \in DOMAIN file.groups : gs[i] \in RuleGroup /\ tree2[gs[i]] # Gone
  <2> SUFFICES ASSUME NEW i \in DOMAIN file.groups PROVE gs[i] \in RuleGroup /\ tree2[gs[i]] # Gone OBVIOUS
  <2>1. gs[i] \in RuleGroup BY <1>3
  <2>2. PICK j \in DOMAIN file.groups : tree2[gs[i]] = New(file.groups[j]) BY <1>4, <2>1
  <2>3. New(file.groups[j]) # Gone BY <1>7, <1>8
  <2> QED BY <2>1, <2>2, <2>3
<1>11. \A g \in RuleGroup : tree[g] # Gone => tree2[g] = tree[g] BY <1>3, <1>4
<1>12. \A r \in Ruleset : sets[r] # Gone => sets2[r] = sets[r] /\ ~\E i \in DOMAIN rs : rs[i] = r BY <1>3, <1>5
<1>13. ASSUME NEW x, InTree(x, tree) PROVE InTree(x, tree2) BY <1>11, <1>13 DEF InTree, R!Row
<1>14. ASSUME NEW entry \in [parent : Nat, disabled : BOOLEAN], entry.parent <= Len(file.groups)
       PROVE  InTree(New(entry), tree2)
  <2>1. New(entry) \in R!Row BY <1>7, <1>14
  <2>2. New(entry).parent # Root => tree2[New(entry).parent] # Gone BY <1>7, <1>10, <1>14
  <2> HIDE DEF New
  <2> QED BY <2>1, <2>2 DEF InTree
<1>15. IsTree(tree2)
  <2> SUFFICES ASSUME NEW g \in RuleGroup, tree2[g] # Gone PROVE InTree(tree2[g], tree2) BY <1>6 DEF IsTree
  <2>1. CASE \E i \in DOMAIN file.groups : gs[i] = g
    <3>1. PICK i \in DOMAIN file.groups : tree2[g] = New(file.groups[i]) BY <1>4, <2>1
    <3> QED BY <1>8, <1>14, <3>1
  <2>2. CASE ~\E i \in DOMAIN file.groups : gs[i] = g BY <1>1, <1>4, <1>13, <2>2
  <2> QED BY <2>1, <2>2
<1>16. HangsIn(sets2, tree2)
  <2> SUFFICES ASSUME NEW r \in Ruleset, sets2[r] # Gone PROVE InTree(sets2[r], tree2) BY <1>6 DEF HangsIn
  <2>1. CASE \E i \in DOMAIN file.rulesets : rs[i] = r
    <3>1. PICK i \in DOMAIN file.rulesets : sets2[r] = New(file.rulesets[i]) BY <1>5, <2>1
    <3> QED BY <1>2, <1>9, <1>14, <3>1
  <2>2. CASE ~\E i \in DOMAIN file.rulesets : rs[i] = r BY <1>1, <1>5, <1>13, <2>2
  <2> QED BY <2>1, <2>2
<1> QED BY <1>11, <1>12, <1>15, <1>16 DEF tree2, sets2

(* What an import does to what was made by hand, whether it wipes or not. *)
LEMMA ImportGives ==
  ASSUME R!RuleFileAssumption, TreesApart, RulesInv, NEW file \in RuleFile, NEW wipe \in BOOLEAN, R!Import(file, wipe)
  PROVE  /\ R!Returns /\ IsTree(group') /\ HangsIn(ruleset', group')
         /\ \A g \in ByHand : group'[g] # Gone /\ group'[g] = Lifted(group[g])
         /\ \A r \in Ruleset : ruleset[r] # Gone /\ ruleset[r].source = "manual"
                => ruleset'[r] # Gone /\ ruleset'[r] = Lifted(ruleset[r]) /\ rules'[r] = rules[r]
<1>1. PICK tree, sets : tree = (IF wipe THEN R!KeptGroups ELSE group) /\ sets = (IF wipe THEN R!KeptRulesets ELSE ruleset)
  OBVIOUS
<1>2. PICK gs \in R!FreshIds(file.groups, tree), rs \in R!FreshIds(file.rulesets, sets) :
        /\ group' = R!Read(file.groups, gs, gs, tree)
        /\ ruleset' = R!Read(file.rulesets, rs, gs, sets)
        /\ rules' = [r \in Ruleset |-> IF \E i \in DOMAIN rs : rs[i] = r THEN Rule ELSE R!RulesOf(sets)[r]]
  BY <1>1 DEF R!Import
<1>3. ~wipe => ~R!HasImported BY DEF R!Import
<1>4. wipe => R!Returns BY DEF R!Import
<1>5. /\ \A g \in RuleGroup : group[g] # Gone => InTree(group[g], group)
      /\ \A r \in Ruleset : ruleset[r] # Gone => InTree(ruleset[r], group)
  BY DEF RulesInv, IsTree, HangsIn
<1>6. ASSUME ~wipe, NEW p \in RuleGroup \union {Root}, p # Root => group[p] # Gone PROVE ~R!Imported(p)
  BY <1>3, <1>6 DEF R!HasImported, R!ImportedGroups, R!Imported
<1>7. R!Returns
  <2> SUFFICES ASSUME ~wipe PROVE R!Returns BY <1>4
  <2>1. ASSUME NEW x \in R!Range(group) \union R!Range(ruleset), x # Gone
        PROVE  ~R!Imported(R!Upwards(x.parent)[R!Cardinality(RuleGroup)])
    <3>1. InTree(x, group) BY <1>5, <2>1 DEF R!Range, RulesInv, IsTree, HangsIn
    <3>2. x.parent \in RuleGroup \union {Root} /\ (x.parent # Root => group[x.parent] # Gone)
      BY <3>1 DEF InTree, R!Row
    <3>3. R!SurvivingAncestor(x.parent) = x.parent BY <1>6, <3>2, WalkStops
    <3> QED BY <1>6, <3>2, <3>3 DEF R!SurvivingAncestor
  <2> QED BY <2>1 DEF R!Returns
<1>8. /\ IsTree(tree) /\ HangsIn(sets, tree)
      /\ \A g \in ByHand : tree[g] # Gone /\ tree[g] = Lifted(group[g])
      /\ \A r \in Ruleset : ruleset[r] # Gone /\ ruleset[r].source = "manual" => sets[r] # Gone /\ sets[r] = Lifted(ruleset[r])
  <2>1. CASE wipe BY <1>1, <1>7, <2>1, WipeKeeps
  <2>2. CASE ~wipe
    <3>1. ASSUME NEW x, InTree(x, group), x.source = "manual",
                 (\E g \in RuleGroup : x = group[g]) \/ (\E r \in Ruleset : x = ruleset[r])
          PROVE  Lifted(x) = x
      <4>1. x.parent \in RuleGroup \union {Root} /\ (x.parent # Root => group[x.parent] # Gone) BY <3>1 DEF InTree, R!Row
      <4>2. ~R!Imported(x.parent) BY <1>6, <2>2, <4>1
      <4>3. R!SurvivingAncestor(x.parent) \in ByHand \union {Root} BY <1>7, <3>1, WalkEnds
      <4> QED BY <3>1, <4>2, <4>3, LiftedRow
    <3>2. tree = group /\ sets = ruleset BY <1>1, <2>2
    <3>3. IsTree(group) /\ HangsIn(ruleset, group) BY DEF RulesInv
    <3>4. \A g \in ByHand : group[g] # Gone /\ group[g] = Lifted(group[g]) BY <1>5, <3>1 DEF ByHand
    <3>5. \A r \in Ruleset : ruleset[r] # Gone /\ ruleset[r].source = "manual" => ruleset[r] = Lifted(ruleset[r])
      BY <1>5, <3>1
    <3> QED BY <3>2, <3>3, <3>4, <3>5
  <2> QED BY <2>1, <2>2
<1>9. /\ IsTree(group') /\ HangsIn(ruleset', group')
      /\ \A g \in RuleGroup : tree[g] # Gone => group'[g] = tree[g]
      /\ \A r \in Ruleset : sets[r] # Gone => ruleset'[r] = sets[r] /\ ~\E i \in DOMAIN rs : rs[i] = r
  BY <1>2, <1>8, FileIsRead
<1>10. \A g \in ByHand : group'[g] # Gone /\ group'[g] = Lifted(group[g]) BY <1>8, <1>9 DEF ByHand
<1>11. ASSUME NEW r \in Ruleset, ruleset[r] # Gone, ruleset[r].source = "manual"
       PROVE  ruleset'[r] # Gone /\ ruleset'[r] = Lifted(ruleset[r]) /\ rules'[r] = rules[r]
  <2>1. sets[r] # Gone /\ sets[r] = Lifted(ruleset[r]) BY <1>8, <1>11
  <2>2. rules'[r] = R!RulesOf(sets)[r] BY <1>2, <1>9, <2>1
  <2>3. R!RulesOf(sets)[r] = rules[r] BY <2>1 DEF R!RulesOf
  <2> QED BY <1>9, <2>1, <2>2, <2>3
<1> QED BY <1>7, <1>9, <1>10, <1>11

(* So a ruleset made by hand is below the same groups made by hand, and evaluated if it was. *)
LEMMA ManualStays ==
  ASSUME R!RuleFileAssumption, TreesApart, RulesInv, NEW file \in RuleFile, NEW wipe \in BOOLEAN, R!Import(file, wipe)
  PROVE  R!KeepsManual
<1> SUFFICES ASSUME NEW r \in Ruleset, ruleset[r] # Gone, ruleset[r].source = "manual"
             PROVE  /\ ruleset'[r] # Gone /\ rules'[r] = rules[r]
                    /\ R!ManualAbove(r)' = R!ManualAbove(r)
                    /\ r \in R!LoadRulesets => r \in R!LoadRulesets'
  BY DEF R!KeepsManual
<1> DEFINE SA(p) == R!SurvivingAncestor(p)
           old == R!Above(ruleset[r].parent, group)  new == R!Above(ruleset'[r].parent, group')
<1>1. /\ R!Returns /\ IsTree(group')
      /\ \A g \in ByHand : group'[g] # Gone /\ group'[g] = Lifted(group[g])
      /\ ruleset'[r] # Gone /\ ruleset'[r] = Lifted(ruleset[r]) /\ rules'[r] = rules[r]
  BY ImportGives
<1>2. InTree(ruleset[r], group) /\ \A g \in RuleGroup : group[g] # Gone => InTree(group[g], group)
  BY DEF RulesInv, IsTree, HangsIn
<1>3. /\ SA(ruleset[r].parent) \in ByHand \union {Root}
      /\ ruleset'[r].parent = SA(ruleset[r].parent) /\ ruleset'[r].disabled = ruleset[r].disabled
  BY <1>1, <1>2, WalkEnds, LiftedRow
<1>4. ASSUME NEW g \in ByHand
      PROVE  /\ SA(group[g].parent) \in ByHand \union {Root} /\ group'[g].parent = SA(group[g].parent)
             /\ group'[g].source = "manual" /\ group'[g].disabled = group[g].disabled
  <2>1. SA(group[g].parent) \in ByHand \union {Root} BY <1>1, <1>2, WalkEnds DEF ByHand
  <2> QED BY <1>1, <1>2, <2>1, LiftedRow DEF ByHand
<1>5. ByHand \in SUBSET RuleGroup /\ old \in SUBSET RuleGroup /\ new \in SUBSET RuleGroup BY AboveIs DEF ByHand
<1>6. /\ ClosedUp(ruleset[r].parent, group, old) /\ \A g \in old : group[g] # Gone
      /\ \A A \in SUBSET RuleGroup : ClosedUp(ruleset[r].parent, group, A) => old \subseteq A
  <2>1. IsTree(group) /\ ruleset[r].parent \in RuleGroup \union {Root} /\ (ruleset[r].parent # Root => group[ruleset[r].parent] # Gone)
    BY <1>2 DEF RulesInv, InTree, R!Row
  <2> QED BY <2>1, AboveIs, AboveInTree
<1>7. /\ ClosedUp(ruleset'[r].parent, group', new)
      /\ \A A \in SUBSET RuleGroup : ClosedUp(ruleset'[r].parent, group', A) => new \subseteq A
  <2>1. ruleset'[r].parent \in RuleGroup \union {Root} /\ (ruleset'[r].parent # Root => group'[ruleset'[r].parent] # Gone)
    BY <1>1, <1>3 DEF ByHand
  <2> QED BY <1>1, <2>1, AboveIs, AboveInTree
<1> HIDE DEF old, new
<1>8. new \subseteq ByHand
  <2>1. ClosedUp(ruleset'[r].parent, group', ByHand) BY <1>3, <1>4 DEF ClosedUp
  <2> QED BY <1>5, <1>7, <2>1
<1>9. \A p \in old \union {Root} : SA(p) \in old \union {Root}
  <2>1. \A g \in old : group[g].parent \in old \union {Root} BY <1>6 DEF ClosedUp
  <2> QED BY <2>1, WalkStaysIn
<1>10. SA(Root) = Root BY WalkStops DEF R!Imported
(* Of a group that is imported the walk is that of the one above it; one made by hand is where it was. *)
<1>11. ASSUME NEW g \in old, SA(g) \in new \union {Root}
       PROVE  IF R!Imported(g) THEN SA(group[g].parent) = SA(g) ELSE g \in new /\ g \in ByHand /\ SA(g) = g
  <2>1. CASE R!Imported(g)
    <3>1. ~R!Imported(SA(g)) BY <1>8, <1>11 DEF ByHand, R!Imported
    <3> QED BY <1>5, <2>1, <3>1, WalkGoesOn
  <2>2. CASE ~R!Imported(g)
    <3>1. g \in RuleGroup /\ group[g] # Gone BY <1>5, <1>6
    <3>2. g \in ByHand BY <2>2, <3>1, NotImported DEF TreesApart
    <3>3. SA(g) = g BY <2>2, WalkStops
    <3> QED BY <1>11, <2>2, <3>1, <3>2, <3>3 DEF TreesApart
  <2> QED BY <2>1, <2>2
<1>12. new \subseteq old
  <2>1. ASSUME NEW g \in old \intersect ByHand PROVE group'[g].parent \in (old \intersect ByHand) \union {Root}
    <3>1. group[g].parent \in old \union {Root} BY <1>6, <2>1 DEF ClosedUp
    <3> QED BY <1>4, <1>9, <2>1, <3>1
  <2>2. ruleset'[r].parent \in (old \intersect ByHand) \union {Root}
    <3>1. ruleset[r].parent \in old \union {Root} BY <1>6 DEF ClosedUp
    <3> QED BY <1>3, <1>9, <3>1
  <2>3. ClosedUp(ruleset'[r].parent, group', old \intersect ByHand) BY <2>1, <2>2 DEF ClosedUp
  <2>4. old \intersect ByHand \in SUBSET RuleGroup BY <1>5
  <2> QED BY <1>7, <2>3, <2>4
<1>13. old \intersect ByHand \subseteq new
  <2> DEFINE A == {g \in old : SA(g) \in new \union {Root}}
  <2>1. ruleset[r].parent \in A \union {Root}
    <3>1. ruleset[r].parent \in old \union {Root} BY <1>6 DEF ClosedUp
    <3>2. SA(ruleset[r].parent) \in new \union {Root} BY <1>3, <1>7 DEF ClosedUp
    <3> QED BY <3>1, <3>2
  <2>2. ASSUME NEW g \in A PROVE group[g].parent \in A \union {Root}
    <3>1. g \in old /\ SA(g) \in new \union {Root} OBVIOUS
    <3>2. group[g].parent \in old \union {Root} BY <1>6, <3>1 DEF ClosedUp
    <3>3. SA(group[g].parent) \in new \union {Root}
      <4>1. CASE R!Imported(g) BY <1>11, <3>1, <4>1
      <4>2. CASE ~R!Imported(g)
        <5>1. g \in new /\ g \in ByHand BY <1>11, <3>1, <4>2
        <5>2. group'[g].parent \in new \union {Root} BY <1>1, <1>7, <5>1 DEF ClosedUp
        <5> QED BY <1>4, <5>1, <5>2
      <4> QED BY <4>1, <4>2
    <3> QED BY <3>2, <3>3
  <2>3. ClosedUp(ruleset[r].parent, group, A) BY <2>1, <2>2 DEF ClosedUp
  <2>4. old \subseteq A
    <3>1. A \in SUBSET RuleGroup BY <1>5
    <3> HIDE DEF A
    <3> QED BY <1>6, <2>3, <3>1
  <2>5. ASSUME NEW g \in old, g \in ByHand PROVE g \in new
    <3>1. SA(g) \in new \union {Root} BY <2>4
    <3>2. ~R!Imported(g) BY <2>5 DEF ByHand, R!Imported
    <3> QED BY <1>11, <3>1, <3>2
  <2> QED BY <2>5
<1>14. R!ManualAbove(r)' = R!ManualAbove(r)
  <2>1. R!ManualAbove(r) = {g \in old : group[g].source = "manual"} BY DEF R!ManualAbove, old
  <2>2. R!ManualAbove(r)' = {g \in new : group'[g].source = "manual"} BY DEF R!ManualAbove, new
  <2>3. R!ManualAbove(r) = old \intersect ByHand BY <1>5, <1>6, <2>1 DEF ByHand
  <2>4. R!ManualAbove(r)' = new BY <1>4, <1>8, <2>2
  <2> QED BY <1>8, <1>12, <1>13, <2>3, <2>4
<1>15. ASSUME r \in R!LoadRulesets PROVE r \in R!LoadRulesets'
  <2>1. /\ ~ruleset[r].disabled /\ \A g \in old : ~group[g].disabled
        /\ ruleset[r].parent = Root \/ \E g \in old : group[g].parent = Root
    BY <1>15 DEF R!LoadRulesets, old
  <2>2. \A g \in new : ~group'[g].disabled BY <1>4, <1>8, <1>12, <2>1
  <2>3. ruleset'[r].parent = Root \/ \E g \in new : group'[g].parent = Root
    <3> SUFFICES ASSUME ruleset'[r].parent # Root, \A g \in new : group'[g].parent # Root PROVE FALSE
      OBVIOUS
    <3> DEFINE A == {g \in old : SA(g) \in new}
    <3>1. Root \notin new BY <1>5 DEF TreesApart
    <3>2. ruleset[r].parent \in A
      <4>1. SA(ruleset[r].parent) \in new BY <1>3, <1>7 DEF ClosedUp
      <4>2. ruleset[r].parent \in old \union {Root} BY <1>6 DEF ClosedUp
      <4> QED BY <1>10, <3>1, <4>1, <4>2
    <3>3. ASSUME NEW g \in A PROVE group[g].parent \in A
      <4>1. g \in old /\ SA(g) \in new OBVIOUS
      <4>2. group[g].parent \in old \union {Root} BY <1>6, <4>1 DEF ClosedUp
      <4>3. SA(group[g].parent) \in new
        <5>1. CASE R!Imported(g) BY <1>11, <4>1, <5>1
        <5>2. CASE ~R!Imported(g)
          <6>1. g \in new /\ g \in ByHand BY <1>11, <4>1, <5>2
          <6>2. group'[g].parent \in new BY <1>1, <1>7, <6>1 DEF ClosedUp
          <6> QED BY <1>4, <6>1, <6>2
        <5> QED BY <5>1, <5>2
      <4> QED BY <1>10, <3>1, <4>2, <4>3
    <3>4. ClosedUp(ruleset[r].parent, group, A) BY <3>2, <3>3 DEF ClosedUp
    <3>5. old \subseteq A
      <4>1. A \in SUBSET RuleGroup BY <1>5
      <4> HIDE DEF A
      <4> QED BY <1>6, <3>4, <4>1
    <3>6. Root \notin A BY <1>5 DEF TreesApart
    <3> HIDE DEF A
    <3> QED BY <2>1, <3>2, <3>3, <3>5, <3>6
  <2> QED BY <1>1, <1>3, <2>1, <2>2, <2>3 DEF R!LoadRulesets, new
<1> QED BY <1>1, <1>14, <1>15

(* Every step leaves a tree. *)
LEMMA RulesStart == ASSUME R!Init PROVE RulesInv
  BY DEF R!Init, RulesInv, IsTree, HangsIn

LEMMA RulesStep ==
  ASSUME R!RuleFileAssumption, TreesApart, RulesInv, R!Next \/ UNCHANGED ruleVars
  PROVE  RulesInv'
<1>1. /\ DOMAIN group = RuleGroup /\ DOMAIN ruleset = Ruleset
      /\ \A g \in RuleGroup : group[g] # Gone => InTree(group[g], group)
      /\ \A r \in Ruleset : ruleset[r] # Gone => InTree(ruleset[r], group)
      /\ updating # None => updating.row \in R!Row
  BY DEF RulesInv, IsTree, HangsIn
(* A row is written to a tree. *)
<1>2. ASSUME NEW g \in RuleGroup, NEW x \in R!Row, R!There(x.parent), group' = [group EXCEPT ![g] = x]
      PROVE  /\ IsTree(group')
             /\ \A r \in Ruleset : ruleset[r] # Gone => InTree(ruleset[r], group')
  <2>1. /\ DOMAIN group' = RuleGroup /\ group'[g] = x /\ x # Gone
        /\ \A h \in RuleGroup : h # g => group'[h] = group[h]
    BY <1>1, <1>2 DEF TreesApart
  <2>2. \A h \in RuleGroup : group[h] # Gone => group'[h] # Gone BY <2>1
  <2>3. ASSUME NEW y, y \in R!Row, R!There(y.parent) PROVE InTree(y, group') BY <2>2, <2>3 DEF InTree, R!Row, R!There
  <2>4. ASSUME NEW y, InTree(y, group) PROVE InTree(y, group') BY <2>3, <2>4 DEF InTree, R!There
  <2>5. ASSUME NEW h \in RuleGroup, group'[h] # Gone PROVE InTree(group'[h], group')
    BY <1>1, <1>2, <2>1, <2>3, <2>4, <2>5
  <2> QED BY <1>1, <2>1, <2>4, <2>5 DEF IsTree
<1>3. ASSUME NEW r \in Ruleset, NEW x \in R!Row, R!There(x.parent), ruleset' = [ruleset EXCEPT ![r] = x]
      PROVE  HangsIn(ruleset', group)
  <2>1. DOMAIN ruleset' = Ruleset /\ \A s \in Ruleset : ruleset'[s] = IF s = r THEN x ELSE ruleset[s] BY <1>1, <1>3
  <2>2. InTree(x, group) BY <1>3 DEF InTree, R!There
  <2> QED BY <1>1, <2>1, <2>2 DEF HangsIn
<1>4. ASSUME NEW p \in RuleGroup \union {Root} PROVE R!MadeByHand(p) \in R!Row /\ R!MadeByHand(p).parent = p
  BY <1>4 DEF R!MadeByHand, R!Row
<1>5. CASE UNCHANGED ruleVars BY <1>5 DEF ruleVars, RulesInv, IsTree, HangsIn, InTree, R!Row
<1>6. ASSUME NEW g \in RuleGroup, NEW p \in RuleGroup \union {Root}, R!CreateGroup(g, p) PROVE RulesInv'
  <2>1. group' = [group EXCEPT ![g] = R!MadeByHand(p)] /\ R!There(p) /\ UNCHANGED <<ruleset, updating>>
    BY <1>6 DEF R!CreateGroup
  <2>2. R!There(R!MadeByHand(p).parent) BY <1>4, <2>1
  <2>3. IsTree(group') /\ \A r \in Ruleset : ruleset[r] # Gone => InTree(ruleset[r], group')
    BY <1>2, <1>4, <2>1, <2>2
  <2> QED BY <1>1, <2>1, <2>3 DEF RulesInv, HangsIn, R!Row, IsTree, InTree
<1>7. ASSUME NEW r \in Ruleset, NEW p \in RuleGroup \union {Root}, R!CreateRuleset(r, p) PROVE RulesInv'
  <2>1. ruleset' = [ruleset EXCEPT ![r] = R!MadeByHand(p)] /\ R!There(p) /\ UNCHANGED <<group, updating>>
    BY <1>7 DEF R!CreateRuleset
  <2>2. R!There(R!MadeByHand(p).parent) BY <1>4, <2>1
  <2>3. HangsIn(ruleset', group) BY <1>3, <1>4, <2>1, <2>2
  <2> QED BY <2>1, <2>3 DEF RulesInv, IsTree, HangsIn, InTree, R!Row
<1>8. ASSUME NEW g \in RuleGroup, NEW x \in R!Row, R!ReadGroup(g, x) PROVE RulesInv'
  <2>1. updating' = [id |-> g, row |-> x] /\ UNCHANGED <<group, ruleset>> BY <1>8 DEF R!ReadGroup
  <2> QED BY <2>1 DEF RulesInv, IsTree, HangsIn, InTree, R!Row
<1>9. ASSUME NEW r \in Ruleset, NEW x \in R!Row, R!ReadRuleset(r, x) PROVE RulesInv'
  <2>1. updating' = [id |-> r, row |-> x] /\ UNCHANGED <<group, ruleset>> BY <1>9 DEF R!ReadRuleset
  <2> QED BY <2>1 DEF RulesInv, IsTree, HangsIn, InTree, R!Row
<1>10. CASE R!WriteGroup
  <2>1. updating # None /\ updating.id \in RuleGroup /\ updating' = None /\ ruleset' = ruleset BY <1>10 DEF R!WriteGroup
  <2>2. CASE group' = group BY <2>1, <2>2 DEF RulesInv, IsTree, HangsIn, InTree, R!Row
  <2>3. CASE group' # group
    <3>1. R!There(updating.row.parent) /\ group' = [group EXCEPT ![updating.id] = updating.row]
      BY <1>10, <2>3 DEF R!WriteGroup
    <3>2. IsTree(group') /\ \A r \in Ruleset : ruleset[r] # Gone => InTree(ruleset[r], group')
      BY <1>1, <1>2, <2>1, <3>1
    <3> QED BY <1>1, <2>1, <3>2 DEF RulesInv, HangsIn, IsTree, InTree, R!Row
  <2> QED BY <2>2, <2>3
<1>11. CASE R!WriteRuleset
  <2>1. updating # None /\ updating.id \in Ruleset /\ updating' = None /\ group' = group BY <1>11 DEF R!WriteRuleset
  <2>2. CASE ruleset' = ruleset BY <2>1, <2>2 DEF RulesInv, IsTree, HangsIn, InTree, R!Row
  <2>3. CASE ruleset' # ruleset
    <3>1. R!There(updating.row.parent) /\ ruleset' = [ruleset EXCEPT ![updating.id] = updating.row]
      BY <1>11, <2>3 DEF R!WriteRuleset
    <3>2. HangsIn(ruleset', group) BY <1>1, <1>3, <2>1, <3>1
    <3> QED BY <2>1, <3>2 DEF RulesInv, HangsIn, IsTree, InTree, R!Row
  <2> QED BY <2>2, <2>3
<1>12. ASSUME NEW g \in RuleGroup, R!DeleteGroup(g) PROVE RulesInv'
  <2>1. /\ group' = R!GroupsWithout({g}, group) /\ ruleset' = R!RulesetsWithout({g}, group, ruleset)
        /\ updating' = updating
    BY <1>12 DEF R!DeleteGroup
  <2>2. IsTree(group') /\ HangsIn(ruleset', group') BY <2>1, CascadeLeavesTree DEF RulesInv
  <2> QED BY <1>1, <2>1, <2>2 DEF RulesInv, HangsIn, IsTree, InTree, R!Row
<1>13. ASSUME NEW r \in Ruleset, R!DeleteRuleset(r) PROVE RulesInv'
  <2>1. ruleset' = [ruleset EXCEPT ![r] = Gone] /\ UNCHANGED <<group, updating>> BY <1>13 DEF R!DeleteRuleset
  <2>2. HangsIn(ruleset', group) BY <1>1, <2>1 DEF HangsIn
  <2> QED BY <2>1, <2>2 DEF RulesInv, HangsIn, IsTree, InTree, R!Row
<1>14. ASSUME NEW r \in Ruleset, NEW x \in Rule, R!AddRule(r, x) \/ R!DropRule(r, x) PROVE RulesInv'
  <2>1. UNCHANGED <<group, ruleset, updating>> BY <1>14 DEF R!AddRule, R!DropRule
  <2> QED BY <2>1 DEF RulesInv, HangsIn, IsTree, InTree, R!Row
<1>15. ASSUME NEW file \in RuleFile, NEW wipe \in BOOLEAN, R!Import(file, wipe) PROVE RulesInv'
  <2>1. IsTree(group') /\ HangsIn(ruleset', group') BY <1>15, ImportGives
  <2>2. updating' = updating BY <1>15 DEF R!Import
  <2> QED BY <1>1, <2>1, <2>2 DEF RulesInv, HangsIn, IsTree, InTree, R!Row
<1> QED BY <1>5, <1>6, <1>7, <1>8, <1>9, <1>10, <1>11, <1>12, <1>13, <1>14, <1>15 DEF R!Next

(* Only an import counts imports. *)
LEMMA RulesKeep ==
  ASSUME R!RuleFileAssumption, TreesApart, RulesInv, R!Next \/ UNCHANGED ruleVars
  PROVE  R!KeepsManual
<1>1. CASE imports' = imports BY <1>1 DEF R!KeepsManual
<1>2. CASE imports' # imports
  <2>1. \E file \in RuleFile, wipe \in BOOLEAN : R!Import(file, wipe)
    BY <1>2 DEF R!Next, R!CreateGroup, R!ReadGroup, R!DeleteGroup, R!CreateRuleset, R!ReadRuleset, R!DeleteRuleset,
                R!AddRule, R!DropRule, R!WriteGroup, R!WriteRuleset, ruleVars
  <2> QED BY <2>1, ManualStays
<1> QED BY <1>1, <1>2

--------------------------------------------------------------------------------
(* A step of the composition is a step of each part, or leaves it alone.       *)
LEMMA LimitsMove == [Next]_vars => [C!Next]_(C!vars)
  BY DEF Next, vars, limitVars, C!vars

LEMMA VolumesMove == [Next]_vars => [V!Next]_(V!vars)
  BY DEF Next, vars, volumeVars, V!vars

LEMMA JobsMove == [Next]_vars => [S!Next]_(S!vars)
  BY DEF Next, vars, scrapingVars, S!vars

LEMMA ListsMove == [Next]_vars => [L!Next]_(L!vars)
  BY DEF Next, vars, listVars, L!vars, L!cacheVars

LEMMA SmartListsMove == [Next]_vars => [E!Next]_(E!vars)
  BY DEF Next, vars, smartListVars, E!vars

LEMMA WorkflowMoves == [Next]_vars => [W!Next]_(W!vars)
  BY DEF Next, vars, workflowVars, W!vars

LEMMA RulesMove == ASSUME [Next]_vars PROVE R!Next \/ UNCHANGED ruleVars
  BY DEF Next, vars

(* Whenever the server stops, the one that is started again goes on with the    *)
(* counters, the requests of the last hour and the breaker of the one before,  *)
(* save that a probe that was out is let go (pacer and circuit, load and save); *)
(* see ComicVineLimits.RestartKeepsPauses.                                     *)
THEOREM PausesSurvive == Spec => []RestartKeepsPauses
<1>1. Init => StoredInv
  BY ServicesAssumption, StoredStarts DEF Init
<1>2. StoredInv /\ [Next]_vars => StoredInv'
  BY ServicesAssumption, LimitsMove, StoredStep
<1>3. StoredInv => RestartKeepsPauses
  BY ServicesAssumption, StoredGives DEF RestartKeepsPauses
<1> QED
  BY <1>1, <1>2, <1>3, PTL DEF Spec

(* Although a request is counted only when it is over, those counted and those *)
(* on their way exceed a limit of the pacer by less than one request for each  *)
(* caller (pacer.wait, pacer.recordRequest); see                               *)
(* ComicVineLimits.OvershootBounded.                                           *)
THEOREM LimitsHold == Spec => []OvershootBounded
<1>1. Init => CountInv
  BY ServicesAssumption, CountStarts DEF Init
<1>2. CountInv /\ [Next]_vars => CountInv'
  BY ServicesAssumption, LimitsMove, CountStep
<1>3. CountInv => OvershootBounded
  BY CountGives DEF OvershootBounded
<1> QED
  BY <1>1, <1>2, <1>3, PTL DEF Spec

(* A volume whose issues are said to be synced has all of them in the cache,   *)
(* whatever failures, restarts, scrapes and changes at ComicVine come between  *)
(* its pages; see VolumeSync.SyncedIsComplete.                                 *)
THEOREM SyncedHasAll == ASSUME ListingsApart PROVE Spec => []SyncedIsComplete
<1>1. Init => SyncedInv
  BY ServicesAssumption, SyncedStarts DEF Init
<1>2. SyncedInv /\ [Next]_vars => SyncedInv'
  BY ServicesAssumption, VolumesMove, SyncedStep
<1>3. SyncedInv => SyncedIsComplete
  BY SyncedGives DEF SyncedIsComplete
<1> QED
  BY <1>1, <1>2, <1>3, PTL DEF Spec

(* What a person has settled for a book does not come back to Scrape Review    *)
(* before a later job takes the book, whatever jobs, re-checks, answers and    *)
(* crashes come between; see Scraping.SettledStaysSettled.                     *)
THEOREM SettledStays == Spec => []SettledStaysSettled
<1>1. Init => SettledInv
  BY ServicesAssumption, SettledStarts DEF Init
<1>2. SettledInv /\ [Next]_vars => SettledInv'
  BY ServicesAssumption, JobsMove, SettledStep
<1>3. SettledInv => SettledStaysSettled
  BY SettledGives DEF SettledStaysSettled
<1> QED
  BY <1>1, <1>2, <1>3, PTL DEF Spec

(* The hash that the next import compares is that of what the list holds,      *)
(* whatever edits race imports and moves; see Lists.HashDescribesRow.          *)
THEOREM HashesDescribe == Spec => []HashDescribesRow
<1>1. Init => HashInv
  BY HashStarts DEF Init
<1>2. HashInv /\ [Next]_vars => HashInv'
  BY ListsMove, HashStep
<1>3. HashInv => HashDescribesRow
  BY HashGives DEF HashDescribesRow
<1> QED
  BY <1>1, <1>2, <1>3, PTL DEF Spec

(* Every list is in the tree, unless a list was moved below itself or below one *)
(* that is not shown, an edit brought a list back, or an import found an       *)
(* unchanged list elsewhere than the file has it (materializeList, MoveList,   *)
(* importListsRecursive, updateList); see Lists.ListsStayVisible.              *)
THEOREM ListsAreShown == ASSUME RowsApart PROVE Spec => []ListsStayVisible
<1>1. Init => HashInv /\ TreeInv
  BY HashStarts, TreeStarts DEF Init
<1>2. HashInv /\ TreeInv /\ [Next]_vars => (HashInv /\ TreeInv)'
  BY ServicesAssumption, ListsMove, HashStep, TreeStep
<1>3. HashInv /\ TreeInv => ListsStayVisible
  BY ServicesAssumption, TreeGives DEF ListsStayVisible
<1> QED
  BY <1>1, <1>2, <1>3, PTL DEF Spec

(* A count that is taken for fresh is the number of the list's books, unless it *)
(* was evaluated from what changed before it was stored, or an import is about *)
(* to invalidate it (ListCache, saveManualList, evaluateListCounts); see       *)
(* Lists.FreshCountsTrue.                                                      *)
THEOREM CountsAreTrue == ASSUME RowsApart PROVE Spec => []FreshCountsTrue
<1>1. Init => HashInv /\ CountsInv
  BY HashStarts, CountsStart DEF Init
<1>2. HashInv /\ CountsInv /\ [Next]_vars => (HashInv /\ CountsInv)'
  BY ServicesAssumption, ListsMove, HashStep, CountsStep
<1>3. HashInv /\ CountsInv => FreshCountsTrue
  BY CountsGive DEF FreshCountsTrue
<1> QED
  BY <1>1, <1>2, <1>3, PTL DEF Spec

(* A smart list has the books that its matchers select in the library as it is *)
(* now, on whichever of the two ways the backend takes (SQLiteBackend.MatchBooks, *)
(* translateMatchers); see SmartLists.FastPathAgrees.                          *)
THEOREM WaysAgree == Spec => []FastPathAgrees
<1>1. Init => CacheInv
  BY ServicesAssumption, FastStarts DEF Init
<1>2. CacheInv /\ [Next]_vars => CacheInv'
  BY SmartListsMove, FastStep
<1>3. CacheInv => FastPathAgrees
  BY ServicesAssumption, FastGives DEF FastPathAgrees
<1> QED
  BY <1>1, <1>2, <1>3, PTL DEF Spec

(* A book at the end of the workflow is filed where its fields say, unless it  *)
(* was scraped after that, whatever was edited, undone, rolled back or run     *)
(* since and whatever overwrote what (applyBookEdit, handleAuditUndo,          *)
(* runDataManagerOverBooks); see Workflow.FiledWhereItSays.                    *)
THEOREM FiledBooksAreInPlace == Spec => []FiledWhereItSays
<1>1. Init => FiledInv
  BY ServicesAssumption, FiledStarts DEF Init
<1>2. FiledInv /\ [Next]_vars => FiledInv'
  BY ServicesAssumption, WorkflowMoves, FiledStep
<1>3. FiledInv => FiledWhereItSays
  BY FiledGives DEF FiledWhereItSays
<1> QED
  BY <1>1, <1>2, <1>3, PTL DEF Spec

(* The audit log tells how each book came to be what it is, but for those with *)
(* a write that failed half way, was never told, or met another between its    *)
(* comparison, its write and its entry (Backend.UpdateBooks, Record,           *)
(* AppendAudit); see Workflow.AuditExplains.                                   *)
THEOREM LogExplains == ASSUME WritersApart PROVE Spec => []AuditExplains
<1>1. Init => LogInv
  BY ServicesAssumption, LogStarts DEF Init
<1>2. LogInv /\ [Next]_vars => LogInv'
  BY ServicesAssumption, WorkflowMoves, LogStep
<1>3. LogInv => AuditExplains
  BY LogGives DEF AuditExplains
<1> QED
  BY <1>1, <1>2, <1>3, PTL DEF Spec

(* Choosing all the changes that a preview shows of a book, whichever comes     *)
(* last, makes it the book that the whole run makes it, whatever fields overlap *)
(* (selectForApplyFields, ApplyAll); see Workflow.SelectedAsWhole.              *)
THEOREM SelectionsMakeWhole == ASSUME Yes # No PROVE Spec => []SelectedAsWhole
<1>1. Init => FiledInv
  BY ServicesAssumption, FiledStarts DEF Init
<1>2. FiledInv /\ [Next]_vars => FiledInv'
  BY ServicesAssumption, WorkflowMoves, FiledStep
<1>3. FiledInv => SelectedAsWhole
  BY ServicesAssumption, FiledGivesWhole DEF SelectedAsWhole
<1> QED
  BY <1>1, <1>2, <1>3, PTL DEF Spec

(* An import of a rule file keeps every ruleset that was made by hand, in the   *)
(* groups made by hand that it was in and evaluated if it was, whatever groups  *)
(* an earlier import put between (ImportDataManagerRules,                       *)
(* reparentManualDescendantsOfImportGroups, survivingAncestor); see             *)
(* RuleTree.KeepsManual.                                                        *)
THEOREM ImportsKeepManual == ASSUME TreesApart PROVE Spec => ImportKeepsManual
<1>1. Init => RulesInv
  BY RulesStart DEF Init
<1>2. RulesInv /\ [Next]_vars => RulesInv'
  BY ServicesAssumption, RulesMove, RulesStep
<1>3. RulesInv /\ [Next]_vars => [R!KeepsManual]_vars
  BY ServicesAssumption, RulesMove, RulesKeep
<1> QED
  BY <1>1, <1>2, <1>3, PTL DEF Spec, ImportKeepsManual
================================================================================
