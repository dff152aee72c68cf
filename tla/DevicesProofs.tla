----------------------------- MODULE DevicesProofs -----------------------------
(***************************************************************************)
(* Where a sync is sent, and that the registered set, the registry and the *)
(* table agree about a device, for any devices, addresses, lists and       *)
(* requests.  A request carries what it has found so far, and the device   *)
(* answered there (AnswerInv).  Of a device that is not doubtful at most   *)
(* one request is under way, and how far the set and the row are apart is  *)
(* told by how far it is (RegisteredInv).                                  *)
(***************************************************************************)
EXTENDS Devices, TLAPS

(* The record of a request. *)
Asking(op, stage, d, l, address, home, refuted) ==
    [op |-> op, stage |-> stage, device |-> d, list |-> l, address |-> address, home |-> home, refuted |-> refuted]

(* None is no device and no record of one. *)
NoneApart ==
    /\ None \notin Device /\ Requested \subseteq Device
    /\ \A op, stage, d, l, address, home, refuted : None # Asking(op, stage, d, l, address, home, refuted)
    /\ \A address, lists : None # [address |-> address, lists |-> lists]

IsRequest(r) ==
    /\ r = Asking(r.op, r.stage, r.device, r.list, r.address, r.home, r.refuted)
    /\ r.device \in Device

(* What a sync has of its device is where it answered. *)
Grounded(r, pairs) ==
    r.op = "sync" =>
        /\ ~r.refuted
        /\ r.home # None => <<r.device, r.home>> \in pairs
        /\ r.stage = "found" => <<r.device, r.address>> \in pairs
        /\ r.stage = "quick" => r.home # None

(* A sync that goes on, or ends. *)
Syncs(r) == r = None \/ (r.op = "sync" /\ IsRequest(r) /\ Grounded(r, answered))

RequestInv ==
    /\ work = [c \in Caller |-> work[c]]
    /\ \A c \in Caller : work[c] # None => IsRequest(work[c]) /\ Grounded(work[c], answered)

SeenInv ==
    /\ seen = [d \in Device |-> seen[d]]
    /\ \A d \in Device : seen[d] # None => seen[d] = [address |-> seen[d].address, recent |-> seen[d].recent]
                                           /\ <<d, seen[d].address>> \in answered

AnswerInv == RequestInv /\ SeenInv

--------------------------------------------------------------------------------
(* A request that begins, goes on or ends; the others stay grounded. *)
LEMMA OneRequest ==
    ASSUME RequestInv, NEW c \in Caller, NEW r, work' = [work EXCEPT ![c] = r], answered \subseteq answered',
           r = None \/ (IsRequest(r) /\ Grounded(r, answered'))
    PROVE  RequestInv'
<1>1. work' = [b \in Caller |-> work'[b]]
  BY DEF RequestInv
<1>2. ASSUME NEW b \in Caller, work'[b] # None PROVE IsRequest(work'[b]) /\ Grounded(work'[b], answered')
  <2>1. CASE b = c
    BY <1>2, <2>1 DEF RequestInv
  <2>2. CASE b # c
    <3>1. work'[b] = work[b]
      BY <2>2 DEF RequestInv
    <3> QED
      BY <1>2, <3>1 DEF RequestInv, Grounded
  <2> QED
    BY <2>1, <2>2
<1>3. \A b \in Caller : work'[b] # None => IsRequest(work'[b]) /\ Grounded(work'[b], answered')
  BY <1>2
<1> QED
  BY <1>1, <1>3 DEF RequestInv, IsRequest, Grounded

(* A device is seen at an address where it answered. *)
LEMMA SeenStays == ASSUME SeenInv, UNCHANGED seen, answered \subseteq answered' PROVE SeenInv'
BY DEF SeenInv

LEMMA RequestsStay == ASSUME RequestInv, UNCHANGED work, answered \subseteq answered' PROVE RequestInv'
<1>1. ASSUME NEW c \in Caller, work[c] # None PROVE IsRequest(work[c]) /\ Grounded(work[c], answered')
  BY <1>1 DEF RequestInv, Grounded
<1> QED
  BY <1>1 DEF RequestInv, IsRequest, Grounded

(* Whatever else its record says. *)
LEMMA SeenChanges ==
    ASSUME SeenInv, NEW d, NEW r, seen' = [seen EXCEPT ![d] = r], answered \subseteq answered',
           d \in Device => r = [address |-> r.address, recent |-> r.recent] /\ <<d, r.address>> \in answered'
    PROVE  SeenInv'
<1>1. seen' = [e \in Device |-> seen'[e]]
  BY DEF SeenInv
<1>2. ASSUME NEW e \in Device, seen'[e] # None
      PROVE  seen'[e] = [address |-> seen'[e].address, recent |-> seen'[e].recent]
             /\ <<e, seen'[e].address>> \in answered'
  <2>1. CASE e = d
    <3>1. seen'[e] = r
      BY <2>1 DEF SeenInv
    <3> QED
      BY <2>1, <3>1
  <2>2. CASE e # d
    <3>1. seen'[e] = seen[e]
      BY <2>2 DEF SeenInv
    <3> QED
      BY <1>2, <3>1 DEF SeenInv
  <2> QED
    BY <2>1, <2>2
<1> QED
  BY <1>1, <1>2 DEF SeenInv

LEMMA AddedIsSeen ==
    ASSUME SeenInv, NEW d, NEW a, seen' = Added(d, a), answered \subseteq answered', <<d, a>> \in answered'
    PROVE  SeenInv'
<1> DEFINE r == [address |-> a, recent |-> TRUE]
<1>1. seen' = [seen EXCEPT ![d] = r]
  BY DEF Added
<1>2. r = [address |-> r.address, recent |-> r.recent] /\ r.address = a
  OBVIOUS
<1> HIDE DEF r
<1> QED
  BY <1>1, <1>2, SeenChanges

(* Of the ping it only counts that it came. *)
LEMMA RecentIsSeen ==
    ASSUME SeenInv, NEW d, NEW b, seen[d] # None, seen' = [seen EXCEPT ![d].recent = b], answered \subseteq answered'
    PROVE  SeenInv'
<1> DEFINE r == [seen[d] EXCEPT !.recent = b]
<1>1. seen' = [seen EXCEPT ![d] = r]
  OBVIOUS
<1>2. ASSUME d \in Device PROVE r = [address |-> r.address, recent |-> r.recent] /\ <<d, r.address>> \in answered'
  <2>1. seen[d] = [address |-> seen[d].address, recent |-> seen[d].recent] /\ <<d, seen[d].address>> \in answered
    BY <1>2 DEF SeenInv
  <2>2. r = [address |-> seen[d].address, recent |-> b]
    BY <2>1
  <2>3. r.address = seen[d].address /\ r.recent = b
    BY <2>2
  <2> HIDE DEF r
  <2> QED
    BY <2>1, <2>2, <2>3
<1> HIDE DEF r
<1> QED
  BY <1>1, <1>2, SeenChanges

--------------------------------------------------------------------------------
(* The record of a request that begins.  The fields that are alike are given    *)
(* names of their own, for the provers.                                        *)
LEMMA WithList ==
    ASSUME NEW op, NEW stage, NEW d, NEW list
    PROVE  [Request(op, stage, d) EXCEPT !.list = list] = Asking(op, stage, d, list, None, None, FALSE)
<1> DEFINE r == Request(op, stage, d)
<1>1. \E l, a, h, x : l = None /\ a = None /\ h = None /\ x = FALSE
  OBVIOUS
<1>2. PICK l, a, h, x : l = None /\ a = None /\ h = None /\ x = FALSE
  BY <1>1, Zenon
<1>3. r = Asking(op, stage, d, l, a, h, x)
  BY <1>2 DEF Request, Asking
<1> HIDE DEF r
<1>4. [r EXCEPT !.list = list] = Asking(op, stage, d, list, a, h, x)
  BY <1>3 DEF Asking
<1> QED
  BY <1>2, <1>4 DEF r

LEMMA WithAddress ==
    ASSUME NEW op, NEW stage, NEW d, NEW address
    PROVE  [Request(op, stage, d) EXCEPT !.address = address] = Asking(op, stage, d, None, address, None, FALSE)
<1> DEFINE r == Request(op, stage, d)
<1>1. \E l, a, h, x : l = None /\ a = None /\ h = None /\ x = FALSE
  OBVIOUS
<1>2. PICK l, a, h, x : l = None /\ a = None /\ h = None /\ x = FALSE
  BY <1>1, Zenon
<1>3. r = Asking(op, stage, d, l, a, h, x)
  BY <1>2 DEF Request, Asking
<1> HIDE DEF r
<1>4. [r EXCEPT !.address = address] = Asking(op, stage, d, l, address, h, x)
  BY <1>3 DEF Asking
<1> QED
  BY <1>2, <1>4 DEF r

LEMMA WithHome ==
    ASSUME NEW op, NEW stage, NEW d, NEW address, NEW home
    PROVE  [Request(op, stage, d) EXCEPT !.address = address, !.home = home]
           = Asking(op, stage, d, None, address, home, FALSE)
<1> DEFINE r == [Request(op, stage, d) EXCEPT !.address = address]
<1>1. \E l, h, x : l = None /\ h = None /\ x = FALSE
  OBVIOUS
<1>2. PICK l, h, x : l = None /\ h = None /\ x = FALSE
  BY <1>1, Zenon
<1>3. r = Asking(op, stage, d, l, address, h, x)
  BY <1>2, WithAddress
<1>4. [Request(op, stage, d) EXCEPT !.address = address, !.home = home] = [r EXCEPT !.home = home]
  OBVIOUS
<1> HIDE DEF r
<1>5. [r EXCEPT !.home = home] = Asking(op, stage, d, l, address, home, x)
  BY <1>3 DEF Asking
<1> QED
  BY <1>2, <1>4, <1>5

(* The requests that change rows or what is registered are no syncs. *)
LEMMA TakenIsGrounded ==
    ASSUME RequestInv, NEW c \in Caller, NEW op, NEW stage, NEW d \in Device, NEW l, NEW a, op # "sync",
           work' = [work EXCEPT ![c] = Asking(op, stage, d, l, a, None, FALSE)],
           UNCHANGED answered
    PROVE  RequestInv'
<1> DEFINE r == Asking(op, stage, d, l, a, None, FALSE)
<1>1. IsRequest(r) /\ Grounded(r, answered')
  BY DEF IsRequest, Grounded, Asking
<1>2. work' = [work EXCEPT ![c] = r]
  OBVIOUS
<1> HIDE DEF r
<1> QED
  BY <1>1, <1>2, OneRequest

LEMMA GoesOn ==
    ASSUME RequestInv, NEW c \in Caller, NEW stage, work[c] # None, work[c].op # "sync", UNCHANGED answered,
           work' = [work EXCEPT ![c].stage = stage]
    PROVE  RequestInv'
<1> DEFINE r == [work[c] EXCEPT !.stage = stage]
<1>1. work' = [work EXCEPT ![c] = r]
  OBVIOUS
<1>2. IsRequest(work[c])
  BY DEF RequestInv
<1>3. r = Asking(work[c].op, stage, work[c].device, work[c].list, work[c].address, work[c].home, work[c].refuted)
  BY <1>2 DEF IsRequest, Asking
<1>4. IsRequest(r) /\ Grounded(r, answered')
  BY <1>2, <1>3 DEF IsRequest, Grounded, Asking
<1> HIDE DEF r
<1> QED
  BY <1>1, <1>4, OneRequest

LEMMA Ends == ASSUME RequestInv, NEW c \in Caller, UNCHANGED answered, Done(c) PROVE RequestInv'
BY OneRequest DEF Done

LEMMA RowedKeeps == ASSUME AnswerInv, NEW c \in Caller, Rowed(c) PROVE AnswerInv'
<1>1. UNCHANGED <<seen, answered>>
  BY DEF Rowed, LookForRow, InsertRow, DeleteDevice, SaveEdit, SetDeviceAddress, InsertMissing, AddDeviceList,
         UpdateDeviceList, RemoveDeviceList, RowFails
<1>2. work[c] # None /\ work[c].op # "sync"
  BY DEF Rowed, LookForRow, InsertRow, DeleteDevice, SaveEdit, SetDeviceAddress, InsertMissing, AddDeviceList,
         UpdateDeviceList, RemoveDeviceList, RowFails, Turn
<1>3. Done(c) \/ \E stage \in {"insert", "address", "list", "second"} : work' = [work EXCEPT ![c].stage = stage]
  BY DEF Rowed, LookForRow, InsertRow, DeleteDevice, SaveEdit, SetDeviceAddress, InsertMissing, AddDeviceList,
         UpdateDeviceList, RemoveDeviceList, RowFails
<1>4. RequestInv'
  BY <1>1, <1>2, <1>3, GoesOn, Ends DEF AnswerInv
<1> QED
  BY <1>1, <1>4, SeenStays DEF AnswerInv

(* Other requests are taken with the device they are for. *)
Asks(c, d, op) == \E stage, l, a : work' = [work EXCEPT ![c] = Asking(op, stage, d, l, a, None, FALSE)]

LEMMA TakesAsk ==
    ASSUME NEW c, NEW d
    PROVE  /\ Register(c, d) => Asks(c, d, "register")
           /\ Unregister(c, d) => Asks(c, d, "unregister")
           /\ \A a : Edit(c, d, a) => Asks(c, d, "edit")
           /\ \A l : AddList(c, d, l) => Asks(c, d, "add")
           /\ \A l, op : ChangeList(c, d, l, op) => Asks(c, d, op)
<1>1. Register(c, d) => Asks(c, d, "register")
  BY DEF Register, Take, Request, Asking, Asks
<1>2. Unregister(c, d) => Asks(c, d, "unregister")
  BY DEF Unregister, Take, Request, Asking, Asks
<1>3. ASSUME NEW a, Edit(c, d, a) PROVE Asks(c, d, "edit")
  <2>1. [Request("edit", "save", d) EXCEPT !.address = a] = Asking("edit", "save", d, None, a, None, FALSE)
    BY WithAddress
  <2>2. work' = [work EXCEPT ![c] = [Request("edit", "save", d) EXCEPT !.address = a]]
    BY <1>3 DEF Edit, Take
  <2>3. work' = [work EXCEPT ![c] = Asking("edit", "save", d, None, a, None, FALSE)]
    BY <2>1, <2>2
  <2> QED
    BY <2>3 DEF Asks
<1>4. ASSUME NEW l, AddList(c, d, l) PROVE Asks(c, d, "add")
  <2> DEFINE stage == IF row[d] = None THEN "insert" ELSE "list"
  <2>1. [Request("add", stage, d) EXCEPT !.list = l] = Asking("add", stage, d, l, None, None, FALSE)
    BY WithList
  <2>2. work' = [work EXCEPT ![c] = [Request("add", stage, d) EXCEPT !.list = l]]
    BY <1>4 DEF AddList, Take
  <2>3. work' = [work EXCEPT ![c] = Asking("add", stage, d, l, None, None, FALSE)]
    BY <2>1, <2>2
  <2> QED
    BY <2>3 DEF Asks
<1>5. ASSUME NEW l, NEW op, ChangeList(c, d, l, op) PROVE Asks(c, d, op)
  <2>1. [Request(op, "first", d) EXCEPT !.list = l] = Asking(op, "first", d, l, None, None, FALSE)
    BY WithList
  <2>2. work' = [work EXCEPT ![c] = [Request(op, "first", d) EXCEPT !.list = l]]
    BY <1>5 DEF ChangeList, Take
  <2>3. work' = [work EXCEPT ![c] = Asking(op, "first", d, l, None, None, FALSE)]
    BY <2>1, <2>2
  <2> QED
    BY <2>3 DEF Asks
<1> QED
  BY <1>1, <1>2, <1>3, <1>4, <1>5

LEMMA TakesKeep ==
    ASSUME NoneApart, AnswerInv, NEW c \in Caller, NEW d \in Requested,
           \/ Register(c, d) \/ Unregister(c, d)
           \/ \E a \in Manual \union {None} : Edit(c, d, a)
           \/ \E l \in List : AddList(c, d, l) \/ ChangeList(c, d, l, "update") \/ ChangeList(c, d, l, "remove")
    PROVE  AnswerInv'
<1>1. UNCHANGED <<seen, answered>>
  BY DEF Register, Unregister, Edit, AddList, ChangeList
<1>2. PICK op \in {"register", "unregister", "edit", "add", "update", "remove"} : Asks(c, d, op)
  BY TakesAsk
<1>3. PICK stage, l, a : work' = [work EXCEPT ![c] = Asking(op, stage, d, l, a, None, FALSE)]
  BY <1>2 DEF Asks
<1>4. op # "sync" /\ d \in Device
  BY DEF NoneApart
<1>5. RequestInv'
  BY <1>1, <1>3, <1>4, TakenIsGrounded DEF AnswerInv
<1> QED
  BY <1>1, <1>5, SeenStays DEF AnswerInv

(* A sync goes where the registry has the device, or looks for it. *)
LEMMA ResolveAsks ==
    ASSUME NoneApart, AnswerInv, NEW c \in Caller, NEW d \in Requested, Resolve(c, d)
    PROVE  \E r : work' = [work EXCEPT ![c] = r] /\ Syncs(r)'
<1> DEFINE manual == IF row[d] = None THEN None ELSE row[d].address
           home == IF seen[d] = None THEN None ELSE seen[d].address
           Ask(stage, address) == Asking("sync", stage, d, None, address, home, FALSE)
<1>1. UNCHANGED <<seen, answered>> /\ d \in Device
  BY DEF Resolve, NoneApart
<1>2. home # None => <<d, home>> \in answered
  BY <1>1 DEF AnswerInv, SeenInv
<1> DEFINE Asked(stage, address) == [Request("sync", stage, d) EXCEPT !.address = address, !.home = home]
<1>3. \A stage, address : Asked(stage, address) = Ask(stage, address)
  BY WithHome
<1>4. work' = [work EXCEPT ![c] =
               CASE home # None /\ seen[d].recent -> Asked("found", home)
                 [] manual # None /\ home \notin {None, manual} /\ ~(seen[d].recent) -> Asked("quick", manual)
                 [] manual # None /\ home \in {None, manual} -> Asked("probe", manual)
                 [] manual = None /\ home # None -> Asked("found", home)
                 [] OTHER -> None]
  BY DEF Resolve
<1>5. \A stage, address : IsRequest(Ask(stage, address))
  BY <1>1 DEF IsRequest, Asking
<1>6. \A stage \in {"found", "quick", "probe"} : \A address :
        (stage = "found" => address = home /\ home # None) /\ (stage = "quick" => home # None)
        => Grounded(Ask(stage, address), answered')
  BY <1>1, <1>2 DEF Grounded, Asking
<1> HIDE DEF manual, home, Ask, Asked
<1> DEFINE r == CASE home # None /\ seen[d].recent -> Ask("found", home)
                 [] manual # None /\ home \notin {None, manual} /\ ~(seen[d].recent) -> Ask("quick", manual)
                 [] manual # None /\ home \in {None, manual} -> Ask("probe", manual)
                 [] manual = None /\ home # None -> Ask("found", home)
                 [] OTHER -> None
<1>7. r = None \/ (r = Ask("found", home) /\ home # None) \/ (r = Ask("quick", manual) /\ home # None) \/ r = Ask("probe", manual)
  <2>1. CASE home # None /\ seen[d].recent
    BY <2>1
  <2>2. CASE ~(home # None /\ seen[d].recent) /\ manual # None /\ home \notin {None, manual} /\ ~(seen[d].recent)
    BY <2>2
  <2>3. CASE manual # None /\ home \in {None, manual} /\ ~(home # None /\ seen[d].recent)
    BY <2>3
  <2>4. CASE manual = None /\ home # None /\ ~(home # None /\ seen[d].recent)
    BY <2>4
  <2>5. CASE ~(home # None /\ seen[d].recent) /\ ~(manual # None /\ home \notin {None, manual} /\ ~(seen[d].recent))
             /\ ~(manual # None /\ home \in {None, manual}) /\ ~(manual = None /\ home # None)
    BY <2>5
  <2> QED
    BY <2>1, <2>2, <2>3, <2>4, <2>5
<1>8. \A stage, address : Ask(stage, address).op = "sync"
  BY DEF Ask, Asking
<1>9. r = None \/ (r.op = "sync" /\ IsRequest(r) /\ Grounded(r, answered'))
  BY <1>5, <1>6, <1>7, <1>8
<1>10. work' = [work EXCEPT ![c] = r]
  BY <1>3, <1>4
<1> HIDE DEF r
<1> QED
  BY <1>9, <1>10 DEF Syncs, IsRequest, Grounded

(* A sync's record, moved on. *)
LEMMA MovedOn ==
    ASSUME NEW r, IsRequest(r), NEW stage, NEW a
    PROVE  /\ [r EXCEPT !.stage = stage] = Asking(r.op, stage, r.device, r.list, r.address, r.home, r.refuted)
           /\ [r EXCEPT !.stage = stage, !.address = a] = Asking(r.op, stage, r.device, r.list, a, r.home, r.refuted)
<1> DEFINE q == [r EXCEPT !.stage = stage]
<1>1. [r EXCEPT !.stage = stage, !.address = a] = [q EXCEPT !.address = a]
  OBVIOUS
<1>2. q = Asking(r.op, stage, r.device, r.list, r.address, r.home, r.refuted)
  BY DEF IsRequest, Asking
<1>3. q = [r EXCEPT !.stage = stage]
  OBVIOUS
<1> HIDE DEF q
<1>4. [q EXCEPT !.address = a] = Asking(r.op, stage, r.device, r.list, a, r.home, r.refuted)
  BY <1>2 DEF Asking
<1> QED
  BY <1>1, <1>2, <1>3, <1>4

(* Found at its old address, where it has just answered; or it is looked for at the manual one. *)
LEMMA QuickProbeAsks ==
    ASSUME NoneApart, AnswerInv, NEW c \in Caller, QuickProbe(c)
    PROVE  /\ \E r : work' = [work EXCEPT ![c] = r] /\ Syncs(r)'
           /\ SeenInv' /\ answered \subseteq answered' /\ work[c] # None /\ work[c].op = "sync"
<1> DEFINE w == work[c]
<1>1. PICK found :
        /\ work' = [work EXCEPT ![c] = IF found = Dev(c) THEN [w EXCEPT !.stage = "found", !.address = w.home]
                                       ELSE [w EXCEPT !.stage = "probe"]]
        /\ answered' = IF found = None THEN answered ELSE answered \union {<<found, w.home>>}
  BY DEF QuickProbe
<1>2. w # None /\ w.op = "sync" /\ w.stage = "quick" /\ UNCHANGED seen
  BY DEF QuickProbe, Turn
<1>3. IsRequest(w) /\ Grounded(w, answered) /\ w.device \in Device /\ answered \subseteq answered'
  BY <1>1, <1>2 DEF AnswerInv, RequestInv, IsRequest
<1> DEFINE r == IF found = Dev(c) THEN [w EXCEPT !.stage = "found", !.address = w.home] ELSE [w EXCEPT !.stage = "probe"]
           With(stage, a) == Asking(w.op, stage, w.device, w.list, a, w.home, w.refuted)
<1>4. r = IF found = Dev(c) THEN With("found", w.home) ELSE With("probe", w.address)
  BY <1>3, MovedOn
<1>5. \A stage, a : IsRequest(With(stage, a))
  BY <1>3 DEF IsRequest, Asking
<1>6. found = Dev(c) => <<w.device, w.home>> \in answered'
  BY <1>1, <1>3 DEF NoneApart, Dev
<1>7. /\ found = Dev(c) => Grounded(With("found", w.home), answered')
      /\ Grounded(With("probe", w.address), answered')
  BY <1>2, <1>3, <1>6 DEF Grounded, Asking
<1>8. r.op = "sync" /\ IsRequest(r) /\ Grounded(r, answered')
  BY <1>2, <1>4, <1>5, <1>7 DEF Asking
<1>9. work' = [work EXCEPT ![c] = r]
  BY <1>1
<1> HIDE DEF r
<1>10. \E q : work' = [work EXCEPT ![c] = q] /\ Syncs(q)'
  BY <1>8, <1>9 DEF Syncs, IsRequest, Grounded
<1> QED
  BY <1>2, <1>3, <1>10, SeenStays DEF AnswerInv

(* Found at its manual address, or taken to be where it was before. *)
LEMMA ManualProbeAsks ==
    ASSUME NoneApart, AnswerInv, NEW c \in Caller, ManualProbe(c)
    PROVE  /\ \E r : work' = [work EXCEPT ![c] = r] /\ Syncs(r)'
           /\ SeenInv' /\ answered \subseteq answered' /\ work[c] # None /\ work[c].op = "sync"
<1> DEFINE w == work[c]
<1>1. PICK found :
        /\ IF found = Dev(c)
           THEN /\ work' = [work EXCEPT ![c].stage = "found"]
                /\ seen' = Added(Dev(c), w.address)
           ELSE work' = FoundElsewhere(c, found) /\ UNCHANGED seen
        /\ answered' = IF found = None THEN answered ELSE answered \union {<<found, w.address>>}
  BY DEF ManualProbe
<1>2. w # None /\ w.op = "sync" /\ w.stage = "probe"
  BY DEF ManualProbe, Turn
<1>3. IsRequest(w) /\ Grounded(w, answered) /\ w.device \in Device /\ answered \subseteq answered'
  BY <1>1, <1>2 DEF AnswerInv, RequestInv, IsRequest
<1> DEFINE r == IF found = Dev(c) THEN [w EXCEPT !.stage = "found"]
                ELSE IF found = None /\ w.home # None THEN [w EXCEPT !.stage = "found", !.address = w.home] ELSE None
           With(a) == Asking(w.op, "found", w.device, w.list, a, w.home, w.refuted)
<1>4. r = IF found = Dev(c) THEN With(w.address) ELSE IF found = None /\ w.home # None THEN With(w.home) ELSE None
  BY <1>3, MovedOn
<1>5. \A a : IsRequest(With(a))
  BY <1>3 DEF IsRequest, Asking
<1>6. found = Dev(c) => <<w.device, w.address>> \in answered'
  BY <1>1, <1>3 DEF NoneApart, Dev
<1>7. /\ found = Dev(c) => Grounded(With(w.address), answered')
      /\ w.home # None => Grounded(With(w.home), answered')
  BY <1>2, <1>3, <1>6 DEF Grounded, Asking
<1>8. r = None \/ (r.op = "sync" /\ IsRequest(r) /\ Grounded(r, answered'))
  BY <1>2, <1>4, <1>5, <1>7 DEF Asking
<1>9. work' = [work EXCEPT ![c] = r]
  BY <1>1 DEF FoundElsewhere
<1> HIDE DEF r
<1>10. \E q : work' = [work EXCEPT ![c] = q] /\ Syncs(q)'
  BY <1>8, <1>9 DEF Syncs, IsRequest, Grounded
<1>11. SeenInv'
  BY <1>1, <1>3, <1>6, AddedIsSeen, SeenStays DEF AnswerInv, Dev
<1> QED
  BY <1>2, <1>3, <1>10, <1>11 DEF AnswerInv

LEMMA SyncKeeps ==
    ASSUME NoneApart, AnswerInv, NEW c \in Caller, QuickProbe(c) \/ ManualProbe(c) \/ \E d \in Requested : Resolve(c, d)
    PROVE  AnswerInv'
<1>1. SeenInv' /\ answered \subseteq answered'
  BY QuickProbeAsks, ManualProbeAsks, SeenStays DEF AnswerInv, Resolve
<1>2. PICK r : work' = [work EXCEPT ![c] = r] /\ Syncs(r)'
  BY QuickProbeAsks, ManualProbeAsks, ResolveAsks
<1>3. r = None \/ (IsRequest(r) /\ Grounded(r, answered'))
  BY <1>2 DEF Syncs, IsRequest, Grounded
<1>4. RequestInv'
  BY <1>1, <1>2, <1>3, OneRequest DEF AnswerInv
<1> QED
  BY <1>1, <1>4 DEF AnswerInv

(* Who answers a broadcast or a ping is seen there. *)
LEMMA AnsweringIsSeen == ASSUME SeenInv, NEW key, NEW a, AddAnswering(key, a) PROVE SeenInv' /\ answered \subseteq answered'
BY AddedIsSeen DEF AddAnswering

LEMMA BroadcastKeeps == ASSUME AnswerInv, HandleDiscovered PROVE AnswerInv'
<1>1. UNCHANGED work
  BY DEF HandleDiscovered
<1>2. CASE seen[heard.key] # None /\ seen' = [seen EXCEPT ![heard.key].recent = TRUE] /\ UNCHANGED answered
  BY <1>1, <1>2, RecentIsSeen, RequestsStay DEF AnswerInv
<1>3. CASE AddAnswering(heard.key, heard.address)
  BY <1>1, <1>3, AnsweringIsSeen, RequestsStay DEF AnswerInv
<1>4. CASE UNCHANGED <<seen, answered>>
  BY <1>1, <1>4, SeenStays, RequestsStay DEF AnswerInv
<1> QED
  BY <1>2, <1>3, <1>4 DEF HandleDiscovered

LEMMA AnswerStep == ASSUME NoneApart, AnswerInv, [Next]_vars PROVE AnswerInv'
<1>1. CASE UNCHANGED <<seen, answered, work>>
  BY <1>1, SeenStays, RequestsStay DEF AnswerInv
<1>2. CASE Stop
  <2>1. SeenInv'
    BY <1>2 DEF Stop, SeenInv
  <2>2. RequestInv'
    BY <1>2 DEF Stop, RequestInv
  <2> QED
    BY <2>1, <2>2 DEF AnswerInv
<1>3. CASE HandleDiscovered
  BY <1>3, BroadcastKeeps
<1>4. ASSUME NEW d \in Device, Age(d) PROVE AnswerInv'
  BY <1>4, RecentIsSeen, RequestsStay DEF Age, AnswerInv
<1>5. ASSUME NEW a \in Address, DirectPing(a) PROVE AnswerInv'
  BY <1>5, AnsweringIsSeen, RequestsStay DEF DirectPing, AnswerInv
<1>6. ASSUME NEW c \in Caller, Rowed(c) \/ QuickProbe(c) \/ ManualProbe(c) PROVE AnswerInv'
  BY <1>6, RowedKeeps, SyncKeeps
<1>7. ASSUME NEW c \in Caller, Sync(c) PROVE AnswerInv'
  BY <1>7, Ends, SeenStays DEF Sync, AnswerInv
<1>8. ASSUME NEW c \in Caller, NEW d \in Requested,
             \/ Register(c, d) \/ Unregister(c, d) \/ Resolve(c, d)
             \/ \E a \in Manual \union {None} : Edit(c, d, a)
             \/ \E l \in List : AddList(c, d, l) \/ ChangeList(c, d, l, "update") \/ ChangeList(c, d, l, "remove")
      PROVE  AnswerInv'
  BY <1>8, TakesKeep, SyncKeeps
<1>9. Start \/ Migrated \/ (\E d \in Device : Migrate(d)) \/ (\E d \in Device, a \in Address : Move(d, a))
      \/ (\E a \in Address : Broadcast(a)) \/ UNCHANGED vars
      => UNCHANGED <<seen, answered, work>>
  BY DEF Start, Migrated, Migrate, Move, Broadcast, vars
<1> QED
  BY <1>1, <1>2, <1>3, <1>4, <1>5, <1>6, <1>7, <1>8, <1>9 DEF Next

(* A sync is sent to an address where its device answered (SyncHandlers'       *)
(* resolution of an address, ProbeDevice); see SentWhereItAnswered.            *)
THEOREM SyncsGoWhereTheyAnswer == ASSUME NoneApart PROVE Spec => []SentWhereItAnswered
<1>1. ASSUME Init PROVE AnswerInv
  BY <1>1 DEF Init, AnswerInv, RequestInv, SeenInv
<1>2. AnswerInv /\ [Next]_vars => AnswerInv'
  BY AnswerStep
<1>3. AnswerInv => SentWhereItAnswered
  BY DEF AnswerInv, RequestInv, Grounded, SentWhereItAnswered, Turn, Dev
<1> QED
  BY <1>1, <1>2, <1>3, PTL DEF Spec

--------------------------------------------------------------------------------
(* A request that changes what is known of a device, and how far it left it:   *)
(* its two steps agree about the set or about the row.                         *)
Changes(c, d) == work[c] # None /\ work[c].device = d /\ work[c].op # "sync"
Midway(op, d) ==
    CASE op = "register" -> d \in registered
      [] op = "unregister" -> d \notin registered
      [] OTHER -> d \in registered /\ row[d] # None

Agree(d) == d \in registered <=> row[d] # None

OneAtATime(d) ==
    /\ \A b, c \in Caller : Changes(b, d) /\ Changes(c, d) => b = c
    /\ \A c \in Caller : Changes(c, d) => Midway(work[c].op, d)
    /\ (\A c \in Caller : ~Changes(c, d)) => Agree(d)

RowInv ==
    /\ row = [d \in Device |-> row[d]]
    /\ \A d \in Device : row[d] # None => row[d] = [address |-> row[d].address, lists |-> row[d].lists]

RegisteredInv ==
    /\ RowInv
    /\ phase \in {"down", "moving", "up"}
    /\ phase # "up" => \A c \in Caller : work[c] = None
    /\ phase = "up" => \A d \in Device \ doubtful : OneAtATime(d)

(* Rows stay rows. *)
LEMMA RowChanges ==
    ASSUME RowInv, NEW d, NEW r, row' = [row EXCEPT ![d] = r],
           d \in Device => r = None \/ r = [address |-> r.address, lists |-> r.lists]
    PROVE  RowInv' /\ (d \in Device => row'[d] = r) /\ \A e \in Device : e # d => row'[e] = row[e]
<1>1. row' = [e \in Device |-> row'[e]]
  BY DEF RowInv
<1>2. ASSUME NEW e \in Device PROVE row'[e] = IF e = d THEN r ELSE row[e]
  BY <1>2 DEF RowInv
<1>3. ASSUME NEW e \in Device, row'[e] # None
      PROVE  row'[e] = [address |-> row'[e].address, lists |-> row'[e].lists]
  BY <1>2, <1>3 DEF RowInv
<1> QED
  BY <1>1, <1>2, <1>3 DEF RowInv

(* A row gets another address, or other lists. *)
LEMMA RowFields ==
    ASSUME NEW r, r = [address |-> r.address, lists |-> r.lists], NEW new
    PROVE  /\ [r EXCEPT !.address = new] = [address |-> new, lists |-> r.lists]
           /\ [r EXCEPT !.lists = new] = [address |-> r.address, lists |-> new]
<1>1. [r EXCEPT !.address = new] = [address |-> new, lists |-> r.lists]
  OBVIOUS
<1>2. [r EXCEPT !.lists = new] = [address |-> r.address, lists |-> new]
  OBVIOUS
<1> QED
  BY <1>1, <1>2

(* What a request does to a row: it makes, keeps, changes or removes it. *)
LEMMA UpsertedRow ==
    ASSUME NoneApart, RowInv, NEW d \in Device, row' = Upserted(d)
    PROVE  RowInv' /\ row'[d] # None /\ \A e \in Device : e # d => row'[e] = row[e]
<1>1. PICK r : r = IF row[d] = None THEN [address |-> None, lists |-> NoLists] ELSE row[d]
  OBVIOUS
<1>2. row' = [row EXCEPT ![d] = r]
  BY <1>1 DEF Upserted
<1>3. r = [address |-> r.address, lists |-> r.lists] /\ r # None
  <2>1. CASE row[d] = None
    <3>1. r = [address |-> None, lists |-> NoLists]
      BY <1>1, <2>1
    <3> QED
      BY <3>1 DEF NoneApart
  <2>2. CASE row[d] # None
    BY <1>1, <2>2 DEF RowInv
  <2> QED
    BY <2>1, <2>2
<1>4. row'[d] = r /\ \A e \in Device : e # d => row'[e] = row[e]
  BY <1>2 DEF RowInv
<1>5. row' = [e \in Device |-> row'[e]]
  BY <1>2 DEF RowInv
<1>6. RowInv'
  BY <1>3, <1>4, <1>5 DEF RowInv
<1> QED
  BY <1>3, <1>4, <1>6

LEMMA OtherAddress ==
    ASSUME NoneApart, RowInv, NEW d \in Device, row[d] # None, NEW a, row' = [row EXCEPT ![d].address = a]
    PROVE  RowInv' /\ row'[d] # None /\ \A e \in Device : e # d => row'[e] = row[e]
<1> DEFINE r == [row[d] EXCEPT !.address = a]
<1>1. row' = [row EXCEPT ![d] = r]
  OBVIOUS
<1>2. r = [address |-> a, lists |-> row[d].lists]
  BY RowFields DEF RowInv
<1>3. r = [address |-> r.address, lists |-> r.lists] /\ r # None
  BY <1>2 DEF NoneApart
<1> HIDE DEF r
<1> QED
  BY <1>1, <1>3, RowChanges

LEMMA OtherLists ==
    ASSUME NoneApart, RowInv, NEW d \in Device, row[d] # None, NEW ls, row' = [row EXCEPT ![d].lists = ls]
    PROVE  RowInv' /\ row'[d] # None /\ \A e \in Device : e # d => row'[e] = row[e]
<1> DEFINE r == [row[d] EXCEPT !.lists = ls]
<1>1. row' = [row EXCEPT ![d] = r]
  OBVIOUS
<1>2. r = [address |-> row[d].address, lists |-> ls]
  BY RowFields DEF RowInv
<1>3. r = [address |-> r.address, lists |-> r.lists] /\ r # None
  BY <1>2 DEF NoneApart
<1> HIDE DEF r
<1> QED
  BY <1>1, <1>3, RowChanges

--------------------------------------------------------------------------------
(* What a request for one device does says nothing of another. *)
LEMMA Elsewhere ==
    ASSUME AnswerInv, AnswerInv', NEW c \in Caller, NEW d, NEW e \in Device, e # d,
           \A b \in Caller \ {c} : work'[b] = work[b],
           work[c] = None \/ work[c].device = d, work'[c] = None \/ work'[c].device = d,
           row'[e] = row[e], e \in registered' <=> e \in registered, OneAtATime(e)
    PROVE  OneAtATime(e)'
<1>1. \A b \in Caller : Changes(b, e)' <=> Changes(b, e)
  BY DEF Changes
<1>2. \A b \in Caller : Changes(b, e) => work'[b] = work[b]
  BY DEF Changes
<1>3. \A op : Midway(op, e)' <=> Midway(op, e)
  BY DEF Midway
<1>4. Agree(e)' <=> Agree(e)
  BY DEF Agree
<1> QED
  BY <1>1, <1>2, <1>3, <1>4 DEF OneAtATime

(* A request begins when no other is under way for its device, *)
LEMMA Begun ==
    ASSUME NEW c \in Caller, NEW d \in Device, \A b \in Caller \ {c} : work'[b] = work[b], work[c] = None,
           \A b \in Caller : ~Changes(b, d), Changes(c, d)', Midway(work[c].op, d)'
    PROVE  OneAtATime(d)'
<1>1. \A b \in Caller : Changes(b, d)' => b = c
  BY DEF Changes
<1> QED
  BY <1>1 DEF OneAtATime

(* goes on, *)
LEMMA WentOn ==
    ASSUME NEW c \in Caller, NEW d \in Device, \A b \in Caller \ {c} : work'[b] = work[b],
           OneAtATime(d), Changes(c, d), Changes(c, d)', Midway(work[c].op, d)'
    PROVE  OneAtATime(d)'
<1>1. \A b \in Caller : Changes(b, d)' => b = c
  BY DEF Changes, OneAtATime
<1> QED
  BY <1>1 DEF OneAtATime

(* or ends. *)
LEMMA Ended ==
    ASSUME NEW c \in Caller, NEW d \in Device, \A b \in Caller \ {c} : work'[b] = work[b],
           OneAtATime(d), Changes(c, d), ~Changes(c, d)', Agree(d)'
    PROVE  OneAtATime(d)'
<1>1. \A b \in Caller : ~Changes(b, d)'
  BY DEF Changes, OneAtATime
<1> QED
  BY <1>1 DEF OneAtATime

(* A sync changes nothing of this. *)
LEMMA SyncLeaves ==
    ASSUME AnswerInv, NEW c \in Caller, NEW r, work' = [work EXCEPT ![c] = r], work[c] = None \/ work[c].op = "sync",
           r = None \/ r.op = "sync", NEW d \in Device, OneAtATime(d), UNCHANGED <<row, registered>>
    PROVE  OneAtATime(d)'
<1>1. \A b \in Caller : work'[b] = IF b = c THEN r ELSE work[b]
  BY DEF AnswerInv, RequestInv
<1>2. \A b \in Caller : Changes(b, d)' <=> Changes(b, d)
  BY <1>1 DEF Changes
<1>3. \A b \in Caller : Changes(b, d) => work'[b] = work[b]
  BY <1>1 DEF Changes
<1>4. (\A op : Midway(op, d)' <=> Midway(op, d)) /\ (Agree(d)' <=> Agree(d))
  BY DEF Midway, Agree
<1> QED
  BY <1>2, <1>3, <1>4 DEF OneAtATime

--------------------------------------------------------------------------------
(* Of the other requests, only one that unregisters takes a row away. *)
LEMMA ListsOfARow ==
    ASSUME NoneApart, RowInv, NEW c \in Caller, NEW d \in Device, d = Dev(c),
           AddDeviceList(c) \/ UpdateDeviceList(c) \/ RemoveDeviceList(c)
    PROVE  RowInv' /\ (row[d] # None => row'[d] # None) /\ \A e \in Device : e # d => row'[e] = row[e]
<1>1. CASE UNCHANGED row
  BY <1>1 DEF RowInv
<1>2. CASE row[d] # None /\ \E ls : row' = [row EXCEPT ![d].lists = ls]
  BY <1>2, OtherLists
<1> DEFINE l == work[c].list
           ls == row[d].lists
<1>3. CASE AddDeviceList(c)
  <2>1. UNCHANGED row \/ (row[d] # None /\ row' = [row EXCEPT ![d].lists[l] = [enabled |-> TRUE, own |-> FALSE]])
    BY <1>3 DEF AddDeviceList
  <2>2. [row EXCEPT ![d].lists[l] = [enabled |-> TRUE, own |-> FALSE]]
        = [row EXCEPT ![d].lists = [ls EXCEPT ![l] = [enabled |-> TRUE, own |-> FALSE]]]
    OBVIOUS
  <2> QED
    BY <1>1, <1>2, <2>1, <2>2
<1>4. CASE UpdateDeviceList(c)
  <2>1. \/ UNCHANGED row
        \/ row[d] # None /\ row' = [row EXCEPT ![d].lists[l].enabled = ~@]
        \/ row[d] # None /\ row' = [row EXCEPT ![d].lists[l].own = TRUE]
    BY <1>4 DEF UpdateDeviceList, HasList
  <2>2. /\ [row EXCEPT ![d].lists[l].enabled = ~@] = [row EXCEPT ![d].lists = [ls EXCEPT ![l].enabled = ~@]]
        /\ [row EXCEPT ![d].lists[l].own = TRUE] = [row EXCEPT ![d].lists = [ls EXCEPT ![l].own = TRUE]]
    OBVIOUS
  <2> QED
    BY <1>1, <1>2, <2>1, <2>2
<1>5. CASE RemoveDeviceList(c)
  <2>1. UNCHANGED row \/ (row[d] # None /\ row' = [row EXCEPT ![d].lists[l] = None])
    BY <1>5 DEF RemoveDeviceList
  <2>2. [row EXCEPT ![d].lists[l] = None] = [row EXCEPT ![d].lists = [ls EXCEPT ![l] = None]]
    OBVIOUS
  <2> QED
    BY <1>1, <1>2, <2>1, <2>2
<1> QED
  BY <1>3, <1>4, <1>5

LEMMA RowedRow ==
    ASSUME NoneApart, RowInv, NEW c \in Caller, NEW d \in Device, d = Dev(c), Rowed(c)
    PROVE  /\ RowInv'
           /\ (row[d] # None /\ work[c].op # "unregister") => row'[d] # None
           /\ \A e \in Device : e # d => row'[e] = row[e]
<1>1. CASE LookForRow(c)
  BY <1>1 DEF LookForRow, RowInv
<1>2. CASE InsertRow(c) \/ SaveEdit(c) \/ InsertMissing(c)
  <2>1. CASE row' = Upserted(d)
    BY <2>1, UpsertedRow
  <2>2. CASE UNCHANGED row
    BY <2>2 DEF RowInv
  <2> QED
    BY <1>2, <2>1, <2>2 DEF InsertRow, SaveEdit, InsertMissing, Unwritten
<1>3. CASE DeleteDevice(c)
  <2>1. CASE row' = [row EXCEPT ![d] = None]
    BY <1>3, <2>1, RowChanges DEF DeleteDevice, Turn
  <2>2. CASE UNCHANGED row
    BY <2>2 DEF RowInv
  <2> QED
    BY <1>3, <2>1, <2>2 DEF DeleteDevice, Unwritten
<1>4. CASE SetDeviceAddress(c)
  <2>1. UNCHANGED row \/ (row[d] # None /\ \E a : row' = [row EXCEPT ![d].address = a])
    BY <1>4 DEF SetDeviceAddress
  <2>2. CASE UNCHANGED row
    BY <2>2 DEF RowInv
  <2> QED
    BY <2>1, <2>2, OtherAddress
<1>5. CASE RowFails(c)
  BY <1>5 DEF RowFails, RowInv
<1> QED
  BY <1>1, <1>2, <1>3, <1>4, <1>5, ListsOfARow DEF Rowed

(* How a request that changes rows goes on. *)
LEMMA RowedWork ==
    ASSUME AnswerInv, NEW c \in Caller, Rowed(c)
    PROVE  /\ Changes(c, Dev(c)) /\ Dev(c) \in Device
           /\ \A b \in Caller \ {c} : work'[b] = work[b]
           /\ work'[c] = None
              \/ (work'[c] # None => work'[c].op = work[c].op /\ work'[c].device = Dev(c))
<1>1. work[c] # None /\ work[c].op # "sync"
  BY DEF Rowed, LookForRow, InsertRow, DeleteDevice, SaveEdit, SetDeviceAddress, InsertMissing, AddDeviceList,
         UpdateDeviceList, RemoveDeviceList, RowFails, Turn
<1>2. Changes(c, Dev(c)) /\ Dev(c) \in Device
  BY <1>1 DEF Changes, Dev, AnswerInv, RequestInv, IsRequest
<1>3. CASE Done(c)
  BY <1>2, <1>3 DEF Done, AnswerInv, RequestInv
<1>4. CASE \E stage : work' = [work EXCEPT ![c].stage = stage]
  <2>1. PICK stage : work' = [work EXCEPT ![c].stage = stage]
    BY <1>4
  <2>2. work'[c] = [work[c] EXCEPT !.stage = stage] /\ \A b \in Caller \ {c} : work'[b] = work[b]
    BY <2>1 DEF AnswerInv, RequestInv
  <2>3. work'[c] = Asking(work[c].op, stage, work[c].device, work[c].list, work[c].address, work[c].home, work[c].refuted)
    BY <1>1, <2>2 DEF AnswerInv, RequestInv, IsRequest, Asking
  <2>4. work'[c].op = work[c].op /\ work'[c].device = work[c].device
    BY <2>3 DEF Asking
  <2> QED
    BY <1>2, <2>2, <2>4 DEF Dev
<1> QED
  BY <1>3, <1>4 DEF Rowed, LookForRow, InsertRow, DeleteDevice, SaveEdit, SetDeviceAddress, InsertMissing, AddDeviceList,
         UpdateDeviceList, RemoveDeviceList, RowFails

LEMMA RowedRegisters == ASSUME NoneApart, AnswerInv, AnswerInv', RegisteredInv, NEW c \in Caller, Rowed(c) PROVE RegisteredInv'
<1>0. PICK d \in Device : d = Dev(c)
  BY RowedWork
<1>1. UNCHANGED <<registered, phase>> /\ doubtful \subseteq doubtful'
  BY DEF Rowed, LookForRow, InsertRow, DeleteDevice, SaveEdit, SetDeviceAddress, InsertMissing, AddDeviceList,
         UpdateDeviceList, RemoveDeviceList, RowFails, Unwritten
<1>2. /\ Changes(c, d) /\ d \in Device /\ work[c].device = d
      /\ \A b \in Caller \ {c} : work'[b] = work[b]
      /\ work'[c] # None => work'[c].op = work[c].op /\ work'[c].device = d
  BY <1>0, RowedWork DEF Dev
<1>3. /\ RowInv'
      /\ (row[d] # None /\ work[c].op # "unregister") => row'[d] # None
      /\ \A e \in Device : e # d => row'[e] = row[e]
  BY <1>0, <1>2, RowedRow DEF RegisteredInv
<1>4. phase = "up"
  BY <1>2 DEF RegisteredInv, Changes
<1>5. ASSUME NEW e \in Device \ doubtful', e # d PROVE OneAtATime(e)'
  <2>1. OneAtATime(e)
    BY <1>1, <1>4, <1>5 DEF RegisteredInv
  <2> QED
    BY <1>1, <1>2, <1>3, <1>5, <2>1, Elsewhere
<1>6. ASSUME d \notin doubtful' PROVE OneAtATime(d)'
  <2>1. OneAtATime(d) /\ Midway(work[c].op, d)
    BY <1>1, <1>2, <1>4, <1>6 DEF RegisteredInv, OneAtATime
  <2>2. CASE work'[c] # None
    <3>1. Changes(c, d)'
      BY <1>2, <2>2 DEF Changes
    <3>2. work'[c].op = work[c].op
      BY <1>2, <2>2
    <3>3. PICK op : op = work[c].op
      OBVIOUS
    <3>4. Midway(op, d)'
      <4>1. CASE op = "unregister"
        BY <1>1, <2>1, <3>3, <4>1 DEF Midway
      <4>2. CASE op = "register"
        BY <1>1, <2>1, <3>3, <4>2 DEF Midway
      <4>3. CASE op \notin {"register", "unregister"}
        BY <1>1, <1>3, <2>1, <3>3, <4>3 DEF Midway
      <4> QED
        BY <4>1, <4>2, <4>3
    <3>5. Midway(work[c].op, d)'
      BY <3>2, <3>3, <3>4
    <3> QED
      BY <1>2, <2>1, <3>1, <3>5, WentOn
  <2>3. CASE work'[c] = None
    <3>1. ~Changes(c, d)'
      BY <2>3 DEF Changes
    <3>2. Agree(d)'
      <4>1. CASE work[c].op = "unregister"
        <5>1. DeleteDevice(c)
          BY <4>1 DEF Rowed, LookForRow, InsertRow, DeleteDevice, SaveEdit, SetDeviceAddress, InsertMissing, AddDeviceList,
                      UpdateDeviceList, RemoveDeviceList, RowFails, Turn
        <5>2. row' = [row EXCEPT ![d] = None]
          BY <1>0, <1>6, <5>1 DEF DeleteDevice, Unwritten
        <5>3. row'[d] = None
          BY <1>2, <5>2 DEF RegisteredInv, RowInv
        <5> QED
          BY <1>1, <2>1, <4>1, <5>3 DEF Midway, Agree
      <4>2. CASE work[c].op = "register"
        <5>1. row'[d] # None
          <6>1. CASE LookForRow(c)
            <7>1. row[d] # None \/ work' = [work EXCEPT ![c].stage = "insert"]
              BY <1>0, <6>1 DEF LookForRow
            <7>2. ASSUME work' = [work EXCEPT ![c].stage = "insert"] PROVE FALSE
              <8>1. work'[c] = [work[c] EXCEPT !.stage = "insert"]
                BY <7>2 DEF AnswerInv, RequestInv
              <8>2. IsRequest(work[c])
                BY <1>2 DEF AnswerInv, RequestInv, Changes
              <8>3. work'[c] = Asking(work[c].op, "insert", work[c].device, work[c].list, work[c].address, work[c].home,
                                      work[c].refuted)
                BY <8>1, <8>2 DEF IsRequest, Asking
              <8> QED
                BY <2>3, <8>3 DEF NoneApart
            <7> QED
              BY <1>3, <4>2, <7>1, <7>2
          <6>2. CASE InsertRow(c)
            BY <1>0, <1>6, <6>2, UpsertedRow DEF InsertRow, Unwritten, RegisteredInv
          <6> QED
            BY <4>2, <6>1, <6>2 DEF Rowed, LookForRow, InsertRow, DeleteDevice, SaveEdit, SetDeviceAddress, InsertMissing,
                                    AddDeviceList, UpdateDeviceList, RemoveDeviceList, RowFails, Turn
        <5> QED
          BY <1>1, <2>1, <4>2, <5>1 DEF Midway, Agree
      <4>3. CASE work[c].op \notin {"register", "unregister"}
        BY <1>1, <1>3, <2>1, <4>3 DEF Midway, Agree
      <4> QED
        BY <4>1, <4>2, <4>3
    <3> QED
      BY <1>2, <2>1, <3>1, <3>2, Ended
  <2> QED
    BY <2>2, <2>3
<1>7. \A e \in Device \ doubtful' : OneAtATime(e)'
  BY <1>5, <1>6
<1> QED
  BY <1>1, <1>3, <1>4, <1>7 DEF RegisteredInv

(* A request is taken: for a device that no other one is for, or it is doubtful; *)
(* to register or unregister one that nobody else is at settles it.            *)
LEMMA TakesRegister ==
    ASSUME NoneApart, AnswerInv, AnswerInv', RegisteredInv, NEW c \in Caller, NEW d \in Requested,
           \/ Register(c, d) \/ Unregister(c, d)
           \/ \E a \in Manual \union {None} : Edit(c, d, a)
           \/ \E l \in List : AddList(c, d, l) \/ ChangeList(c, d, l, "update") \/ ChangeList(c, d, l, "remove")
    PROVE  RegisteredInv'
<1>1. UNCHANGED <<row, phase>> /\ phase = "up" /\ work[c] = None
  BY DEF Register, Unregister, Edit, AddList, ChangeList, Idle
<1> DEFINE Taken(op) ==
        /\ Asks(c, d, op)
        /\ registered' = CASE op = "register" -> registered \union {d} [] op = "unregister" -> registered \ {d} [] OTHER -> registered
        /\ op \in {"update", "remove", "edit"} => row[d] # None \/ d \in doubtful'
        /\ op = "add" => d \in registered
        /\ doubtful \ {d} \subseteq doubtful' /\ (d \notin doubtful' => Others(c, d) = {})
        /\ op \notin {"register", "unregister"} => doubtful \subseteq doubtful'
<1>2. PICK op \in {"register", "unregister", "edit", "add", "update", "remove"} : Taken(op)
  <2>1. ASSUME Register(c, d) PROVE Taken("register")
    BY <2>1, TakesAsk DEF Register, Settle
  <2>2. ASSUME Unregister(c, d) PROVE Taken("unregister")
    BY <2>2, TakesAsk DEF Unregister, Settle
  <2>3. ASSUME NEW a, Edit(c, d, a) PROVE Taken("edit")
    BY <2>3, TakesAsk DEF Edit
  <2>4. ASSUME NEW l, AddList(c, d, l) PROVE Taken("add")
    BY <2>4, TakesAsk DEF AddList, Cross
  <2>5. ASSUME NEW l, NEW op \in {"update", "remove"}, ChangeList(c, d, l, op) PROVE Taken(op)
    BY <2>5, TakesAsk DEF ChangeList, Cross
  <2> HIDE DEF Taken
  <2> QED
    BY <2>1, <2>2, <2>3, <2>4, <2>5
<1>3. PICK stage, l, a : work' = [work EXCEPT ![c] = Asking(op, stage, d, l, a, None, FALSE)]
  BY <1>2 DEF Asks
<1>4. work'[c] = Asking(op, stage, d, l, a, None, FALSE) /\ \A b \in Caller \ {c} : work'[b] = work[b]
  BY <1>3 DEF AnswerInv, RequestInv
<1>5. work'[c] # None /\ work'[c].op = op /\ work'[c].device = d
  BY <1>4 DEF NoneApart, Asking
<1>6. d \in Device /\ op # "sync"
  BY DEF NoneApart
<1>7. ASSUME NEW e \in Device \ doubtful', e # d PROVE OneAtATime(e)'
  <2>1. e \in Device \ doubtful /\ OneAtATime(e)
    BY <1>1, <1>2, <1>7 DEF RegisteredInv
  <2>2. e \in registered' <=> e \in registered
    BY <1>2, <1>7
  <2> QED
    BY <1>1, <1>4, <1>5, <1>7, <2>1, <2>2, Elsewhere
<1>8. ASSUME d \notin doubtful' PROVE OneAtATime(d)'
  <2>2. \A b \in Caller : ~Changes(b, d)
    BY <1>1, <1>2, <1>8 DEF Changes, Others
  <2>4. Changes(c, d)'
    BY <1>5, <1>6 DEF Changes
  <2>5. Midway(op, d)'
    <3>1. CASE op = "register"
      BY <1>2, <3>1 DEF Midway
    <3>2. CASE op = "unregister"
      BY <1>2, <3>2 DEF Midway
    <3>3. CASE op \notin {"register", "unregister"}
      <4>1. OneAtATime(d)
        BY <1>1, <1>2, <1>6, <1>8, <3>3 DEF RegisteredInv
      <4>2. Agree(d)
        BY <2>2, <4>1 DEF OneAtATime
      <4> QED
        BY <1>1, <1>2, <1>8, <3>3, <4>2 DEF Midway, Agree
    <3> QED
      BY <3>1, <3>2, <3>3
  <2>6. Midway(work[c].op, d)'
    BY <1>5, <2>5
  <2> QED
    BY <1>1, <1>4, <1>6, <2>2, <2>4, <2>6, Begun
<1>9. RowInv'
  BY <1>1 DEF RegisteredInv, RowInv
<1>10. \A e \in Device \ doubtful' : OneAtATime(e)'
  BY <1>7, <1>8
<1> QED
  BY <1>1, <1>9, <1>10 DEF RegisteredInv

LEMMA SyncRegisters ==
    ASSUME NoneApart, AnswerInv, RegisteredInv, NEW c \in Caller,
           QuickProbe(c) \/ ManualProbe(c) \/ Sync(c) \/ \E d \in Requested : Resolve(c, d)
    PROVE  RegisteredInv'
<1>1. UNCHANGED <<row, registered, phase, doubtful>> /\ (work[c] = None \/ work[c].op = "sync") /\ phase = "up"
  BY DEF QuickProbe, ManualProbe, Sync, Resolve, Turn, Idle, RegisteredInv
<1>2. PICK r : work' = [work EXCEPT ![c] = r] /\ (r = None \/ r.op = "sync")
  <2>1. CASE Sync(c)
    BY <2>1 DEF Sync, Done
  <2>2. CASE QuickProbe(c) \/ ManualProbe(c) \/ \E d \in Requested : Resolve(c, d)
    <3>1. PICK r : work' = [work EXCEPT ![c] = r] /\ Syncs(r)'
      BY <2>2, QuickProbeAsks, ManualProbeAsks, ResolveAsks
    <3> QED
      BY <3>1 DEF Syncs
  <2> QED
    BY <2>1, <2>2
<1>3. ASSUME NEW d \in Device \ doubtful PROVE OneAtATime(d)'
  BY <1>1, <1>2, <1>3, SyncLeaves DEF RegisteredInv
<1>4. RowInv'
  BY <1>1 DEF RegisteredInv, RowInv
<1> QED
  BY <1>1, <1>3, <1>4 DEF RegisteredInv

(* A start registers who has a row, if it can read the rows: nobody's request is under way. *)
LEMMA StartRegisters ==
    ASSUME RegisteredInv, phase # "up", phase' = "up", LoadRegistered, UNCHANGED <<row, work>>
    PROVE  RegisteredInv'
<1>1. \A c \in Caller : work'[c] = None
  BY DEF RegisteredInv
<1>2. ASSUME NEW d \in Device \ doubtful' PROVE OneAtATime(d)'
  <2>1. \A c \in Caller : ~Changes(c, d)'
    BY <1>1 DEF Changes
  <2>2. Agree(d)'
    BY <1>2 DEF Agree, LoadRegistered, Loaded
  <2> QED
    BY <2>1, <2>2 DEF OneAtATime
<1>3. RowInv'
  BY DEF RegisteredInv, RowInv
<1> QED
  BY <1>1, <1>2, <1>3 DEF RegisteredInv

LEMMA MigrateRegisters == ASSUME NoneApart, RegisteredInv, NEW d \in Device, Migrate(d) PROVE RegisteredInv'
<1>1. PICK r : r = [address |-> None,
                    lists |-> [l \in List |-> IF l \in YamlLists[d] THEN [enabled |-> TRUE, own |-> FALSE] ELSE None]]
  OBVIOUS
<1>2. row' = [row EXCEPT ![d] = r]
  BY <1>1 DEF Migrate
<1>3. r = [address |-> r.address, lists |-> r.lists]
  BY <1>1
<1>4. RowInv'
  BY <1>2, <1>3, RowChanges DEF RegisteredInv
<1> QED
  BY <1>4 DEF RegisteredInv, Migrate

LEMMA NothingRegisters == ASSUME RegisteredInv, UNCHANGED <<row, registered, phase, work, doubtful>> PROVE RegisteredInv'
BY DEF RegisteredInv, RowInv, OneAtATime, Changes, Midway, Agree

LEMMA RegisteredStep == ASSUME NoneApart, AnswerInv, AnswerInv', RegisteredInv, [Next]_vars PROVE RegisteredInv'
<1>1. CASE UNCHANGED <<row, registered, phase, work, doubtful>>
  BY <1>1, NothingRegisters
<1>2. CASE Start
  <2>1. CASE phase' = "moving"
    BY <1>2, <2>1 DEF Start, RegisteredInv, RowInv
  <2>2. CASE phase' = "up"
    BY <1>2, <2>2, StartRegisters DEF Start
  <2> QED
    BY <1>2, <2>1, <2>2 DEF Start
<1>3. CASE Migrated
  BY <1>3, StartRegisters DEF Migrated
<1>4. CASE Stop
  <2>1. RowInv' /\ phase' = "down" /\ \A c \in Caller : work'[c] = None
    BY <1>4 DEF Stop, RegisteredInv, RowInv
  <2> QED
    BY <2>1 DEF RegisteredInv
<1>5. ASSUME NEW d \in Device, Migrate(d) PROVE RegisteredInv'
  BY <1>5, MigrateRegisters
<1>6. ASSUME NEW c \in Caller, Rowed(c) PROVE RegisteredInv'
  BY <1>6, RowedRegisters
<1>7. ASSUME NEW c \in Caller, QuickProbe(c) \/ ManualProbe(c) \/ Sync(c) \/ \E d \in Requested : Resolve(c, d)
      PROVE  RegisteredInv'
  BY <1>7, SyncRegisters
<1>8. ASSUME NEW c \in Caller, NEW d \in Requested,
             \/ Register(c, d) \/ Unregister(c, d)
             \/ \E a \in Manual \union {None} : Edit(c, d, a)
             \/ \E l \in List : AddList(c, d, l) \/ ChangeList(c, d, l, "update") \/ ChangeList(c, d, l, "remove")
      PROVE  RegisteredInv'
  BY <1>8, TakesRegister
<1>9. HandleDiscovered \/ (\E d \in Device : Age(d)) \/ (\E d \in Device, a \in Address : Move(d, a))
      \/ (\E a \in Address : Broadcast(a) \/ DirectPing(a)) \/ UNCHANGED vars
      => UNCHANGED <<row, registered, phase, work, doubtful>>
  BY DEF HandleDiscovered, Age, Move, Broadcast, DirectPing, vars
<1> QED
  BY <1>1, <1>2, <1>3, <1>4, <1>5, <1>6, <1>7, <1>8, <1>9 DEF Next

(* The set that the api answers from and the table agree about a device, once  *)
(* the requests for it are through, if none of them crossed or failed since it *)
(* was last registered, unregistered or loaded; see RegistrationAgrees.        *)
THEOREM DevicesAgree == ASSUME NoneApart PROVE Spec => []RegistrationAgrees
<1>1. ASSUME Init PROVE AnswerInv /\ RegisteredInv
  BY <1>1 DEF Init, AnswerInv, RequestInv, SeenInv, RegisteredInv, RowInv
<1>2. AnswerInv /\ RegisteredInv /\ [Next]_vars => (AnswerInv /\ RegisteredInv)'
  BY AnswerStep, RegisteredStep
<1>3. RegisteredInv => RegistrationAgrees
  <2> SUFFICES ASSUME RegisteredInv, phase = "up", NEW d \in Device \ doubtful,
                      \A c \in Caller : work[c] = None \/ work[c].device # d
               PROVE  (d \in registered <=> row[d] # None) /\ (ShownRegistered(d) <=> row[d] # None)
    BY DEF RegistrationAgrees
  <2>1. Agree(d)
    BY DEF RegisteredInv, OneAtATime, Changes
  <2> QED
    BY <2>1 DEF Agree, ShownRegistered
<1> QED
  BY <1>1, <1>2, <1>3, PTL DEF Spec
================================================================================
