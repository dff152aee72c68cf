-------------------------------- MODULE Komga --------------------------------
(***************************************************************************)
(* Lists pushed to a Komga server (internal/komga, internal/configdb:      *)
(* komga_targets, internal/api: komga_targets, internal/pathmap).          *)
(*                                                                         *)
(* A goroutine pushes the targets it was given, at intervals or when it is *)
(* triggered: it reads what Komga has, makes a collection or read list of  *)
(* the same members for each target, and marks in Komga what is read here. *)
(* Requests change the rows of the targets and hand them over again.       *)
(***************************************************************************)
EXTENDS Naturals, FiniteSets, TLC

CONSTANTS
    List, Book, Caller, Name,
    Form,               \* what a request asks for: [kind, name, enabled, reads]
    Remote, SeriesOf,   \* the books below the local root, and Book -> the series of its folder
    Members,            \* List -> the sets of books it may have
    None,
    MaxRequests, MaxChanges     \* bounds: requests, and what users change here and in Komga

Kind == {"collection", "readlist"}

VARIABLES
    target,         \* List -> its row, a form, or None
    live,           \* the goroutine's targets: forms with a list
    trigger,        \* the channel of one place
    handler,        \* Caller -> [stage, targets], None when there is none
    pass,           \* the pass under way: [stage, left, index, target, queue, known, result], or None
    members,        \* List -> its books, or None when there is no such list
    read,           \* the books that are read here
    group, held,    \* in Komga: <<kind, name>> -> its members, or None; its books
    marked,         \* in Komga: the books that are read
    status, indexError,     \* what is shown: List -> [matched, failed], or None; the index could not be built
    requests, changes,      \* bounds: so far
    taken,          \* ghost: the targets of the latest pass
    overtaken       \* ghost: what the goroutine was last given, or last not given, left it with targets
                    \* that were not the rows any more

vars == <<target, live, trigger, handler, pass, members, read, group, held, marked, status, indexError,
          requests, changes, taken, overtaken>>
rowVars == <<target, live, trigger, handler, requests, overtaken>>
shownVars == <<status, indexError>>
userVars == <<members, read, held, changes>>

(* komgaTargetsFromConfigDB *)
Enabled(rows) == {[list |-> l] @@ rows[l] : l \in {k \in List : rows[k] # None /\ rows[k].enabled}}

(* startKomgaSync: the goroutine begins with a pass. *)
FirstPass == [stage |-> "targets"]
TriggerNow == trigger' = TRUE

Init ==
    /\ target = [l \in List |-> None]
    /\ live = {} /\ trigger = FALSE
    /\ handler = [c \in Caller |-> None]
    /\ pass = FirstPass
    /\ members = [l \in List |-> UNION Members[l]]
    /\ read = {} /\ held = Book /\ marked = {}
    /\ group = [g \in Kind \X Name |-> None]
    /\ status = [l \in List |-> None] /\ indexError = FALSE
    /\ requests = 0 /\ changes = 0
    /\ taken = {} /\ overtaken = FALSE

Row == Form \union {None}
IsTarget(t) == t.list \in List /\ t.enabled
TargetStatus == [matched : 0 .. Cardinality(Book), failed : BOOLEAN]
TypeOK ==
    /\ target \in [List -> Row]
    /\ status \in [List -> TargetStatus \union {None}]
    /\ trigger \in BOOLEAN /\ indexError \in BOOLEAN /\ overtaken \in BOOLEAN
    /\ \A t \in live \union taken : IsTarget(t)
    /\ pass # None /\ pass.stage # "targets" => pass.left \subseteq taken
    /\ \A l \in List : members[l] = None \/ members[l] \subseteq Book
    /\ read \subseteq Book /\ held \subseteq Book /\ marked \subseteq Book
    /\ requests \in 0 .. MaxRequests /\ changes \in 0 .. MaxChanges

(*************************** Targets ****************************************)

CreateKomgaTarget(l, f) == target[l] = None /\ target' = [target EXCEPT ![l] = f]
UpdateKomgaTarget(l, f) == target[l] # None /\ target' = [target EXCEPT ![l] = f]
DeleteKomgaTarget(l) == target[l] # None /\ target' = [target EXCEPT ![l] = None]

(* A request that has changed its row hands the targets over. *)
Asked(c) ==
    /\ handler[c] = None /\ requests < MaxRequests
    /\ requests' = requests + 1
    /\ handler' = [handler EXCEPT ![c] = [stage |-> "read", targets |-> {}]]
    /\ UNCHANGED <<live, trigger, pass, group, marked, shownVars, userVars, taken, overtaken>>

(* handleCreateListKomgaTarget: the list is there. *)
Create(c, l, f) == members[l] # None /\ CreateKomgaTarget(l, f) /\ Asked(c)
Update(c, l, f) == UpdateKomgaTarget(l, f) /\ Asked(c)
Delete(c, l) == DeleteKomgaTarget(l) /\ Asked(c)

(* applyKomgaTargets: the rows are read, *)
ReadTargets(c) ==
    /\ handler[c] # None /\ handler[c].stage = "read"
    /\ handler' = [handler EXCEPT ![c] = [stage |-> "set", targets |-> Enabled(target)]]
    /\ UNCHANGED <<target, live, trigger, pass, group, marked, shownVars, userVars, requests, taken, overtaken>>

(* or cannot be, or not the changed one (handleUpdateListKomgaTarget): nothing is handed over. *)
GiveUp(c) ==
    /\ handler[c] # None /\ handler[c].stage = "read"
    /\ handler' = [handler EXCEPT ![c] = None]
    /\ overtaken' = (overtaken \/ live # Enabled(target))
    /\ UNCHANGED <<target, live, trigger, pass, group, marked, shownVars, userVars, requests, taken>>

Given(c) ==
    /\ live' = handler[c].targets
    /\ overtaken' = (handler[c].targets # Enabled(target))

(* Fault: the pass is triggered first. *)
TriggerThenSet(c) ==
    \/ /\ handler[c].stage = "set"
       /\ trigger' = TRUE
       /\ handler' = [handler EXCEPT ![c].stage = "trigger"]
       /\ UNCHANGED <<live, overtaken>>
    \/ /\ handler[c].stage = "trigger"
       /\ Given(c)
       /\ handler' = [handler EXCEPT ![c] = None]
       /\ UNCHANGED trigger

(* SetTargets, TriggerNow: one request to run that waits is enough. *)
SetThenTrigger(c) ==
    \/ /\ handler[c].stage = "set"
       /\ Given(c)
       /\ handler' = [handler EXCEPT ![c].stage = "trigger"]
       /\ UNCHANGED trigger
    \/ /\ handler[c].stage = "trigger"
       /\ TriggerNow
       /\ handler' = [handler EXCEPT ![c] = None]
       /\ UNCHANGED <<live, overtaken>>

HandOver(c) ==
    /\ handler[c] # None
    /\ SetThenTrigger(c)
    /\ UNCHANGED <<target, pass, group, marked, shownVars, userVars, requests, taken>>

(* A library that was imported asks for a pass. *)
Imported ==
    /\ changes < MaxChanges
    /\ changes' = changes + 1
    /\ TriggerNow
    /\ UNCHANGED <<target, live, handler, pass, members, read, group, held, marked, shownVars, requests, taken, overtaken>>

(* The process ends; the next one is built with the rows there are. *)
Restart ==
    /\ changes < MaxChanges
    /\ changes' = changes + 1
    /\ live' = Enabled(target) /\ overtaken' = FALSE
    /\ trigger' = FALSE
    /\ handler' = [c \in Caller |-> None]
    /\ pass' = FirstPass
    /\ status' = [l \in List |-> None] /\ indexError' = FALSE
    /\ UNCHANGED <<target, members, read, group, held, marked, requests, taken>>

(*************************** A pass *****************************************)

(* Run: the ticker, or the channel, and then syncOnce. *)
Wake ==
    /\ pass = None
    /\ pass' = FirstPass
    /\ trigger' \in {trigger, FALSE}
    /\ UNCHANGED <<target, live, handler, group, marked, shownVars, userVars, requests, taken, overtaken>>

SyncOnce ==
    /\ pass # None /\ pass.stage = "targets"
    /\ taken' = live
    /\ pass' = IF live = {} THEN None ELSE [stage |-> "index", left |-> live]
    /\ UNCHANGED <<rowVars, group, marked, shownVars, userVars>>

(* Of all pages: what Komga had when they were read. *)
ListAllBooks == held

(* BuildIndex; what Komga has may change before it is used. *)
BuildIndex ==
    /\ pass # None /\ pass.stage = "index"
    /\ \/ indexError' = FALSE /\ pass' = [stage |-> "target", left |-> pass.left, index |-> ListAllBooks]
       \/ indexError' = TRUE /\ pass' = None
    /\ UNCHANGED <<rowVars, status, group, marked, userVars, taken>>

(* ResolveReadListBooks, ResolveCollectionSeries, TranslatePath *)
Matched(books) == books \intersect Remote \intersect pass.index
Resolved(t) == IF t.kind = "readlist" THEN Matched(members[t.list]) ELSE {SeriesOf[b] : b \in Matched(members[t.list])}

Result(matched, failed) == [matched |-> matched, failed |-> failed]

(* StatusStore.Record; the targets that are left are those after this one. *)
Recorded(t, result) ==
    /\ status' = [status EXCEPT ![t.list] = result]
    /\ pass' = IF pass.left = {t} THEN None ELSE [stage |-> "target", left |-> pass.left \ {t}, index |-> pass.index]

(* UpsertCollection, UpsertReadList: the members are replaced. *)
Upsert(t) == group' = [group EXCEPT ![<<t.kind, t.name>>] = Resolved(t)]

(* syncTarget: a list that is gone changes nothing in Komga. *)
SyncTarget(t) ==
    /\ pass # None /\ pass.stage = "target" /\ t \in pass.left
    /\ \/ members[t.list] = None /\ Recorded(t, Result(0, TRUE)) /\ UNCHANGED group
       \/ /\ members[t.list] # None
          /\ \E ok \in BOOLEAN :
              /\ IF ok THEN Upsert(t) ELSE UNCHANGED group
              /\ IF t.reads
                 THEN /\ pass' = [stage |-> "reads", left |-> pass.left, index |-> pass.index, target |-> t,
                                  result |-> Result(Cardinality(Resolved(t)), ~ok), queue |-> Matched(members[t.list]) \intersect read, known |-> None]
                      /\ UNCHANGED status
                 ELSE Recorded(t, Result(Cardinality(Resolved(t)), ~ok))
    /\ UNCHANGED <<rowVars, marked, indexError, userVars, taken>>

(* pushReadStatus: what Komga has as read, if it says so, *)
ListReadBookIDs ==
    /\ pass # None /\ pass.stage = "reads" /\ pass.known = None
    /\ \/ pass.queue # {} /\ pass' = [pass EXCEPT !.known = marked]
       \/ pass' = [pass EXCEPT !.known = marked, !.queue = {}]     \* nothing to push, or it does not
    /\ UNCHANGED <<rowVars, group, marked, shownVars, userVars, taken>>

(* The book is marked, or Komga does not do it. *)
MarkRead(b) == {marked, marked \union {b}}

(* and the books it does not have as read, one after the other. *)
SetBookReadProgress(b) ==
    /\ pass # None /\ pass.stage = "reads" /\ pass.known # None /\ b \in pass.queue
    /\ pass' = [pass EXCEPT !.queue = @ \ {b}]
    /\ marked' \in IF b \in pass.known THEN {marked} ELSE MarkRead(b)
    /\ UNCHANGED <<rowVars, group, shownVars, userVars, taken>>

EndTarget ==
    /\ pass # None /\ pass.stage = "reads" /\ pass.known # None /\ pass.queue = {}
    /\ Recorded(pass.target, pass.result)
    /\ UNCHANGED <<rowVars, group, marked, indexError, userVars, taken>>

(*************************** Users ******************************************)

(* Here a list changes or goes, or a book is read; in Komga a book comes or goes, or is marked. *)
Change ==
    /\ changes < MaxChanges
    /\ changes' = changes + 1
    /\ \/ \E l \in List : \E m \in Members[l] \union {None} :
            members' = [members EXCEPT ![l] = m] /\ UNCHANGED <<read, held, marked>>
       \/ \E b \in Book : read' = read \union {b} /\ UNCHANGED <<members, held, marked>>
       \/ \E b \in Book : held' = (held \ {b}) \union ({b} \ held) /\ UNCHANGED <<members, read, marked>>
       \/ \E b \in Book : marked' = (marked \ {b}) \union ({b} \ marked) /\ UNCHANGED <<members, read, held>>
    /\ UNCHANGED <<rowVars, pass, group, shownVars, taken>>

-----------------------------------------------------------------------------
Next ==
    \/ Imported \/ Restart \/ Wake \/ SyncOnce \/ BuildIndex \/ ListReadBookIDs \/ EndTarget \/ Change
    \/ \E t \in taken : SyncTarget(t)
    \/ \E b \in Book : SetBookReadProgress(b)
    \/ \E c \in Caller : ReadTargets(c) \/ GiveUp(c) \/ HandOver(c)
    \/ \E c \in Caller, l \in List : Delete(c, l) \/ \E f \in Form : Create(c, l, f) \/ Update(c, l, f)

Spec == Init /\ [][Next]_vars

-----------------------------------------------------------------------------
(* When no request is under way, no pass runs and none is asked for, the    *)
(* latest pass was made with the targets of the rows: a change is pushed    *)
(* without waiting for the interval (applyKomgaTargets: "takes effect right *)
(* away"), although the goroutine may be in the middle of a pass with other *)
(* targets when it comes and the channel holds one wake-up only.  Not so,   *)
(* until targets are handed over again or the process restarts, after two   *)
(* changes at once of which the second to be handed over was read first,    *)
(* and after a change whose rows could not be read back: then the goroutine *)
(* keeps targets that are not the rows.                                     *)
ChangesArePushed ==
    (/\ \A c \in Caller : handler[c] = None
     /\ pass = None /\ ~trigger /\ ~overtaken)
    => taken = Enabled(target)
=============================================================================
