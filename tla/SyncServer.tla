------------------------------ MODULE SyncServer ------------------------------
(***************************************************************************)
(* The server process around a sync (cmd/server.go): the main select loop, *)
(* which handles discovery pings and stop requests one at a time, the      *)
(* "Sync now" calls of the REST API and the direct-ping goroutine, which   *)
(* run beside it, and handleSyncRequest, which all three call.             *)
(*                                                                         *)
(* A call of handleSyncRequest is a process.  Its stage is the next piece  *)
(* of code that takes a lock, touches a channel or talks to the device;    *)
(* between two stages any other goroutine may run.  The session with the   *)
(* device itself (PerformSync) is one stage here and module SyncSession.   *)
(***************************************************************************)
EXTENDS SyncState, FiniteSets

CONSTANTS
    NoDevice,    \* a call that has no device yet
    MaxConn,     \* cfg.Server.MaxConcurrentConnections; 0 means no limit
    MaxQueue     \* capacity of the discovery channel (bound; 10 in the code)

ASSUME NoDeviceAssumption == NoDevice \notin Device
ASSUME MaxConnAssumption == MaxConn \in Nat
ASSUME MaxQueueAssumption == MaxQueue \in Nat

VARIABLES
    stage,     \* call -> where it is in the code
    target,    \* call -> the device it syncs
    verdict,   \* call -> what it will report to the manager
    slots,     \* elements in the syncSemaphore channel
    holding,   \* calls whose deferred receive from syncSemaphore is pending
    loop,      \* the call the main loop is inside of, or NoSession
    queue,     \* the discovery channel: <<device, wants sync>>
    pinged,    \* the direct-ping goroutine has done its one registration
    stopAsked  \* SIGTERM or a restart request waits for the main loop

callVars == <<stage, target, verdict>>
semVars == <<slots, holding>>
loopVars == <<loop, queue, pinged, stopAsked>>
vars == <<managerVars, callVars, semVars, loopVars>>

(* Where a call is: "idle" has not begun, "resolve" looks for the address   *)
(* (API only), "limit" .. "abort" are the steps of handleSyncRequest in the *)
(* order of the code, "done" has returned.  A call that a restart kills is  *)
(* "lost": its goroutine is gone with the process.                          *)
Stage == {"idle", "resolve", "limit", "start", "slot", "config", "sync", "report",
          "unwind", "check", "abort", "done", "lost"}

(* Stages with a pending deferred clean-up: from StartSync to its end. *)
Tracked == {"slot", "config", "sync", "report", "unwind", "check", "abort"}
Running == Tracked \cup {"resolve", "limit", "start"}

Init ==
    /\ ManagerInit
    /\ stage = [s \in Session |-> "idle"]
    /\ target = [s \in Session |-> NoDevice]
    /\ verdict = [s \in Session |-> "none"]
    /\ slots = 0
    /\ holding = {}
    /\ loop = NoSession
    /\ queue = <<>>
    /\ pinged = FALSE
    /\ stopAsked = FALSE

Goto(s, st) == stage' = [stage EXCEPT ![s] = st]

(* A call returns: if the main loop made it, the loop is free again. *)
Return(s) ==
    /\ Goto(s, "done")
    /\ loop' = IF loop = s THEN NoSession ELSE loop
    /\ UNCHANGED <<queue, pinged, stopAsked>>

Begin(s, d, st) ==
    /\ stage[s] = "idle"
    /\ Goto(s, st)
    /\ target' = [target EXCEPT ![s] = d]
    /\ UNCHANGED verdict

-----------------------------------------------------------------------------
(* The listener goroutine puts a parsed broadcast on the channel; when the  *)
(* channel is full it blocks and later datagrams are lost.                  *)
Broadcast(d, wantsSync) ==
    /\ Len(queue) < MaxQueue
    /\ queue' = Append(queue, <<d, wantsSync>>)
    /\ UNCHANGED <<managerVars, callVars, semVars, loop, pinged, stopAsked>>

(* The main loop takes a ping off the channel and handles it itself.  A     *)
(* device that asks gets a sync if the registry knows it or AutoSync is on; *)
(* a ping that does not ask is only answered.  The IP limit, the ignore     *)
(* list, a new device's unreadable comicrack.ini and AutoSync off with a    *)
(* new device end the handling early (the registry is module Devices's).    *)
HandleDiscoveredDevice(s) ==
    /\ loop = NoSession
    /\ queue # <<>>
    /\ queue' = Tail(queue)
    /\ LET d == Head(queue)[1]
           wantsSync == Head(queue)[2]
       IN  \/ UNCHANGED <<callVars, loop>>
           \/ wantsSync /\ loop' = s /\ Begin(s, d, "limit")
    /\ UNCHANGED <<managerVars, semVars, pinged, stopAsked>>

(* triggerManualSync: the early check, under its own lock acquisition. *)
TriggerManualSync(s, d) ==
    /\ ~ IsDeviceSyncing(d)
    /\ Begin(s, d, "resolve")
    /\ UNCHANGED <<managerVars, semVars, loopVars>>

(* resolveSyncTarget either finds no address, which ends the call, or one;  *)
(* the sync is then started in a goroutine of its own.                      *)
ResolveSyncTarget(s) ==
    /\ stage[s] = "resolve"
    /\ \/ Return(s)
       \/ Goto(s, "limit") /\ UNCHANGED loopVars
    /\ UNCHANGED <<managerVars, target, verdict, semVars>>

(* The direct-ping goroutine registers its device once and, when the device *)
(* has lists, syncs it at once; after that it only sends pings.             *)
SendDirectPingAndRegister(s, d) ==
    /\ ~ pinged
    /\ pinged' = TRUE
    /\ Begin(s, d, "limit") \/ UNCHANGED callVars
    /\ UNCHANGED <<managerVars, semVars, loop, queue, stopAsked>>

-----------------------------------------------------------------------------
(* handleSyncRequest, stage by stage. *)

(* deviceLimiter.Allow; the limiter itself is not this module's. *)
CheckDeviceLimit(s) ==
    /\ stage[s] = "limit"
    /\ \/ Return(s)
       \/ Goto(s, "start") /\ UNCHANGED loopVars
    /\ UNCHANGED <<managerVars, target, verdict, semVars>>

StartTracking(s) ==
    /\ stage[s] = "start"
    /\ \/ /\ StartSync(target[s], s)
          /\ Goto(s, "slot")
          /\ UNCHANGED loopVars
       \/ /\ IsDeviceSyncing(target[s])
          /\ Return(s)
          /\ UNCHANGED managerVars
    /\ UNCHANGED <<target, verdict, semVars>>

(* The select on syncSemaphore with its default branch. *)
AcquireSlot(s) ==
    /\ stage[s] = "slot"
    /\ \/ /\ MaxConn = 0
          /\ Goto(s, "config")
          /\ UNCHANGED <<semVars, verdict>>
       \/ /\ slots < MaxConn
          /\ slots' = slots + 1
          /\ holding' = holding \cup {s}
          /\ Goto(s, "config")
          /\ UNCHANGED verdict
       \/ /\ MaxConn > 0 /\ slots >= MaxConn
          /\ verdict' = [verdict EXCEPT ![s] = "failed"]
          /\ Goto(s, "report")
          /\ UNCHANGED semVars
    /\ UNCHANGED <<managerVars, target, loopVars>>

(* The device's configuration: a lookup or list error returns without a     *)
(* report, an unregistered device or lists still warming up report a        *)
(* failure, anything else goes on to the device.                            *)
ApplyConfig(s) ==
    /\ stage[s] = "config"
    /\ \/ Goto(s, "unwind") /\ UNCHANGED verdict
       \/ Goto(s, "report") /\ verdict' = [verdict EXCEPT ![s] = "failed"]
       \/ Goto(s, "sync") /\ UNCHANGED verdict
    /\ UNCHANGED <<managerVars, target, semVars, loopVars>>

(* PerformSync returns, with an error or without. *)
PerformSync(s) ==
    /\ stage[s] = "sync"
    /\ \E v \in {"completed", "failed"} : verdict' = [verdict EXCEPT ![s] = v]
    /\ Goto(s, "report")
    /\ UNCHANGED <<managerVars, target, semVars, loopVars>>

Report(s) ==
    /\ stage[s] = "report"
    /\ IF verdict[s] = "completed" THEN CompleteSync(target[s]) ELSE FailSync(target[s])
    /\ Goto(s, "unwind")
    /\ UNCHANGED <<target, verdict, semVars, loopVars>>

(* The deferred receive, registered last, so it runs first. *)
ReleaseSlot(s) ==
    /\ stage[s] = "unwind"
    /\ slots' = IF s \in holding THEN slots - 1 ELSE slots
    /\ holding' = holding \ {s}
    /\ Goto(s, "check")
    /\ UNCHANGED <<managerVars, target, verdict, loopVars>>

(* Fault: the call returns without the deferred clean-up. *)
CheckStillActiveForgotten(s) ==
    /\ stage[s] = "check"
    /\ Return(s)
    /\ UNCHANGED <<managerVars, target, verdict, semVars>>

(* The deferred clean-up looks first and aborts in a second lock section. *)
CheckStillActive(s) ==
    /\ stage[s] = "check"
    /\ IF IsDeviceSyncing(target[s])
       THEN Goto(s, "abort") /\ UNCHANGED loopVars
       ELSE Return(s)
    /\ UNCHANGED <<managerVars, target, verdict, semVars>>

AbortIfActive(s) ==
    /\ stage[s] = "abort"
    /\ AbortSync(target[s])
    /\ Return(s)
    /\ UNCHANGED <<target, verdict, semVars>>

HandleSyncRequest(s) ==
    \/ CheckDeviceLimit(s) \/ StartTracking(s) \/ AcquireSlot(s) \/ ApplyConfig(s)
    \/ PerformSync(s) \/ Report(s) \/ ReleaseSlot(s) \/ CheckStillActive(s) \/ AbortIfActive(s)

-----------------------------------------------------------------------------
AskToStop ==
    /\ ~ stopAsked
    /\ stopAsked' = TRUE
    /\ UNCHANGED <<managerVars, callVars, semVars, loop, queue, pinged>>

(* The process goes away and a new one starts, with an empty registry, new  *)
(* channels and the history the table has.                                  *)
NewProcess ==
    /\ NewManagerWithStore
    /\ stage' = [s \in Session |-> IF stage[s] \in Running THEN "lost" ELSE stage[s]]
    /\ slots' = 0
    /\ holding' = {}
    /\ loop' = NoSession
    /\ queue' = <<>>
    /\ pinged' = FALSE
    /\ stopAsked' = FALSE
    /\ UNCHANGED <<target, verdict>>

(* Fault: the main loop empties the discovery channel before it stops. *)
ShutdownAfterDrain == loop = NoSession /\ queue = <<>> /\ stopAsked /\ NewProcess

(* The main loop reaches its select and takes the signal or the request. *)
Shutdown == loop = NoSession /\ stopAsked /\ NewProcess

(* SIGKILL, a panic or a power cut, at any point. *)
Crash == NewProcess

Next ==
    \/ \E s \in Session :
          \/ HandleDiscoveredDevice(s)
          \/ ResolveSyncTarget(s)
          \/ HandleSyncRequest(s)
          \/ \E d \in Device : TriggerManualSync(s, d) \/ SendDirectPingAndRegister(s, d)
    \/ \E d \in Device, w \in BOOLEAN : Broadcast(d, w)
    \/ AskToStop \/ Shutdown \/ Crash

(* Every call keeps running: each of its steps returns, PerformSync because *)
(* every exchange with the device has a timeout.  The select of the main    *)
(* loop picks at random among the ready cases, so a stop request that waits *)
(* is taken, although it is not ready while the loop is inside a call.      *)
Fairness ==
    /\ \A s \in Session : WF_vars(ResolveSyncTarget(s) \/ HandleSyncRequest(s))
    /\ SF_vars(Shutdown)

Spec == Init /\ [][Next]_vars
FairSpec == Spec /\ Fairness

-----------------------------------------------------------------------------
(* Type correctness: what each variable of cmd/server.go and of the manager *)
(* may hold.                                                                *)
TypeOK ==
    /\ activeSyncs \in [Device -> Session \cup {NoSession}]
    /\ history \in Seq(Record) /\ Len(history) <= MaxHistory
    /\ stored \in Seq(Record)
    /\ resolved \in Seq(Record)
    /\ stage \in [Session -> Stage]
    /\ target \in [Session -> Device \cup {NoDevice}]
    /\ verdict \in [Session -> {"none", "completed", "failed"}]
    /\ slots \in Nat
    /\ holding \subseteq Session
    /\ loop \in Session \cup {NoSession}
    /\ queue \in Seq(Device \X BOOLEAN) /\ Len(queue) <= MaxQueue
    /\ pinged \in BOOLEAN
    /\ stopAsked \in BOOLEAN

(* The semaphore channel holds one element for each call that still has to  *)
(* take one out, and never more than its capacity: no path through          *)
(* handleSyncRequest leaks a slot or gives one back twice.                  *)
SlotsMatchHolders ==
    /\ slots = Cardinality(holding)
    /\ MaxConn > 0 => slots <= MaxConn
    /\ \A s \in holding : stage[s] \in {"config", "sync", "report", "unwind"}

(* An entry of the active table belongs to a call for that device that is   *)
(* still going to pass the deferred clean-up, so no device is left marked   *)
(* as syncing by a call that has returned: handleSyncRequest's "ensure sync *)
(* state is cleaned up on exit".                                            *)
EntryHasLiveOwner ==
    \A d \in Device :
        IsDeviceSyncing(d) => /\ stage[activeSyncs[d]] \in Tracked
                              /\ target[activeSyncs[d]] = d

(* No call is in the log of results twice, and a call that returned after   *)
(* it had a result to report is there, whatever calls for the same device   *)
(* ran beside it; only a process that died takes calls with it.             *)
EachSyncRecordedOnce ==
    /\ \A i, j \in DOMAIN resolved : resolved[i].by = resolved[j].by => i = j
    /\ \A s \in Session :
          (stage[s] = "done" /\ verdict[s] # "none") => \E i \in DOMAIN resolved : resolved[i].by = s

(* The history a user sees, in memory and in the table, before and after    *)
(* restarts, only lists results that happened, in the order in which they   *)
(* happened, and what a restart shows never ends before the newest result   *)
(* that reached the table.                                                  *)
HistoryInOrder ==
    /\ \A h \in {history, stored} : \A i, j \in DOMAIN h :
          \E k, m \in DOMAIN resolved :
              /\ resolved[k] = h[i] /\ resolved[m] = h[j]
              /\ i < j => k < m
    /\ stored # <<>> =>
          \E k, m \in DOMAIN resolved :
              /\ resolved[k] = Last(stored) /\ history # <<>> /\ resolved[m] = Last(history)
              /\ k <= m

(* A device that is marked as syncing is released again: it can never be    *)
(* locked out of syncing by an entry nobody removes.                        *)
DeviceNeverLockedOut == \A d \in Device : IsDeviceSyncing(d) ~> ~ IsDeviceSyncing(d)

(* A SIGTERM or a restart request is carried out, although the main loop    *)
(* cannot see it while it is inside a sync that a device asked for.         *)
StopIsHonoured == stopAsked ~> ~ stopAsked

(* docs/FEATURES.md says of the per-device tracking that it "prevents same  *)
(* device from syncing twice simultaneously".                               *)
OneSyncPerDevice ==
    \A s, t \in Session :
        (stage[s] = "sync" /\ stage[t] = "sync" /\ target[s] = target[t]) => s = t

=============================================================================
