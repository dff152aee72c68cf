------------------------------ MODULE SyncState ------------------------------
(***************************************************************************)
(* The sync state manager (internal/syncstate/manager.go): the table of    *)
(* active syncs, one entry per device at most, the bounded in-memory       *)
(* history, and the sync_history table of config.db behind it.             *)
(*                                                                         *)
(* Every operation runs under the manager's mutex, so each is one action.  *)
(* An entry is named by the call whose StartSync created it; the           *)
(* operations themselves know devices only, as in the code.                *)
(***************************************************************************)
EXTENDS Naturals, Sequences, SequencesExt

CONSTANTS
    Device,      \* device IDs
    Session,     \* calls of handleSyncRequest; each name is used once
    NoSession,   \* marks a device without an active entry
    MaxHistory   \* the manager's maxHistory, also the rows the table keeps

ASSUME NoSessionAssumption == NoSession \notin Session
ASSUME MaxHistoryAssumption == MaxHistory \in Nat \ {0}

VARIABLES
    activeSyncs,  \* device -> the call that owns its entry, or NoSession
    history,      \* Manager.history, oldest first
    stored,       \* the rows of sync_history, by id
    resolved      \* ghost: every record ever made by this or an earlier process

managerVars == <<activeSyncs, history, stored, resolved>>

Status == {"completed", "failed", "aborted"}
Record == [by : Session, status : Status]

ManagerInit ==
    /\ activeSyncs = [d \in Device |-> NoSession]
    /\ history = <<>>
    /\ stored = <<>>
    /\ resolved = <<>>

-----------------------------------------------------------------------------
(* The most recent n elements of a history. *)
Latest(s, n) == IF Len(s) <= n THEN s ELSE SubSeq(s, Len(s) - n + 1, Len(s))

(* Fault: the query sorts by ascending id, so LIMIT keeps the oldest rows. *)
LoadOldestSyncHistory(rows) ==
    SubSeq(rows, 1, IF Len(rows) < MaxHistory THEN Len(rows) ELSE MaxHistory)

(* LoadRecentSyncHistory: at most MaxHistory rows, newest first as the query *)
(* returns them, then turned round so that the oldest comes first.          *)
LoadRecentSyncHistory(rows) ==
    LET newestFirst == Reverse(rows)
        limit == IF Len(rows) < MaxHistory THEN Len(rows) ELSE MaxHistory
    IN  Reverse(SubSeq(newestFirst, 1, limit))

IsDeviceSyncing(d) == activeSyncs[d] # NoSession

(* AppendSyncHistory inserts, then prunes; either statement may fail, and   *)
(* the manager only logs that.                                              *)
AppendSyncHistory(rec) ==
    stored' \in {stored, Append(stored, rec), Latest(Append(stored, rec), MaxHistory)}

(* addToHistory drops the oldest entry of a full history first. *)
AddToHistory(rec) ==
    /\ history' = Append(IF Len(history) >= MaxHistory THEN Tail(history) ELSE history, rec)
    /\ AppendSyncHistory(rec)
    /\ resolved' = Append(resolved, rec)

StartSync(d, s) ==
    /\ ~ IsDeviceSyncing(d)
    /\ activeSyncs' = [activeSyncs EXCEPT ![d] = s]
    /\ UNCHANGED <<history, stored, resolved>>

(* Fault: the closed entry stays in the table of active syncs. *)
CloseKeepsEntry(d, status) ==
    IF IsDeviceSyncing(d)
    THEN AddToHistory([by |-> activeSyncs[d], status |-> status]) /\ UNCHANGED activeSyncs
    ELSE UNCHANGED managerVars

(* CompleteSync, FailSync and AbortSync share this body: whatever entry the *)
(* device has now is closed, whoever calls; no entry means nothing happens. *)
Close(d, status) ==
    IF IsDeviceSyncing(d)
    THEN /\ AddToHistory([by |-> activeSyncs[d], status |-> status])
         /\ activeSyncs' = [activeSyncs EXCEPT ![d] = NoSession]
    ELSE UNCHANGED managerVars

CompleteSync(d) == Close(d, "completed")
FailSync(d) == Close(d, "failed")
AbortSync(d) == Close(d, "aborted")

(* A new process: nothing is active, the history is warmed from the table. *)
NewManagerWithStore ==
    /\ activeSyncs' = [d \in Device |-> NoSession]
    /\ history' = LoadRecentSyncHistory(stored)
    /\ UNCHANGED <<stored, resolved>>

=============================================================================
