--------------------------- MODULE SyncServerProofs ---------------------------
(***************************************************************************)
(* Safety of the server process, for any devices, calls and limits: type   *)
(* correctness, the sync slots, the owners of active entries and the log   *)
(* of results.  None of these is inductive alone; IInv is.                 *)
(*                                                                         *)
(* The first part is about the operations of the sync state manager        *)
(* (module SyncState), the second about the server that calls them.        *)
(***************************************************************************)
EXTENDS SyncServer, SequenceTheorems, FiniteSetTheorems, TLAPS

(* The manager's part of the server's type invariant. *)
ManagerTypeOK ==
    /\ activeSyncs \in [Device -> Session \cup {NoSession}]
    /\ history \in Seq(Record) /\ Len(history) <= MaxHistory
    /\ stored \in Seq(Record)
    /\ resolved \in Seq(Record)

(* The most recent n elements of a sequence are a sequence of at most n. *)
LEMMA LatestType ==
    ASSUME NEW S, NEW s \in Seq(S), NEW n \in Nat
    PROVE  Latest(s, n) \in Seq(S) /\ Len(Latest(s, n)) <= n
<1>1. CASE Len(s) <= n
  BY <1>1 DEF Latest
<1>2. CASE Len(s) > n
  <2>1. \A i \in Len(s) - n + 1 .. Len(s) : s[i] \in S
    BY <1>2
  <2>2. /\ SubSeq(s, Len(s) - n + 1, Len(s)) \in Seq(S)
        /\ Len(SubSeq(s, Len(s) - n + 1, Len(s))) <= n
    BY <1>2, <2>1, SubSeqProperties
  <2> QED
    BY <1>2, <2>2 DEF Latest
<1> QED
  BY <1>1, <1>2

(* Turning a sequence round keeps its type and its length. *)
LEMMA ReverseType ==
    ASSUME NEW S, NEW s \in Seq(S)
    PROVE  Reverse(s) \in Seq(S) /\ Len(Reverse(s)) = Len(s)
<1>1. Reverse(s) \in [1 .. Len(s) -> S]
  BY DEF Reverse
<1> QED
  BY <1>1, LenProperties

(* The history a new process loads from the table fits its limit. *)
LEMMA LoadType ==
    ASSUME NEW rows \in Seq(Record)
    PROVE  /\ LoadRecentSyncHistory(rows) \in Seq(Record)
           /\ Len(LoadRecentSyncHistory(rows)) <= MaxHistory
<1> DEFINE newestFirst == Reverse(rows)
           limit == IF Len(rows) < MaxHistory THEN Len(rows) ELSE MaxHistory
           newest == SubSeq(newestFirst, 1, limit)
<1>1. newestFirst \in Seq(Record) /\ Len(newestFirst) = Len(rows)
  BY ReverseType
<1>2. limit \in 0 .. Len(newestFirst) /\ limit <= MaxHistory
  BY <1>1, MaxHistoryAssumption
<1>3. \A i \in 1 .. limit : newestFirst[i] \in Record
  BY <1>1, <1>2
<1> HIDE DEF newestFirst, limit
<1>4. newest \in Seq(Record) /\ Len(newest) <= MaxHistory
  BY <1>2, <1>3, SubSeqProperties, MaxHistoryAssumption
<1>5. LoadRecentSyncHistory(rows) = Reverse(newest)
  BY DEF LoadRecentSyncHistory, newestFirst, limit
<1> QED
  BY <1>4, <1>5, ReverseType

(* addToHistory: one record more at the end of each log, within the limit. *)
LEMMA AddToHistoryType ==
    ASSUME ManagerTypeOK, NEW rec \in Record, AddToHistory(rec)
    PROVE  /\ history' \in Seq(Record) /\ Len(history') <= MaxHistory
           /\ stored' \in Seq(Record)
           /\ resolved' \in Seq(Record)
           /\ resolved' = Append(resolved, rec)
<1>1. resolved' = Append(resolved, rec)
  BY DEF AddToHistory
<1>2. history' \in Seq(Record) /\ Len(history') <= MaxHistory
  <2>1. CASE Len(history) >= MaxHistory
    <3>1. history # <<>>
      BY <2>1, MaxHistoryAssumption DEF ManagerTypeOK
    <3>2. Tail(history) \in Seq(Record) /\ Len(Tail(history)) = Len(history) - 1
      BY <3>1, HeadTailProperties DEF ManagerTypeOK
    <3>3. history' = Append(Tail(history), rec)
      BY <2>1 DEF AddToHistory
    <3> QED
      BY <3>2, <3>3, MaxHistoryAssumption DEF ManagerTypeOK
  <2>2. CASE Len(history) < MaxHistory
    <3>1. history' = Append(history, rec)
      BY <2>2, MaxHistoryAssumption DEF AddToHistory, ManagerTypeOK
    <3> QED
      BY <2>2, <3>1, MaxHistoryAssumption DEF ManagerTypeOK
  <2> QED
    BY <2>1, <2>2, MaxHistoryAssumption DEF ManagerTypeOK
<1>3. stored' \in Seq(Record)
  <2>1. Append(stored, rec) \in Seq(Record)
    BY DEF ManagerTypeOK
  <2>2. Latest(Append(stored, rec), MaxHistory) \in Seq(Record)
    BY <2>1, LatestType, MaxHistoryAssumption
  <2> QED
    BY <2>1, <2>2 DEF AddToHistory, AppendSyncHistory, ManagerTypeOK
<1> QED
  BY <1>1, <1>2, <1>3 DEF ManagerTypeOK

(* CompleteSync, FailSync and AbortSync: the entry of the device is gone    *)
(* afterwards, the others stay, and the owner of a removed entry is the     *)
(* only new name in the log of results.                                     *)
LEMMA CloseEffect ==
    ASSUME ManagerTypeOK, NEW d \in Device, NEW status \in Status, Close(d, status)
    PROVE  /\ ManagerTypeOK'
           /\ activeSyncs' = [activeSyncs EXCEPT ![d] = NoSession]
           /\ \/ activeSyncs[d] = NoSession /\ UNCHANGED resolved
              \/ /\ activeSyncs[d] \in Session
                 /\ resolved' = Append(resolved, [by |-> activeSyncs[d], status |-> status])
<1>1. CASE IsDeviceSyncing(d)
  <2> DEFINE rec == [by |-> activeSyncs[d], status |-> status]
  <2>1. activeSyncs[d] \in Session
    BY <1>1 DEF IsDeviceSyncing, ManagerTypeOK
  <2>2. rec \in Record
    BY <2>1 DEF Record
  <2>3. /\ AddToHistory(rec)
        /\ activeSyncs' = [activeSyncs EXCEPT ![d] = NoSession]
    BY <1>1 DEF Close
  <2> HIDE DEF rec
  <2>4. /\ history' \in Seq(Record) /\ Len(history') <= MaxHistory
        /\ stored' \in Seq(Record)
        /\ resolved' \in Seq(Record)
        /\ resolved' = Append(resolved, rec)
    BY <2>2, <2>3, AddToHistoryType
  <2>5. activeSyncs' \in [Device -> Session \cup {NoSession}]
    BY <2>3 DEF ManagerTypeOK
  <2> QED
    BY <2>1, <2>3, <2>4, <2>5 DEF ManagerTypeOK, rec
<1>2. CASE ~ IsDeviceSyncing(d)
  BY <1>2 DEF Close, IsDeviceSyncing, ManagerTypeOK, managerVars
<1> QED
  BY <1>1, <1>2

(* StartSync only fills the free entry of its device. *)
LEMMA StartSyncEffect ==
    ASSUME ManagerTypeOK, NEW d \in Device, NEW s \in Session, StartSync(d, s)
    PROVE  /\ ManagerTypeOK'
           /\ activeSyncs[d] = NoSession
           /\ activeSyncs' = [activeSyncs EXCEPT ![d] = s]
           /\ UNCHANGED resolved
BY DEF StartSync, IsDeviceSyncing, ManagerTypeOK

(* A new process knows no active sync and loads a history of the limit. *)
LEMMA NewManagerEffect ==
    ASSUME ManagerTypeOK, NewManagerWithStore
    PROVE  /\ ManagerTypeOK'
           /\ activeSyncs' = [d \in Device |-> NoSession]
           /\ UNCHANGED resolved
<1>1. history' \in Seq(Record) /\ Len(history') <= MaxHistory
  BY LoadType DEF NewManagerWithStore, ManagerTypeOK
<1> QED
  BY <1>1 DEF NewManagerWithStore, ManagerTypeOK

-----------------------------------------------------------------------------
(* The order of the results.  Every log but that of all results is an end   *)
(* of an older one, with or without the newest result behind it. *)
IsEnd(g, s) ==
    \E c \in Nat : Len(g) + c = Len(s) /\ \A i \in 1 .. Len(g) : g[i] = s[i + c]

(* What is in h happened, in the order in which log has it. *)
Follows(h, log) ==
    \A i, j \in DOMAIN h :
        \E k, m \in DOMAIN log :
            /\ log[k] = h[i] /\ log[m] = h[j]
            /\ i < j => k < m

(* Latest and LoadRecentSyncHistory give an end, which is empty only when   *)
(* there is nothing. *)
LEMMA LatestIsEnd ==
    ASSUME NEW S, NEW s \in Seq(S), NEW n \in Nat \ {0}
    PROVE  IsEnd(Latest(s, n), s) /\ (s # <<>> => Latest(s, n) # <<>>)
<1>1. CASE Len(s) <= n
  BY <1>1 DEF Latest, IsEnd
<1>2. CASE Len(s) > n
  <2> DEFINE c == Len(s) - n
             end == SubSeq(s, c + 1, Len(s))
  <2>1. c \in Nat /\ \A i \in c + 1 .. Len(s) : s[i] \in S
    BY <1>2
  <2>2. Len(end) = n /\ \A i \in 1 .. n : end[i] = s[i + c]
    BY <1>2, <2>1, SubSeqProperties
  <2>3. Latest(s, n) = end
    BY <1>2 DEF Latest
  <2>4. Len(end) + c = Len(s)
    BY <2>2
  <2> HIDE DEF c, end
  <2>5. IsEnd(end, s)
    BY <2>1, <2>2, <2>4 DEF IsEnd
  <2>6. end # <<>>
    BY <2>2, EmptySeq
  <2> QED
    BY <2>3, <2>5, <2>6
<1> QED
  BY <1>1, <1>2

LEMMA LoadIsEnd ==
    ASSUME NEW rows \in Seq(Record)
    PROVE  /\ IsEnd(LoadRecentSyncHistory(rows), rows)
           /\ rows # <<>> => LoadRecentSyncHistory(rows) # <<>>
<1> DEFINE newestFirst == Reverse(rows)
           limit == IF Len(rows) < MaxHistory THEN Len(rows) ELSE MaxHistory
           newest == SubSeq(newestFirst, 1, limit)
           c == Len(rows) - limit
<1>1. /\ newestFirst \in Seq(Record) /\ Len(newestFirst) = Len(rows)
      /\ \A i \in 1 .. Len(rows) : newestFirst[i] = rows[Len(rows) - i + 1]
  BY ReverseType DEF Reverse
<1>2. limit \in 0 .. Len(rows) /\ c \in Nat /\ (Len(rows) > 0 => limit > 0)
  BY MaxHistoryAssumption
<1>3. \A i \in 1 .. limit : newestFirst[i] \in Record
  BY <1>1, <1>2
<1> HIDE DEF newestFirst, limit
<1>4. /\ newest \in Seq(Record) /\ Len(newest) = limit
      /\ \A i \in 1 .. limit : newest[i] = newestFirst[i]
  BY <1>1, <1>2, <1>3, SubSeqProperties
<1> HIDE DEF newest
<1>5. Len(Reverse(newest)) = limit /\ \A i \in 1 .. limit : Reverse(newest)[i] = rows[i + c]
  <2>1. Len(Reverse(newest)) = limit /\ \A i \in 1 .. limit : Reverse(newest)[i] = newest[limit - i + 1]
    BY <1>4, ReverseType DEF Reverse
  <2>2. ASSUME NEW i \in 1 .. limit PROVE Reverse(newest)[i] = rows[i + c]
    <3>1. limit - i + 1 \in 1 .. limit
      BY <1>2
    <3>2. Reverse(newest)[i] = newestFirst[limit - i + 1]
      BY <1>4, <2>1, <3>1
    <3>3. Len(rows) - (limit - i + 1) + 1 = i + c
      BY <1>2, <3>1
    <3> QED
      BY <1>1, <1>2, <3>1, <3>2, <3>3
  <2> QED
    BY <2>1, <2>2
<1>6. LoadRecentSyncHistory(rows) = Reverse(newest)
  BY DEF LoadRecentSyncHistory, newestFirst, limit, newest
<1>7. Len(Reverse(newest)) + c = Len(rows)
  BY <1>2, <1>5
<1> HIDE DEF c
<1>8. IsEnd(Reverse(newest), rows)
  BY <1>2, <1>5, <1>7 DEF IsEnd
<1>9. rows # <<>> => Reverse(newest) # <<>>
  BY <1>2, <1>5, EmptySeq
<1> QED
  BY <1>6, <1>8, <1>9

(* An end of what follows a log follows it. *)
LEMMA EndFollows ==
    ASSUME NEW h \in Seq(Record), NEW g \in Seq(Record), NEW log \in Seq(Record),
           IsEnd(g, h), Follows(h, log)
    PROVE  Follows(g, log)
<1>1. PICK c \in Nat : Len(g) + c = Len(h) /\ \A i \in 1 .. Len(g) : g[i] = h[i + c]
  BY DEF IsEnd
<1>2. ASSUME NEW i \in 1 .. Len(g), NEW j \in 1 .. Len(g)
      PROVE  \E k, m \in DOMAIN log : log[k] = g[i] /\ log[m] = g[j] /\ (i < j => k < m)
  <2>1. i + c \in DOMAIN h /\ j + c \in DOMAIN h
    BY <1>1
  <2>2. PICK k \in DOMAIN log, m \in DOMAIN log :
            log[k] = h[i + c] /\ log[m] = h[j + c] /\ (i + c < j + c => k < m)
    BY <2>1 DEF Follows
  <2> QED
    BY <1>1, <2>2
<1>3. DOMAIN g = 1 .. Len(g)
  OBVIOUS
<1> QED
  BY <1>2, <1>3 DEF Follows

(* One result more. *)
LEMMA ResultFollows ==
    ASSUME NEW h \in Seq(Record), NEW log \in Seq(Record), NEW rec \in Record, Follows(h, log)
    PROVE  /\ Follows(h, Append(log, rec))
           /\ Follows(Append(h, rec), Append(log, rec))
<1> DEFINE longer == Append(log, rec)
           n == Len(log)
<1>1. /\ n \in Nat /\ DOMAIN log = 1 .. n /\ DOMAIN longer = 1 .. n + 1
      /\ \A k \in 1 .. n : longer[k] = log[k]
      /\ longer[n + 1] = rec
  OBVIOUS
<1>2. /\ DOMAIN h = 1 .. Len(h) /\ DOMAIN Append(h, rec) = 1 .. Len(h) + 1
      /\ \A i \in 1 .. Len(h) : Append(h, rec)[i] = h[i]
      /\ Append(h, rec)[Len(h) + 1] = rec
      /\ Len(h) \in Nat
  OBVIOUS
<1> HIDE DEF longer, n
<1>3. ASSUME NEW i \in DOMAIN h, NEW j \in DOMAIN h
      PROVE  \E k, m \in DOMAIN longer :
                longer[k] = h[i] /\ longer[m] = h[j] /\ (i < j => k < m)
  <2>1. PICK k \in DOMAIN log, m \in DOMAIN log :
            log[k] = h[i] /\ log[m] = h[j] /\ (i < j => k < m)
    BY DEF Follows
  <2>2. /\ k \in DOMAIN longer /\ m \in DOMAIN longer
        /\ longer[k] = log[k] /\ longer[m] = log[m]
    BY <1>1
  <2> QED
    BY <2>1, <2>2
<1>4. Follows(h, longer)
  BY <1>3 DEF Follows
<1>5. ASSUME NEW i \in 1 .. Len(h) + 1, NEW j \in 1 .. Len(h) + 1
      PROVE  \E k, m \in DOMAIN longer :
                longer[k] = Append(h, rec)[i] /\ longer[m] = Append(h, rec)[j] /\ (i < j => k < m)
  <2>1. CASE i \in 1 .. Len(h) /\ j \in 1 .. Len(h)
    <3>1. PICK k \in DOMAIN longer, m \in DOMAIN longer :
              longer[k] = h[i] /\ longer[m] = h[j] /\ (i < j => k < m)
      BY <1>2, <1>3, <2>1
    <3>2. Append(h, rec)[i] = h[i] /\ Append(h, rec)[j] = h[j]
      BY <1>2, <2>1
    <3> QED
      BY <3>1, <3>2
  <2>2. CASE i \in 1 .. Len(h) /\ j = Len(h) + 1
    <3>1. PICK k \in DOMAIN log : log[k] = h[i]
      BY <1>2, <2>2 DEF Follows
    <3>2. k \in DOMAIN longer /\ n + 1 \in DOMAIN longer /\ k < n + 1
      BY <1>1
    <3> QED
      BY <1>1, <1>2, <2>2, <3>1, <3>2
  <2>3. CASE i = Len(h) + 1 /\ j \in 1 .. Len(h)
    <3>1. PICK m \in DOMAIN log : log[m] = h[j]
      BY <1>2, <2>3 DEF Follows
    <3>2. m \in DOMAIN longer /\ n + 1 \in DOMAIN longer /\ ~ (i < j)
      BY <1>1, <1>2, <2>3
    <3> QED
      BY <1>1, <1>2, <2>3, <3>1, <3>2
  <2>4. CASE i = Len(h) + 1 /\ j = Len(h) + 1
    <3>1. n + 1 \in DOMAIN longer /\ ~ (i < j)
      BY <1>1, <1>2, <2>4
    <3> QED
      BY <1>1, <1>2, <2>4, <3>1
  <2> QED
    BY <1>2, <2>1, <2>2, <2>3, <2>4
<1>6. Follows(Append(h, rec), longer)
  BY <1>2, <1>5 DEF Follows
<1> QED
  BY <1>4, <1>6 DEF longer

(* The newest row of the table is not younger than the newest result in memory. *)
NewestIsShown ==
    stored # <<>> =>
        \E k, m \in DOMAIN resolved :
            /\ resolved[k] = Last(stored) /\ history # <<>> /\ resolved[m] = Last(history)
            /\ k <= m

LogsFollow == Follows(history, resolved) /\ Follows(stored, resolved)

(* A result is added to all three logs or to all but the table; what a full *)
(* log loses is at its other end. *)
LEMMA AddToHistoryFollows ==
    ASSUME ManagerTypeOK, LogsFollow, NEW rec \in Record, AddToHistory(rec)
    PROVE  LogsFollow' /\ NewestIsShown'
<1> DEFINE older == IF Len(history) >= MaxHistory THEN Tail(history) ELSE history
           longer == Append(stored, rec)
<1>1. /\ history' = Append(older, rec) /\ resolved' = Append(resolved, rec)
      /\ stored' \in {stored, longer, Latest(longer, MaxHistory)}
  BY DEF AddToHistory, AppendSyncHistory
<1>2. older \in Seq(Record) /\ IsEnd(older, history)
  <2>1. CASE Len(history) >= MaxHistory
    <3>1. history # <<>>
      BY <2>1, MaxHistoryAssumption DEF ManagerTypeOK
    <3>2. /\ Tail(history) \in Seq(Record) /\ Len(Tail(history)) + 1 = Len(history)
          /\ \A i \in 1 .. Len(Tail(history)) : Tail(history)[i] = history[i + 1]
      BY <3>1, HeadTailProperties DEF ManagerTypeOK
    <3> QED
      BY <2>1, <3>2 DEF IsEnd
  <2>2. CASE ~ Len(history) >= MaxHistory
    BY <2>2 DEF IsEnd, ManagerTypeOK
  <2> QED
    BY <2>1, <2>2
<1> HIDE DEF older
<1>3. Follows(history', resolved')
  BY <1>1, <1>2, EndFollows, ResultFollows DEF LogsFollow, ManagerTypeOK
<1>4. longer \in Seq(Record) /\ longer # <<>>
  BY DEF ManagerTypeOK
<1>5. /\ Latest(longer, MaxHistory) \in Seq(Record)
      /\ IsEnd(Latest(longer, MaxHistory), longer) /\ Latest(longer, MaxHistory) # <<>>
  BY <1>4, LatestType, LatestIsEnd, MaxHistoryAssumption
<1>6. Follows(stored, resolved') /\ Follows(longer, resolved')
  BY <1>1, ResultFollows DEF LogsFollow, ManagerTypeOK
<1>7. stored' \in Seq(Record) /\ resolved' \in Seq(Record)
  BY AddToHistoryType
<1> HIDE DEF longer
<1>8. Follows(stored', resolved')
  BY <1>1, <1>4, <1>5, <1>6, <1>7, EndFollows DEF ManagerTypeOK
<1>9. ASSUME stored' # <<>>
      PROVE  \E k, m \in DOMAIN resolved' :
                /\ resolved'[k] = Last(stored') /\ history' # <<>> /\ resolved'[m] = Last(history')
                /\ k <= m
  <2>1. Len(stored') \in DOMAIN stored' /\ Last(stored') = stored'[Len(stored')]
    BY <1>7, <1>9, EmptySeq DEF Last
  <2>2. PICK k \in DOMAIN resolved' : resolved'[k] = Last(stored')
    BY <1>8, <2>1 DEF Follows
  <2>3. history' # <<>> /\ Last(history') = rec
    BY <1>1, <1>2 DEF Last
  <2>4. /\ Len(resolved) + 1 \in DOMAIN resolved' /\ resolved'[Len(resolved) + 1] = rec
        /\ \A i \in DOMAIN resolved' : i <= Len(resolved) + 1
    BY <1>1 DEF ManagerTypeOK
  <2> QED
    BY <2>2, <2>3, <2>4
<1> QED
  BY <1>3, <1>8, <1>9 DEF LogsFollow, NewestIsShown

(* CompleteSync, FailSync, AbortSync, *)
LEMMA CloseFollows ==
    ASSUME ManagerTypeOK, LogsFollow, NewestIsShown, NEW d \in Device, NEW status \in Status, Close(d, status)
    PROVE  LogsFollow' /\ NewestIsShown'
<1>1. CASE IsDeviceSyncing(d)
  <2> DEFINE rec == [by |-> activeSyncs[d], status |-> status]
  <2>1. rec \in Record
    BY <1>1 DEF IsDeviceSyncing, ManagerTypeOK, Record
  <2>2. AddToHistory(rec)
    BY <1>1 DEF Close
  <2> QED
    BY <2>1, <2>2, AddToHistoryFollows
<1>2. CASE ~ IsDeviceSyncing(d)
  BY <1>2 DEF Close, managerVars, LogsFollow, NewestIsShown, Follows
<1> QED
  BY <1>1, <1>2

(* and a restart, which loads the end of the table. *)
LEMMA NewManagerFollows ==
    ASSUME ManagerTypeOK, LogsFollow, NewManagerWithStore
    PROVE  LogsFollow' /\ NewestIsShown'
<1>1. history' = LoadRecentSyncHistory(stored) /\ UNCHANGED <<stored, resolved>>
  BY DEF NewManagerWithStore
<1>2. /\ history' \in Seq(Record) /\ stored \in Seq(Record) /\ resolved \in Seq(Record)
      /\ IsEnd(history', stored) /\ (stored # <<>> => history' # <<>>)
  BY <1>1, LoadType, LoadIsEnd DEF ManagerTypeOK
<1>3. Follows(history', resolved)
  BY <1>2, EndFollows DEF LogsFollow
<1>4. ASSUME stored # <<>>
      PROVE  \E k \in DOMAIN resolved :
                resolved[k] = Last(stored) /\ history' # <<>> /\ resolved[k] = Last(history')
  <2>1. Len(stored) \in DOMAIN stored /\ Last(stored) = stored[Len(stored)]
    BY <1>2, <1>4, EmptySeq DEF Last
  <2>2. PICK k \in DOMAIN resolved : resolved[k] = Last(stored)
    BY <2>1 DEF LogsFollow, Follows
  <2>3. Last(history') = Last(stored)
    <3>1. PICK c \in Nat : Len(history') + c = Len(stored) /\ \A i \in 1 .. Len(history') : history'[i] = stored[i + c]
      BY <1>2 DEF IsEnd
    <3>2. Len(history') \in 1 .. Len(history')
      BY <1>2, <1>4, EmptySeq
    <3> QED
      BY <2>1, <3>1, <3>2 DEF Last
  <2> QED
    BY <1>2, <1>4, <2>2, <2>3
<1>5. NewestIsShown'
  BY <1>1, <1>2, <1>4 DEF NewestIsShown
<1> QED
  BY <1>1, <1>3, <1>5 DEF LogsFollow, Follows

-----------------------------------------------------------------------------

(* The rest of the server's type invariant. *)
CallTypeOK ==
    /\ stage \in [Session -> Stage]
    /\ target \in [Session -> Device \cup {NoDevice}]
    /\ verdict \in [Session -> {"none", "completed", "failed"}]
    /\ slots \in Nat
    /\ holding \subseteq Session
    /\ loop \in Session \cup {NoSession}
    /\ queue \in Seq(Device \X BOOLEAN) /\ Len(queue) <= MaxQueue
    /\ pinged \in BOOLEAN
    /\ stopAsked \in BOOLEAN

(* A call that runs has a device, which is what the manager is asked about. *)
RunningHasDevice == \A s \in Session : stage[s] \in Running => target[s] \in Device

Recorded(s) == \E i \in DOMAIN resolved : resolved[i].by = s

Started == Tracked \cup {"done", "lost"}

(* A call on its way from StartSync to its clean-up owns the entry of its   *)
(* device, or somebody has closed that entry and thereby recorded the call. *)
OwnerOrRecorded ==
    \A s \in Session : stage[s] \in Tracked => activeSyncs[target[s]] = s \/ Recorded(s)

(* A recorded call has passed StartSync and owns no entry any more, so it   *)
(* is not recorded again. *)
RecordedIsOver ==
    \A s \in Session : Recorded(s) => /\ stage[s] \in Started
                                      /\ \A d \in Device : activeSyncs[d] # s

RecordedOnce == \A i, j \in DOMAIN resolved : resolved[i].by = resolved[j].by => i = j

(* Only a call that passed StartSync has something to report, and when it   *)
(* has returned it is recorded. *)
ReporterRecorded ==
    \A s \in Session :
        verdict[s] # "none" => stage[s] \in Started /\ (stage[s] = "done" => Recorded(s))

BaseInv == TypeOK /\ RunningHasDevice /\ IsFiniteSet(holding) /\ SlotsMatchHolders
LogInv == OwnerOrRecorded /\ RecordedIsOver /\ RecordedOnce /\ ReporterRecorded
IInv == BaseInv /\ EntryHasLiveOwner /\ LogInv

-----------------------------------------------------------------------------
(* Every step is one of these. *)
LEMMA StepCases ==
    ASSUME [Next]_vars
    PROVE  \/ \E s \in Session :
                 \/ HandleDiscoveredDevice(s) \/ ResolveSyncTarget(s)
                 \/ CheckDeviceLimit(s) \/ StartTracking(s) \/ AcquireSlot(s)
                 \/ ApplyConfig(s) \/ PerformSync(s) \/ Report(s) \/ ReleaseSlot(s)
                 \/ CheckStillActive(s) \/ AbortIfActive(s)
                 \/ \E d \in Device : TriggerManualSync(s, d) \/ SendDirectPingAndRegister(s, d)
           \/ \E d \in Device, w \in BOOLEAN : Broadcast(d, w)
           \/ AskToStop \/ NewProcess \/ UNCHANGED vars
BY DEF Next, HandleSyncRequest, Shutdown, Crash

(* A call that begins was idle; nothing happens to the others. *)
LEMMA BeginEffect ==
    ASSUME stage \in [Session -> Stage], target \in [Session -> Device \cup {NoDevice}],
           NEW s \in Session, NEW d \in Device, NEW st \in {"resolve", "limit"},
           Begin(s, d, st) \/ UNCHANGED callVars
    PROVE  /\ stage' \in [Session -> Stage] /\ target' \in [Session -> Device \cup {NoDevice}]
           /\ verdict' = verdict
           /\ \A t \in Session : \/ stage'[t] = stage[t] /\ target'[t] = target[t]
                                 \/ stage[t] = "idle" /\ stage'[t] = st /\ target'[t] = d
<1>1. CASE UNCHANGED callVars
  BY <1>1 DEF callVars
<1>2. CASE Begin(s, d, st)
  BY <1>2 DEF Begin, Goto, Stage
<1> QED
  BY <1>1, <1>2

(* The type invariant, the devices of running calls and the slots. *)
LEMMA BaseStep == BaseInv /\ [Next]_vars => BaseInv'
<1> SUFFICES ASSUME BaseInv, [Next]_vars PROVE BaseInv'
  OBVIOUS
<1> USE NoDeviceAssumption, NoSessionAssumption, MaxConnAssumption, MaxQueueAssumption
<1> USE DEF BaseInv, CallTypeOK, RunningHasDevice, SlotsMatchHolders, Running, Tracked, Stage
<1>a. ManagerTypeOK /\ CallTypeOK
  BY DEF TypeOK, ManagerTypeOK, CallTypeOK
<1>b. ManagerTypeOK' /\ CallTypeOK' => TypeOK'
  BY DEF TypeOK, ManagerTypeOK, CallTypeOK
<1>m. ASSUME UNCHANGED managerVars PROVE ManagerTypeOK'
  BY <1>m, <1>a DEF managerVars, ManagerTypeOK
<1>1. ASSUME NEW s \in Session, HandleDiscoveredDevice(s) PROVE BaseInv'
  <2>1. /\ Tail(queue) \in Seq(Device \X BOOLEAN)
        /\ Len(Tail(queue)) <= MaxQueue
        /\ Head(queue) \in Device \X BOOLEAN
    BY <1>1, <1>a, HeadTailProperties DEF HandleDiscoveredDevice
  <2> QED
    BY <1>1, <1>a, <1>m, <2>1, <1>b
      DEF HandleDiscoveredDevice, Begin, Goto, callVars, semVars
<1>2. ASSUME NEW s \in Session, ResolveSyncTarget(s) PROVE BaseInv'
  BY <1>2, <1>a, <1>m, <1>b
    DEF ResolveSyncTarget, Return, Goto, semVars, loopVars
<1>3. ASSUME NEW s \in Session, CheckDeviceLimit(s) PROVE BaseInv'
  BY <1>3, <1>a, <1>m, <1>b
    DEF CheckDeviceLimit, Return, Goto, semVars, loopVars
<1>4. ASSUME NEW s \in Session, StartTracking(s) PROVE BaseInv'
  <2>1. target[s] \in Device
    BY <1>4 DEF StartTracking
  <2>2. ManagerTypeOK'
    BY <1>4, <1>a, <1>m, <2>1, StartSyncEffect DEF StartTracking
  <2> QED
    BY <1>4, <1>a, <2>2, <1>b DEF StartTracking, Return, Goto, semVars, loopVars
<1>5. ASSUME NEW s \in Session, AcquireSlot(s) PROVE BaseInv'
  <2>1. CASE UNCHANGED semVars
    BY <1>5, <1>a, <1>m, <2>1, <1>b DEF AcquireSlot, Goto, semVars, loopVars
  <2>2. CASE slots < MaxConn /\ slots' = slots + 1 /\ holding' = holding \cup {s}
    <3>1. s \notin holding
      BY <1>5 DEF AcquireSlot
    <3>2. IsFiniteSet(holding') /\ slots' = Cardinality(holding')
      BY <2>2, <3>1, FS_AddElement
    <3> QED
      BY <1>5, <1>a, <1>m, <2>2, <3>2, <1>b DEF AcquireSlot, Goto, semVars, loopVars
  <2> QED
    BY <1>5, <2>1, <2>2 DEF AcquireSlot
<1>6. ASSUME NEW s \in Session, ApplyConfig(s) PROVE BaseInv'
  BY <1>6, <1>a, <1>m, <1>b DEF ApplyConfig, Goto, semVars, loopVars
<1>7. ASSUME NEW s \in Session, PerformSync(s) PROVE BaseInv'
  BY <1>7, <1>a, <1>m, <1>b DEF PerformSync, Goto, semVars, loopVars
<1>8. ASSUME NEW s \in Session, Report(s) PROVE BaseInv'
  <2>1. target[s] \in Device
    BY <1>8 DEF Report
  <2>2. ManagerTypeOK'
    BY <1>8, <1>a, <2>1, CloseEffect DEF Report, CompleteSync, FailSync, Status
  <2> QED
    BY <1>8, <1>a, <2>2, <1>b DEF Report, Goto, semVars, loopVars
<1>9. ASSUME NEW s \in Session, ReleaseSlot(s) PROVE BaseInv'
  <2>1. /\ IsFiniteSet(holding')
        /\ slots' = Cardinality(holding')
        /\ slots' \in Nat /\ slots' <= slots
    BY <1>9, <1>a, FS_RemoveElement, FS_CardinalityType, FS_EmptySet DEF ReleaseSlot
  <2> QED
    BY <1>9, <1>a, <1>m, <2>1, <1>b DEF ReleaseSlot, Goto, loopVars
<1>10. ASSUME NEW s \in Session, CheckStillActive(s) PROVE BaseInv'
  BY <1>10, <1>a, <1>m, <1>b
    DEF CheckStillActive, Return, Goto, semVars, loopVars
<1>11. ASSUME NEW s \in Session, AbortIfActive(s) PROVE BaseInv'
  <2>1. target[s] \in Device
    BY <1>11 DEF AbortIfActive
  <2>2. ManagerTypeOK'
    BY <1>11, <1>a, <2>1, CloseEffect DEF AbortIfActive, AbortSync, Status
  <2> QED
    BY <1>11, <1>a, <2>2, <1>b DEF AbortIfActive, Return, Goto, semVars, loopVars
<1>12. ASSUME NEW s \in Session, NEW d \in Device,
              TriggerManualSync(s, d) \/ SendDirectPingAndRegister(s, d)
       PROVE BaseInv'
  <2>1. UNCHANGED <<managerVars, semVars, loop, queue, stopAsked>> /\ pinged' \in BOOLEAN
    BY <1>12, <1>a DEF TriggerManualSync, SendDirectPingAndRegister, loopVars
  <2>2. PICK st \in {"resolve", "limit"} : Begin(s, d, st) \/ UNCHANGED callVars
    BY <1>12 DEF TriggerManualSync, SendDirectPingAndRegister
  <2>3. CallTypeOK' /\ RunningHasDevice'
    BY <1>a, <2>1, <2>2, BeginEffect DEF semVars
  <2>4. SlotsMatchHolders'
    <3>1. \A t \in Session : stage'[t] = stage[t] \/ (stage[t] = "idle" /\ stage'[t] \in {"resolve", "limit"})
      BY <1>a, <2>2, BeginEffect
    <3>2. holding \subseteq Session /\ UNCHANGED <<slots, holding>>
      BY <1>a, <2>1 DEF semVars
    <3> QED
      BY <3>1, <3>2
  <2> QED
    BY <1>m, <1>b, <2>1, <2>3, <2>4 DEF semVars
<1>13. ASSUME NEW d \in Device, NEW w \in BOOLEAN, Broadcast(d, w) PROVE BaseInv'
  <2>1. queue' \in Seq(Device \X BOOLEAN) /\ Len(queue') <= MaxQueue
    BY <1>13, <1>a DEF Broadcast
  <2> QED
    BY <1>13, <1>a, <1>m, <2>1, <1>b DEF Broadcast, callVars, semVars
<1>14. CASE AskToStop
  BY <1>14, <1>a, <1>m, <1>b DEF AskToStop, callVars, semVars
<1>15. CASE NewProcess
  <2>1. ManagerTypeOK'
    BY <1>15, <1>a, NewManagerEffect DEF NewProcess
  <2>2. queue' \in Seq(Device \X BOOLEAN) /\ Len(queue') <= MaxQueue
    BY <1>15, EmptySeq DEF NewProcess
  <2>3. IsFiniteSet(holding') /\ slots' = Cardinality(holding')
    BY <1>15, FS_EmptySet DEF NewProcess
  <2>4. stage' \in [Session -> Stage] /\ \A s \in Session : stage'[s] \notin Running
    BY <1>15, <1>a DEF NewProcess
  <2>5. CallTypeOK'
    BY <1>15, <1>a, <2>2, <2>4 DEF NewProcess
  <2>6. SlotsMatchHolders'
    BY <1>15, <1>a, <2>3 DEF NewProcess
  <2> QED
    BY <2>1, <2>3, <2>4, <2>5, <2>6, <1>b
<1>16. CASE UNCHANGED vars
  BY <1>16, <1>a, <1>m, <1>b DEF vars, callVars, semVars, loopVars
<1> QED
  BY <1>1, <1>2, <1>3, <1>4, <1>5, <1>6, <1>7, <1>8, <1>9, <1>10, <1>11, <1>12,
     <1>13, <1>14, <1>15, <1>16, StepCases

(* The entries of the table of active syncs belong to calls that will clean *)
(* them up. *)
LEMMA OwnerStep == BaseInv /\ EntryHasLiveOwner /\ [Next]_vars => EntryHasLiveOwner'
<1> SUFFICES ASSUME BaseInv, EntryHasLiveOwner, [Next]_vars PROVE EntryHasLiveOwner'
  OBVIOUS
<1> USE NoDeviceAssumption, NoSessionAssumption
<1> USE DEF CallTypeOK, RunningHasDevice, EntryHasLiveOwner, IsDeviceSyncing, Running, Tracked
<1>a. ManagerTypeOK /\ CallTypeOK /\ RunningHasDevice
  BY DEF BaseInv, TypeOK, ManagerTypeOK
<1>b. activeSyncs \in [Device -> Session \cup {NoSession}]
  BY <1>a DEF ManagerTypeOK
<1>1. ASSUME NEW s \in Session, HandleDiscoveredDevice(s) PROVE EntryHasLiveOwner'
  BY <1>1, <1>a, <1>b DEF HandleDiscoveredDevice, Begin, Goto, callVars, managerVars
<1>2. ASSUME NEW s \in Session, ResolveSyncTarget(s) PROVE EntryHasLiveOwner'
  BY <1>2, <1>a, <1>b DEF ResolveSyncTarget, Return, Goto, managerVars
<1>3. ASSUME NEW s \in Session, CheckDeviceLimit(s) PROVE EntryHasLiveOwner'
  BY <1>3, <1>a, <1>b DEF CheckDeviceLimit, Return, Goto, managerVars
<1>4. ASSUME NEW s \in Session, StartTracking(s) PROVE EntryHasLiveOwner'
  BY <1>4, <1>a, <1>b DEF StartTracking, StartSync, Return, Goto, managerVars
<1>5. ASSUME NEW s \in Session, AcquireSlot(s) PROVE EntryHasLiveOwner'
  BY <1>5, <1>a, <1>b DEF AcquireSlot, Goto, managerVars
<1>6. ASSUME NEW s \in Session, ApplyConfig(s) PROVE EntryHasLiveOwner'
  BY <1>6, <1>a, <1>b DEF ApplyConfig, Goto, managerVars
<1>7. ASSUME NEW s \in Session, PerformSync(s) PROVE EntryHasLiveOwner'
  BY <1>7, <1>a, <1>b DEF PerformSync, Goto, managerVars
<1>8. ASSUME NEW s \in Session, Report(s) PROVE EntryHasLiveOwner'
  <2>1. activeSyncs' = [activeSyncs EXCEPT ![target[s]] = NoSession]
    BY <1>8, <1>a, CloseEffect DEF Report, CompleteSync, FailSync, Status
  <2> QED
    BY <1>8, <1>a, <1>b, <2>1 DEF Report, Goto
<1>9. ASSUME NEW s \in Session, ReleaseSlot(s) PROVE EntryHasLiveOwner'
  BY <1>9, <1>a, <1>b DEF ReleaseSlot, Goto, managerVars
<1>10. ASSUME NEW s \in Session, CheckStillActive(s) PROVE EntryHasLiveOwner'
  BY <1>10, <1>a, <1>b DEF CheckStillActive, Return, Goto, managerVars
<1>11. ASSUME NEW s \in Session, AbortIfActive(s) PROVE EntryHasLiveOwner'
  <2>1. activeSyncs' = [activeSyncs EXCEPT ![target[s]] = NoSession]
    BY <1>11, <1>a, CloseEffect DEF AbortIfActive, AbortSync, Status
  <2> QED
    BY <1>11, <1>a, <1>b, <2>1 DEF AbortIfActive, Return, Goto
<1>12. ASSUME NEW s \in Session, NEW d \in Device,
              TriggerManualSync(s, d) \/ SendDirectPingAndRegister(s, d)
       PROVE EntryHasLiveOwner'
  BY <1>12, <1>a, <1>b
    DEF TriggerManualSync, SendDirectPingAndRegister, Begin, Goto, callVars, managerVars
<1>13. ASSUME NEW d \in Device, NEW w \in BOOLEAN, Broadcast(d, w) PROVE EntryHasLiveOwner'
  BY <1>13 DEF Broadcast, callVars, managerVars
<1>14. CASE AskToStop
  BY <1>14 DEF AskToStop, callVars, managerVars
<1>15. CASE NewProcess
  BY <1>15 DEF NewProcess, NewManagerWithStore
<1>16. CASE UNCHANGED vars
  BY <1>16 DEF vars, callVars, managerVars
<1> QED
  BY <1>1, <1>2, <1>3, <1>4, <1>5, <1>6, <1>7, <1>8, <1>9, <1>10, <1>11, <1>12,
     <1>13, <1>14, <1>15, <1>16, StepCases

(* Closing the entry of a device records its owner, who was not recorded,   *)
(* and nobody else. *)
LEMMA CloseRecords ==
    ASSUME ManagerTypeOK, RecordedIsOver, RecordedOnce,
           NEW d \in Device, NEW status \in Status, Close(d, status)
    PROVE  /\ activeSyncs' = [activeSyncs EXCEPT ![d] = NoSession]
           /\ RecordedOnce'
           /\ \A s \in Session : Recorded(s)' <=> Recorded(s) \/ activeSyncs[d] = s
<1>1. activeSyncs' = [activeSyncs EXCEPT ![d] = NoSession]
  BY CloseEffect
<1>2. CASE activeSyncs[d] = NoSession /\ UNCHANGED resolved
  BY <1>1, <1>2, NoSessionAssumption DEF RecordedOnce, Recorded
<1>3. CASE /\ activeSyncs[d] \in Session
           /\ resolved' = Append(resolved, [by |-> activeSyncs[d], status |-> status])
  <2> DEFINE rec == [by |-> activeSyncs[d], status |-> status]
             n == Len(resolved)
  <2>1. rec \in Record /\ rec.by = activeSyncs[d]
    BY <1>3 DEF Record
  <2>2. /\ n \in Nat
        /\ DOMAIN resolved = 1 .. n
        /\ DOMAIN resolved' = 1 .. n + 1
        /\ \A i \in 1 .. n : resolved'[i] = resolved[i]
        /\ resolved'[n + 1] = rec
    <3> HIDE DEF rec
    <3> QED
      BY <1>3, <2>1 DEF ManagerTypeOK, rec
  <2>3. ~ Recorded(activeSyncs[d])
    BY <1>3 DEF RecordedIsOver
  <2>4. \A i \in 1 .. n : resolved[i].by # activeSyncs[d]
    BY <2>2, <2>3 DEF Recorded
  <2> HIDE DEF rec, n
  <2>5. RecordedOnce'
    BY <2>1, <2>2, <2>4 DEF RecordedOnce
  <2>6. \A s \in Session : Recorded(s)' <=> Recorded(s) \/ activeSyncs[d] = s
    BY <2>1, <2>2 DEF Recorded
  <2> QED
    BY <1>1, <2>5, <2>6
<1> QED
  BY <1>2, <1>3, CloseEffect

(* The bookkeeping of results: nobody is forgotten, nobody recorded twice. *)
LEMMA LogStep == BaseInv /\ EntryHasLiveOwner /\ LogInv /\ [Next]_vars => LogInv'
<1> SUFFICES ASSUME BaseInv, EntryHasLiveOwner, LogInv, [Next]_vars PROVE LogInv'
  OBVIOUS
<1> USE NoDeviceAssumption, NoSessionAssumption
<1> USE DEF CallTypeOK, LogInv, OwnerOrRecorded, RecordedIsOver, ReporterRecorded,
            RunningHasDevice, Running, Started, Tracked
<1>a. ManagerTypeOK /\ CallTypeOK /\ RunningHasDevice
  BY DEF BaseInv, TypeOK, ManagerTypeOK
<1>b. activeSyncs \in [Device -> Session \cup {NoSession}]
  BY <1>a DEF ManagerTypeOK
<1>m. ASSUME UNCHANGED managerVars
      PROVE  /\ activeSyncs' = activeSyncs
             /\ RecordedOnce'
             /\ \A s \in Session : Recorded(s)' <=> Recorded(s)
  BY <1>m DEF managerVars, RecordedOnce, Recorded
<1>1. ASSUME NEW s \in Session, HandleDiscoveredDevice(s) PROVE LogInv'
  <2>1. Head(queue) \in Device \X BOOLEAN
    BY <1>1, <1>a, HeadTailProperties DEF HandleDiscoveredDevice
  <2>2. UNCHANGED managerVars /\ (Begin(s, Head(queue)[1], "limit") \/ UNCHANGED callVars)
    BY <1>1 DEF HandleDiscoveredDevice
  <2>3. /\ verdict' = verdict
        /\ \A t \in Session : (stage'[t] = stage[t] /\ target'[t] = target[t])
                             \/ (stage[t] = "idle" /\ stage'[t] = "limit")
    BY <1>a, <2>1, <2>2, BeginEffect
  <2> QED
    BY <1>a, <1>b, <1>m, <2>2, <2>3
<1>2. ASSUME NEW s \in Session, ResolveSyncTarget(s) PROVE LogInv'
  BY <1>2, <1>a, <1>b, <1>m DEF ResolveSyncTarget, Return, Goto
<1>3. ASSUME NEW s \in Session, CheckDeviceLimit(s) PROVE LogInv'
  BY <1>3, <1>a, <1>b, <1>m DEF CheckDeviceLimit, Return, Goto
<1>4. ASSUME NEW s \in Session, StartTracking(s) PROVE LogInv'
  <2>1. CASE StartSync(target[s], s) /\ Goto(s, "slot")
    <3>1. /\ activeSyncs' = [activeSyncs EXCEPT ![target[s]] = s]
          /\ activeSyncs[target[s]] = NoSession
          /\ RecordedOnce'
          /\ \A t \in Session : Recorded(t)' <=> Recorded(t)
      BY <2>1 DEF StartSync, IsDeviceSyncing, RecordedOnce, Recorded
    <3>2. ~ Recorded(s) /\ target[s] \in Device
      BY <1>4, <1>a DEF StartTracking
    <3> QED
      BY <1>4, <1>a, <1>b, <2>1, <3>1, <3>2 DEF StartTracking, Goto
  <2>2. CASE UNCHANGED managerVars /\ Return(s)
    BY <1>4, <1>a, <1>b, <1>m, <2>2 DEF StartTracking, Return, Goto
  <2> QED
    BY <1>4, <2>1, <2>2 DEF StartTracking
<1>5. ASSUME NEW s \in Session, AcquireSlot(s) PROVE LogInv'
  BY <1>5, <1>a, <1>b, <1>m DEF AcquireSlot, Goto
<1>6. ASSUME NEW s \in Session, ApplyConfig(s) PROVE LogInv'
  BY <1>6, <1>a, <1>b, <1>m DEF ApplyConfig, Goto
<1>7. ASSUME NEW s \in Session, PerformSync(s) PROVE LogInv'
  BY <1>7, <1>a, <1>b, <1>m DEF PerformSync, Goto
<1>8. ASSUME NEW s \in Session, Report(s) PROVE LogInv'
  <2>1. target[s] \in Device
    BY <1>8, <1>a DEF Report
  <2>2. /\ activeSyncs' = [activeSyncs EXCEPT ![target[s]] = NoSession]
        /\ RecordedOnce'
        /\ \A t \in Session : Recorded(t)' <=> Recorded(t) \/ activeSyncs[target[s]] = t
    BY <1>8, <1>a, <2>1, CloseRecords DEF Report, CompleteSync, FailSync, Status
  <2>3. \A t \in Session : Recorded(t)' => stage[t] \in Started
    BY <1>b, <2>1, <2>2 DEF EntryHasLiveOwner, IsDeviceSyncing
  <2> QED
    BY <1>8, <1>a, <1>b, <2>1, <2>2, <2>3 DEF Report, Goto, EntryHasLiveOwner, IsDeviceSyncing
<1>9. ASSUME NEW s \in Session, ReleaseSlot(s) PROVE LogInv'
  BY <1>9, <1>a, <1>b, <1>m DEF ReleaseSlot, Goto
<1>10. ASSUME NEW s \in Session, CheckStillActive(s) PROVE LogInv'
  BY <1>10, <1>a, <1>b, <1>m DEF CheckStillActive, IsDeviceSyncing, Return, Goto
<1>11. ASSUME NEW s \in Session, AbortIfActive(s) PROVE LogInv'
  <2>1. target[s] \in Device
    BY <1>11, <1>a DEF AbortIfActive
  <2>2. /\ activeSyncs' = [activeSyncs EXCEPT ![target[s]] = NoSession]
        /\ RecordedOnce'
        /\ \A t \in Session : Recorded(t)' <=> Recorded(t) \/ activeSyncs[target[s]] = t
    BY <1>11, <1>a, <2>1, CloseRecords DEF AbortIfActive, AbortSync, Status
  <2>3. \A t \in Session : Recorded(t)' => stage[t] \in Started
    BY <1>b, <2>1, <2>2 DEF EntryHasLiveOwner, IsDeviceSyncing
  <2> QED
    BY <1>11, <1>a, <1>b, <2>1, <2>2, <2>3
      DEF AbortIfActive, Return, Goto, EntryHasLiveOwner, IsDeviceSyncing
<1>12. ASSUME NEW s \in Session, NEW d \in Device,
              TriggerManualSync(s, d) \/ SendDirectPingAndRegister(s, d)
       PROVE LogInv'
  BY <1>12, <1>a, <1>b, <1>m
    DEF TriggerManualSync, SendDirectPingAndRegister, Begin, Goto, callVars
<1>13. ASSUME NEW d \in Device, NEW w \in BOOLEAN, Broadcast(d, w) PROVE LogInv'
  BY <1>13, <1>m DEF Broadcast, callVars
<1>14. CASE AskToStop
  BY <1>14, <1>m DEF AskToStop, callVars
<1>15. CASE NewProcess
  <2>1. /\ activeSyncs' = [d \in Device |-> NoSession]
        /\ RecordedOnce'
        /\ \A s \in Session : Recorded(s)' <=> Recorded(s)
    BY <1>15 DEF NewProcess, NewManagerWithStore, RecordedOnce, Recorded
  <2> QED
    BY <1>15, <1>a, <2>1 DEF NewProcess
<1>16. CASE UNCHANGED vars
  BY <1>16, <1>m DEF vars, callVars
<1> QED
  BY <1>1, <1>2, <1>3, <1>4, <1>5, <1>6, <1>7, <1>8, <1>9, <1>10, <1>11, <1>12,
     <1>13, <1>14, <1>15, <1>16, StepCases

-----------------------------------------------------------------------------
(* The server starts with nothing running, nothing tracked, nothing logged. *)
LEMMA InitInv == Init => IInv
<1> SUFFICES ASSUME Init PROVE IInv
  OBVIOUS
<1> USE NoDeviceAssumption, NoSessionAssumption, MaxConnAssumption, MaxQueueAssumption,
        MaxHistoryAssumption
<1>1. TypeOK
  <2>1. <<>> \in Seq(Record) /\ <<>> \in Seq(Device \X BOOLEAN) /\ Len(<<>>) = 0
    BY EmptySeq
  <2>2. 0 <= MaxHistory /\ 0 <= MaxQueue /\ 0 \in Nat
    OBVIOUS
  <2>3. CallTypeOK
    BY <2>1, <2>2 DEF Init, CallTypeOK, Stage
  <2>4. ManagerTypeOK
    BY <2>1, <2>2 DEF Init, ManagerInit, ManagerTypeOK
  <2> QED
    BY <2>3, <2>4 DEF TypeOK, ManagerTypeOK, CallTypeOK
<1>2. IsFiniteSet(holding) /\ SlotsMatchHolders
  BY FS_EmptySet DEF Init, SlotsMatchHolders
<1>3. RunningHasDevice /\ EntryHasLiveOwner
  BY DEF Init, ManagerInit, RunningHasDevice, EntryHasLiveOwner, IsDeviceSyncing, Running, Tracked
<1>4. LogInv
  BY DEF Init, ManagerInit, LogInv, OwnerOrRecorded, RecordedIsOver, RecordedOnce,
         ReporterRecorded, Recorded, Tracked
<1> QED
  BY <1>1, <1>2, <1>3, <1>4 DEF IInv, BaseInv

(* IInv is an inductive invariant of the server process. *)
THEOREM Invariance == Spec => []IInv
<1>1. IInv /\ [Next]_vars => IInv'
  BY BaseStep, OwnerStep, LogStep DEF IInv
<1> QED
  BY <1>1, InitInv, PTL DEF Spec

(* The types of the server's and the manager's state. *)
THEOREM TypeCorrect == Spec => []TypeOK
<1>1. IInv => TypeOK
  BY DEF IInv, BaseInv
<1> QED
  BY <1>1, Invariance, PTL

(* No path through handleSyncRequest leaks a sync slot or gives one back    *)
(* twice, for any number of calls and any limit. *)
THEOREM SlotsCorrect == Spec => []SlotsMatchHolders
<1>1. IInv => SlotsMatchHolders
  BY DEF IInv, BaseInv
<1> QED
  BY <1>1, Invariance, PTL

(* A device that is marked as syncing is so by a call for it that is still  *)
(* going to run its deferred clean-up. *)
THEOREM OwnersLive == Spec => []EntryHasLiveOwner
<1>1. IInv => EntryHasLiveOwner
  BY DEF IInv
<1> QED
  BY <1>1, Invariance, PTL

(* A call that had something to report is in the log exactly once when it   *)
(* has returned, although calls close each other's entries. *)
THEOREM RecordedExactlyOnce == Spec => []EachSyncRecordedOnce
<1>1. IInv => EachSyncRecordedOnce
  BY DEF IInv, LogInv, RecordedOnce, ReporterRecorded, Recorded, EachSyncRecordedOnce
<1> QED
  BY <1>1, Invariance, PTL

-----------------------------------------------------------------------------
HistoryInv == LogsFollow /\ NewestIsShown

(* The logs change only where the manager closes an entry or is loaded.     *)
LEMMA HistoryStep == IInv /\ HistoryInv /\ [Next]_vars => HistoryInv'
<1> SUFFICES ASSUME IInv, HistoryInv, [Next]_vars PROVE HistoryInv'
  OBVIOUS
<1> USE NoDeviceAssumption
<1>a. ManagerTypeOK /\ LogsFollow /\ NewestIsShown
  BY DEF IInv, BaseInv, TypeOK, ManagerTypeOK, HistoryInv
<1>b. \A s \in Session : stage[s] \in Running => target[s] \in Device
  BY DEF IInv, BaseInv, RunningHasDevice
<1>c. UNCHANGED <<history, stored, resolved>> => HistoryInv'
  BY <1>a DEF HistoryInv, LogsFollow, NewestIsShown, Follows
<1>d. \A d \in Device, status \in Status : Close(d, status) => HistoryInv'
  BY <1>a, CloseFollows DEF HistoryInv
<1>1. ASSUME NEW s \in Session, StartTracking(s) PROVE HistoryInv'
  BY <1>1, <1>c DEF StartTracking, StartSync, managerVars
<1>2. ASSUME NEW s \in Session, Report(s) PROVE HistoryInv'
  <2>1. target[s] \in Device
    BY <1>2, <1>b DEF Report, Running, Tracked
  <2> QED
    BY <1>2, <1>d, <2>1 DEF Report, CompleteSync, FailSync, Status
<1>3. ASSUME NEW s \in Session, AbortIfActive(s) PROVE HistoryInv'
  <2>1. target[s] \in Device
    BY <1>3, <1>b DEF AbortIfActive, Running, Tracked
  <2> QED
    BY <1>3, <1>d, <2>1 DEF AbortIfActive, AbortSync, Status
<1>4. CASE NewProcess
  BY <1>4, <1>a, NewManagerFollows DEF NewProcess, HistoryInv
<1>5. ASSUME NEW s \in Session,
             \/ HandleDiscoveredDevice(s) \/ ResolveSyncTarget(s) \/ CheckDeviceLimit(s)
             \/ AcquireSlot(s) \/ ApplyConfig(s) \/ PerformSync(s) \/ ReleaseSlot(s) \/ CheckStillActive(s)
             \/ \E d \in Device : TriggerManualSync(s, d) \/ SendDirectPingAndRegister(s, d)
      PROVE  HistoryInv'
  BY <1>5, <1>c DEF HandleDiscoveredDevice, ResolveSyncTarget, CheckDeviceLimit, AcquireSlot, ApplyConfig,
       PerformSync, ReleaseSlot, CheckStillActive, TriggerManualSync, SendDirectPingAndRegister, managerVars
<1>6. CASE AskToStop \/ UNCHANGED vars \/ \E d \in Device, w \in BOOLEAN : Broadcast(d, w)
  BY <1>6, <1>c DEF AskToStop, Broadcast, vars, managerVars
<1> QED
  BY <1>1, <1>2, <1>3, <1>4, <1>5, <1>6, StepCases

(* The history a user sees, in memory and in the table, lists results that  *)
(* happened, in their order, and a restart never shows an older end of it   *)
(* than the table has. *)
THEOREM HistoryKeepsOrder == Spec => []HistoryInOrder
<1>1. Init => HistoryInv
  BY DEF Init, ManagerInit, HistoryInv, LogsFollow, NewestIsShown, Follows
<1>2. IInv /\ HistoryInv /\ [Next]_vars => HistoryInv'
  BY HistoryStep
<1>3. HistoryInv => HistoryInOrder
  BY DEF HistoryInv, LogsFollow, Follows, NewestIsShown, HistoryInOrder
<1> QED
  BY <1>1, <1>2, <1>3, Invariance, PTL DEF Spec
=============================================================================
