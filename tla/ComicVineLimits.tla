-------------------------- MODULE ComicVineLimits --------------------------
(***************************************************************************)
(* The requests to ComicVine and what holds them back (internal/comicvine: *)
(* client, pacer, circuit): every caller asks the one circuit breaker, then*)
(* waits for the one pacer, sends its request, and is counted when it has  *)
(* its answer.  Both keep their state in the configuration database.       *)
(*                                                                         *)
(* A waiting caller looks again at any time, which is more often than its  *)
(* timer lets it.  A fetch of several pages is several calls.  Writes to   *)
(* the database do not fail here.                                          *)
(***************************************************************************)
EXTENDS Naturals, Sequences, FiniteSets, SequencesExt

CONSTANTS
    Caller, Background,             \* the callers, and those that WithBackground marks
    BurstSize, WindowSize, BurstReserve, WindowReserve, HourlyCap,
    BurstPause, WindowPause, Hour,  \* in ticks
    MinBackoff, MaxBackoff,
    MaxClock                        \* bound: the last tick

LimitAssumption ==
    /\ Background \subseteq Caller /\ IsFiniteSet(Caller)
    /\ {BurstSize, WindowSize, BurstReserve, WindowReserve, HourlyCap} \subseteq Nat
    /\ {BurstPause, WindowPause, Hour, MinBackoff, MaxBackoff, MaxClock} \subseteq Nat
    /\ BurstSize > 0 /\ WindowSize > 0
    /\ BurstPause <= WindowPause /\ WindowPause <= Hour
    /\ MinBackoff <= MaxBackoff

VARIABLES
    clock,
    pacer,      \* [burst, window, times]; the last of times is also p.last
    circuit,    \* [state, backoff, until]
    stored,     \* what the database has of both
    call        \* caller -> "idle", "waiting", "sent"

vars == <<clock, pacer, circuit, stored, call>>

Pacing == [burst : Nat, window : Nat, times : Seq(0 .. MaxClock)]
Circuit == [state : {"closed", "open", "halfOpen"}, backoff : MinBackoff .. MaxBackoff, until : 0 .. MaxClock + MaxBackoff]
TypeOK ==
    /\ clock \in 0 .. MaxClock
    /\ pacer \in Pacing /\ stored.pacer \in Pacing
    /\ circuit \in Circuit
    /\ stored.circuit \in [open : BOOLEAN, backoff : MinBackoff .. MaxBackoff, until : 0 .. MaxClock + MaxBackoff]
    /\ call \in [Caller -> {"idle", "waiting", "sent"}]

Init ==
    /\ clock = 0
    /\ pacer = [burst |-> 0, window |-> 0, times |-> <<>>]
    /\ circuit = [state |-> "closed", backoff |-> MinBackoff, until |-> 0]
    /\ stored = [pacer |-> pacer, circuit |-> [open |-> FALSE, backoff |-> MinBackoff, until |-> 0]]
    /\ call = [c \in Caller |-> "idle"]

(*************************** Pacer ******************************************)

(* The larger of a limit without its reserve and one. *)
Less(size, reserve) == IF size > reserve THEN size - reserve ELSE 1
BurstLimit(bg) == IF bg THEN Less(BurstSize, BurstReserve) ELSE BurstSize
WindowLimit(bg) == IF bg THEN Less(WindowSize, WindowReserve) ELSE WindowSize

(* prune: the requests before the first of the last hour are dropped.  The cap
   of 2000, several times what the limits let go in an hour, is left out. *)
AreOld(n, times) ==
    /\ \A i \in 1 .. n : clock - times[i] > Hour
    /\ n < Len(times) => clock - times[n + 1] <= Hour
Pruned(times) == SubSeq(times, (CHOOSE n \in 0 .. Len(times) : AreOld(n, times)) + 1, Len(times))

(* served, of pauseNeeded. *)
Served(pause) == pacer.times = <<>> \/ clock >= Last(pacer.times) + pause

(* pauseNeeded: the counters that are set to zero when their pause has been
   served, whoever asks. *)
WindowOver(bg) == pacer.window >= WindowLimit(bg) /\ Served(WindowPause)
BurstOver(bg) == pacer.burst >= BurstLimit(bg) /\ Served(BurstPause)
Rested(bg) ==
    CASE WindowOver(bg) -> [pacer EXCEPT !.burst = 0, !.window = 0]
      [] ~WindowOver(bg) /\ pacer.window < WindowLimit(bg) /\ BurstOver(bg) -> [pacer EXCEPT !.burst = 0]
      [] OTHER -> pacer

(* Fault: the counter is compared after it was passed. *)
MayGoOneMore(bg, p) ==
    /\ p.window < WindowLimit(bg) /\ p.burst <= BurstLimit(bg)
    /\ bg => Len(Pruned(p.times)) < HourlyCap

(* pauseNeeded is zero. *)
MayGo(bg, p) ==
    /\ p.window < WindowLimit(bg) /\ p.burst < BurstLimit(bg)
    /\ bg => Len(Pruned(p.times)) < HourlyCap

(* Fault: the counters are set to zero in memory alone. *)
RestUnsaved(bg) ==
    /\ pacer' = Rested(bg)
    /\ UNCHANGED stored

(* pauseNeeded saves only when it has set a counter to zero. *)
Rest(bg) ==
    /\ pacer' = Rested(bg)
    /\ stored' = IF Rested(bg) = pacer THEN stored ELSE [stored EXCEPT !.pacer = Rested(bg)]

(* Status asks for both kinds of caller. *)
Status == \E bg \in BOOLEAN : Rest(bg) /\ UNCHANGED <<clock, circuit, call>>

(* RecordRequest: after the answer, or the error, has come. *)
Recorded == [burst |-> pacer.burst + 1, window |-> pacer.window + 1, times |-> Pruned(Append(pacer.times, clock))]

(*************************** Circuit breaker ********************************)

(* save. *)
Kept(c) == [open |-> c.state # "closed", backoff |-> c.backoff, until |-> c.until]

(* RecordFailure: the pause doubles when the probe failed, and starts again
   when the circuit was closed. *)
Failed ==
    LET twice == IF 2 * circuit.backoff > MaxBackoff THEN MaxBackoff ELSE 2 * circuit.backoff
        backoff == CASE circuit.state = "halfOpen" -> twice
                     [] circuit.state = "closed" -> MinBackoff
                     [] circuit.state = "open" -> circuit.backoff
    IN  [state |-> "open", backoff |-> backoff, until |-> clock + backoff]

(* RecordSuccess. *)
Succeeded ==
    IF circuit.state = "halfOpen" THEN [state |-> "closed", backoff |-> MinBackoff, until |-> 0] ELSE circuit

(* Allow: once the pause is over every caller is let through, not one. *)
Ask(c) ==
    /\ call[c] = "idle"
    /\ circuit.state = "open" => clock >= circuit.until
    /\ circuit' = IF circuit.state = "open" THEN [circuit EXCEPT !.state = "halfOpen"] ELSE circuit
    /\ call' = [call EXCEPT ![c] = "waiting"]
    /\ UNCHANGED <<clock, pacer, stored>>

(*************************** Client *****************************************)

(* Wait returns, get sends: the breaker is not asked again. *)
Send(c) ==
    LET bg == c \in Background IN
    /\ call[c] = "waiting"
    /\ Rest(bg)
    /\ MayGo(bg, Rested(bg))
    /\ call' = [call EXCEPT ![c] = "sent"]
    /\ UNCHANGED <<clock, circuit>>

(* Wait: the time limit of WithMaxWait, or the context is done. *)
GiveUp(c) ==
    LET bg == c \in Background IN
    /\ call[c] = "waiting"
    /\ Rest(bg)
    /\ ~MayGo(bg, Rested(bg))
    /\ call' = [call EXCEPT ![c] = "idle"]
    /\ UNCHANGED <<clock, circuit>>

(* The end of get, with what the breaker hears of the answer: a failure is no
   answer, a cancelled request, a refusal, a rate limit or a server error; an
   unexpected status or a body that cannot be read says nothing. *)
Answer(c, next) ==
    /\ call[c] = "sent"
    /\ pacer' = Recorded
    /\ circuit' = next
    /\ stored' = [pacer |-> Recorded, circuit |-> IF next = circuit THEN stored.circuit ELSE Kept(next)]
    /\ call' = [call EXCEPT ![c] = "idle"]
    /\ UNCHANGED clock

(* load, of both: NewPacer and NewCircuitBreaker of a new process.  A breaker
   that was closed starts afresh; one that was not is open. *)
LoadedPacer == [stored.pacer EXCEPT !.times = Pruned(@)]
LoadedCircuit ==
    IF stored.circuit.open
    THEN [state |-> "open", backoff |-> stored.circuit.backoff, until |-> stored.circuit.until]
    ELSE [state |-> "closed", backoff |-> MinBackoff, until |-> 0]

Restart ==
    /\ pacer' = LoadedPacer /\ circuit' = LoadedCircuit
    /\ call' = [c \in Caller |-> "idle"]
    /\ UNCHANGED <<clock, stored>>

Tick == clock < MaxClock /\ clock' = clock + 1 /\ UNCHANGED <<pacer, circuit, stored, call>>

Next ==
    \/ \E c \in Caller : \/ Ask(c) \/ Send(c) \/ GiveUp(c)
                         \/ \E next \in {Failed, Succeeded, circuit} : Answer(c, next)
    \/ Status \/ Restart \/ Tick

(*************************** Properties *************************************)

(* Nothing is reserved when the pacer lets a caller go, and a request counts
   only when it is over, so a burst may be longer than its size; but the
   counters and the requests on their way exceed the limits by less than one
   request for each caller, also when the counters are set to zero while
   requests are out. *)
OvershootBounded ==
    LET out == Cardinality({c \in Caller : call[c] = "sent"}) IN
    /\ pacer.burst + out < BurstSize + Cardinality(Caller)
    /\ pacer.window + out < WindowSize + Cardinality(Caller)

(* A restart loses no pause: the counters, the requests of the last hour and
   the breaker that a new process would load are those of this one, except that
   a breaker whose probe is out is open again with its pause over. *)
RestartKeepsPauses ==
    /\ LoadedPacer = [pacer EXCEPT !.times = Pruned(@)]
    /\ LoadedCircuit.state = "closed" <=> circuit.state = "closed"
    /\ circuit.state # "closed" =>
          LoadedCircuit.until = circuit.until /\ LoadedCircuit.backoff = circuit.backoff
    /\ circuit.state = "halfOpen" => clock >= circuit.until
=============================================================================
