------------------------------ MODULE RateLimits ------------------------------
(***************************************************************************)
(* What the two limiters of internal/ratelimit promise, with every counter *)
(* kept up to date as time passes and nothing ever forgotten: an IP gets   *)
(* MaxAttempts answers in any window, a device has a bucket of MaxRequests *)
(* tokens that refills by one token each RefillRate.                       *)
(***************************************************************************)
EXTENDS Integers, Sequences, Filters

CONSTANTS Ip, Device, MaxAttempts, MaxRequests, Window, NoAnswer

(* NewDeviceLimiter: window / time.Duration(maxRequests), an integer division. *)
RefillRate == Window \div MaxRequests

(* Levels are counted in units of time: one token is RefillRate of them. *)
Full == MaxRequests * RefillRate

VARIABLES
    now,
    recent,   \* ip -> times of the attempts admitted within the window
    level,    \* device -> contents of its bucket
    answer    \* what the caller was told last, at this instant

vars == <<now, recent, level, answer>>

Init ==
    /\ now = 0
    /\ recent = [i \in Ip |-> <<>>]
    /\ level = [d \in Device |-> Full]
    /\ answer = NoAnswer

Tick ==
    /\ now' = now + 1
    /\ recent' = [i \in Ip |-> Kept(recent[i], {t \in Nat : t > now' - Window})]
    /\ level' = [d \in Device |-> IF level[d] < Full THEN level[d] + 1 ELSE Full]
    /\ answer' = NoAnswer

Attempt(i) ==
    /\ answer' = <<i, Len(recent[i]) < MaxAttempts>>
    /\ recent' = IF answer'[2] THEN [recent EXCEPT ![i] = Append(@, now)] ELSE recent
    /\ UNCHANGED <<now, level>>

Request(d) ==
    /\ answer' = <<d, level[d] >= RefillRate>>
    /\ level' = IF answer'[2] THEN [level EXCEPT ![d] = @ - RefillRate] ELSE level
    /\ UNCHANGED <<now, recent>>

Next ==
    \/ Tick
    \/ \E i \in Ip : Attempt(i)
    \/ \E d \in Device : Request(d)

Spec == Init /\ [][Next]_vars
=============================================================================
