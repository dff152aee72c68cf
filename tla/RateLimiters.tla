----------------------------- MODULE RateLimiters -----------------------------
(***************************************************************************)
(* The limiters as they are coded (internal/ratelimit): the IP limiter     *)
(* keeps lists of times and drops old ones when it looks at them, the      *)
(* device limiter refills a bucket when it is used, and a goroutine        *)
(* forgets the keys that have been quiet for long.  Reset and ResetAll,    *)
(* which only tests call, are left out.                                    *)
(***************************************************************************)
EXTENDS Integers, Sequences, FiniteSets, Filters

CONSTANTS
    Ip, Device,
    MaxAttempts,   \* IPLimiter.maxAttempts
    MaxRequests,   \* DeviceLimiter.maxTokens
    Window,        \* both windows, in units of time
    NoAnswer, NoEntry,
    MaxClock       \* bound on the clock

ASSUME LimitsAssumption ==
    /\ MaxAttempts \in Nat \ {0} /\ MaxRequests \in Nat \ {0} /\ MaxClock \in Nat
    /\ Window \in Nat /\ Window >= MaxRequests
ASSUME NoEntryAssumption == NoEntry \notin Seq(Nat)

VARIABLES
    now,
    attempts,  \* IPLimiter.attempts: ip -> times, or NoEntry
    buckets,   \* DeviceLimiter.buckets: device -> bucket, or NoEntry
    answer,    \* what the last caller was told
    admitted   \* ghost: device -> times of its admitted requests

vars == <<now, attempts, buckets, answer, admitted>>

RefillRate == Window \div MaxRequests
Full == MaxRequests * RefillRate
InactiveExpiry == 2 * Window

Bucket == [tokens : 0 .. Full, lastRefill : Nat, lastAccess : Nat]

Init ==
    /\ now = 0
    /\ attempts = [i \in Ip |-> NoEntry]
    /\ buckets = [d \in Device |-> NoEntry]
    /\ answer = NoAnswer
    /\ admitted = [d \in Device |-> <<>>]

Tick ==
    /\ now < MaxClock
    /\ now' = now + 1
    /\ answer' = NoAnswer
    /\ UNCHANGED <<attempts, buckets, admitted>>

(* Fault: an attempt exactly one window old still counts. *)
InWindowInclusive == {t \in Nat : t >= now - Window}

(* attempt.After(cutoff) *)
InWindow == {t \in Nat : t > now - Window}

ValidAttempts(i) == IF attempts[i] = NoEntry THEN <<>> ELSE Kept(attempts[i], InWindow)

(* IPLimiter.Allow *)
AllowIP(i) ==
    LET valid == ValidAttempts(i) IN
    /\ answer' = <<i, Len(valid) < MaxAttempts>>
    /\ attempts' = [attempts EXCEPT ![i] = IF Len(valid) < MaxAttempts
                                             THEN Append(valid, now) ELSE valid]
    /\ UNCHANGED <<now, buckets, admitted>>

(* tokenBucket.refill *)
Refill(b) ==
    LET refilled == b.tokens + (now - b.lastRefill)
    IN  [b EXCEPT !.tokens = IF refilled > Full THEN Full ELSE refilled, !.lastRefill = now]

GetOrCreate(d) ==
    IF buckets[d] = NoEntry THEN [tokens |-> Full, lastRefill |-> now, lastAccess |-> now]
    ELSE buckets[d]

(* DeviceLimiter.Allow *)
AllowDevice(d) ==
    LET b == Refill(GetOrCreate(d))
        ok == b.tokens >= RefillRate
    IN  /\ answer' = <<d, ok>>
        /\ buckets' = [buckets EXCEPT ![d] =
              [b EXCEPT !.tokens = IF ok THEN @ - RefillRate ELSE @, !.lastAccess = now]]
        /\ admitted' = IF ok THEN [admitted EXCEPT ![d] = Append(@, now)] ELSE admitted
        /\ UNCHANGED <<now, attempts>>

(* IPLimiter.cleanup *)
CleanupIPs ==
    /\ attempts' = [i \in Ip |-> IF ValidAttempts(i) = <<>> THEN NoEntry ELSE ValidAttempts(i)]
    /\ UNCHANGED <<now, buckets, answer, admitted>>

(* Fault: a bucket is forgotten before it has had the time to refill. *)
CleanupDevicesEarly ==
    /\ buckets' = [d \in Device |->
          IF buckets[d] # NoEntry /\ buckets[d].lastAccess < now THEN NoEntry ELSE buckets[d]]
    /\ UNCHANGED <<now, attempts, answer, admitted>>

(* DeviceLimiter.cleanup *)
CleanupDevices ==
    /\ buckets' = [d \in Device |->
          IF buckets[d] # NoEntry /\ buckets[d].lastAccess < now - InactiveExpiry
          THEN NoEntry ELSE buckets[d]]
    /\ UNCHANGED <<now, attempts, answer, admitted>>

Next ==
    \/ Tick
    \/ \E i \in Ip : AllowIP(i)
    \/ \E d \in Device : AllowDevice(d)
    \/ CleanupIPs
    \/ CleanupDevices

Spec == Init /\ [][Next]_vars
-----------------------------------------------------------------------------
(* Type correctness: the tables hold times and buckets of the given size. *)
TypeOK ==
    /\ now \in 0 .. MaxClock
    /\ attempts \in [Ip -> Seq(0 .. MaxClock) \cup {NoEntry}]
    /\ \A i \in Ip : attempts[i] # NoEntry => Len(attempts[i]) <= MaxAttempts
    /\ buckets \in [Device -> Bucket \cup {NoEntry}]
    /\ answer \in ((Ip \cup Device) \X BOOLEAN) \cup {NoAnswer}
    /\ admitted \in [Device -> Seq(0 .. MaxClock)]

(* The level a bucket would have if it were refilled continuously. *)
LevelNow(d) == IF buckets[d] = NoEntry THEN Full ELSE Refill(buckets[d]).tokens

Promise == INSTANCE RateLimits WITH
    recent <- [i \in Ip |-> ValidAttempts(i)],
    level <- [d \in Device |-> LevelNow(d)]

(* Dropping old times only when they are looked at, refilling a bucket only *)
(* when it is used, and forgetting quiet keys in the background change no   *)
(* answer: each caller hears what RateLimits would have told it.            *)
ImplementsRateLimits == Promise!Spec

(* A device never gets more than its bucket and what has dripped into it:   *)
(* of its admitted requests, those between two instants number at most      *)
(* MaxRequests plus one for each RefillRate of time between the two.        *)
BurstBounded ==
    \A d \in Device : \A i, j \in DOMAIN admitted[d] :
        i <= j => (j - i + 1) * RefillRate <= Full + admitted[d][j] - admitted[d][i]
=============================================================================
