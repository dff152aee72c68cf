---------------------------- MODULE ExchangesProofs ----------------------------
(***************************************************************************)
(* What is proved of the parts of Exchanges.  They are reasoned about      *)
(* under the variables they have in the composed specification; only what  *)
(* DevicesProofs proves of the devices is instantiated with those          *)
(* variables.  Either way a step of the whole is a step of the part or     *)
(* leaves its variables alone.                                             *)
(***************************************************************************)
EXTENDS Exchanges, FiltersProofs, FiniteSetTheorems, SequenceTheorems, TLAPS

DP == INSTANCE DevicesProofs WITH Device <- Reader, MaxRequests <- MaxAsked

--------------------------------------------------------------------------------
(* The limits.  A device never gets more than its bucket and what has dripped  *)
(* into it.  The bucket keeps what the requests that were admitted leave of it *)
(* (Spent): each instant pays for itself.  Forgetting a bucket that has been   *)
(* quiet for two windows changes nothing, for it is full by then (QuietIsFull). *)

(* NoEntry stands for a key that is not in the map, and is no bucket. *)
NoEntryApart == NoEntry \notin Bucket

Times == \A d \in Device : \A i \in 1 .. Len(admitted[d]) : admitted[d][i] \in Nat /\ admitted[d][i] <= now

BucketInv ==
    /\ now \in Nat
    /\ buckets = [d \in Device |-> buckets[d]]
    /\ \A d \in Device : buckets[d] = NoEntry
                         \/ (buckets[d] \in Bucket /\ buckets[d].lastRefill = buckets[d].lastAccess
                             /\ buckets[d].lastRefill <= now)
    /\ admitted \in [Device -> Seq(Nat)]
    /\ Times

(* What is left after the requests since the i-th. *)
Spent ==
    \A d \in Device : \A i \in 1 .. Len(admitted[d]) :
        (Len(admitted[d]) - i + 1) * RefillRate + LevelNow(d) <= Full + now - admitted[d][i]

BurstInv == BucketInv /\ Spent /\ BurstBounded

--------------------------------------------------------------------------------
(* An interval of the window per token. *)
LEMMA Rates == RefillRate \in Nat /\ Full \in Nat /\ Full <= Window
<1> USE LimitsAssumption
<1>1. RefillRate \in Nat /\ MaxRequests * RefillRate <= Window
  <2>1. \A x, y \in Nat : y > 0 => (x \div y) \in Nat /\ y * (x \div y) <= x
    BY SMTT(60)
  <2> QED
    BY <2>1 DEF RefillRate
<1>2. \A x, y \in Nat : x * y \in Nat
  OBVIOUS
<1> QED
  BY <1>1, <1>2 DEF Full

(* One more of the same price. *)
LEMMA OneMore == \A a, r \in Int : (a + 1) * r = a * r + r /\ a * r \in Int
OBVIOUS

(* Refill, spelled out. *)
LEMMA RefillIs ==
    ASSUME NEW t, NEW r, NEW a
    PROVE  Refill([tokens |-> t, lastRefill |-> r, lastAccess |-> a])
           = [tokens |-> LET refilled == t + (now - r) IN IF refilled > Full THEN Full ELSE refilled,
              lastRefill |-> now, lastAccess |-> a]
<1> DEFINE kept == [tokens |-> t, lastRefill |-> r, lastAccess |-> a]
           level == LET refilled == t + (now - r) IN IF refilled > Full THEN Full ELSE refilled
<1>1. [kept EXCEPT !.tokens = level] = [tokens |-> level, lastRefill |-> r, lastAccess |-> a]
  OBVIOUS
<1>2. [[tokens |-> level, lastRefill |-> r, lastAccess |-> a] EXCEPT !.lastRefill = now]
      = [tokens |-> level, lastRefill |-> now, lastAccess |-> a]
  OBVIOUS
<1>3. kept.tokens = t /\ kept.lastRefill = r
  OBVIOUS
<1>4. Refill(kept) = [[kept EXCEPT !.tokens = level] EXCEPT !.lastRefill = now]
  BY <1>3 DEF Refill
<1> QED
  BY <1>1, <1>2, <1>4

(* What is in a bucket now. *)
LEMMA Levels ==
    ASSUME BucketInv, NEW d \in Device
    PROVE  /\ LevelNow(d) \in Nat /\ LevelNow(d) <= Full
           /\ buckets[d] # NoEntry => LevelNow(d) = LET refilled == buckets[d].tokens + (now - buckets[d].lastRefill)
                                                    IN  IF refilled > Full THEN Full ELSE refilled
<1>1. CASE buckets[d] = NoEntry
  BY <1>1, Rates DEF LevelNow
<1>2. CASE buckets[d] # NoEntry
  <2>1. buckets[d] \in Bucket /\ buckets[d].lastRefill <= now /\ now \in Nat
    BY <1>2 DEF BucketInv
  <2>2. LevelNow(d) = LET refilled == buckets[d].tokens + (now - buckets[d].lastRefill)
                      IN  IF refilled > Full THEN Full ELSE refilled
    BY <1>2, <2>1 DEF LevelNow, Refill, Bucket
  <2> QED
    BY <2>1, <2>2, Rates DEF Bucket
<1> QED
  BY <1>1, <1>2

(* Time fills a bucket, by no more than has passed. *)
LEMMA TickKeeps == ASSUME BurstInv, Tick PROVE BurstInv'
<1>1. now \in Nat /\ now' = now + 1 /\ buckets' = buckets /\ admitted' = admitted
  BY DEF BurstInv, BucketInv, Tick
<1>2. BucketInv'
  <2>1. Times'
    BY <1>1 DEF BurstInv, BucketInv, Times
  <2>2. ASSUME NEW d \in Device
        PROVE  buckets'[d] = NoEntry
               \/ (buckets'[d] \in Bucket /\ buckets'[d].lastRefill = buckets'[d].lastAccess
                   /\ buckets'[d].lastRefill <= now')
    BY <1>1 DEF BurstInv, BucketInv, Bucket
  <2> QED
    BY <1>1, <2>1, <2>2 DEF BurstInv, BucketInv
<1>3. ASSUME NEW d \in Device PROVE LevelNow(d)' \in Nat /\ LevelNow(d)' <= LevelNow(d) + 1 /\ LevelNow(d) \in Nat
  <2>1. CASE buckets[d] = NoEntry
    BY <1>1, <2>1, Rates DEF LevelNow, Full, RefillRate
  <2>2. CASE buckets[d] # NoEntry
    <3> DEFINE b == buckets[d]
               Tokens(t) == LET refilled == b.tokens + (t - b.lastRefill)
                             IN  IF refilled > Full THEN Full ELSE refilled
    <3>1. b \in Bucket /\ b.lastRefill <= now
      BY <2>2 DEF BurstInv, BucketInv
    <3>2. LevelNow(d) = Tokens(now) /\ LevelNow(d)' = Tokens(now')
      BY <1>1, <2>2, <3>1 DEF LevelNow, Refill, Bucket
    <3> QED
      BY <1>1, <3>1, <3>2, Rates DEF Bucket
  <2> QED
    BY <2>1, <2>2
<1>4. Spent'
  <2> SUFFICES ASSUME NEW d \in Device, NEW i \in 1 .. Len(admitted[d])
               PROVE  (Len(admitted[d]) - i + 1) * RefillRate + LevelNow(d)' <= Full + now' - admitted[d][i]
    BY <1>1 DEF Spent
  <2>1. (Len(admitted[d]) - i + 1) * RefillRate + LevelNow(d) <= Full + now - admitted[d][i]
    BY DEF BurstInv, Spent
  <2>2. admitted[d][i] \in Nat /\ Len(admitted[d]) \in Nat
    BY DEF BurstInv, BucketInv, Times
  <2>3. (Len(admitted[d]) - i + 1) * RefillRate \in Int
    BY <2>2, Rates, OneMore
  <2> DEFINE paid == (Len(admitted[d]) - i + 1) * RefillRate
             first == admitted[d][i]
  <2>4. paid \in Int /\ first \in Nat /\ paid + LevelNow(d) <= Full + now - first
    BY <2>1, <2>2, <2>3
  <2>5. paid + LevelNow(d)' <= Full + now' - first
    <3> HIDE DEF BurstInv, paid, first
    <3> QED
      BY <1>1, <1>3, <2>4, Rates
  <2> QED
    BY <2>5
<1>5. BurstBounded'
  BY <1>1 DEF BurstInv, BurstBounded
<1> QED
  BY <1>2, <1>4, <1>5 DEF BurstInv

(* Whether a request gets its token, what is left then, and the bucket with it. *)
Granted(d) == LevelNow(d) >= RefillRate
Left(d) == IF Granted(d) THEN LevelNow(d) - RefillRate ELSE LevelNow(d)
Used(d) == [tokens |-> Left(d), lastRefill |-> now, lastAccess |-> now]

(* A request refills the bucket, looks for a token and takes it. *)
LEMMA RequestSpends ==
  ASSUME NoEntryApart, BucketInv, NEW d \in Device, AllowDevice(d)
  PROVE  /\ LevelNow(d) \in Nat /\ LevelNow(d) <= Full /\ Left(d) \in 0 .. Full
         /\ buckets' = [buckets EXCEPT ![d] = Used(d)] /\ Used(d) \in Bucket /\ Used(d) # NoEntry
         /\ answer' = <<d, Granted(d)>> /\ now' = now /\ attempts' = attempts
         /\ admitted' = IF Granted(d) THEN [admitted EXCEPT ![d] = Append(admitted[d], now)] ELSE admitted
         /\ LevelNow(d)' = Left(d) /\ \A e \in Device \ {d} : LevelNow(e)' = LevelNow(e)
<1> DEFINE ok == LevelNow(d) >= RefillRate
           left == IF ok THEN LevelNow(d) - RefillRate ELSE LevelNow(d)
           b == [tokens |-> left, lastRefill |-> now, lastAccess |-> now]
<1>1. BucketInv /\ now \in Nat
  BY DEF BucketInv
<1>2. LevelNow(d) \in Nat /\ LevelNow(d) <= Full
  BY <1>1, Levels
<1>3. Refill(GetOrCreate(d)) = [tokens |-> LevelNow(d), lastRefill |-> now, lastAccess |-> GetOrCreate(d).lastAccess]
  <2>1. CASE buckets[d] = NoEntry
    <3>1. GetOrCreate(d) = [tokens |-> Full, lastRefill |-> now, lastAccess |-> now] /\ LevelNow(d) = Full
      BY <2>1 DEF GetOrCreate, LevelNow
    <3>2. ~(Full + (now - now) > Full) /\ Full + (now - now) = Full
      BY <1>1, Rates
    <3> QED
      BY <3>1, <3>2, RefillIs
  <2>2. CASE buckets[d] # NoEntry
    <3>1. buckets[d] \in Bucket
      BY <1>1, <2>2 DEF BucketInv
    <3>2. buckets[d] = [tokens |-> buckets[d].tokens, lastRefill |-> buckets[d].lastRefill, lastAccess |-> buckets[d].lastAccess]
      BY <3>1 DEF Bucket
    <3>3. GetOrCreate(d) = buckets[d]
      BY <2>2 DEF GetOrCreate
    <3> QED
      BY <1>1, <2>2, <3>2, <3>3, Levels, RefillIs
  <2> QED
    BY <2>1, <2>2
<1>4. buckets' = [buckets EXCEPT ![d] = b]
  <2> DEFINE r == Refill(GetOrCreate(d))
  <2>1. r.tokens = LevelNow(d)
    BY <1>3
  <2>2. [r EXCEPT !.tokens = left, !.lastAccess = now] = b
    <3> DEFINE a == GetOrCreate(d).lastAccess
    <3>1. r = [tokens |-> LevelNow(d), lastRefill |-> now, lastAccess |-> a]
      BY <1>3
    <3> HIDE DEF left, a, r
    <3>2. [r EXCEPT !.tokens = left] = [tokens |-> left, lastRefill |-> now, lastAccess |-> a]
      BY <3>1
    <3>3. [[tokens |-> left, lastRefill |-> now, lastAccess |-> a] EXCEPT !.lastAccess = now] = b
      OBVIOUS
    <3> HIDE DEF b
    <3> QED
      BY <3>2, <3>3
  <2>3. buckets' = [buckets EXCEPT ![d] =
          [r EXCEPT !.tokens = IF r.tokens >= RefillRate THEN r.tokens - RefillRate ELSE r.tokens, !.lastAccess = now]]
    BY DEF AllowDevice
  <2> HIDE DEF r, b
  <2> QED
    BY <2>1, <2>2, <2>3
<1>5. /\ admitted' = (IF ok THEN [admitted EXCEPT ![d] = Append(admitted[d], now)] ELSE admitted)
      /\ now' = now /\ attempts' = attempts /\ answer' = <<d, ok>>
  BY <1>3 DEF AllowDevice
<1>6. left \in 0 .. Full
  BY <1>2, Rates
<1>7. b \in Bucket /\ b # NoEntry
  BY <1>1, <1>6 DEF Bucket, NoEntryApart
<1>8. buckets'[d] = b /\ \A e \in Device \ {d} : buckets'[e] = buckets[e]
  BY <1>1, <1>4 DEF BucketInv
<1>9. LevelNow(d)' = left
  <2>1. LevelNow(d)' = LET refilled == left + (now - now) IN IF refilled > Full THEN Full ELSE refilled
    BY <1>5, <1>7, <1>8 DEF LevelNow, Refill
  <2> QED
    BY <1>1, <1>6, <2>1, Rates
<1>10. \A e \in Device \ {d} : LevelNow(e)' = LevelNow(e)
  BY <1>5, <1>8 DEF LevelNow, Refill
<1> QED
  BY <1>2, <1>4, <1>5, <1>6, <1>7, <1>9, <1>10 DEF Granted, Left, Used

(* So it takes only a token that is there. *)
LEMMA AllowKeeps == ASSUME NoEntryApart, BurstInv, NEW d \in Device, AllowDevice(d) PROVE BurstInv'
<1> DEFINE ok == Granted(d)
           left == Left(d)
           b == Used(d)
<1>1. BucketInv /\ Spent /\ BurstBounded /\ now \in Nat
  BY DEF BurstInv, BucketInv
<1>2. LevelNow(d) \in Nat /\ LevelNow(d) <= Full
  BY <1>1, RequestSpends
<1>4. buckets' = [buckets EXCEPT ![d] = b]
  BY <1>1, RequestSpends
<1>5. admitted' = (IF ok THEN [admitted EXCEPT ![d] = Append(admitted[d], now)] ELSE admitted) /\ now' = now
  BY <1>1, RequestSpends
<1>6. left \in 0 .. Full
  BY <1>1, RequestSpends
<1>7. b \in Bucket /\ b # NoEntry
  BY <1>1, RequestSpends
<1>8. buckets'[d] = b /\ \A e \in Device \ {d} : buckets'[e] = buckets[e]
  BY <1>1, <1>4 DEF BucketInv
<1>9. admitted \in [Device -> Seq(Nat)]
  BY <1>1 DEF BucketInv
<1>10. /\ admitted' \in [Device -> Seq(Nat)]
       /\ admitted'[d] = IF ok THEN Append(admitted[d], now) ELSE admitted[d]
       /\ \A e \in Device \ {d} : admitted'[e] = admitted[e]
  BY <1>1, <1>5, <1>9
<1>11. BucketInv'
  <2>1. buckets' = [e \in Device |-> buckets'[e]]
    BY <1>1, <1>4 DEF BucketInv
  <2>2. \A e \in Device : buckets'[e] = NoEntry
                         \/ (buckets'[e] \in Bucket /\ buckets'[e].lastRefill = buckets'[e].lastAccess
                             /\ buckets'[e].lastRefill <= now)
    <3>1. \A e \in Device \ {d} : buckets'[e] = NoEntry
                         \/ (buckets'[e] \in Bucket /\ buckets'[e].lastRefill = buckets'[e].lastAccess
                             /\ buckets'[e].lastRefill <= now)
      BY <1>8 DEF BurstInv, BucketInv
    <3>2. b.lastRefill = now /\ b.lastAccess = now /\ now <= now
      BY <1>1 DEF Used
    <3> HIDE DEF b
    <3>3. buckets'[d] \in Bucket /\ buckets'[d].lastRefill = buckets'[d].lastAccess /\ buckets'[d].lastRefill <= now
      BY <1>7, <1>8, <3>2
    <3> QED
      BY <3>1, <3>3
  <2>3. Times'
    BY <1>1, <1>5, <1>9, <1>10 DEF BucketInv, Times
  <2> QED
    BY <1>1, <1>5, <1>10, <2>1, <2>2, <2>3 DEF BucketInv
<1>12. LevelNow(d)' = left
  BY <1>1, RequestSpends
<1>13. \A e \in Device \ {d} : LevelNow(e)' = LevelNow(e)
  BY <1>1, RequestSpends
<1> HIDE DEF b
<1>14. ASSUME NEW i \in 1 .. Len(admitted[d])
       PROVE  /\ admitted[d][i] \in Nat /\ admitted[d][i] <= now
              /\ (Len(admitted[d]) - i + 1) * RefillRate \in Int
              /\ (Len(admitted[d]) - i + 1) * RefillRate + LevelNow(d) <= Full + now - admitted[d][i]
  <2>1. admitted[d][i] \in Nat /\ admitted[d][i] <= now
    BY <1>1 DEF BucketInv, Times
  <2>2. (Len(admitted[d]) - i + 1) * RefillRate + LevelNow(d) <= Full + now - admitted[d][i]
    BY <1>1 DEF Spent
  <2>3. Len(admitted[d]) - i + 1 \in Int
    <3>1. Len(admitted[d]) \in Nat BY <1>9
    <3> QED BY <3>1
  <2>4. (Len(admitted[d]) - i + 1) * RefillRate \in Int
    <3>1. \A x, y \in Int : x * y \in Int OBVIOUS
    <3> QED BY <2>3, <3>1, Rates
  <2> QED BY <2>1, <2>2, <2>4
<1>15. CASE ok
  <2> DEFINE n == Len(admitted[d])
  <2>1. n \in Nat /\ Len(admitted'[d]) = n + 1 /\ admitted'[d][n + 1] = now
        /\ \A i \in 1 .. n : admitted'[d][i] = admitted[d][i]
    BY <1>9, <1>10, <1>15
  <2>2. ASSUME NEW i \in 1 .. n PROVE (n + 1 - i + 1) * RefillRate = (n - i + 1) * RefillRate + RefillRate
    <3>1. n - i + 1 \in Int /\ n + 1 - i + 1 = (n - i + 1) + 1
      BY <2>1
    <3> HIDE DEF n
    <3> QED
      BY <3>1, OneMore, Rates
  <2>3. 1 * RefillRate = RefillRate
    BY Rates
  <2>4. Spent'
    <3>1. ASSUME NEW i \in 1 .. n + 1
          PROVE (n + 1 - i + 1) * RefillRate + left <= Full + now - admitted'[d][i]
      <4>1. CASE i = n + 1
        <5>1. n + 1 - i + 1 = 1
          BY <2>1, <4>1
        <5> QED
          BY <1>1, <1>2, <1>15, <2>1, <2>3, <4>1, <5>1, Rates DEF Granted, Left
      <4>2. CASE i # n + 1
        <5>1. i \in 1 .. n
          BY <2>1, <4>2
        <5>2. left = LevelNow(d) - RefillRate
          BY <1>15 DEF Left
        <5> DEFINE paid == (n - i + 1) * RefillRate
        <5>3. paid \in Int /\ (n + 1 - i + 1) * RefillRate = paid + RefillRate
              /\ paid + LevelNow(d) <= Full + now - admitted[d][i]
              /\ admitted[d][i] \in Nat /\ admitted'[d][i] = admitted[d][i]
          BY <1>14, <2>1, <2>2, <5>1
        <5> HIDE DEF paid, n, left
        <5> QED
          BY <1>1, <1>2, <5>2, <5>3, Rates
      <4> QED
        BY <4>1, <4>2
    <3>2. ASSUME NEW e \in Device \ {d}, NEW i \in 1 .. Len(admitted'[e])
          PROVE (Len(admitted'[e]) - i + 1) * RefillRate + LevelNow(e)' <= Full + now - admitted'[e][i]
      BY <1>1, <1>10, <1>13 DEF Spent
    <3> QED
      BY <1>5, <1>12, <2>1, <3>1, <3>2 DEF Spent, Full, RefillRate
  <2>5. BurstBounded'
    <3>1. ASSUME NEW i \in 1 .. n + 1, NEW j \in 1 .. n + 1, i <= j
          PROVE (j - i + 1) * RefillRate <= Full + admitted'[d][j] - admitted'[d][i]
      <4>1. CASE j = n + 1 /\ i = n + 1
        <5>1. j - i + 1 = 1
          BY <2>1, <4>1
        <5> QED
          BY <1>1, <1>2, <1>15, <2>1, <2>3, <4>1, <5>1, Rates DEF Granted
      <4>2. CASE j = n + 1 /\ i # n + 1
        <5>1. i \in 1 .. n /\ j - i + 1 = n + 1 - i + 1
          BY <2>1, <4>2
        <5> DEFINE paid == (n - i + 1) * RefillRate
        <5>2. paid \in Int /\ (j - i + 1) * RefillRate = paid + RefillRate
              /\ paid + LevelNow(d) <= Full + now - admitted[d][i] /\ admitted'[d][j] = now
              /\ admitted[d][i] \in Nat /\ admitted'[d][i] = admitted[d][i]
          BY <1>14, <2>1, <2>2, <4>2, <5>1
        <5> HIDE DEF paid, n
        <5> QED
          BY <1>1, <1>2, <1>15, <5>2, Rates DEF Granted
      <4>3. CASE j # n + 1
        <5>1. i \in 1 .. n /\ j \in 1 .. n
          BY <2>1, <3>1, <4>3
        <5>2. DOMAIN admitted[d] = 1 .. n
          BY <1>9
        <5> QED
          BY <1>1, <2>1, <3>1, <5>1, <5>2 DEF BurstBounded
      <4> QED
        BY <4>1, <4>2, <4>3
    <3>2. DOMAIN admitted'[d] = 1 .. n + 1
      BY <1>10, <2>1
    <3> QED
      BY <1>1, <1>10, <3>1, <3>2 DEF BurstBounded, Full, RefillRate
  <2> QED
    BY <1>11, <2>4, <2>5 DEF BurstInv
<1>16. CASE ~ok
  <2>1. admitted' = admitted
    BY <1>5, <1>16
  <2>2. Spent'
    BY <1>1, <1>5, <1>12, <1>13, <1>16, <2>1 DEF Granted, Left, Spent, Full, RefillRate
  <2>3. BurstBounded'
    BY <1>1, <2>1 DEF BurstBounded, Full, RefillRate
  <2> QED
    BY <1>11, <2>2, <2>3 DEF BurstInv
<1> QED
  BY <1>15, <1>16

(* A bucket that nobody used for two windows is full. *)
LEMMA QuietIsFull ==
    ASSUME BucketInv, NEW d \in Device, buckets[d] # NoEntry, buckets[d].lastAccess < now - InactiveExpiry
    PROVE  LevelNow(d) = Full
<1>1. buckets[d] \in Bucket /\ buckets[d].lastRefill = buckets[d].lastAccess /\ now \in Nat
  BY DEF BucketInv
<1>2. Window \in Nat /\ InactiveExpiry = 2 * Window
  BY LimitsAssumption DEF InactiveExpiry
<1>3. buckets[d].tokens + (now - buckets[d].lastRefill) > Full
  BY <1>1, <1>2, Rates DEF Bucket
<1> QED
  BY <1>3, Levels

(* So forgetting it changes no level. *)
LEMMA QuietIsForgotten == ASSUME BucketInv, CleanupDevices PROVE \A d \in Device : LevelNow(d)' = LevelNow(d)
<1>1. /\ now' = now
      /\ buckets' = [d \in Device |->
            IF buckets[d] # NoEntry /\ buckets[d].lastAccess < now - InactiveExpiry THEN NoEntry ELSE buckets[d]]
  BY DEF CleanupDevices
<1>2. ASSUME NEW d \in Device PROVE LevelNow(d)' = LevelNow(d)
  <2>1. CASE buckets[d] # NoEntry /\ buckets[d].lastAccess < now - InactiveExpiry
    <3>1. LevelNow(d)' = Full
      BY <1>1, <2>1 DEF LevelNow, Full, RefillRate
    <3> QED
      BY <2>1, <3>1, QuietIsFull
  <2>2. CASE ~(buckets[d] # NoEntry /\ buckets[d].lastAccess < now - InactiveExpiry)
    <3>1. buckets'[d] = buckets[d]
      BY <1>1, <2>2
    <3> QED
      BY <1>1, <3>1 DEF LevelNow, Refill
  <2> QED
    BY <2>1, <2>2
<1> QED
  BY <1>2

LEMMA CleanupKeeps == ASSUME BurstInv, CleanupDevices PROVE BurstInv'
<1>1. /\ now' = now /\ admitted' = admitted
      /\ buckets' = [d \in Device |->
            IF buckets[d] # NoEntry /\ buckets[d].lastAccess < now - InactiveExpiry THEN NoEntry ELSE buckets[d]]
  BY DEF CleanupDevices
<1>2. BucketInv'
  BY <1>1 DEF BurstInv, BucketInv, Times
<1>3. \A d \in Device : LevelNow(d)' = LevelNow(d)
  BY QuietIsForgotten DEF BurstInv
<1>4. Spent'
  BY <1>1, <1>3 DEF BurstInv, Spent
<1>5. BurstBounded'
  BY <1>1 DEF BurstInv, BurstBounded
<1> QED
  BY <1>2, <1>4, <1>5 DEF BurstInv

LEMMA SameDevices ==
    ASSUME BurstInv, UNCHANGED <<now, buckets, admitted>>
    PROVE  BurstInv'
<1>1. BucketInv'
  BY DEF BurstInv, BucketInv, Times
<1>2. \A d \in Device : LevelNow(d)' = LevelNow(d)
  BY DEF LevelNow, Refill
<1>3. Spent' /\ BurstBounded'
  BY <1>2 DEF BurstInv, Spent, BurstBounded
<1> QED
  BY <1>1, <1>3 DEF BurstInv

LEMMA InitBurst == ASSUME Init PROVE BurstInv
<1>1. admitted = [d \in Device |-> <<>>] /\ now = 0 /\ buckets = [d \in Device |-> NoEntry]
  BY DEF Init
<1>2. \A d \in Device : admitted[d] = <<>> /\ Len(admitted[d]) = 0 /\ DOMAIN admitted[d] = {}
  BY <1>1
<1>3. BucketInv
  BY <1>1, <1>2 DEF BucketInv, Times
<1>4. Spent /\ BurstBounded
  BY <1>2 DEF Spent, BurstBounded
<1> QED
  BY <1>3, <1>4 DEF BurstInv

LEMMA BurstStep == ASSUME NoEntryApart, BurstInv, [Next]_vars PROVE BurstInv'
<1>1. CASE Tick
  BY <1>1, TickKeeps
<1>2. ASSUME NEW i \in Ip, AllowIP(i) PROVE BurstInv'
  BY <1>2, SameDevices DEF AllowIP
<1>3. ASSUME NEW d \in Device, AllowDevice(d) PROVE BurstInv'
  BY <1>3, AllowKeeps
<1>4. CASE CleanupIPs
  BY <1>4, SameDevices DEF CleanupIPs
<1>5. CASE CleanupDevices
  BY <1>5, CleanupKeeps
<1>6. CASE UNCHANGED vars
  BY <1>6, SameDevices DEF vars
<1> QED
  BY <1>1, <1>2, <1>3, <1>4, <1>5, <1>6 DEF Next

(* Each step of the whole is one of the limiters or leaves them alone. *)
LEMMA LimitsStep == [ExchangesNext]_exchangeVars => [Next]_vars
BY DEF ExchangesNext, exchangeVars, limitVars, vars

(* Between any two instants a device gets at most its burst and one request    *)
(* for each interval (DeviceLimiter.Allow); see BurstBounded.                  *)
THEOREM BurstsAreBounded == ASSUME NoEntryApart PROVE ExchangesSpec => []BurstBounded
<1>1. ExchangesInit => BurstInv
  BY InitBurst DEF ExchangesInit
<1>2. BurstInv /\ [ExchangesNext]_exchangeVars => BurstInv'
  BY LimitsStep, BurstStep
<1>3. BurstInv => BurstBounded
  BY DEF BurstInv
<1> QED
  BY <1>1, <1>2, <1>3, PTL DEF ExchangesSpec

--------------------------------------------------------------------------------
(* The limits again: an attempt or a request is answered as if nothing were   *)
(* ever dropped late, refilled late or forgotten.  What RateLimits keeps up to *)
(* date is what the coded limiters would compute now (ValidAttempts, LevelNow).*)

(* The times of an address, if it has an entry. *)
AttemptsInv == now \in Nat /\ attempts \in [Ip -> Seq(Nat) \union {NoEntry}]

(* RateLimits computes with the same rate and keeps the same times. *)
LEMMA SameTerms ==
  Promise!RefillRate = RefillRate /\ Promise!Full = Full /\ \A s, T : Promise!Kept(s, T) = Kept(s, T)
BY DEF Promise!RefillRate, RefillRate, Promise!Full, Full, Promise!Kept, Kept

LEMMA ValidAre == ASSUME AttemptsInv, NEW i \in Ip
  PROVE  ValidAttempts(i) \in Seq(Nat) /\ Kept(ValidAttempts(i), InWindow) = ValidAttempts(i)
<1>1. CASE attempts[i] = NoEntry
  <2>1. <<>> \in Seq(Nat) OBVIOUS
  <2> QED BY <1>1, <2>1, KeptOfNone DEF ValidAttempts
<1>2. CASE attempts[i] # NoEntry
  <2>1. attempts[i] \in Seq(Nat) /\ ValidAttempts(i) = Kept(attempts[i], InWindow) BY <1>2 DEF AttemptsInv, ValidAttempts
  <2> QED BY <2>1, KeptIsSeq, KeptTwice
<1> QED BY <1>1, <1>2

(* Times and buckets that are left alone promise the same at one instant. *)
LEMMA SameAttempts == ASSUME UNCHANGED <<now, attempts>> PROVE \A i \in Ip : ValidAttempts(i)' = ValidAttempts(i)
BY DEF ValidAttempts, InWindow

LEMMA SameLevels == ASSUME UNCHANGED <<now, buckets>> PROVE \A d \in Device : LevelNow(d)' = LevelNow(d)
BY DEF LevelNow, Refill

(* Time drops the old times and adds to the buckets that are not full. *)
LEMMA TickAnswers == ASSUME BucketInv, AttemptsInv, Tick PROVE Promise!Tick
<1>1. now \in Nat /\ now' = now + 1 /\ answer' = NoAnswer /\ UNCHANGED <<attempts, buckets>> BY DEF BucketInv, Tick
<1>2. PICK later : later = {t \in Nat : t > now' - Window} OBVIOUS
<1>3. later \subseteq InWindow /\ InWindow' = later BY <1>1, <1>2, LimitsAssumption DEF InWindow
<1>4. ASSUME NEW i \in Ip PROVE ValidAttempts(i)' = Kept(ValidAttempts(i), later)
  <2>1. CASE attempts[i] = NoEntry BY <1>1, <2>1, KeptOfNone DEF ValidAttempts
  <2>2. CASE attempts[i] # NoEntry
    <3>1. /\ attempts[i] \in Seq(Nat)
          /\ ValidAttempts(i) = Kept(attempts[i], InWindow) /\ ValidAttempts(i)' = Kept(attempts[i], later)
      BY <1>1, <1>3, <2>2 DEF AttemptsInv, ValidAttempts
    <3> QED BY <1>3, <3>1, KeptTwice
  <2> QED BY <2>1, <2>2
<1>5. ASSUME NEW d \in Device PROVE LevelNow(d)' = IF LevelNow(d) < Full THEN LevelNow(d) + 1 ELSE Full
  <2>1. CASE buckets[d] = NoEntry BY <1>1, <2>1, Rates DEF LevelNow, Full, RefillRate
  <2>2. CASE buckets[d] # NoEntry
    <3> DEFINE b == buckets[d]
               Tokens(t) == LET refilled == b.tokens + (t - b.lastRefill)
                             IN  IF refilled > Full THEN Full ELSE refilled
    <3>1. b \in Bucket /\ b.lastRefill <= now BY <2>2 DEF BucketInv
    <3>2. LevelNow(d) = Tokens(now) /\ LevelNow(d)' = Tokens(now')
      BY <1>1, <2>2, <3>1 DEF LevelNow, Refill, Bucket
    <3> QED BY <1>1, <3>1, <3>2, Rates DEF Bucket
  <2> QED BY <2>1, <2>2
<1>6. [i \in Ip |-> ValidAttempts(i)]' = [i \in Ip |-> Kept([j \in Ip |-> ValidAttempts(j)][i], later)] BY <1>4
<1>7. [d \in Device |-> LevelNow(d)]'
      = [d \in Device |-> IF [e \in Device |-> LevelNow(e)][d] < Full THEN [e \in Device |-> LevelNow(e)][d] + 1 ELSE Full]
  BY <1>5
<1> QED BY <1>1, <1>2, <1>6, <1>7, SameTerms DEF Promise!Tick

(* An attempt is answered by the number of times within the window. *)
LEMMA AttemptAnswers == ASSUME AttemptsInv, NEW i \in Ip, AllowIP(i) PROVE Promise!Attempt(i) /\ AttemptsInv'
<1>1. PICK valid, ok, next : /\ valid = ValidAttempts(i) /\ ok = (Len(valid) < MaxAttempts)
                             /\ next = IF ok THEN Append(valid, now) ELSE valid
  OBVIOUS
<1>2. answer' = <<i, ok>> /\ attempts' = [attempts EXCEPT ![i] = next] /\ UNCHANGED <<now, buckets>>
  BY <1>1 DEF AllowIP
<1>3. valid \in Seq(Nat) /\ Kept(valid, InWindow) = valid /\ now \in Nat BY <1>1, ValidAre DEF AttemptsInv
<1>4. now \in InWindow BY <1>3, LimitsAssumption DEF InWindow
<1>5. next \in Seq(Nat) /\ Kept(next, InWindow) = next
  <2>1. CASE ok
    <3>1. PICK window : window = InWindow OBVIOUS
    <3>2. Kept(Append(valid, now), window) = IF now \in window THEN Append(Kept(valid, window), now) ELSE Kept(valid, window)
      BY <1>3, KeptOfAppend
    <3>3. next = Append(valid, now) BY <1>1, <2>1
    <3>4. Append(valid, now) \in Seq(Nat) BY <1>3
    <3>5. Kept(Append(valid, now), window) = Append(valid, now) BY <1>3, <1>4, <3>1, <3>2
    <3> QED BY <3>1, <3>3, <3>4, <3>5
  <2>2. CASE ~ok BY <1>1, <1>3, <2>2
  <2> QED BY <2>1, <2>2, <1>1
<1>6. ValidAttempts(i)' = next
  <2>1. attempts'[i] = next /\ next # NoEntry BY <1>2, <1>5, NoEntryAssumption DEF AttemptsInv
  <2>2. InWindow' = InWindow BY <1>2 DEF InWindow
  <2> QED BY <2>1, <2>2, <1>5 DEF ValidAttempts
<1>7. \A j \in Ip \ {i} : ValidAttempts(j)' = ValidAttempts(j)
  <2>1. \A j \in Ip \ {i} : attempts'[j] = attempts[j] BY <1>2 DEF AttemptsInv
  <2>2. InWindow' = InWindow BY <1>2 DEF InWindow
  <2> QED BY <2>1, <2>2 DEF ValidAttempts
<1>8. \A d \in Device : LevelNow(d)' = LevelNow(d) BY <1>2, SameLevels
<1>9. [j \in Ip |-> ValidAttempts(j)]'
      = IF ok THEN [[j \in Ip |-> ValidAttempts(j)] EXCEPT ![i] = Append(@, now)] ELSE [j \in Ip |-> ValidAttempts(j)]
  BY <1>1, <1>6, <1>7
<1>10. answer'[2] = ok BY <1>2
<1>11. AttemptsInv' BY <1>2, <1>3, <1>5 DEF AttemptsInv
<1> QED BY <1>1, <1>2, <1>8, <1>9, <1>10, <1>11 DEF Promise!Attempt

(* A request is answered by what would be in the bucket. *)
LEMMA RequestAnswers ==
  ASSUME NoEntryApart, BucketInv, NEW d \in Device, AllowDevice(d)
  PROVE  Promise!Request(d)
<1>1. PICK ok, left : ok = Granted(d) /\ left = Left(d) OBVIOUS
<1>2. answer' = <<d, ok>> /\ UNCHANGED <<now, attempts>> /\ ok = (LevelNow(d) >= RefillRate)
  BY <1>1, RequestSpends DEF Granted
<1>3. LevelNow(d)' = left /\ \A e \in Device \ {d} : LevelNow(e)' = LevelNow(e) BY <1>1, RequestSpends
<1>4. left = IF ok THEN LevelNow(d) - RefillRate ELSE LevelNow(d) BY <1>1 DEF Granted, Left
<1>5. [e \in Device |-> LevelNow(e)]'
      = IF ok THEN [[e \in Device |-> LevelNow(e)] EXCEPT ![d] = @ - RefillRate] ELSE [e \in Device |-> LevelNow(e)]
  BY <1>3, <1>4
<1>6. answer'[2] = ok BY <1>2
<1>7. \A i \in Ip : ValidAttempts(i)' = ValidAttempts(i) BY <1>2, SameAttempts
<1> QED BY <1>2, <1>5, <1>6, <1>7, SameTerms DEF Promise!Request

(* The clean-ups forget what no answer depends on. *)
LEMMA CleanupsAnswer ==
  ASSUME BucketInv, AttemptsInv, CleanupIPs \/ CleanupDevices
  PROVE  UNCHANGED Promise!vars /\ AttemptsInv'
<1>1. UNCHANGED <<now, answer>> BY DEF CleanupIPs, CleanupDevices
<1>2. CASE CleanupIPs
  <2>1. /\ UNCHANGED buckets
        /\ attempts' = [i \in Ip |-> IF ValidAttempts(i) = <<>> THEN NoEntry ELSE ValidAttempts(i)]
    BY <1>2 DEF CleanupIPs
  <2>2. ASSUME NEW i \in Ip PROVE ValidAttempts(i)' = ValidAttempts(i)
    <3>1. PICK valid : valid = ValidAttempts(i) OBVIOUS
    <3>2. valid \in Seq(Nat) /\ Kept(valid, InWindow) = valid /\ valid # NoEntry
      BY <3>1, ValidAre, NoEntryAssumption
    <3>3. attempts'[i] = IF valid = <<>> THEN NoEntry ELSE valid BY <2>1, <3>1
    <3>4. InWindow' = InWindow BY <1>1 DEF InWindow
    <3> QED BY <3>1, <3>2, <3>3, <3>4 DEF ValidAttempts
  <2>3. AttemptsInv' BY <1>1, <2>1, ValidAre DEF AttemptsInv
  <2>4. \A d \in Device : LevelNow(d)' = LevelNow(d) BY <1>1, <2>1, SameLevels
  <2> QED BY <1>1, <2>2, <2>3, <2>4 DEF Promise!vars
<1>3. CASE CleanupDevices
  <2>1. UNCHANGED attempts BY <1>3 DEF CleanupDevices
  <2>2. \A i \in Ip : ValidAttempts(i)' = ValidAttempts(i) BY <1>1, <2>1, SameAttempts
  <2>3. \A d \in Device : LevelNow(d)' = LevelNow(d) BY <1>3, QuietIsForgotten
  <2>4. AttemptsInv' BY <1>1, <2>1 DEF AttemptsInv
  <2> QED BY <1>1, <2>2, <2>3, <2>4 DEF Promise!vars
<1> QED BY <1>2, <1>3

(* Each step of the limiters is one of RateLimits, or none. *)
LEMMA LimitsAnswer ==
  ASSUME NoEntryApart, BucketInv, AttemptsInv, [Next]_vars
  PROVE  [Promise!Next]_(Promise!vars) /\ AttemptsInv'
<1>1. CASE Tick
  <2>1. AttemptsInv' BY <1>1 DEF Tick, AttemptsInv
  <2> QED BY <1>1, <2>1, TickAnswers DEF Promise!Next
<1>2. CASE \E i \in Ip : AllowIP(i) BY <1>2, AttemptAnswers DEF Promise!Next
<1>3. ASSUME NEW d \in Device, AllowDevice(d) PROVE Promise!Request(d) /\ AttemptsInv'
  <2>1. AttemptsInv' BY <1>3 DEF AllowDevice, AttemptsInv
  <2> QED BY <1>3, <2>1, RequestAnswers
<1>4. CASE CleanupIPs \/ CleanupDevices BY <1>4, CleanupsAnswer
<1>5. CASE UNCHANGED vars
  <2>1. UNCHANGED <<now, attempts, buckets, answer>> BY <1>5 DEF vars
  <2>2. \A i \in Ip : ValidAttempts(i)' = ValidAttempts(i) BY <2>1, SameAttempts
  <2>3. \A d \in Device : LevelNow(d)' = LevelNow(d) BY <2>1, SameLevels
  <2>4. AttemptsInv' BY <2>1 DEF AttemptsInv
  <2> QED BY <2>1, <2>2, <2>3, <2>4 DEF Promise!vars
<1> QED BY <1>1, <1>2, <1>3, <1>4, <1>5 DEF Next, Promise!Next

LEMMA LimitsStartFull == ASSUME Init PROVE Promise!Init /\ AttemptsInv
<1>1. \A i \in Ip : ValidAttempts(i) = <<>> BY DEF Init, ValidAttempts
<1>2. \A d \in Device : LevelNow(d) = Full BY DEF Init, LevelNow
<1> QED BY <1>1, <1>2, SameTerms DEF Init, Promise!Init, AttemptsInv

(* Dropping old times late, refilling a bucket when it is used and forgetting  *)
(* quiet keys change no answer (internal/ratelimit): the coded limiters        *)
(* implement RateLimits.                                                       *)
THEOREM LimitersForgetNothing == ASSUME NoEntryApart PROVE ExchangesSpec => ImplementsRateLimits
<1>1. ExchangesInit => BurstInv /\ AttemptsInv /\ Promise!Init
  BY InitBurst, LimitsStartFull DEF ExchangesInit
<1>2. BurstInv /\ AttemptsInv /\ [ExchangesNext]_exchangeVars
      => BurstInv' /\ AttemptsInv' /\ [Promise!Next]_(Promise!vars)
  BY LimitsStep, BurstStep, LimitsAnswer DEF BurstInv
<1> QED
  BY <1>1, <1>2, PTL DEF ExchangesSpec, ImplementsRateLimits, Promise!Spec

--------------------------------------------------------------------------------
(* Komga.  The invariant follows a change on its way: from the row into what   *)
(* the goroutine was given (GivenInv), and from there into the targets of the  *)
(* latest pass (TakenInv).                                                     *)

(* None stands for no handler and for no pass; it is none of their records. *)
KomgaApart ==
    /\ None # K!FirstPass
    /\ \A s, ts : None # [stage |-> s, targets |-> ts]

HandlerAt(c, stage) == handler[c] # None /\ handler[c].stage = stage

HandlerInv ==
    /\ handler = [c \in Caller |-> handler[c]]
    /\ \A c \in Caller : handler[c] # None =>
          /\ handler[c].stage \in {"read", "set", "trigger"}
          /\ handler[c] = [stage |-> handler[c].stage, targets |-> handler[c].targets]

(* Unless a request has still to hand over its rows, handed over old ones or none. *)
GivenInv == ~overtaken /\ (\A c \in Caller : ~HandlerAt(c, "read") /\ ~HandlerAt(c, "set")) => given = K!Enabled(target)

(* Unless a pass is asked for, or about to take them. *)
Settled == ~trigger /\ (\A c \in Caller : ~HandlerAt(c, "trigger")) /\ (pass = None \/ pass.stage # "targets")
TakenInv == Settled => taken = given

PushInv == HandlerInv /\ GivenInv /\ TakenInv

--------------------------------------------------------------------------------
(* What the goroutine does between the start of a pass and the next one        *)
(* disturbs neither the targets nor who hands them over.                       *)
LEMMA PassKeeps ==
    ASSUME PushInv, pass # None, pass.stage # "targets",
           UNCHANGED <<target, given, trigger, handler, overtaken, taken>>
    PROVE  PushInv'
<1>1. HandlerInv' /\ GivenInv'
  BY DEF PushInv, HandlerInv, GivenInv, HandlerAt, K!Enabled
<1>2. TakenInv'
  BY DEF PushInv, TakenInv, Settled, HandlerAt
<1> QED
  BY <1>1, <1>2 DEF PushInv

(* A request that has changed its row is about to read the rows. *)
LEMMA AskedKeeps ==
    ASSUME KomgaApart, PushInv, NEW c \in Caller, K!Asked(c)
    PROVE  PushInv'
<1>1. handler' = [handler EXCEPT ![c] = [stage |-> "read", targets |-> {}]]
  BY DEF K!Asked
<1>2. handler'[c] = [stage |-> "read", targets |-> {}] /\ \A d \in Caller \ {c} : handler'[d] = handler[d]
  BY <1>1 DEF PushInv, HandlerInv
<1>3. HandlerAt(c, "read")'
  BY <1>2 DEF KomgaApart, HandlerAt
<1>4. handler[c] = None
  BY DEF K!Asked
<1>5. HandlerInv'
  BY <1>1, <1>2, <1>3 DEF PushInv, HandlerInv, HandlerAt
<1>6. GivenInv'
  BY <1>3 DEF GivenInv
<1>7. Settled' => Settled
  BY <1>2, <1>4 DEF Settled, K!Asked, HandlerAt
<1>8. TakenInv'
  BY <1>7 DEF PushInv, TakenInv, K!Asked
<1> QED
  BY <1>5, <1>6, <1>8 DEF PushInv

(* A request reads the rows, and goes on to SetTargets, *)
LEMMA ReadTargetsKeeps ==
    ASSUME KomgaApart, PushInv, NEW c \in Caller, K!ReadTargets(c)
    PROVE  PushInv'
<1>1. handler' = [handler EXCEPT ![c] = [stage |-> "set", targets |-> K!Enabled(target)]]
  BY DEF K!ReadTargets
<1>2. /\ handler'[c] = [stage |-> "set", targets |-> K!Enabled(target)]
      /\ \A d \in Caller \ {c} : handler'[d] = handler[d]
  BY <1>1 DEF PushInv, HandlerInv
<1>3. HandlerAt(c, "set")'
  BY <1>2 DEF KomgaApart, HandlerAt
<1>4. HandlerInv'
  BY <1>1, <1>2 DEF PushInv, HandlerInv
<1>5. GivenInv'
  BY <1>3 DEF GivenInv
<1>6. Settled' => Settled
  BY <1>2 DEF Settled, K!ReadTargets, HandlerAt
<1>7. TakenInv'
  BY <1>6 DEF PushInv, TakenInv, K!ReadTargets
<1> QED
  BY <1>4, <1>5, <1>7 DEF PushInv

(* or gives up: unless the goroutine has the rows all the same, it is marked. *)
LEMMA GiveUpKeeps ==
    ASSUME KomgaApart, PushInv, NEW c \in Caller, K!GiveUp(c)
    PROVE  PushInv'
<1>1. /\ handler' = [handler EXCEPT ![c] = None]
      /\ handler[c].stage = "read"
      /\ overtaken' = (overtaken \/ given # K!Enabled(target))
      /\ UNCHANGED <<target, given, trigger, pass, taken>>
  BY DEF K!GiveUp
<1>2. handler'[c] = None /\ \A d \in Caller \ {c} : handler'[d] = handler[d]
  BY <1>1 DEF PushInv, HandlerInv
<1>3. HandlerInv'
  BY <1>1, <1>2 DEF PushInv, HandlerInv
<1>4. GivenInv'
  BY <1>1 DEF GivenInv, K!Enabled
<1>5. Settled' => Settled
  BY <1>1, <1>2 DEF Settled, HandlerAt
<1>6. TakenInv'
  BY <1>1, <1>5 DEF PushInv, TakenInv
<1> QED
  BY <1>3, <1>4, <1>6 DEF PushInv

(* and from there to TriggerNow. *)
LEMMA HandOverKeeps ==
    ASSUME KomgaApart, PushInv, NEW c \in Caller, K!HandOver(c)
    PROVE  PushInv'
<1>1. /\ handler[c] # None
      /\ handler[c] = [stage |-> handler[c].stage, targets |-> handler[c].targets]
      /\ handler = [d \in Caller |-> handler[d]]
  BY DEF K!HandOver, PushInv, HandlerInv
<1>2. CASE handler[c].stage = "set"
  <2>1. /\ given' = handler[c].targets
        /\ overtaken' = (handler[c].targets # K!Enabled(target))
        /\ handler' = [handler EXCEPT ![c].stage = "trigger"]
        /\ target' = target
    BY <1>2 DEF K!HandOver, K!SetThenTrigger, K!Given
  <2>2. [handler[c] EXCEPT !.stage = "trigger"] = [stage |-> "trigger", targets |-> handler[c].targets]
    BY <1>1
  <2>3. /\ handler'[c] = [stage |-> "trigger", targets |-> handler[c].targets]
        /\ \A d \in Caller \ {c} : handler'[d] = handler[d]
        /\ handler' = [d \in Caller |-> handler'[d]]
    BY <1>1, <2>1, <2>2
  <2>4. HandlerInv'
    BY <2>3 DEF PushInv, HandlerInv
  <2>5. GivenInv'
    BY <2>1 DEF GivenInv, K!Enabled
  <2>6. HandlerAt(c, "trigger")'
    BY <2>3 DEF KomgaApart, HandlerAt
  <2>7. TakenInv'
    BY <2>6 DEF TakenInv, Settled
  <2> QED
    BY <2>4, <2>5, <2>7 DEF PushInv
<1>3. CASE handler[c].stage = "trigger"
  <2>1. /\ trigger' = TRUE /\ handler' = [handler EXCEPT ![c] = None]
        /\ UNCHANGED <<target, given, overtaken>>
    BY <1>3 DEF K!HandOver, K!SetThenTrigger, K!TriggerNow
  <2>2. handler'[c] = None /\ \A d \in Caller \ {c} : handler'[d] = handler[d]
    BY <1>1, <2>1
  <2>3. HandlerInv'
    BY <1>1, <2>1, <2>2 DEF PushInv, HandlerInv
  <2>4. ~HandlerAt(c, "read") /\ ~HandlerAt(c, "set")
    BY <1>3 DEF HandlerAt
  <2>5. GivenInv'
    BY <2>1, <2>2, <2>4 DEF PushInv, GivenInv, HandlerAt, K!Enabled
  <2>6. TakenInv'
    BY <2>1 DEF TakenInv, Settled
  <2> QED
    BY <2>3, <2>5, <2>6 DEF PushInv
<1> QED
  BY <1>1, <1>2, <1>3 DEF K!HandOver, K!SetThenTrigger

(* The next process is built with the rows there are, and begins with a pass. *)
LEMMA KomgaRestartKeeps == ASSUME KomgaApart, K!Restart PROVE PushInv'
<1>1. /\ given' = K!Enabled(target) /\ target' = target
      /\ handler' = [c \in Caller |-> None] /\ pass' = K!FirstPass
  BY DEF K!Restart
<1>2. \A c \in Caller : handler'[c] = None
  BY <1>1
<1>3. HandlerInv'
  BY <1>1, <1>2 DEF HandlerInv
<1>4. GivenInv'
  BY <1>1 DEF GivenInv, K!Enabled
<1>5. TakenInv'
  BY <1>1 DEF TakenInv, Settled, KomgaApart, K!FirstPass
<1> QED
  BY <1>3, <1>4, <1>5 DEF PushInv

LEMMA KomgaStep == ASSUME KomgaApart, PushInv, [K!Next]_(K!vars) PROVE PushInv'
<1>1. CASE K!Imported
  BY <1>1 DEF K!Imported, K!TriggerNow, PushInv, HandlerInv, GivenInv, TakenInv, Settled, HandlerAt, K!Enabled
<1>2. CASE K!Restart
  BY <1>2, KomgaRestartKeeps
<1>3. CASE K!Wake
  BY <1>3 DEF K!Wake, K!userVars, KomgaApart, K!FirstPass, PushInv, HandlerInv, GivenInv, TakenInv, Settled, HandlerAt, K!Enabled
<1>4. CASE K!SyncOnce
  BY <1>4 DEF K!SyncOnce, K!rowVars, PushInv, HandlerInv, GivenInv, TakenInv, Settled, HandlerAt, K!Enabled
<1>5. CASE K!BuildIndex
  BY <1>5, PassKeeps DEF K!BuildIndex, K!rowVars
<1>6. CASE K!ListReadBookIDs
  BY <1>6, PassKeeps DEF K!ListReadBookIDs, K!rowVars
<1>7. CASE K!EndTarget
  BY <1>7, PassKeeps DEF K!EndTarget, K!rowVars
<1>8. ASSUME NEW t \in taken, K!SyncTarget(t) PROVE PushInv'
  BY <1>8, PassKeeps DEF K!SyncTarget, K!rowVars
<1>9. ASSUME NEW b \in Comic, K!SetBookReadProgress(b) PROVE PushInv'
  BY <1>9, PassKeeps DEF K!SetBookReadProgress, K!rowVars
<1>10. CASE K!Change
  BY <1>10 DEF K!Change, K!rowVars, PushInv, HandlerInv, GivenInv, TakenInv, Settled, HandlerAt, K!Enabled
<1>11. ASSUME NEW c \in Caller, K!ReadTargets(c) \/ K!GiveUp(c) \/ K!HandOver(c) PROVE PushInv'
  BY <1>11, ReadTargetsKeeps, GiveUpKeeps, HandOverKeeps
<1>12. ASSUME NEW c \in Caller, NEW l \in List, K!Delete(c, l) PROVE PushInv'
  BY <1>12, AskedKeeps DEF K!Delete
<1>13. ASSUME NEW c \in Caller, NEW l \in List, NEW f \in Form, K!Create(c, l, f) \/ K!Update(c, l, f) PROVE PushInv'
  BY <1>13, AskedKeeps DEF K!Create, K!Update
<1>14. CASE UNCHANGED K!vars
  BY <1>14 DEF K!vars, PushInv, HandlerInv, GivenInv, TakenInv, Settled, HandlerAt, K!Enabled
<1> QED
  BY <1>1, <1>2, <1>3, <1>4, <1>5, <1>6, <1>7, <1>8, <1>9, <1>10, <1>11, <1>12, <1>13, <1>14 DEF K!Next

--------------------------------------------------------------------------------
LEMMA InitPush == ASSUME KomgaApart, K!Init PROVE PushInv
<1>1. \A c \in Caller : handler[c] = None
  BY DEF K!Init
<1>2. HandlerInv
  BY <1>1 DEF K!Init, HandlerInv
<1>3. given = K!Enabled(target)
  BY DEF K!Init, K!Enabled
<1>4. TakenInv
  BY DEF K!Init, TakenInv, Settled, K!FirstPass, KomgaApart
<1> QED
  BY <1>2, <1>3, <1>4 DEF PushInv, GivenInv

(* A change of a target is pushed (applyKomgaTargets: "takes effect right      *)
(* away"), whatever requests, passes, changes in Komga and restarts come       *)
(* between; see ChangesArePushed.                                              *)
THEOREM TargetsArePushed == ASSUME KomgaApart PROVE ExchangesSpec => []ChangesArePushed
<1>1. ExchangesInit => PushInv
  BY InitPush DEF ExchangesInit
<1>2. PushInv /\ [ExchangesNext]_exchangeVars => PushInv'
  <2>1. [ExchangesNext]_exchangeVars => [K!Next]_(K!vars)
    BY DEF ExchangesNext, exchangeVars, komgaVars, K!vars, K!rowVars, K!shownVars, K!userVars
  <2> QED
    BY <2>1, KomgaStep
<1>3. PushInv => ChangesArePushed
  BY DEF PushInv, GivenInv, TakenInv, Settled, HandlerAt, K!ChangesArePushed, ChangesArePushed
<1> QED
  BY <1>1, <1>2, <1>3, PTL DEF ExchangesSpec

--------------------------------------------------------------------------------
(* The XML library.  Between the change and the mark a book is held by the     *)
(* backend's lock (HolderInv: the mark that is due is not empty), then it is   *)
(* marked until a save that has it is through (ImageInv).                      *)

(* None stands for a lock that is free, and is none of the records. *)
LibraryApart ==
    /\ \A books : None # [does |-> "mark", books |-> books]
    /\ \A does, stage, image : None # [does |-> does, stage |-> stage, image |-> image]

IsMark(h) == h = [does |-> "mark", books |-> h.books] /\ h.books # {}
IsSave(h) ==
    /\ h = [does |-> h.does, stage |-> h.stage, image |-> h.image]
    /\ h.does \in {"books", "lists"} /\ h.stage \in {"marshal", "open", "write"}

(* Marked books are saved under the cache's lock, or, without a cache, under   *)
(* the backend's; never under both.                                            *)
HolderInv ==
    /\ holder = [lock \in X!Lock |-> holder[lock]]
    /\ \/ holder["backend"] = None \/ IsMark(holder["backend"])
       \/ IsSave(holder["backend"]) /\ (holder["backend"].does = "books" => ~cached /\ dirty # {})
    /\ \/ holder["cache"] = None
       \/ IsSave(holder["cache"]) /\ holder["cache"].does = "books" /\ cached /\ dirty # {}

Holds(lock) == holder[lock] # None /\ holder[lock].does # "mark" /\ holder[lock].stage # "marshal"

(* What a save writes is what is in memory, unless the library was changed     *)
(* beside it: then the mark is due, or the two saves overlap, or a list was    *)
(* not saved.                                                                  *)
ImageInv ==
    /\ Holds("backend") => holder["backend"].image = library
    /\ Holds("cache") => \/ holder["cache"].image = library
                         \/ overlapped \/ astray \/ holder["backend"] # None

SavedInv == HolderInv /\ ImageInv /\ X!SavedOrMarked

--------------------------------------------------------------------------------
LEMMA RecordsApart ==
    ASSUME LibraryApart, NEW h, IsMark(h) \/ IsSave(h)
    PROVE  h # None
BY DEF LibraryApart, IsMark, IsSave

(* A change of the library holds the backend's lock until it is marked or      *)
(* saved.                                                                      *)
LEMMA ChangeKeeps ==
    ASSUME LibraryApart, SavedInv, NEW h, IsMark(h) \/ (IsSave(h) /\ h.does = "lists" /\ h.stage = "marshal"),
           holder["backend"] = None, holder' = [holder EXCEPT !["backend"] = h],
           UNCHANGED <<cached, dirty, overlapped, astray>>
    PROVE  SavedInv'
<1>1. holder'["backend"] = h /\ holder'["cache"] = holder["cache"] /\ holder' = [lock \in X!Lock |-> holder'[lock]]
  BY DEF SavedInv, HolderInv, X!Lock
<1>2. h # None
  BY RecordsApart
<1>3. HolderInv'
  BY <1>1 DEF SavedInv, HolderInv, IsMark, IsSave
<1>4. ~Holds("backend")'
  BY <1>1 DEF Holds, IsMark
<1>5. ImageInv'
  BY <1>1, <1>2, <1>4 DEF ImageInv
<1>6. X!SavedOrMarked'
  BY <1>1, <1>2 DEF X!SavedOrMarked, X!Lock
<1> QED
  BY <1>3, <1>5, <1>6 DEF SavedInv

LEMMA EditKeeps ==
    ASSUME LibraryApart, SavedInv, NEW books, books # {}, NEW version, X!Edit(books, version)
    PROVE  SavedInv'
<1> DEFINE h == [does |-> "mark", books |-> books]
<1>1. IsMark(h)
  BY DEF IsMark
<1>2. holder["backend"] = None /\ holder' = [holder EXCEPT !["backend"] = h]
      /\ UNCHANGED <<cached, dirty, overlapped, astray>>
  BY DEF X!Edit
<1> HIDE DEF h
<1> QED
  BY <1>1, <1>2, ChangeKeeps

LEMMA PutKeeps ==
    ASSUME LibraryApart, SavedInv, NEW lists, X!Put(lists)
    PROVE  SavedInv'
<1>1. IsSave(X!Saving("lists")) /\ X!Saving("lists").does = "lists" /\ X!Saving("lists").stage = "marshal"
  BY DEF IsSave, X!Saving
<1>2. holder["backend"] = None /\ holder' = [holder EXCEPT !["backend"] = X!Saving("lists")]
      /\ UNCHANGED <<cached, dirty, overlapped, astray>>
  BY DEF X!Put
<1> QED
  BY <1>1, <1>2, ChangeKeeps

(* A list that was refused its new place, or was lost on the way, is marked as *)
(* changed without a save.                                                     *)
LEMMA UnsavedKeeps ==
    ASSUME SavedInv, NEW lists, X!Unsaved(lists)
    PROVE  SavedInv'
<1>1. /\ holder["backend"] = None /\ astray' = TRUE
      /\ UNCHANGED <<cached, file, dirty, holder, overlapped>>
  BY DEF X!Unsaved
<1>2. HolderInv'
  BY <1>1 DEF SavedInv, HolderInv, IsMark, IsSave
<1>3. ImageInv'
  BY <1>1 DEF ImageInv, Holds
<1>4. X!SavedOrMarked'
  BY <1>1 DEF X!SavedOrMarked
<1> QED
  BY <1>2, <1>3, <1>4 DEF SavedInv

(* The mark waits for a save that is under way, so that it does not go with it. *)
LEMMA MarkKeeps == ASSUME LibraryApart, SavedInv, X!Mark PROVE SavedInv'
<1>1. /\ IsMark(holder["backend"]) /\ holder["cache"] = None
      /\ dirty' = dirty \union holder["backend"].books
      /\ holder' = [holder EXCEPT !["backend"] = None]
      /\ UNCHANGED <<cached, library, file, steps, overlapped, astray>>
  BY DEF X!Mark, X!Marked, SavedInv, HolderInv, IsSave
<1>2. dirty' # {}
  BY <1>1 DEF IsMark
<1>3. holder'["backend"] = None /\ holder'["cache"] = None /\ holder' = [lock \in X!Lock |-> holder'[lock]]
  BY <1>1 DEF SavedInv, HolderInv, X!Lock
<1>4. HolderInv'
  BY <1>3 DEF HolderInv
<1>5. ImageInv'
  BY <1>3 DEF ImageInv, Holds
<1>6. X!SavedOrMarked'
  BY <1>2 DEF X!SavedOrMarked
<1> QED
  BY <1>4, <1>5, <1>6 DEF SavedInv

(* A flush begins; the image is taken later. *)
LEMMA FlushKeeps == ASSUME LibraryApart, SavedInv, X!FlushCache \/ X!FlushAll PROVE SavedInv'
<1>1. /\ IsSave(X!Saving("books")) /\ X!Saving("books").does = "books" /\ X!Saving("books").stage = "marshal"
      /\ X!Saving("books") # None
  BY RecordsApart DEF IsSave, X!Saving
<1>2. PICK lock \in X!Lock :
        /\ holder[lock] = None /\ dirty # {} /\ (lock = "cache" <=> cached)
        /\ holder' = [holder EXCEPT ![lock] = X!Saving("books")]
        /\ UNCHANGED <<cached, library, file, dirty, steps, overlapped, astray>>
  BY DEF X!FlushCache, X!FlushAll, X!Lock
<1>3. /\ holder'[lock] = X!Saving("books") /\ \A other \in X!Lock \ {lock} : holder'[other] = holder[other]
      /\ holder' = [k \in X!Lock |-> holder'[k]]
  BY <1>2 DEF SavedInv, HolderInv
<1>4. HolderInv'
  BY <1>1, <1>2, <1>3 DEF SavedInv, HolderInv, IsMark, IsSave, X!Lock
<1>5. ImageInv'
  BY <1>1, <1>2, <1>3 DEF SavedInv, ImageInv, Holds, X!Lock
<1>6. X!SavedOrMarked'
  BY <1>2 DEF X!SavedOrMarked
<1> QED
  BY <1>4, <1>5, <1>6 DEF SavedInv

(* The image is taken. *)
LEMMA MarshalKeeps ==
    ASSUME LibraryApart, SavedInv, NEW lock \in X!Lock, X!Save(lock), holder[lock].stage = "marshal"
    PROVE  SavedInv'
<1> DEFINE h == [does |-> holder[lock].does, stage |-> "open", image |-> library]
<1>1. IsSave(holder[lock]) /\ X!InSave(lock)
  BY DEF SavedInv, HolderInv, X!Save, X!InSave, IsMark, X!Lock
<1>2. /\ holder' = [holder EXCEPT ![lock].stage = "open", ![lock].image = library]
      /\ overlapped' = (\E other \in X!Lock \ {lock} : X!InSave(other)) /\ astray' = FALSE
      /\ UNCHANGED <<cached, library, file, dirty, steps>>
  BY <1>1 DEF X!Save
<1>3. holder[lock] = [does |-> holder[lock].does, stage |-> "marshal", image |-> holder[lock].image]
  BY <1>1 DEF IsSave
<1>4. [[holder[lock] EXCEPT !.stage = "open"] EXCEPT !.image = library] = h
  <2> DEFINE opened == [does |-> holder[lock].does, stage |-> "open", image |-> holder[lock].image]
  <2>1. [holder[lock] EXCEPT !.stage = "open"] = opened
    BY <1>3
  <2>2. [opened EXCEPT !.image = library] = h
    OBVIOUS
  <2> QED
    BY <2>1, <2>2
<1>5. holder = [k \in X!Lock |-> holder[k]]
  BY DEF SavedInv, HolderInv
<1>6. /\ holder' = [k \in X!Lock |-> holder'[k]] /\ holder'[lock] = h
      /\ \A other \in X!Lock \ {lock} : holder'[other] = holder[other]
  BY <1>2, <1>4, <1>5
<1>7. IsSave(h) /\ h # None
  <2>1. IsSave(h)
    BY <1>1 DEF IsSave
  <2> QED
    BY <2>1, RecordsApart
<1>8. h.does = holder[lock].does /\ h.image = library
  OBVIOUS
<1> HIDE DEF h
<1>9. HolderInv'
  <2>1. CASE lock = "backend"
    <3>1. holder'["backend"] = h /\ holder'["cache"] = holder["cache"]
      BY <1>6, <2>1 DEF X!Lock
    <3>2. h.does = "books" => ~cached /\ dirty # {}
      BY <1>1, <1>8, <2>1, RecordsApart DEF SavedInv, HolderInv, IsMark, IsSave
    <3> QED
      BY <1>2, <1>6, <1>7, <3>1, <3>2 DEF SavedInv, HolderInv, IsSave
  <2>2. CASE lock = "cache"
    <3>1. holder'["cache"] = h /\ holder'["backend"] = holder["backend"]
      BY <1>6, <2>2 DEF X!Lock
    <3>2. h.does = "books" /\ cached /\ dirty # {}
      BY <1>1, <1>8, <2>2, RecordsApart DEF SavedInv, HolderInv
    <3> QED
      BY <1>2, <1>6, <1>7, <3>1, <3>2 DEF SavedInv, HolderInv, IsSave, IsMark
  <2> QED
    BY <2>1, <2>2 DEF X!Lock
<1>10. ImageInv'
  <2>1. CASE lock = "backend"
    <3>1. Holds("cache") => X!InSave("cache")
      BY DEF Holds, X!InSave
    <3>2. Holds("cache")' => overlapped'
      BY <1>2, <1>6, <2>1, <3>1 DEF Holds, X!Lock
    <3> QED
      BY <1>2, <1>6, <1>8, <2>1, <3>2 DEF ImageInv
  <2>2. CASE lock = "cache"
    BY <1>2, <1>6, <1>8, <2>2 DEF SavedInv, ImageInv, Holds, X!Lock
  <2> QED
    BY <2>1, <2>2 DEF X!Lock
<1>11. X!SavedOrMarked'
  BY <1>6, <1>7 DEF X!SavedOrMarked
<1> QED
  BY <1>9, <1>10, <1>11 DEF SavedInv

(* The file is emptied: what is in it does not count while the lock is held. *)
LEMMA OpenKeeps ==
    ASSUME LibraryApart, SavedInv, NEW lock \in X!Lock, X!Save(lock), holder[lock].stage = "open"
    PROVE  SavedInv'
<1> DEFINE h == [does |-> holder[lock].does, stage |-> "write", image |-> holder[lock].image]
<1>1. IsSave(holder[lock]) /\ X!InSave(lock)
  BY DEF SavedInv, HolderInv, X!Save, X!InSave, IsMark, X!Lock
<1>2. /\ holder' = [holder EXCEPT ![lock].stage = "write"]
      /\ overlapped' = (overlapped \/ \E other \in X!Lock \ {lock} : X!InSave(other))
      /\ UNCHANGED <<cached, library, dirty, steps, astray>>
  BY <1>1 DEF X!Save
<1>3. holder[lock] = [does |-> holder[lock].does, stage |-> "open", image |-> holder[lock].image]
  BY <1>1 DEF IsSave
<1>4. [holder[lock] EXCEPT !.stage = "write"] = h
  BY <1>3
<1>5. holder = [k \in X!Lock |-> holder[k]]
  BY DEF SavedInv, HolderInv
<1>6. /\ holder' = [k \in X!Lock |-> holder'[k]] /\ holder'[lock] = h
      /\ \A other \in X!Lock \ {lock} : holder'[other] = holder[other]
  BY <1>2, <1>4, <1>5
<1>7. IsSave(h) /\ h # None
  <2>1. IsSave(h)
    BY <1>1 DEF IsSave
  <2> QED
    BY <2>1, RecordsApart
<1>8. h.does = holder[lock].does /\ h.image = holder[lock].image /\ Holds(lock)
  BY <1>1, RecordsApart DEF IsSave, Holds
<1> HIDE DEF h
<1>9. HolderInv'
  BY <1>1, <1>2, <1>6, <1>7, <1>8 DEF SavedInv, HolderInv, IsMark, IsSave, X!Lock, X!InSave
<1>10. ImageInv'
  <2>1. CASE lock = "backend"
    BY <1>1, <1>2, <1>6, <1>7, <1>8, <2>1 DEF SavedInv, ImageInv, Holds, X!Lock
  <2>2. CASE lock = "cache"
    BY <1>1, <1>2, <1>6, <1>8, <2>2 DEF SavedInv, ImageInv, Holds, X!Lock
  <2> QED
    BY <2>1, <2>2 DEF X!Lock
<1>11. X!SavedOrMarked'
  BY <1>6, <1>7 DEF X!SavedOrMarked
<1> QED
  BY <1>9, <1>10, <1>11 DEF SavedInv

(* Forgetting the marks, the save of the books gives up its lock: nobody else  *)
(* saves books.                                                                *)
LEMMA GivesUpKeeps ==
    ASSUME LibraryApart, SavedInv, NEW lock \in X!Lock, IsSave(holder[lock]),
           holder' = [holder EXCEPT ![lock] = None],
           dirty' = dirty \/ holder[lock].does = "books",
           UNCHANGED <<cached, library>>
    PROVE  /\ HolderInv'
           /\ holder'[lock] = None /\ \A other \in X!Lock \ {lock} : holder'[other] = holder[other]
<1>1. /\ holder' = [k \in X!Lock |-> holder'[k]] /\ holder'[lock] = None
      /\ \A other \in X!Lock \ {lock} : holder'[other] = holder[other]
  BY DEF SavedInv, HolderInv
<1>2. CASE lock = "backend"
  <2>1. holder'["backend"] = None /\ holder'["cache"] = holder["cache"]
    BY <1>1, <1>2 DEF X!Lock
  <2>2. holder["cache"] = None \/ (IsSave(holder["cache"]) /\ holder["cache"].does = "books" /\ cached /\ dirty # {})
    BY DEF SavedInv, HolderInv
  <2>3. holder["cache"] # None => holder["backend"].does # "books"
    BY <1>2, <2>2, RecordsApart DEF SavedInv, HolderInv, IsMark, IsSave
  <2> QED
    BY <1>1, <1>2, <2>1, <2>2, <2>3 DEF HolderInv, IsSave
<1>3. CASE lock = "cache"
  <2>1. holder'["cache"] = None /\ holder'["backend"] = holder["backend"]
    BY <1>1, <1>3 DEF X!Lock
  <2>2. cached
    BY <1>3, RecordsApart DEF SavedInv, HolderInv
  <2>3. \/ holder["backend"] = None \/ IsMark(holder["backend"])
        \/ IsSave(holder["backend"]) /\ holder["backend"].does # "books"
    BY <2>2 DEF SavedInv, HolderInv
  <2> QED
    BY <1>1, <2>1, <2>3 DEF HolderInv, IsSave, IsMark
<1> QED
  BY <1>1, <1>2, <1>3 DEF X!Lock

(* The image is written, and nobody wrote beside it or the save counts as      *)
(* overlapped.                                                                 *)
LEMMA WriteKeeps ==
    ASSUME LibraryApart, SavedInv, NEW lock \in X!Lock, X!Save(lock), holder[lock].stage = "write"
    PROVE  SavedInv'
<1>1. IsSave(holder[lock]) /\ X!InSave(lock)
  BY DEF SavedInv, HolderInv, X!Save, X!InSave, IsMark, X!Lock
<1>2. /\ overlapped' = (overlapped \/ \E other \in X!Lock \ {lock} : X!InSave(other))
      /\ file' \in IF overlapped' THEN {holder[lock].image, Torn} ELSE {holder[lock].image}
      /\ dirty' = IF holder[lock].does = "books" THEN {} ELSE dirty
      /\ holder' = [holder EXCEPT ![lock] = None]
      /\ UNCHANGED <<cached, library, steps, astray>>
  BY <1>1 DEF X!Save
<1>3. Holds(lock)
  BY <1>1, RecordsApart DEF IsSave, Holds
<1>4. HolderInv' /\ holder'[lock] = None /\ \A other \in X!Lock \ {lock} : holder'[other] = holder[other]
  BY <1>1, <1>2, GivesUpKeeps
<1>5. CASE lock = "backend"
  <2>1. Holds("cache") => X!InSave("cache")
    BY DEF Holds, X!InSave
  <2>2. ImageInv'
    BY <1>2, <1>4, <1>5, <2>1 DEF ImageInv, Holds, X!Lock
  <2>3. holder[lock].image = library
    BY <1>3, <1>5 DEF SavedInv, ImageInv
  <2>4. X!SavedOrMarked'
    BY <1>2, <2>3 DEF X!SavedOrMarked
  <2> QED
    BY <1>4, <2>2, <2>4 DEF SavedInv
<1>6. CASE lock = "cache"
  <2>1. ImageInv'
    BY <1>2, <1>4, <1>6 DEF SavedInv, ImageInv, Holds, X!Lock
  <2>2. holder[lock].image = library \/ overlapped \/ astray \/ holder["backend"] # None
    BY <1>3, <1>6 DEF SavedInv, ImageInv
  <2>3. holder'["backend"] = holder["backend"]
    BY <1>4, <1>6 DEF X!Lock
  <2>4. X!SavedOrMarked'
    BY <1>2, <2>2, <2>3 DEF X!SavedOrMarked, X!Lock
  <2> QED
    BY <1>4, <2>1, <2>4 DEF SavedInv
<1> QED
  BY <1>5, <1>6 DEF X!Lock

(* A save that fails keeps the marks, or leaves the lists unsaved. *)
LEMMA SaveFailsKeeps ==
    ASSUME LibraryApart, SavedInv, NEW lock \in X!Lock, X!SaveFails(lock)
    PROVE  SavedInv'
<1>1. IsSave(holder[lock])
  BY DEF SavedInv, HolderInv, X!SaveFails, X!InSave, IsMark, X!Lock
<1>2. /\ holder' = [holder EXCEPT ![lock] = None]
      /\ astray' = (astray \/ holder[lock].does = "lists")
      /\ UNCHANGED <<cached, library, file, dirty, overlapped>>
  BY DEF X!SaveFails
<1>3. HolderInv' /\ holder'[lock] = None /\ \A other \in X!Lock \ {lock} : holder'[other] = holder[other]
  BY <1>1, <1>2, GivesUpKeeps
<1>4. holder[lock].does = "books" => dirty # {}
  BY <1>1, RecordsApart DEF SavedInv, HolderInv, IsMark, IsSave, X!Lock
<1>5. X!SavedOrMarked'
  BY <1>1, <1>2, <1>4 DEF X!SavedOrMarked, IsSave
<1>6. ImageInv'
  <2>1. CASE lock = "cache"
    BY <1>2, <1>3, <2>1 DEF SavedInv, ImageInv, Holds, X!Lock
  <2>2. CASE lock = "backend"
    <3>1. holder["cache"] # None => cached
      BY DEF SavedInv, HolderInv
    <3>2. holder["cache"] # None => holder[lock].does = "lists"
      BY <1>1, <2>2, <3>1, RecordsApart DEF SavedInv, HolderInv, IsMark, IsSave
    <3> QED
      BY <1>2, <1>3, <2>2, <3>2 DEF SavedInv, ImageInv, Holds, X!Lock
  <2> QED
    BY <2>1, <2>2 DEF X!Lock
<1> QED
  BY <1>3, <1>5, <1>6 DEF SavedInv

LEMMA LibraryRestartKeeps == ASSUME X!Restart PROVE SavedInv'
<1>1. holder' = [lock \in X!Lock |-> None] /\ library' = file /\ file' = file
  BY DEF X!Restart
<1>2. HolderInv'
  BY <1>1 DEF HolderInv, X!Lock
<1>3. ImageInv'
  BY <1>1 DEF ImageInv, Holds, X!Lock
<1>4. X!SavedOrMarked'
  BY <1>1 DEF X!SavedOrMarked
<1> QED
  BY <1>2, <1>3, <1>4 DEF SavedInv

--------------------------------------------------------------------------------
LEMMA LibraryStep == ASSUME LibraryApart, SavedInv, [X!Next]_(X!vars) PROVE SavedInv'
<1>1. ASSUME NEW b \in Book, X!CreateBook(b) \/ X!DeleteBook(b) PROVE SavedInv'
  BY <1>1, EditKeeps DEF X!CreateBook, X!DeleteBook
<1>2. ASSUME NEW books \in SUBSET Book, X!UpdateBooks(books) PROVE SavedInv'
  BY <1>2, EditKeeps DEF X!UpdateBooks
<1>3. ASSUME NEW l \in Shelf, X!CreateList(l) \/ X!UpdateList(l) \/ X!DeleteList(l) PROVE SavedInv'
  BY <1>3, PutKeeps DEF X!CreateList, X!UpdateList, X!DeleteList
<1>4. ASSUME NEW l \in Shelf, NEW parent \in Shelf \union {Root}, X!MoveList(l, parent) PROVE SavedInv'
  BY <1>4, PutKeeps, UnsavedKeeps DEF X!MoveList
<1>5. CASE X!Mark
  BY <1>5, MarkKeeps
<1>6. CASE X!FlushCache \/ X!FlushAll
  BY <1>6, FlushKeeps
<1>7. CASE X!Restart
  BY <1>7, LibraryRestartKeeps
<1>8. ASSUME NEW lock \in X!Lock, X!Save(lock) PROVE SavedInv'
  <2>1. holder[lock].stage \in {"marshal", "open", "write"}
    BY <1>8 DEF X!Save
  <2> QED
    BY <1>8, <2>1, MarshalKeeps, OpenKeeps, WriteKeeps
<1>9. ASSUME NEW lock \in X!Lock, X!SaveFails(lock) PROVE SavedInv'
  BY <1>9, SaveFailsKeeps
<1>10. CASE UNCHANGED X!vars
  <2>1. HolderInv'
    BY <1>10 DEF X!vars, SavedInv, HolderInv, IsMark, IsSave
  <2>2. ImageInv' /\ X!SavedOrMarked'
    BY <1>10 DEF X!vars, SavedInv, ImageInv, Holds, X!SavedOrMarked
  <2> QED
    BY <2>1, <2>2 DEF SavedInv
<1> QED
  BY <1>1, <1>2, <1>3, <1>4, <1>5, <1>6, <1>7, <1>8, <1>9, <1>10 DEF X!Next

LEMMA InitSaved == ASSUME X!Init PROVE SavedInv
<1>1. holder = [lock \in X!Lock |-> None] /\ file = library
  BY DEF X!Init, X!NothingMarked
<1>2. HolderInv
  BY <1>1 DEF HolderInv, X!Lock
<1>3. ImageInv /\ X!SavedOrMarked
  BY <1>1 DEF ImageInv, Holds, X!Lock, X!SavedOrMarked
<1> QED
  BY <1>2, <1>3 DEF SavedInv

(* No change of a book is left out of every later save (LibraryCache and       *)
(* XMLBackend), whatever saves, failures, changes of the lists and restarts    *)
(* come between; see SavedOrMarked.                                            *)
THEOREM ChangesAreSaved == ASSUME LibraryApart PROVE ExchangesSpec => []SavedOrMarked
<1>1. ExchangesInit => SavedInv
  BY InitSaved DEF ExchangesInit
<1>2. SavedInv /\ [ExchangesNext]_exchangeVars => SavedInv'
  <2>1. [ExchangesNext]_exchangeVars => [X!Next]_(X!vars)
    BY DEF ExchangesNext, exchangeVars, libraryVars, X!vars
  <2> QED
    BY <2>1, LibraryStep
<1>3. SavedInv => SavedOrMarked
  BY DEF SavedInv, SavedOrMarked
<1> QED
  BY <1>1, <1>2, <1>3, PTL DEF ExchangesSpec

--------------------------------------------------------------------------------
(* Backups.  What is listed has been there whole since its manifest was written*)
(* (FolderOK, RunOK); the files before a restore are in its own backup until   *)
(* that is removed, or until a server was started beside the restore           *)
(* (RestoringOK, UndoOK); and the record names the last backup except while a  *)
(* run is past its manifest (DueOK).                                           *)

(* None is no run. *)
BackupsApart ==
  \A t, s, k, n, l : [trigger |-> t, started |-> s, keep |-> k, name |-> n, left |-> l] # None

(* A folder, a run and a restore are records of these fields. *)
IsEntry(e) == e = [whole |-> e.whole, created |-> e.created, files |-> e.files, manifest |-> e.manifest,
                   runs |-> e.runs, setting |-> e.setting]
IsRun(j) == j = [trigger |-> j.trigger, started |-> j.started, keep |-> j.keep, name |-> j.name, left |-> j.left]
IsRestore(r) == r = [name |-> r.name, left |-> r.left, pre |-> r.pre, staged |-> r.staged, runs |-> r.runs,
                     setting |-> r.setting, raced |-> r.raced]

(* A folder with a manifest has all the files, unless a removal of it was cut short. *)
Sound(e, short) ==
  /\ IsEntry(e)
  /\ e.whole => e.manifest = B!File /\ (short \/ DOMAIN e.files = B!File)

(* The folders have the names that were given out. *)
FolderOK ==
  /\ names \in Nat /\ DOMAIN dir \subseteq 1 .. names /\ cut \subseteq 1 .. names
  /\ \A n \in DOMAIN dir : Sound(dir[n], n \in cut)

(* The files a run has copied before it does what is left. *)
Copied(left) == IF left = B!Files THEN {} ELSE IF left = <<"library">> THEN {"config"} ELSE B!File
(* The run has its manifest. *)
Past(j) == j.left \in {<<"prune">>, <<"record">>}

(* Until then its folder is there, and not listed, with what has been copied. *)
RunOK ==
  job # None =>
    /\ IsRun(job) /\ job.name \in 1 .. names
    /\ job.left \in {B!Files, <<"library">>, <<"manifest">>, <<"prune">>, <<"record">>}
    /\ ~Past(job) => /\ job.name \in DOMAIN dir /\ job.name \notin cut /\ ~dir[job.name].whole
                     /\ DOMAIN dir[job.name].files = Copied(job.left)

(* No run and no deletion outlives the server. *)
DownOK == ~up => job = None /\ removing = None

(* A restore that no server was started beside has the files there are in its own backup;
   what it puts in place is complete, with the settings and the record that there are. *)
RestoringOK ==
  /\ DOMAIN live = B!File
  /\ restore # None =>
      /\ IsRestore(restore)
      /\ restore.left \in {<<"safety">>, <<"stage">>, B!Files, <<"library">>}
      /\ ~restore.raced => ~up
      /\ restore.left \in {B!Files, <<"library">>} => DOMAIN restore.staged = B!File
      /\ restore.left \in {B!Files, <<"library">>} /\ ~restore.raced => restore.runs = runs /\ restore.setting = setting
      /\ restore.left = <<"stage">> /\ ~restore.raced => restore.pre \in DOMAIN dir /\ dir[restore.pre].files = live

(* That backup is there as long as the ghost says so. *)
UndoOK == before # None => B!Intact(before.name) /\ before.files = dir[before.name].files

IsLook(d) == d = [passed |-> d.passed, raced |-> d.raced]

(* A backup that starts at t is in another slot than the last one. *)
InTime(t) == IF setting.mode = "daily" THEN B!Slot(lastDone) < B!Slot(t) ELSE lastDone + Step <= t

(* The last backup that was finished is the one in the record, except between the manifest
   and the record; a scheduled run was due by it; and what the schedule has found due still
   is, unless a run was finished that it did not see. *)
DueOK ==
  /\ clock \in Int /\ lastDone \in Int
  /\ job # None => /\ job.started \in Int
                   /\ Past(job) => lastDone = job.started
  /\ ~(job # None /\ Past(job)) /\ ~excused /\ lastDone # B!Never => runs.last = lastDone
  /\ job # None /\ job.trigger = "schedule" /\ ~Past(job) /\ ~excused /\ lastDone # B!Never => InTime(job.started)
  /\ due # None => IsLook(due)
  /\ due # None /\ ~due.raced /\ ~excused /\ lastDone # B!Never => InTime(clock)

BackupInv == FolderOK /\ RunOK /\ DownOK /\ RestoringOK /\ UndoOK /\ DueOK

(* The steps of a run and of a restore differ. *)
LEMMA Phases ==
  /\ Head(B!Files) = "config" /\ Tail(B!Files) = <<"library">> /\ Len(B!Files) = 2
  /\ Head(<<"library">>) = "library" /\ Len(<<"library">>) = 1
  /\ Head(<<"manifest">>) = "manifest" /\ Head(<<"prune">>) = "prune" /\ Head(<<"record">>) = "record"
  /\ Head(<<"safety">>) = "safety" /\ Head(<<"stage">>) = "stage"
  /\ B!Files # <<"library">> /\ B!Files # <<"manifest">> /\ B!Files # <<"prune">> /\ B!Files # <<"record">>
  /\ B!Files # <<"stage">> /\ B!Files # <<"safety">> /\ B!Files # <<>> /\ <<"library">> # <<>>
  /\ <<"library">> # <<"manifest">> /\ <<"library">> # <<"prune">> /\ <<"library">> # <<"record">>
  /\ <<"library">> # <<"stage">> /\ <<"library">> # <<"safety">>
  /\ <<"manifest">> # <<"prune">> /\ <<"manifest">> # <<"record">> /\ <<"stage">> # <<"safety">>
BY DEF B!Files

(* What the invariant gives. *)
LEMMA WholeGives == ASSUME BackupInv PROVE B!ListedIsWhole
<1>1. \A n \in B!Listed \ cut : DOMAIN dir[n].files = B!File
  BY DEF BackupInv, FolderOK, B!Listed, Sound
<1>2. ASSUME restore # None, Head(restore.left) \in B!File PROVE DOMAIN restore.staged = B!File
  BY <1>2, Phases DEF BackupInv, RestoringOK, B!File
<1> QED BY <1>1, <1>2 DEF B!ListedIsWhole

LEMMA UndoGives == ASSUME BackupInv PROVE B!RestoreCanBeUndone
<1>1. ASSUME before # None, NEW f \in B!File
      PROVE  [file |-> f, version |-> before.files[f]] \in B!Versions(before.name)
  <2>1. PICK n : n = before.name OBVIOUS
  <2>2. n \in B!Listed /\ DOMAIN dir[n].files = dir[n].manifest /\ before.files = dir[n].files
    BY <1>1, <2>1 DEF BackupInv, UndoOK, B!Intact
  <2>3. dir[n].manifest = B!File BY <2>2 DEF BackupInv, FolderOK, B!Listed, Sound
  <2>4. f \in DOMAIN dir[n].files BY <2>2, <2>3
  <2>5. [file |-> f, version |-> dir[n].files[f]] \in B!Versions(n) BY <2>4 DEF B!Versions
  <2> QED BY <2>1, <2>2, <2>5
<1> QED BY <1>1 DEF BackupInv, UndoOK, B!RestoreCanBeUndone

(* A slot is a number. *)
LEMMA SlotIsNumber == ASSUME Day \in Nat \ {0}, NEW t \in Int PROVE B!Slot(t) \in Int
  BY DEF B!Slot

LEMMA DueGives == ASSUME Day \in Nat \ {0}, BackupInv PROVE B!OncePerSlot
<1>1. ASSUME job # None, job.trigger = "schedule", ~excused, Head(job.left) \in B!File, lastDone # B!Never
      PROVE  IF setting.mode = "daily" THEN B!Slot(lastDone) # B!Slot(job.started) ELSE lastDone + Step <= job.started
  <2>1. ~Past(job) BY <1>1, Phases DEF Past, B!File
  <2>2. IF setting.mode = "daily" THEN B!Slot(lastDone) < B!Slot(job.started) ELSE lastDone + Step <= job.started
    BY <1>1, <2>1 DEF BackupInv, DueOK, InTime
  <2>3. B!Slot(lastDone) \in Int BY SlotIsNumber DEF BackupInv, DueOK
  <2> QED BY <2>2, <2>3
<1> QED BY <1>1 DEF B!OncePerSlot

(* The server starts with an empty folder. *)
LEMMA BackupStarts == ASSUME B!Init PROVE BackupInv
<1>1. DOMAIN dir = {} BY DEF B!Init
<1>2. FolderOK BY <1>1 DEF B!Init, FolderOK
<1>3. RestoringOK BY DEF B!Init, RestoringOK
<1> QED BY <1>2, <1>3 DEF B!Init, BackupInv, RunOK, DownOK, UndoOK, DueOK, B!Never

(* Folders that are written and removed. *)
LEMMA FolderWritten ==
  ASSUME NEW n, NEW e
  PROVE  /\ DOMAIN B!With(n, e) = DOMAIN dir \union {n} /\ B!With(n, e)[n] = e
         /\ \A x \in DOMAIN dir : x # n => B!With(n, e)[x] = dir[x]
  BY DEF B!With

LEMMA FolderRemoved ==
  ASSUME NEW gone
  PROVE  /\ DOMAIN B!Without(gone) = DOMAIN dir \ gone
         /\ \A x \in DOMAIN dir \ gone : B!Without(gone)[x] = dir[x]
  BY DEF B!Without

(* The backup of a restore stays what it was when other folders are written or removed. *)
LEMMA UndoStays ==
  ASSUME BackupInv, NEW n, UNCHANGED before,
         \A x \in DOMAIN dir : x # n => x \in DOMAIN dir' /\ dir'[x] = dir[x],
         n \notin B!Listed
  PROVE  UndoOK'
<1>1. CASE before = None BY <1>1 DEF UndoOK
<1>2. CASE before # None
  <2>1. PICK m : m = before.name OBVIOUS
  <2>2. m \in B!Listed /\ B!Intact(m) /\ before.files = dir[m].files
    BY <1>2, <2>1 DEF BackupInv, UndoOK, B!Intact
  <2>3. m \in DOMAIN dir' /\ dir'[m] = dir[m] BY <2>2 DEF B!Listed
  <2>4. B!Intact(m)' BY <2>2, <2>3 DEF B!Intact, B!Listed
  <2> QED BY <2>1, <2>2, <2>3, <2>4 DEF UndoOK
<1> QED BY <1>1, <1>2

(* The same when whole backups are removed, and the restore's with them is forgotten. *)
LEMMA UndoForgets ==
  ASSUME BackupInv, NEW gone, B!ForgetsBackup(gone),
         \A x \in DOMAIN dir \ gone : x \in DOMAIN dir' /\ dir'[x] = dir[x]
  PROVE  UndoOK'
<1>1. CASE before = None \/ before.name \in gone BY <1>1 DEF UndoOK, B!ForgetsBackup
<1>2. CASE before # None /\ before.name \notin gone
  <2>1. PICK m : m = before.name OBVIOUS
  <2>2. m \in B!Listed /\ B!Intact(m) /\ before.files = dir[m].files /\ before' = before
    BY <1>2, <2>1 DEF BackupInv, UndoOK, B!Intact, B!ForgetsBackup
  <2>3. m \in DOMAIN dir' /\ dir'[m] = dir[m] BY <1>2, <2>1, <2>2 DEF B!Listed
  <2>4. B!Intact(m)' BY <2>2, <2>3 DEF B!Intact, B!Listed
  <2> QED BY <2>1, <2>2, <2>3, <2>4 DEF UndoOK
<1> QED BY <1>1, <1>2

(* A run takes a name that is not there, and the schedule one that is due. *)
LEMMA RunBegins ==
  ASSUME BackupInv, NEW cause, B!Begin(cause),
         \/ cause # "schedule" /\ UNCHANGED <<due, excused>>
         \/ due # None /\ due' = None /\ excused' = (excused \/ due.raced)
  PROVE  BackupInv'
<1>1. PICK n : n = names + 1 OBVIOUS
<1>2. /\ up /\ job = None /\ names' = n /\ n \in Nat /\ n \notin DOMAIN dir /\ n \notin cut /\ n \in 1 .. n
      /\ DOMAIN dir \subseteq 1 .. n /\ cut \subseteq 1 .. n
  BY <1>1 DEF B!Begin, BackupInv, FolderOK
<1>3. PICK e, j : e = B!Entry(FALSE, <<>>)
                  /\ j = [trigger |-> cause, started |-> clock, keep |-> setting.keep, name |-> n, left |-> B!Files]
  OBVIOUS
<1>4. dir' = B!With(n, e) /\ job' = j BY <1>1, <1>2, <1>3 DEF B!Begin
<1>5. DOMAIN dir' = DOMAIN dir \union {n} /\ dir'[n] = e /\ \A x \in DOMAIN dir : x # n => dir'[x] = dir[x]
  <2>1. /\ DOMAIN B!With(n, e) = DOMAIN dir \union {n} /\ B!With(n, e)[n] = e
        /\ \A x \in DOMAIN dir : x # n => B!With(n, e)[x] = dir[x]
    BY DEF B!With
  <2> QED BY <1>4, <2>1
<1>6. IsEntry(e) /\ ~e.whole /\ e.files = <<>> BY <1>3 DEF B!Entry, IsEntry
<1>7. IsRun(j) /\ j.name = n /\ j.left = B!Files /\ j.started = clock /\ j.trigger = cause BY <1>3 DEF IsRun
<1>8. UNCHANGED <<clock, live, setting, runs, up, removing, restore, lastDone, cut, before>>
  BY DEF B!Begin, B!World
<1>9. FolderOK' BY <1>2, <1>5, <1>6, <1>8 DEF BackupInv, FolderOK, Sound
<1>10. RunOK'
  <2>1. DOMAIN e.files = {} BY <1>6
  <2> QED BY <2>1, <1>2, <1>4, <1>5, <1>6, <1>7, <1>8, Phases DEF RunOK, Copied, Past
<1>11. DownOK' BY <1>2, <1>8 DEF DownOK
<1>12. RestoringOK' BY <1>2, <1>5, <1>8 DEF BackupInv, RestoringOK
<1>13. UndoOK' BY <1>2, <1>5, <1>8, UndoStays DEF B!Listed
<1>14. DueOK'
  <2>1. ~Past(j) BY <1>7, Phases DEF Past
  <2>2. UNCHANGED B!Slot(clock) /\ UNCHANGED B!Slot(lastDone) BY <1>8 DEF B!Slot
  <2>3. CASE cause # "schedule" /\ UNCHANGED <<due, excused>>
    BY <2>1, <2>2, <2>3, <1>2, <1>4, <1>7, <1>8 DEF BackupInv, DueOK, InTime, B!Slot
  <2>4. CASE due # None /\ due' = None /\ excused' = (excused \/ due.raced)
    BY <2>1, <2>2, <2>4, <1>2, <1>4, <1>7, <1>8 DEF BackupInv, DueOK, InTime, B!Slot
  <2> QED BY <2>3, <2>4
<1> QED BY <1>9, <1>10, <1>11, <1>12, <1>13, <1>14 DEF BackupInv

(* A run writes to its own folder, which is not listed: no other folder, and nothing that a restore
   relies on, is disturbed. *)
LEMMA RunWrites ==
  ASSUME BackupInv, job # None, ~Past(job), NEW e, IsEntry(e),
         e.whole => e.manifest = B!File /\ DOMAIN e.files = B!File,
         dir' = B!With(job.name, e), UNCHANGED <<live, up, names, restore, cut, before>>
  PROVE  FolderOK' /\ RestoringOK' /\ UndoOK' /\ DOMAIN dir' = DOMAIN dir /\ dir'[job.name] = e
<1>1. PICK n : n = job.name OBVIOUS
<1>2. n \in DOMAIN dir /\ n \notin cut /\ ~dir[n].whole BY <1>1 DEF BackupInv, RunOK
<1>3. DOMAIN dir' = DOMAIN dir /\ dir'[n] = e /\ \A x \in DOMAIN dir : x # n => dir'[x] = dir[x]
  <2>1. /\ DOMAIN B!With(n, e) = DOMAIN dir \union {n} /\ B!With(n, e)[n] = e
        /\ \A x \in DOMAIN dir : x # n => B!With(n, e)[x] = dir[x]
    BY DEF B!With
  <2> QED BY <1>1, <1>2, <2>1
<1>4. FolderOK' BY <1>2, <1>3 DEF BackupInv, FolderOK, Sound
<1>5. RestoringOK'
  <2>1. up BY DEF BackupInv, DownOK
  <2> QED BY <2>1 DEF BackupInv, RestoringOK
<1>6. UndoOK' BY <1>2, <1>3, UndoStays DEF B!Listed
<1> QED BY <1>1, <1>3, <1>4, <1>5, <1>6

(* A file is added to the folder of the run. *)
LEMMA FileIsCopied == ASSUME BackupInv, B!Snapshot PROVE BackupInv'
<1>1. PICK f : f = Head(job.left) OBVIOUS
<1>2. /\ job # None /\ job.left \in {B!Files, <<"library">>} /\ f \in B!File /\ ~Past(job)
      /\ job.left = B!Files => f = "config"
      /\ job.left = <<"library">> => f = "library"
  BY <1>1, Phases DEF B!Snapshot, BackupInv, RunOK, B!File, Past
<1>3. PICK e : e = dir[job.name] OBVIOUS
<1>4. IsEntry(e) /\ ~e.whole /\ DOMAIN e.files = Copied(job.left) /\ job.name \in DOMAIN dir
  BY <1>2, <1>3 DEF BackupInv, RunOK, FolderOK, Sound
<1>5. PICK files : files = [g \in DOMAIN e.files \union {f} |-> IF g = f THEN B!Read(f) ELSE e.files[g]] OBVIOUS
<1>6. PICK e2 : e2 = IF f = "config" THEN [e EXCEPT !.files = files, !.runs = runs, !.setting = setting]
                                     ELSE [e EXCEPT !.files = files]
  OBVIOUS
<1>7. IsEntry(e2) /\ ~e2.whole /\ e2.files = files
  <2>1. CASE f = "config" BY <2>1, <1>4, <1>6 DEF IsEntry
  <2>2. CASE f # "config" BY <2>2, <1>4, <1>6 DEF IsEntry
  <2> QED BY <2>1, <2>2
<1>8. PICK j : j = [job EXCEPT !.left = IF Len(@) = 1 THEN <<"manifest">> ELSE Tail(@)] OBVIOUS
<1>9. /\ IsRun(j) /\ j.name = job.name /\ j.started = job.started /\ j.trigger = job.trigger
      /\ j.left = IF job.left = B!Files THEN <<"library">> ELSE <<"manifest">>
  <2>1. IsRun(job) BY <1>2 DEF BackupInv, RunOK
  <2>2. Len(job.left) = IF job.left = B!Files THEN 2 ELSE 1 BY <1>2, Phases
  <2>3. PICK left : left = IF job.left = B!Files THEN <<"library">> ELSE <<"manifest">> OBVIOUS
  <2>4. (IF Len(job.left) = 1 THEN <<"manifest">> ELSE Tail(job.left)) = left
    <3>1. CASE job.left = B!Files BY <3>1, <2>3, Phases
    <3>2. CASE job.left = <<"library">> BY <3>2, <2>3, Phases
    <3> QED BY <3>1, <3>2, <1>2
  <2>5. j = [job EXCEPT !.left = left] BY <1>8, <2>4
  <2> QED BY <2>1, <2>3, <2>5 DEF IsRun
<1>10. dir' = B!With(job.name, e2) /\ job' = j
  BY <1>1, <1>3, <1>5, <1>6, <1>8 DEF B!Snapshot
<1>11. UNCHANGED <<clock, live, setting, runs, due, up, names, removing, restore, lastDone, excused, cut, before>>
  BY DEF B!Snapshot, B!World, B!Ghosts
<1>12. FolderOK' /\ RestoringOK' /\ UndoOK' /\ DOMAIN dir' = DOMAIN dir /\ dir'[job.name] = e2
  BY <1>2, <1>7, <1>10, <1>11, RunWrites
<1>13. ~Past(j) BY <1>9, Phases DEF Past
<1>14. RunOK'
  <2>1. DOMAIN e2.files = Copied(j.left)
    <3>1. DOMAIN e2.files = Copied(job.left) \union {f} BY <1>4, <1>5, <1>7
    <3> QED BY <3>1, <1>2, <1>9, Phases DEF Copied, B!File
  <2>2. j.left \in {B!Files, <<"library">>, <<"manifest">>, <<"prune">>, <<"record">>} BY <1>9
  <2>3. job.name \in 1 .. names /\ job.name \notin cut BY <1>2 DEF BackupInv, RunOK
  <2> QED BY <2>1, <2>2, <2>3, <1>4, <1>7, <1>9, <1>10, <1>11, <1>12, <1>13 DEF RunOK
<1>15. DownOK' BY <1>2, <1>11 DEF BackupInv, DownOK
<1>16. DueOK' BY <1>2, <1>9, <1>10, <1>11, <1>13 DEF BackupInv, DueOK, InTime, B!Slot
<1> QED BY <1>12, <1>14, <1>15, <1>16 DEF BackupInv

(* A run that fails removes its folder, which was not listed. *)
LEMMA RunFails == ASSUME BackupInv, B!Fail PROVE BackupInv'
<1>1. job # None /\ ~Past(job) /\ job' = None
  BY Phases DEF B!Fail, BackupInv, RunOK, B!File, Past
<1>2. PICK n : n = job.name OBVIOUS
<1>3. DOMAIN dir' = DOMAIN dir \ {n} /\ \A x \in DOMAIN dir : x # n => dir'[x] = dir[x]
  <2>1. DOMAIN B!Without({n}) = DOMAIN dir \ {n} /\ \A x \in DOMAIN dir \ {n} : B!Without({n})[x] = dir[x]
    BY FolderRemoved
  <2> QED BY <2>1, <1>2 DEF B!Fail
<1>4. UNCHANGED <<clock, live, setting, due, up, names, removing, restore, lastDone, cut, before>>
  BY DEF B!Fail
<1>5. n \notin B!Listed /\ up BY <1>1, <1>2 DEF BackupInv, RunOK, B!Listed, DownOK
<1>6. FolderOK' BY <1>3, <1>4 DEF BackupInv, FolderOK, Sound
<1>7. RunOK' /\ DownOK' BY <1>1, <1>4, <1>5 DEF RunOK, DownOK
<1>8. RestoringOK' BY <1>4, <1>5 DEF BackupInv, RestoringOK
<1>9. UndoOK' BY <1>3, <1>4, <1>5, UndoStays DEF B!Listed
<1>10. DueOK'
  <2>1. ~excused' => ~excused /\ runs'.last = runs.last BY DEF B!Fail
  <2> QED BY <2>1, <1>1, <1>4 DEF BackupInv, DueOK, InTime, B!Slot
<1> QED BY <1>6, <1>7, <1>8, <1>9, <1>10 DEF BackupInv

(* The manifest comes with the last file, and the run becomes the last one. *)
LEMMA RunFinishes == ASSUME BackupsApart, BackupInv, B!Finish PROVE BackupInv'
<1>1. job # None /\ job.left = <<"manifest">> /\ ~Past(job) BY Phases DEF B!Finish, B!Phase, Past
<1>2. PICK e : e = B!Manifest(dir[job.name]) OBVIOUS
<1>3. IsEntry(e) /\ e.whole /\ e.manifest = B!File /\ DOMAIN e.files = B!File
  <2>1. PICK d : d = dir[job.name] OBVIOUS
  <2>2. IsEntry(d) /\ DOMAIN d.files = Copied(<<"manifest">>) /\ e = [d EXCEPT !.whole = TRUE, !.manifest = B!File]
    BY <1>1, <1>2, <2>1 DEF BackupInv, RunOK, FolderOK, Sound, B!Manifest
  <2> QED BY <2>2, Phases DEF IsEntry, Copied
<1>4. PICK j : j = [job EXCEPT !.left = <<"prune">>] OBVIOUS
<1>5. IsRun(j) /\ j.name = job.name /\ j.started = job.started /\ j.left = <<"prune">> /\ Past(j)
  BY <1>1, <1>4 DEF BackupInv, RunOK, IsRun, Past
<1>6. dir' = B!With(job.name, e) /\ job' = j BY <1>2, <1>4 DEF B!Finish
<1>7. /\ UNCHANGED <<clock, live, setting, runs, up, names, removing, restore, cut, before>>
      /\ lastDone' = job.started
  BY DEF B!Finish, B!World
<1>8. FolderOK' /\ RestoringOK' /\ UndoOK' BY <1>1, <1>3, <1>6, <1>7, RunWrites
<1>9. RunOK' BY <1>1, <1>5, <1>6, <1>7 DEF BackupInv, RunOK
<1>10. DownOK' BY <1>1, <1>7 DEF BackupInv, DownOK
<1>11. DueOK'
  <2>1. j # None BY <1>5 DEF IsRun, BackupsApart
  <2>2. due' # None => IsLook(due') /\ due'.raced
    <3>1. CASE due = None BY <3>1 DEF B!Finish
    <3>2. CASE due # None
      <4>1. PICK d : d = [due EXCEPT !.raced = TRUE] OBVIOUS
      <4>2. IsLook(d) /\ d.raced BY <3>2, <4>1 DEF BackupInv, DueOK, IsLook
      <4> QED BY <3>2, <4>1, <4>2 DEF B!Finish
    <3> QED BY <3>1, <3>2
  <2> QED BY <2>1, <2>2, <1>1, <1>5, <1>6, <1>7 DEF BackupInv, DueOK
<1> QED BY <1>8, <1>9, <1>10, <1>11 DEF BackupInv

(* The oldest are removed, and with them perhaps the backup of a restore. *)
LEMMA RunPrunes == ASSUME BackupsApart, BackupInv, B!Prune PROVE BackupInv'
<1>1. job # None /\ job.left = <<"prune">> /\ Past(job) /\ up BY DEF B!Prune, B!Phase, Past, BackupInv, DownOK
<1>2. PICK gone : dir' = B!Without(gone) /\ B!ForgetsBackup(gone) BY DEF B!Prune
<1>3. DOMAIN dir' = DOMAIN dir \ gone /\ \A x \in DOMAIN dir \ gone : dir'[x] = dir[x]
  <2>1. DOMAIN B!Without(gone) = DOMAIN dir \ gone /\ \A x \in DOMAIN dir \ gone : B!Without(gone)[x] = dir[x]
    BY FolderRemoved
  <2> QED BY <2>1, <1>2
<1>4. PICK j : j = [job EXCEPT !.left = <<"record">>] OBVIOUS
<1>5. IsRun(j) /\ j.name = job.name /\ j.started = job.started /\ j.left = <<"record">> /\ Past(j)
  BY <1>1, <1>4 DEF BackupInv, RunOK, IsRun, Past
<1>6. /\ UNCHANGED <<clock, live, setting, runs, due, up, names, removing, restore, lastDone, excused, cut>>
      /\ job' = j
  BY <1>4 DEF B!Prune, B!World
<1>7. FolderOK' BY <1>3, <1>6 DEF BackupInv, FolderOK, Sound
<1>8. RunOK' BY <1>1, <1>5, <1>6 DEF BackupInv, RunOK
<1>9. DownOK' /\ RestoringOK' BY <1>1, <1>6 DEF BackupInv, DownOK, RestoringOK
<1>10. UndoOK'
  <2>1. \A x \in DOMAIN dir \ gone : x \in DOMAIN dir' /\ dir'[x] = dir[x] BY <1>3
  <2> QED BY <2>1, <1>2, UndoForgets
<1>11. DueOK'
  <2>1. j # None BY <1>5 DEF IsRun, BackupsApart
  <2> QED BY <2>1, <1>1, <1>5, <1>6 DEF BackupInv, DueOK, InTime, B!Slot
<1> QED BY <1>7, <1>8, <1>9, <1>10, <1>11 DEF BackupInv

(* The record is that of the last run, or lost. *)
LEMMA RunIsRecorded == ASSUME BackupInv, B!Record PROVE BackupInv'
<1>1. job # None /\ job.left = <<"record">> /\ Past(job) /\ job' = None /\ up
  BY DEF B!Record, B!Phase, Past, BackupInv, DownOK
<1>2. UNCHANGED <<clock, live, setting, due, up, names, dir, removing, restore, lastDone, cut, before>> BY DEF B!Record
<1>3. excused' \/ runs'.last = lastDone BY <1>1 DEF B!Record, BackupInv, DueOK
<1>4. excused' \/ excused' = excused BY DEF B!Record
<1>5. FolderOK' /\ UndoOK' BY <1>2 DEF BackupInv, FolderOK, Sound, UndoOK, B!Intact, B!Listed
<1>6. RunOK' /\ DownOK' BY <1>1, <1>2 DEF RunOK, DownOK
<1>7. RestoringOK' BY <1>1, <1>2 DEF BackupInv, RestoringOK
<1>8. DueOK' BY <1>1, <1>2, <1>3, <1>4 DEF BackupInv, DueOK, InTime, B!Slot
<1> QED BY <1>5, <1>6, <1>7, <1>8 DEF BackupInv

(* A deletion removes only what is listed, so not the folder of a run. *)
LEMMA BackupIsDeleted == ASSUME BackupInv, B!Delete PROVE BackupInv'
<1>1. PICK gone : gone = {removing} \intersect B!Listed OBVIOUS
<1>2. dir' = B!Without(gone) /\ removing' = None /\ up /\ gone \subseteq B!Listed BY <1>1 DEF B!Delete, BackupInv, DownOK
<1>3. DOMAIN dir' = DOMAIN dir \ gone /\ \A x \in DOMAIN dir \ gone : dir'[x] = dir[x]
  <2>1. DOMAIN B!Without(gone) = DOMAIN dir \ gone /\ \A x \in DOMAIN dir \ gone : B!Without(gone)[x] = dir[x]
    BY FolderRemoved
  <2> QED BY <2>1, <1>2
<1>4. UNCHANGED <<clock, live, setting, runs, due, up, names, job, restore, lastDone, excused, cut>>
  BY DEF B!Delete, B!World
<1>5. FolderOK' BY <1>3, <1>4 DEF BackupInv, FolderOK, Sound
<1>6. RunOK'
  <2>1. job # None /\ ~Past(job) => job.name \notin gone BY <1>2 DEF BackupInv, RunOK, B!Listed
  <2> QED BY <2>1, <1>3, <1>4 DEF BackupInv, RunOK, Past
<1>7. DownOK' /\ RestoringOK' BY <1>2, <1>4 DEF BackupInv, DownOK, RestoringOK
<1>8. UndoOK'
  <2>1. B!ForgetsBackup({removing}) BY DEF B!Delete
  <2>2. \A x \in DOMAIN dir \ {removing} : x \in DOMAIN dir' /\ dir'[x] = dir[x] BY <1>1, <1>3
  <2> QED BY <2>1, <2>2, UndoForgets
<1>9. DueOK' BY <1>4 DEF BackupInv, DueOK, InTime, Past, B!Slot
<1> QED BY <1>5, <1>6, <1>7, <1>8, <1>9 DEF BackupInv

(* A step that changes nothing of the folder, the run, the restore or the record. *)
LEMMA NoBackupMoved ==
  ASSUME BackupInv, clock' \in Int, InTime(clock) => InTime(clock)', DownOK',
         UNCHANGED <<names, dir, cut, job, up, live, restore, before, lastDone, excused, runs, setting, due>>
  PROVE  BackupInv'
BY DEF BackupInv, FolderOK, Sound, RunOK, Past, RestoringOK, UndoOK, B!Intact, B!Listed, DueOK, InTime, B!Slot

(* A check, or the look for one, moves nothing of these. *)
LEMMA ChecksStay ==
  ASSUME BackupInv, NEW n, B!HandleBackupVerify(n) \/ B!EndVerify(n) \/ B!HandleBackupDelete(n)
  PROVE  BackupInv'
<1>1. UNCHANGED <<clock, names, dir, cut, job, up, live, restore, before, lastDone, excused, runs, setting, due>>
  BY DEF B!HandleBackupVerify, B!EndVerify, B!HandleBackupDelete, B!World, B!Ghosts
<1>2. DownOK' BY DEF B!HandleBackupVerify, B!EndVerify, B!HandleBackupDelete, B!World, B!Ghosts, BackupInv, DownOK
<1>3. clock' \in Int /\ (InTime(clock) => InTime(clock)') BY <1>1 DEF BackupInv, DueOK, InTime, B!Slot
<1> QED BY <1>1, <1>2, <1>3, NoBackupMoved

(* Time does not go back, and slots are in its order. *)
LEMMA SlotsAreInOrder ==
  ASSUME Day \in Nat \ {0}, NEW t \in Int
  PROVE  B!Slot(t) <= B!Slot(t + 1)
<1>1. PICK q \in Int, n \in Int : q = t \div Day /\ n = (t + 1) \div Day OBVIOUS
<1>2. Day * q <= t /\ t + 1 < Day * n + Day BY <1>1
<1>3. Day * q < Day * (n + 1) BY <1>1, <1>2
<1>4. q < n + 1 BY <1>1, <1>3
<1> QED BY <1>1, <1>4 DEF B!Slot

LEMMA TimePasses == ASSUME BackupInv, B!Tick PROVE BackupInv'
<1>1. UNCHANGED <<names, dir, cut, job, up, removing, live, restore, before, lastDone, excused, runs, setting, due>>
  BY DEF B!Tick, B!Ghosts
<1>2. DownOK' BY <1>1 DEF BackupInv, DownOK
<1>3. clock' \in Int /\ clock' = clock + 1 BY DEF BackupInv, DueOK, B!Tick
<1>4. InTime(clock) => InTime(clock)'
  <2>1. B!Slot(lastDone) \in Int /\ B!Slot(clock) \in Int /\ B!Slot(clock + 1) \in Int
    BY SlotIsNumber, DayAssumption DEF BackupInv, DueOK
  <2>2. B!Slot(clock) <= B!Slot(clock + 1) BY SlotsAreInOrder, DayAssumption DEF BackupInv, DueOK
  <2>3. B!Slot(clock)' = B!Slot(clock + 1) /\ B!Slot(lastDone)' = B!Slot(lastDone) BY <1>1, <1>3 DEF B!Slot
  <2> QED BY <2>1, <2>2, <2>3, <1>1, <1>3, DayAssumption DEF BackupInv, DueOK, InTime
<1> QED BY <1>1, <1>2, <1>3, <1>4, NoBackupMoved

(* What the schedule finds due is in time, if the table names the last backup. *)
LEMMA ScheduleLooks == ASSUME BackupInv, B!BackupTick PROVE BackupInv'
<1>1. UNCHANGED <<clock, names, dir, cut, job, up, removing, live, restore, before, lastDone, excused, runs, setting>>
  BY DEF B!BackupTick, B!World, B!Ghosts
<1>2. PICK last, d : d = [passed |-> FALSE, raced |-> B!Unrecorded \/ last # runs.last] /\ B!Due(last) /\ due' = d
  BY DEF B!BackupTick
<1>3. IsLook(d) BY <1>2 DEF IsLook
<1>4. ASSUME ~d.raced, ~excused, lastDone # B!Never PROVE InTime(clock)
  <2>1. ~B!Unrecorded /\ last = runs.last BY <1>2, <1>4
  <2>2. ~(job # None /\ Past(job)) BY <2>1, Phases DEF B!Unrecorded, Past
  <2>3. last = lastDone BY <2>1, <2>2, <1>4 DEF BackupInv, DueOK
  <2> QED BY <2>3, <1>2, <1>4 DEF B!Due, InTime
<1>5. DueOK' BY <1>1, <1>2, <1>3, <1>4 DEF BackupInv, DueOK, InTime, Past, B!Slot
<1>6. DownOK' BY <1>1 DEF BackupInv, DownOK
<1>7. RestoringOK' /\ UndoOK' BY <1>1 DEF BackupInv, RestoringOK, UndoOK, B!Intact, B!Listed
<1>8. FolderOK' /\ RunOK' BY <1>1 DEF BackupInv, FolderOK, Sound, RunOK, Past
<1> QED BY <1>5, <1>6, <1>7, <1>8 DEF BackupInv

(* It goes on, or drops what it found. *)
LEMMA ScheduleGoesOn == ASSUME BackupInv, B!FindNoFailure \/ B!Wait PROVE BackupInv'
<1>1. UNCHANGED <<clock, names, dir, cut, job, up, removing, live, restore, before, lastDone, excused, runs, setting>>
  BY DEF B!FindNoFailure, B!Wait, B!World, B!Ghosts
<1>2. due' # None => due # None /\ IsLook(due') /\ due'.raced = due.raced
  <2>1. CASE B!Wait BY <2>1 DEF B!Wait
  <2>2. CASE B!FindNoFailure
    <3>1. PICK d : d = [due EXCEPT !.passed = TRUE] OBVIOUS
    <3>2. IsLook(d) /\ d.raced = due.raced BY <2>2, <3>1 DEF B!FindNoFailure, BackupInv, DueOK, IsLook
    <3> QED BY <2>2, <3>1, <3>2 DEF B!FindNoFailure
  <2> QED BY <2>1, <2>2
<1>3. DueOK' BY <1>1, <1>2 DEF BackupInv, DueOK, InTime, Past, B!Slot
<1>4. DownOK' BY <1>1 DEF BackupInv, DownOK
<1>5. RestoringOK' /\ UndoOK' BY <1>1 DEF BackupInv, RestoringOK, UndoOK, B!Intact, B!Listed
<1>6. FolderOK' /\ RunOK' BY <1>1 DEF BackupInv, FolderOK, Sound, RunOK, Past
<1> QED BY <1>3, <1>4, <1>5, <1>6 DEF BackupInv

(* A server that writes beside a restore spoils its backup, and the ghost says so. *)
LEMMA FilesAreWritten == ASSUME BackupInv, NEW f, B!Write(f) PROVE BackupInv'
<1>1. /\ UNCHANGED <<clock, setting, runs, due, names, dir, cut, job, up, removing, restore, lastDone, excused>>
      /\ up /\ before' = None
  BY DEF B!Write
<1>2. DOMAIN live' = DOMAIN live BY DEF B!Write
<1>3. FolderOK' /\ RunOK' /\ DownOK'
  BY <1>1 DEF BackupInv, FolderOK, Sound, RunOK, Past, DownOK
<1>4. RestoringOK' /\ UndoOK' BY <1>1, <1>2 DEF BackupInv, RestoringOK, UndoOK
<1>5. DueOK' BY <1>1 DEF BackupInv, DueOK, InTime, Past, B!Slot
<1> QED BY <1>3, <1>4, <1>5 DEF BackupInv

(* Other settings excuse the schedule. *)
LEMMA SettingsChange == ASSUME BackupInv, NEW s, B!HandleBackupSettings(s) PROVE BackupInv'
<1>1. /\ UNCHANGED <<clock, live, runs, due, names, dir, cut, job, up, removing, restore, lastDone, before>>
      /\ excused' = TRUE /\ up
  BY DEF B!HandleBackupSettings
<1>2. FolderOK' /\ RunOK' /\ DownOK'
  BY <1>1 DEF BackupInv, FolderOK, Sound, RunOK, Past, DownOK
<1>3. RestoringOK' /\ UndoOK' BY <1>1 DEF BackupInv, RestoringOK, UndoOK, B!Intact, B!Listed
<1>4. DueOK' BY <1>1 DEF BackupInv, DueOK, Past
<1> QED BY <1>2, <1>3, <1>4 DEF BackupInv

(* A run that had its manifest is not recorded, and a removal may be half done. *)
LEMMA ServerStops == ASSUME BackupInv, B!Stop PROVE BackupInv'
<1>1. /\ up /\ ~up' /\ job' = None /\ removing' = None
      /\ excused' = (excused \/ B!Unrecorded) /\ due' = None
      /\ UNCHANGED <<clock, live, setting, runs, names, restore, lastDone>>
  BY DEF B!Stop
<1>2. RunOK' /\ DownOK' BY <1>1 DEF RunOK, DownOK
<1>3. DueOK'
  <2>1. job # None /\ Past(job) => excused' BY <1>1, Phases DEF Past, B!Unrecorded
  <2>2. ~excused' => ~excused BY <1>1
  <2> QED BY <2>1, <2>2, <1>1 DEF BackupInv, DueOK
<1>4. CASE UNCHANGED <<dir, cut, before>>
  <2>1. FolderOK' /\ UndoOK' BY <1>1, <1>4 DEF BackupInv, FolderOK, Sound, UndoOK, B!Intact, B!Listed
  <2>2. RestoringOK' BY <1>1, <1>4 DEF BackupInv, RestoringOK
  <2> QED BY <2>1, <2>2, <1>2, <1>3 DEF BackupInv
<1>5. ASSUME NEW n \in B!Listed, NEW left,
             dir' = B!CutShort(n, left), cut' = cut \union {n}, B!ForgetsBackup({n})
      PROVE  BackupInv'
  <2>1. PICK e : e = [dir[n] EXCEPT !.files = [f \in left |-> dir[n].files[f]]] OBVIOUS
  <2>2. IsEntry(e) /\ e.whole /\ e.manifest = B!File BY <1>5, <2>1 DEF BackupInv, FolderOK, Sound, IsEntry, B!Listed
  <2>3. dir' = B!With(n, e) BY <1>5, <2>1 DEF B!CutShort
  <2>4. DOMAIN dir' = DOMAIN dir /\ dir'[n] = e /\ \A x \in DOMAIN dir : x # n => dir'[x] = dir[x]
    <3>1. /\ DOMAIN B!With(n, e) = DOMAIN dir \union {n} /\ B!With(n, e)[n] = e
          /\ \A x \in DOMAIN dir : x # n => B!With(n, e)[x] = dir[x]
      BY DEF B!With
    <3> QED BY <2>3, <3>1, <1>5 DEF B!Listed
  <2>5. FolderOK'
    <3>1. n \in 1 .. names /\ cut' \subseteq 1 .. names BY <1>5 DEF BackupInv, FolderOK, B!Listed
    <3>2. Sound(e, TRUE) BY <2>2 DEF Sound
    <3>3. ASSUME NEW x \in DOMAIN dir' PROVE Sound(dir'[x], x \in cut')
      <4>1. CASE x = n BY <4>1, <3>2, <2>4, <1>5 DEF Sound
      <4>2. CASE x # n
        <5>1. Sound(dir[x], x \in cut) BY <3>3, <2>4 DEF BackupInv, FolderOK
        <5>2. dir'[x] = dir[x] /\ (x \in cut => x \in cut') BY <4>2, <3>3, <2>4, <1>5
        <5> QED BY <5>1, <5>2 DEF Sound
      <4> QED BY <4>1, <4>2
    <3> QED BY <3>1, <3>3, <2>4, <1>1 DEF BackupInv, FolderOK
  <2>6. UndoOK'
    <3>1. \A x \in DOMAIN dir \ {n} : x \in DOMAIN dir' /\ dir'[x] = dir[x] BY <2>4
    <3> QED BY <3>1, <1>5, UndoForgets
  <2>7. RestoringOK' BY <1>1 DEF BackupInv, RestoringOK
  <2> QED BY <1>2, <1>3, <2>5, <2>6, <2>7 DEF BackupInv
<1>6. \/ UNCHANGED <<dir, cut, before>>
      \/ \E n \in B!Listed : \E left : dir' = B!CutShort(n, left) /\ cut' = cut \union {n} /\ B!ForgetsBackup({n})
  BY DEF B!Stop
<1> QED BY <1>4, <1>5, <1>6

(* No run is left of the last start; a restore is no longer alone. *)
LEMMA ServerStarts == ASSUME BackupInv, B!Start PROVE BackupInv'
<1>1. /\ ~up /\ up' /\ job = None /\ job' = None
      /\ UNCHANGED <<clock, live, setting, runs, due, names, dir, cut, lastDone>>
  BY DEF B!Start, B!World, BackupInv, DownOK
<1>2. FolderOK' BY <1>1 DEF BackupInv, FolderOK, Sound
<1>3. RunOK' /\ DownOK' BY <1>1 DEF RunOK, DownOK
<1>4. RestoringOK'
  <2>1. CASE restore = None
    <3>1. restore' = None BY <2>1 DEF B!Start
    <3> QED BY <3>1, <1>1 DEF BackupInv, RestoringOK
  <2>2. CASE restore # None
    <3>1. PICK r : r = [restore EXCEPT !.raced = TRUE] OBVIOUS
    <3>2. IsRestore(r) /\ r.left = restore.left /\ r.staged = restore.staged /\ r.raced
      BY <2>2, <3>1 DEF BackupInv, RestoringOK, IsRestore
    <3>3. restore' = r BY <2>2, <3>1 DEF B!Start
    <3> QED BY <2>2, <3>2, <3>3, <1>1 DEF BackupInv, RestoringOK
  <2> QED BY <2>1, <2>2
<1>5. UndoOK'
  <2>1. before' = None \/ before' = before BY DEF B!Start
  <2> QED BY <2>1, <1>1 DEF BackupInv, UndoOK, B!Intact, B!Listed
<1>6. DueOK'
  <2>1. ~excused' => ~excused BY DEF B!Start
  <2> QED BY <2>1, <1>1 DEF BackupInv, DueOK, InTime, B!Slot
<1> QED BY <1>2, <1>3, <1>4, <1>5, <1>6 DEF BackupInv

(* What the steps of a restore leave alone keeps the rest. *)
LEMMA RestoreAlone ==
  ASSUME BackupInv, RestoringOK', UndoOK',
         UNCHANGED <<clock, setting, runs, due, up, names, dir, job, removing, lastDone, excused, cut>>
  PROVE  BackupInv'
BY DEF BackupInv, FolderOK, Sound, RunOK, Past, DownOK, DueOK, InTime, B!Slot

(* A restore begins with nothing staged. *)
LEMMA RestoreIsPlanned == ASSUME BackupInv, NEW n, B!PlanRestore(n) PROVE BackupInv'
<1>1. UNCHANGED <<clock, live, setting, runs, due, up, names, dir, job, removing, lastDone, excused, cut, before>> /\ ~up
  BY DEF B!PlanRestore, B!Ghosts
<1>2. PICK r : r = [name |-> n, left |-> <<"safety">>, pre |-> None, staged |-> <<>>, runs |-> B!NoRuns,
                    setting |-> setting, raced |-> FALSE]
  OBVIOUS
<1>3. IsRestore(r) /\ r.left = <<"safety">> BY <1>2 DEF IsRestore
<1>4. restore' = r BY <1>2 DEF B!PlanRestore
<1>5. RestoringOK' BY <1>1, <1>3, <1>4, Phases DEF BackupInv, RestoringOK
<1>6. UndoOK' BY <1>1 DEF BackupInv, UndoOK, B!Intact, B!Listed
<1> QED BY <1>1, <1>5, <1>6, RestoreAlone

(* A restore can stop anywhere. *)
LEMMA RestoreStops == ASSUME BackupInv, B!Abandon PROVE BackupInv'
<1>1. /\ UNCHANGED <<clock, live, setting, runs, due, up, names, dir, job, removing, lastDone, excused, cut, before>>
      /\ restore' = None
  BY DEF B!Abandon, B!World, B!Ghosts
<1>2. RestoringOK' /\ UndoOK' BY <1>1 DEF BackupInv, RestoringOK, UndoOK, B!Intact, B!Listed
<1> QED BY <1>1, <1>2, RestoreAlone

(* The backup of a restore has the files there are. *)
LEMMA FilesAreSaved == ASSUME BackupInv, B!Safety PROVE BackupInv'
<1>1. PICK n : n = names + 1 OBVIOUS
<1>2. /\ restore # None /\ names' = n /\ n \in Nat /\ n \notin DOMAIN dir /\ n \notin cut /\ n \in 1 .. n
      /\ DOMAIN dir \subseteq 1 .. n /\ cut \subseteq 1 .. n
  BY <1>1 DEF B!Safety, BackupInv, FolderOK
<1>3. PICK e, r : e = B!Entry(TRUE, live) /\ r = [restore EXCEPT !.left = <<"stage">>, !.pre = n] OBVIOUS
<1>4. dir' = B!With(n, e) /\ restore' = r BY <1>1, <1>2, <1>3 DEF B!Safety, B!Targets
<1>5. DOMAIN dir' = DOMAIN dir \union {n} /\ dir'[n] = e /\ \A x \in DOMAIN dir : x # n => dir'[x] = dir[x]
  <2>1. /\ DOMAIN B!With(n, e) = DOMAIN dir \union {n} /\ B!With(n, e)[n] = e
        /\ \A x \in DOMAIN dir : x # n => B!With(n, e)[x] = dir[x]
    BY DEF B!With
  <2> QED BY <1>4, <2>1
<1>6. IsEntry(e) /\ e.whole /\ e.files = live /\ e.manifest = B!File
  BY <1>3 DEF B!Entry, IsEntry, BackupInv, RestoringOK
<1>7. IsRestore(r) /\ r.left = <<"stage">> /\ r.pre = n /\ r.raced = restore.raced
  BY <1>2, <1>3 DEF BackupInv, RestoringOK, IsRestore
<1>8. UNCHANGED <<clock, live, setting, runs, due, up, job, removing, lastDone, excused, cut, before>>
  BY DEF B!Safety, B!World, B!Ghosts
<1>9. FolderOK'
  <2>1. DOMAIN live = B!File BY DEF BackupInv, RestoringOK
  <2> QED BY <2>1, <1>2, <1>5, <1>6, <1>8 DEF BackupInv, FolderOK, Sound
<1>10. RunOK'
  <2>1. job # None => job.name # n /\ job.name \in 1 .. n BY <1>1 DEF BackupInv, FolderOK, RunOK
  <2> QED BY <2>1, <1>2, <1>5, <1>8 DEF BackupInv, RunOK, Past
<1>11. DownOK' BY <1>8 DEF BackupInv, DownOK
<1>12. RestoringOK' BY <1>2, <1>4, <1>5, <1>6, <1>7, <1>8, Phases DEF BackupInv, RestoringOK
<1>13. UndoOK' BY <1>2, <1>5, <1>8, UndoStays DEF B!Listed
<1>14. DueOK' BY <1>8 DEF BackupInv, DueOK, InTime, Past, B!Slot
<1> QED BY <1>9, <1>10, <1>11, <1>12, <1>13, <1>14 DEF BackupInv

(* The copies are those of a complete backup. *)
LEMMA CopiesAreStaged == ASSUME BackupInv, B!Stage PROVE BackupInv'
<1>1. restore # None /\ restore.left = <<"stage">> /\ B!Intact(restore.name) BY DEF B!Stage
<1>2. PICK kept, staged : kept = B!Carried(dir[restore.name]) /\ staged = dir[restore.name].files OBVIOUS
<1>3. PICK r : r = [restore EXCEPT !.left = B!Files, !.staged = staged, !.runs = kept.runs, !.setting = kept.setting]
  OBVIOUS
<1>4. restore' = r BY <1>2, <1>3 DEF B!Stage
<1>5. /\ IsRestore(r) /\ r.left = B!Files /\ r.staged = staged /\ r.raced = restore.raced
      /\ r.runs = runs /\ r.setting = setting
  BY <1>1, <1>2, <1>3 DEF BackupInv, RestoringOK, IsRestore, B!Carried
<1>6. DOMAIN staged = B!File BY <1>1, <1>2 DEF B!Intact, B!Listed, BackupInv, FolderOK, Sound
<1>7. UNCHANGED <<clock, live, setting, runs, due, up, names, dir, job, removing, lastDone, excused, cut>>
  BY DEF B!Stage, B!World
<1>8. RestoringOK' BY <1>1, <1>4, <1>5, <1>6, <1>7, Phases DEF BackupInv, RestoringOK
<1>9. UndoOK'
  <2>1. CASE restore.raced \/ ~B!Intact(restore.pre)
    <3>1. before' = None BY <2>1 DEF B!Stage
    <3> QED BY <3>1 DEF UndoOK
  <2>2. CASE ~restore.raced /\ B!Intact(restore.pre)
    <3>1. PICK m : m = restore.pre OBVIOUS
    <3>2. B!Intact(m) /\ dir[m].files = live BY <2>2, <3>1, <1>1 DEF BackupInv, RestoringOK
    <3>3. before' = [name |-> m, files |-> live] BY <2>2, <3>1 DEF B!Stage
    <3>4. before'.name = m /\ before'.files = live BY <3>3
    <3>5. B!Intact(m)' BY <3>2, <1>7 DEF B!Intact, B!Listed
    <3> QED BY <3>2, <3>4, <3>5, <1>7 DEF UndoOK
  <2> QED BY <2>1, <2>2
<1> QED BY <1>7, <1>8, <1>9, RestoreAlone

(* A swap leaves the folder alone, and the record or the excuse. *)
LEMMA FileIsSwapped == ASSUME BackupInv, B!Swap PROVE BackupInv'
<1>1. restore # None /\ restore.left \in {B!Files, <<"library">>}
  BY Phases DEF B!Swap, BackupInv, RestoringOK, B!File
<1>2. UNCHANGED <<clock, due, up, names, dir, job, removing, lastDone, cut, before>> BY DEF B!Swap
<1>3. DOMAIN live' = DOMAIN live BY DEF B!Swap
<1>4. /\ ~excused' => ~excused /\ UNCHANGED <<runs, setting>>
      /\ ~restore.raced => UNCHANGED <<runs, setting>>
  <2>1. ~restore.raced => UNCHANGED <<runs, setting>>
    <3>1. CASE Head(restore.left) = "config" BY <3>1, <1>1 DEF B!Swap, BackupInv, RestoringOK
    <3>2. CASE Head(restore.left) # "config" BY <3>2 DEF B!Swap
    <3> QED BY <3>1, <3>2
  <2>2. restore.raced /\ ~excused' => UNCHANGED <<runs, setting>> BY DEF B!Swap
  <2>3. ~excused' => ~excused BY DEF B!Swap
  <2> QED BY <2>1, <2>2, <2>3
<1>5. RestoringOK'
  <2>1. CASE restore.left = <<"library">>
    <3>1. restore' = None BY <2>1, <1>1, Phases DEF B!Swap
    <3> QED BY <3>1, <1>3 DEF BackupInv, RestoringOK
  <2>2. CASE restore.left = B!Files
    <3>1. PICK r : r = [restore EXCEPT !.left = Tail(@)] OBVIOUS
    <3>2. restore' = r BY <2>2, <3>1, Phases DEF B!Swap
    <3>3. /\ IsRestore(r) /\ r.left = <<"library">> /\ r.staged = restore.staged /\ r.raced = restore.raced
          /\ r.runs = restore.runs /\ r.setting = restore.setting
      BY <2>2, <3>1, <1>1, Phases DEF BackupInv, RestoringOK, IsRestore
    <3> QED BY <3>2, <3>3, <1>1, <1>2, <1>3, <1>4, Phases DEF BackupInv, RestoringOK
  <2> QED BY <2>1, <2>2, <1>1
<1>6. FolderOK' /\ RunOK' /\ DownOK' BY <1>2 DEF BackupInv, FolderOK, Sound, RunOK, Past, DownOK
<1>7. UndoOK' BY <1>2 DEF BackupInv, UndoOK, B!Intact, B!Listed
<1>8. DueOK' BY <1>2, <1>4 DEF BackupInv, DueOK, InTime, Past, B!Slot
<1> QED BY <1>5, <1>6, <1>7, <1>8 DEF BackupInv

(* Every step keeps the invariant. *)
LEMMA BackupSteps == ASSUME BackupsApart, BackupInv, [B!Next]_(B!vars) PROVE BackupInv'
<1>1. CASE B!RunScheduled BY <1>1, RunBegins DEF B!RunScheduled
<1>2. CASE B!HandleBackupRun
  <2>1. "manual" # "schedule" OBVIOUS
  <2> QED BY <1>2, <2>1, RunBegins DEF B!HandleBackupRun
<1>3. CASE B!Snapshot \/ B!Fail \/ B!Finish BY <1>3, FileIsCopied, RunFails, RunFinishes
<1>4. CASE B!Prune \/ B!Record \/ B!Delete BY <1>4, RunPrunes, RunIsRecorded, BackupIsDeleted
<1>5. CASE B!Tick \/ B!Stop \/ B!Start BY <1>5, TimePasses, ServerStops, ServerStarts
<1>6. CASE B!Abandon \/ B!Safety \/ B!Stage \/ B!Swap
  BY <1>6, RestoreStops, FilesAreSaved, CopiesAreStaged, FileIsSwapped
<1>7. CASE \E f \in B!File : B!Write(f) BY <1>7, FilesAreWritten
<1>8. CASE \E s \in Setting : B!HandleBackupSettings(s) BY <1>8, SettingsChange
<1>9. CASE \E n \in DOMAIN dir : B!HandleBackupVerify(n) \/ B!HandleBackupDelete(n) \/ B!PlanRestore(n)
  BY <1>9, ChecksStay, RestoreIsPlanned
<1>10. CASE \E n \in DOMAIN verify : B!EndVerify(n) BY <1>10, ChecksStay
<1>11. CASE B!BackupTick \/ B!FindNoFailure \/ B!Wait BY <1>11, ScheduleLooks, ScheduleGoesOn
<1>12. CASE UNCHANGED B!vars
  <2>1. UNCHANGED <<clock, live, setting, runs, due, up, names, dir, job, removing, restore, lastDone, excused, cut, before>>
    BY <1>12 DEF B!vars
  <2>2. RestoringOK' /\ UndoOK' BY <2>1 DEF BackupInv, RestoringOK, UndoOK, B!Intact, B!Listed
  <2> QED BY <2>1, <2>2, RestoreAlone
<1> QED BY <1>1, <1>2, <1>3, <1>4, <1>5, <1>6, <1>7, <1>8, <1>9, <1>10, <1>11, <1>12 DEF B!Next

(* Each step of the whole is a step of the backups or leaves them alone. *)
LEMMA BackupsStep == [ExchangesNext]_exchangeVars => [B!Next]_(B!vars)
BY DEF ExchangesNext, exchangeVars, backupVars, B!vars

(* The invariant holds throughout. *)
LEMMA BackupsHold == ASSUME BackupsApart PROVE ExchangesSpec => []BackupInv
<1>1. ExchangesInit => BackupInv
  BY BackupStarts DEF ExchangesInit
<1>2. BackupInv /\ [ExchangesNext]_exchangeVars => BackupInv'
  BY BackupsStep, BackupSteps
<1> QED
  BY <1>1, <1>2, PTL DEF ExchangesSpec

(* What is listed is a complete backup wherever the server or the restore was  *)
(* stopped, except one of which a removal was cut short, and a restore puts no *)
(* other in place (internal/backup); see ListedIsWhole.                        *)
THEOREM ListedBackupsAreWhole == ASSUME BackupsApart PROVE ExchangesSpec => []ListedIsWhole
<1>1. BackupInv => ListedIsWhole
  BY WholeGives DEF ListedIsWhole
<1> QED
  BY <1>1, BackupsHold, PTL

(* The schedule makes no second backup in a slot, across restarts and restores *)
(* of an old config.db (schedule.go NextRun, cmd/restore.go carryTables); see  *)
(* OncePerSlot for what excuses it.                                            *)
THEOREM ScheduledOncePerSlot == ASSUME BackupsApart PROVE ExchangesSpec => []OncePerSlot
<1>1. BackupInv => OncePerSlot
  BY DueGives, DayAssumption DEF OncePerSlot
<1> QED
  BY <1>1, BackupsHold, PTL

(* A restore that stopped anywhere can be undone with the backup it made first *)
(* (cmd/restore.go); see RestoreCanBeUndone.                                   *)
THEOREM RestoresCanBeUndone == ASSUME BackupsApart PROVE ExchangesSpec => []RestoreCanBeUndone
<1>1. BackupInv => RestoreCanBeUndone
  BY UndoGives DEF RestoreCanBeUndone
<1> QED
  BY <1>1, BackupsHold, PTL

--------------------------------------------------------------------------------
(* Reading lists.  What a list says of its members and of the commit it came   *)
(* from is true when it is stored, and stays so (ReadingOK, with WorkOK for    *)
(* what the imports carry meanwhile).                                          *)

(* A list, an import, a request for wanted books, an edit and a row are records of these fields. *)
IsReading(r) ==
    r = [path |-> r.path, ref |-> r.ref, edition |-> r.edition, rows |-> r.rows, items |-> r.items, count |-> r.count]
IsImport(r) ==
    r = [phase |-> r.phase, list |-> r.list, path |-> r.path, content |-> r.content, opened |-> r.opened,
         ref |-> r.ref, rows |-> r.rows, edition |-> r.edition]
IsAsking(r) ==
    r = [phase |-> r.phase, list |-> r.list, edition |-> r.edition, rows |-> r.rows, left |-> r.left, book |-> r.book]
IsEdit(r) == r = [phase |-> r.phase, list |-> r.list, count |-> r.count, items |-> r.items]
IsRow(x) == x = [entry |-> x.entry, book |-> x.book, path |-> x.path, wanted |-> x.wanted]
IsRows(rows) ==
    /\ \E n \in Nat : DOMAIN rows = 1 .. n
    /\ \A i \in DOMAIN rows : IsRow(rows[i])

(* The books that the rows have. *)
Books(rows) == {rows[i].book : i \in DOMAIN rows} \ {None}
(* No two rows have a book in common. *)
Injective(rows) == \A i, j \in DOMAIN rows : rows[i].book # None /\ rows[i].book = rows[j].book => i = j

(* The members are these, all of them unless two rows were given one book; when an edit
   crossed a change, they need not be. *)
MembersOK(r, among, across) ==
    /\ IsReading(r) /\ IsRows(r.rows) /\ r.path \in Path \union {None}
    /\ ~across => /\ DOMAIN r.items \subseteq Books(r.rows)
                  /\ ~among => DOMAIN r.items = Books(r.rows) /\ Injective(r.rows)
                  /\ r.count = L!Cardinality(DOMAIN r.items)

(* What the commit has at the path. *)
At(ref, path) == History[ref][path]
(* The rows are those of the file at the commit that is recorded. *)
SourceOK(r, h) ==
    r.path # None => /\ r.ref \in 1 .. h
                     /\ At(r.ref, r.path) # Gone /\ L!Entries(r.rows) = At(r.ref, r.path)

(* What is stored. *)
ReadingOK ==
    \A l \in List : L!Live(l) => MembersOK(reading[l], l \in shared, l \in crossed) /\ (l \notin outrun => SourceOK(reading[l], head))

(* The commit at which a file was read has it. *)
OpenedOK(r, h) ==
    /\ r.path \in Path \union {None}
    /\ r.path # None => r.opened \in 1 .. h /\ At(r.opened, r.path) # Gone
(* What an import carries, in each of its phases. *)
ImportOK(r, h) ==
    /\ r.phase \in {"checked", "opened", "placed", "matched"} /\ IsImport(r) /\ r.list \in List \union {None}
    /\ \/ r.phase = "checked" /\ r.path \in Path
       \/ r.phase = "opened" /\ OpenedOK(r, h) /\ IsFile(r.content) /\ (r.path # None => r.content = At(r.opened, r.path))
       \/ /\ r.phase = "placed" /\ OpenedOK(r, h) /\ IsFile(r.content) /\ (r.path # None => r.content = At(r.opened, r.path))
          /\ r.path # None => r.ref \in 1 .. h
       \/ /\ r.phase = "matched" /\ OpenedOK(r, h) /\ IsRows(r.rows) /\ (r.path # None => L!Entries(r.rows) = At(r.opened, r.path))
          /\ r.path # None => r.ref \in 1 .. h
(* A request for wanted books has entries left. *)
AskingOK(r) ==
    /\ r.phase \in {"create", "mark"} /\ IsAsking(r) /\ r.list \in List
    /\ IsRows(r.rows) /\ r.left # {} /\ r.left \subseteq DOMAIN r.rows
(* A whole-list update has a list. *)
EditOK(r) == r.phase \in {"row", "members"} /\ IsEdit(r) /\ r.list \in List
(* What it has read is what there is, unless it was crossed. *)
Faithful(r) ==
    L!Live(r.list) /\ r.list \notin crossed =>
        r.count = reading[r.list].count /\ (r.phase = "members" => DOMAIN r.items = DOMAIN reading[r.list].items)
EditsOK == \A c \in L!Edits : Faithful(importing[c])
(* The requests at work. *)
WorkOK ==
    /\ head \in 1 .. Len(History)
    /\ importing = [c \in Caller |-> importing[c]] /\ reading = [l \in List |-> reading[l]]
    /\ \A c \in Caller : importing[c] # None => ImportOK(importing[c], head) \/ AskingOK(importing[c]) \/ EditOK(importing[c])

(* The lists, and the requests. *)
ImportInv == ReadingOK /\ WorkOK /\ EditsOK

(* A file that is there is a sequence. *)
LEMMA FileFields ==
  ASSUME NEW h \in 1 .. Len(History), NEW p \in Path, At(h, p) # Gone
  PROVE  IsFile(At(h, p))
BY ListsAssumption DEF At

(* The rows for a file are its entries. *)
LEMMA RowsGiven ==
  ASSUME NEW content, IsFile(content), NEW rows \in L!RowsFor(content)
  PROVE  IsRows(rows) /\ L!Entries(rows) = content /\ DOMAIN rows = DOMAIN content
<1>1. PICK pick : rows = [i \in DOMAIN content |-> L!Row(content[i], pick[i])] BY DEF L!RowsFor
<1>2. DOMAIN rows = DOMAIN content /\ DOMAIN content = 1 .. Len(content) /\ Len(content) \in Nat
  BY <1>1 DEF IsFile
<1>3. \A i \in DOMAIN rows : IsRow(rows[i]) /\ rows[i].entry = content[i]
  BY <1>1 DEF L!Row, IsRow
<1>4. IsRows(rows) BY <1>2, <1>3 DEF IsRows
<1>5. content = [i \in DOMAIN content |-> content[i]] BY <1>2 DEF IsFile
<1>6. L!Entries(rows) = content BY <1>2, <1>3, <1>5 DEF L!Entries
<1> QED BY <1>2, <1>4, <1>6

(* What can be stored has a member for each row with a book. *)
LEMMA ItemsCounted ==
  ASSUME NEW rows, IsRows(rows), L!Storable(rows)
  PROVE  /\ DOMAIN L!Items(rows) = Books(rows) /\ Injective(rows)
         /\ L!Cardinality(L!MatchedRows(rows)) = L!Cardinality(DOMAIN L!Items(rows))
<1>1. PICK M : M = L!MatchedRows(rows) OBVIOUS
<1>2. M = {i \in DOMAIN rows : rows[i].book # None} BY <1>1 DEF L!MatchedRows
<1>3. DOMAIN L!Items(rows) = {rows[i].book : i \in M} BY <1>1 DEF L!Items
<1>4. {rows[i].book : i \in M} = Books(rows) BY <1>2 DEF Books
<1>5. Injective(rows) BY <1>2, <1>1 DEF L!Storable, Injective
<1>6. IsFiniteSet(M)
  <2>1. PICK n \in Nat : DOMAIN rows = 1 .. n BY DEF IsRows
  <2>2. IsFiniteSet(1 .. n) BY <2>1, FS_Interval
  <2>3. M \in SUBSET (1 .. n) BY <1>2, <2>1
  <2> QED BY <2>2, <2>3, FS_Subset
<1>7. ExistsBijection(M, Books(rows))
  <2>1. PICK f : f = [i \in M |-> rows[i].book] OBVIOUS
  <2>2. f \in [M -> Books(rows)] BY <2>1, <1>2 DEF Books
  <2>3. \A i, j \in M : f[i] = f[j] => i = j BY <2>1, <1>2, <1>5 DEF Injective
  <2>4. \A b \in Books(rows) : \E i \in M : f[i] = b BY <2>1, <1>4
  <2> QED BY <2>2, <2>3, <2>4 DEF ExistsBijection, Bijection, Injection, Surjection, IsInjective
<1>8. Cardinality(Books(rows)) = Cardinality(M) BY <1>6, <1>7, FS_Bijection
<1>9. \A T : L!Cardinality(T) = Cardinality(T) BY DEF L!Cardinality, Cardinality
<1> QED BY <1>1, <1>3, <1>4, <1>5, <1>8, <1>9

(* What was stored of a commit is no less true later. *)
LEMMA LaterOK ==
  ASSUME NEW r, NEW h \in Nat, NEW g \in Nat, h <= g
  PROVE  /\ SourceOK(r, h) => SourceOK(r, g)
         /\ ImportOK(r, h) => ImportOK(r, g)
<1>1. \A k : k \in 1 .. h => k \in 1 .. g OBVIOUS
<1>2. OpenedOK(r, h) => OpenedOK(r, g) BY <1>1 DEF OpenedOK
<1>3. SourceOK(r, h) => SourceOK(r, g) BY <1>1 DEF SourceOK
<1>4. ImportOK(r, h) => ImportOK(r, g) BY <1>1, <1>2 DEF ImportOK
<1> QED BY <1>3, <1>4

(* There are no lists at first. *)
LEMMA ImportStarts == ASSUME L!Init PROVE ImportInv
<1>1. \A l \in List : ~L!Live(l) BY DEF L!Init, L!Live
<1>2. ReadingOK BY <1>1 DEF ReadingOK
<1>3. WorkOK BY ListsAssumption DEF L!Init, WorkOK
<1>4. EditsOK BY DEF L!Init, EditsOK, L!Edits
<1> QED BY <1>2, <1>3, <1>4 DEF ImportInv

(* One request moves on, and no list changes. *)
LEMMA RequestMoves ==
  ASSUME ImportInv, NEW c \in Caller, NEW r, importing' = [importing EXCEPT ![c] = r],
         r # None => ImportOK(r, head) \/ AskingOK(r) \/ (EditOK(r) /\ Faithful(r)),
         UNCHANGED <<reading, head, shared, outrun, crossed>>
  PROVE  ImportInv'
<1>1. ReadingOK' BY DEF ImportInv, ReadingOK, L!Live
<1>2. importing'[c] = r /\ \A d \in Caller : d # c => importing'[d] = importing[d] BY DEF ImportInv, WorkOK
<1>3. ASSUME NEW d \in Caller, importing'[d] # None
      PROVE  ImportOK(importing'[d], head) \/ AskingOK(importing'[d]) \/ EditOK(importing'[d])
  <2>1. CASE d = c BY <2>1, <1>2, <1>3
  <2>2. CASE d # c BY <2>2, <1>2, <1>3 DEF ImportInv, WorkOK
  <2> QED BY <2>1, <2>2
<1>4. importing' = [d \in Caller |-> importing'[d]] BY DEF ImportInv, WorkOK
<1>5. WorkOK' BY <1>3, <1>4 DEF ImportInv, WorkOK
<1>6. \A x : Faithful(x) => Faithful(x)' BY DEF Faithful, L!Live
<1>7. ASSUME NEW d \in L!Edits' PROVE Faithful(importing[d])'
  <2>0. d \in Caller /\ importing'[d] # None /\ importing'[d].phase \in {"row", "members"} BY <1>7 DEF L!Edits
  <2>1. CASE d = c
    <3>1. Faithful(r) BY <2>0, <2>1, <1>2 DEF ImportOK, AskingOK
    <3>2. Faithful(r)' BY <3>1, <1>6
    <3> QED BY <3>2, <2>1, <1>2 DEF Faithful, L!Live
  <2>2. CASE d # c
    <3>1. PICK s : s = importing[d] OBVIOUS
    <3>2. importing'[d] = s /\ Faithful(s) BY <2>0, <2>2, <3>1, <1>2 DEF ImportInv, EditsOK, L!Edits
    <3>3. Faithful(s)' BY <3>2, <1>6
    <3> QED BY <3>2, <3>3 DEF Faithful, L!Live
  <2> QED BY <2>1, <2>2
<1>8. EditsOK' BY <1>7 DEF EditsOK
<1> QED BY <1>1, <1>5, <1>8 DEF ImportInv

(* One list changes, and the others do not. *)
LEMMA ListMoves ==
  ASSUME ImportInv, NEW l \in List, NEW r, reading' = [reading EXCEPT ![l] = r],
         r # None /\ r # Gone => MembersOK(r, l \in shared', l \in crossed') /\ (l \notin outrun' => SourceOK(r, head)),
         \A k \in List \ {l} : /\ (k \in shared <=> k \in shared') /\ (k \in outrun <=> k \in outrun')
                              /\ (k \in crossed <=> k \in crossed'),
         \A c \in L!Edits' : c \in L!Edits /\ importing'[c] = importing[c],
         \A c \in L!Edits' : importing[c].list = l /\ r # None /\ r # Gone /\ l \notin crossed' =>
            l \notin crossed /\ L!Live(l) /\ r.count = reading[l].count /\ DOMAIN r.items = DOMAIN reading[l].items,
         UNCHANGED head
  PROVE  ReadingOK' /\ EditsOK' /\ reading' = [k \in List |-> reading'[k]]
<1>1. /\ reading' = [k \in List |-> reading'[k]]
      /\ reading'[l] = r /\ \A k \in List : k # l => reading'[k] = reading[k]
  BY DEF ImportInv, WorkOK
<1>2. ASSUME NEW k \in List, L!Live(k)'
      PROVE  MembersOK(reading'[k], k \in shared', k \in crossed') /\ (k \notin outrun' => SourceOK(reading'[k], head))
  <2>1. CASE k = l BY <2>1, <1>1, <1>2 DEF L!Live
  <2>2. CASE k # l
    <3>1. reading'[k] = reading[k] /\ L!Live(k) BY <2>2, <1>1, <1>2 DEF L!Live
    <3>2. (k \in shared <=> k \in shared') /\ (k \in outrun <=> k \in outrun') /\ (k \in crossed <=> k \in crossed') BY <2>2
    <3>3. MembersOK(reading[k], k \in shared, k \in crossed) /\ (k \notin outrun => SourceOK(reading[k], head))
      BY <3>1 DEF ImportInv, ReadingOK
    <3> QED BY <3>1, <3>2, <3>3 DEF MembersOK
  <2> QED BY <2>1, <2>2
<1>3. ASSUME NEW c \in L!Edits' PROVE Faithful(importing[c])'
  <2>1. PICK e : e = importing[c] OBVIOUS
  <2>2. c \in Caller /\ importing'[c] = e /\ c \in L!Edits /\ e # None /\ e.phase \in {"row", "members"}
    BY <2>1, <1>3 DEF L!Edits
  <2>3. Faithful(e) /\ e.list \in List
    BY <2>1, <2>2 DEF ImportInv, EditsOK, WorkOK, ImportOK, AskingOK, EditOK
  <2>4. ASSUME L!Live(e.list)', e.list \notin crossed'
        PROVE  e.count = reading'[e.list].count /\ (e.phase = "members" => DOMAIN e.items = DOMAIN reading'[e.list].items)
    <3>1. CASE e.list = l
      <4>1. r # None /\ r # Gone BY <2>4, <3>1, <1>1 DEF L!Live
      <4>2. l \notin crossed /\ L!Live(l) /\ r.count = reading[l].count /\ DOMAIN r.items = DOMAIN reading[l].items
        BY <4>1, <3>1, <2>1, <2>4, <1>3
      <4> QED BY <4>2, <3>1, <2>3, <1>1 DEF Faithful
    <3>2. CASE e.list # l
      <4>1. reading'[e.list] = reading[e.list] /\ e.list \notin crossed /\ L!Live(e.list) BY <3>2, <2>3, <2>4, <1>1 DEF L!Live
      <4> QED BY <4>1, <2>3 DEF Faithful
    <3> QED BY <3>1, <3>2
  <2> QED BY <2>2, <2>4 DEF Faithful
<1> QED BY <1>1, <1>2, <1>3 DEF ReadingOK, EditsOK

(* A pull makes what was recorded no less true. *)
LEMMA CloneMoves == ASSUME ImportInv, L!Sync \/ L!CloneAgain PROVE ImportInv'
<1>1. /\ head \in Nat /\ head' \in Nat /\ head <= head' /\ head' \in 1 .. Len(History)
      /\ UNCHANGED <<reading, importing, shared, outrun, crossed>>
  BY DEF L!Sync, L!CloneAgain, ImportInv, WorkOK
<1>2. \A r : (SourceOK(r, head) => SourceOK(r, head')) /\ (ImportOK(r, head) => ImportOK(r, head'))
  BY <1>1, LaterOK
<1>3. ReadingOK' BY <1>1, <1>2 DEF ImportInv, ReadingOK, L!Live
<1>4. WorkOK' BY <1>1, <1>2 DEF ImportInv, WorkOK
<1>5. EditsOK' BY <1>1 DEF ImportInv, EditsOK, L!Edits, Faithful, L!Live
<1> QED BY <1>3, <1>4, <1>5 DEF ImportInv

(* An import begins with a file that is there. *)
LEMMA ImportBegins ==
  ASSUME ImportInv, NEW c \in Caller, L!Upload(c) \/ L!Open(c) \/ \E l \in List : L!Check(c, l)
  PROVE  ImportInv'
<1>1. UNCHANGED <<reading, head, shared, outrun, crossed>> BY DEF L!Upload, L!Open, L!Check, L!Other, L!Stored
<1>2. head \in 1 .. Len(History) BY DEF ImportInv, WorkOK
<1>3. CASE L!Upload(c)
  <2>1. PICK content \in Uploads : L!Starts(c, L!Import("placed", None, None, content)) BY <1>3 DEF L!Upload
  <2>2. PICK r : r = L!Import("placed", None, None, content) OBVIOUS
  <2>3. IsFile(content) BY ListsAssumption
  <2>4. ImportOK(r, head) BY <2>2, <2>3 DEF L!Import, ImportOK, IsImport, OpenedOK
  <2>5. importing' = [importing EXCEPT ![c] = r] BY <2>1, <2>2 DEF L!Starts
  <2> QED BY <2>4, <2>5, <1>1, RequestMoves
<1>4. CASE L!Open(c)
  <2>1. PICK p \in Path : At(head, p) # Gone /\ L!Starts(c, L!Import("opened", None, p, At(head, p))) BY <1>4 DEF L!Open, At
  <2>2. PICK r : r = L!Import("opened", None, p, At(head, p)) OBVIOUS
  <2>3. IsFile(At(head, p)) BY <2>1, <1>2, FileFields
  <2>4. ImportOK(r, head)
    <3>1. /\ IsImport(r) /\ r.phase = "opened" /\ r.list = None /\ r.path = p /\ r.opened = head /\ r.content = At(head, p)
      BY <2>2 DEF L!Import, IsImport
    <3>2. head \in 1 .. head BY <1>2
    <3> QED BY <3>1, <3>2, <2>1, <2>3 DEF ImportOK, OpenedOK
  <2>5. importing' = [importing EXCEPT ![c] = r] BY <2>1, <2>2 DEF L!Starts
  <2> QED BY <2>4, <2>5, <1>1, RequestMoves
<1>5. CASE \E l \in List : L!Check(c, l)
  <2>0. PICK l \in List : L!Live(l) /\ reading[l].path # None /\ L!Check(c, l) BY <1>5 DEF L!Check
  <2>1. PICK change : \E p \in L!FetchPath(change, l) : L!Starts(c, L!Import("checked", l, p, <<>>))
    BY <2>0 DEF L!Check
  <2>6. PICK p \in L!FetchPath(change, l) : L!Starts(c, L!Import("checked", l, p, <<>>)) BY <2>1
  <2>2. PICK r : r = L!Import("checked", l, p, <<>>) OBVIOUS
  <2>3. p \in Path
    <3>1. reading[l].path \in Path BY <2>0 DEF ImportInv, ReadingOK, MembersOK
    <3> QED BY <3>1, <2>6 DEF L!FetchPath, L!NewPaths
  <2>4. ImportOK(r, head) BY <2>2, <2>3 DEF L!Import, ImportOK, IsImport
  <2>5. importing' = [importing EXCEPT ![c] = r] BY <2>6, <2>2 DEF L!Starts
  <2> QED BY <2>4, <2>5, <1>1, RequestMoves
<1> QED BY <1>3, <1>4, <1>5

(* A request of a given phase is an import, one for wanted books, or an edit. *)
LEMMA PhaseIs ==
  ASSUME ImportInv, NEW c \in Caller, NEW stage, L!StepOf(c, stage)
  PROVE  /\ stage \in {"checked", "opened", "placed", "matched"} => ImportOK(importing[c], head)
         /\ stage \in {"create", "mark"} => AskingOK(importing[c])
         /\ stage \in {"row", "members"} => EditOK(importing[c]) /\ Faithful(importing[c])
BY DEF ImportInv, WorkOK, EditsOK, L!Edits, L!StepOf, ImportOK, AskingOK, EditOK

(* An import reads the file again. *)
LEMMA FileIsFetched == ASSUME ImportInv, NEW c \in Caller, L!Fetch(c) PROVE ImportInv'
<1>1. UNCHANGED <<reading, head, shared, outrun, crossed>> BY DEF L!Fetch, L!Other, L!Stored
<1>2. head \in 1 .. Len(History) BY DEF ImportInv, WorkOK
<1>3. PICK q, found : q = importing[c] /\ found = History[head][q.path] OBVIOUS
<1>4. ImportOK(q, head) BY <1>3, PhaseIs DEF L!Fetch
<1>5. PICK r : r = IF found = Gone THEN None ELSE [q EXCEPT !.phase = "opened", !.content = found, !.opened = head]
  OBVIOUS
<1>6. importing' = [importing EXCEPT ![c] = r] BY <1>3, <1>5 DEF L!Fetch, L!Becomes
<1>7. ASSUME found # Gone PROVE ImportOK(r, head)
  <2>1. q.phase = "checked" /\ q.path \in Path BY <1>3, <1>4 DEF L!Fetch, L!StepOf, ImportOK
  <2>2. /\ IsImport(r) /\ r.phase = "opened" /\ r.path = q.path /\ r.list = q.list /\ r.opened = head /\ r.content = found
    BY <1>4, <1>5, <1>7 DEF ImportOK, IsImport
  <2>3. head \in 1 .. head BY <1>2
  <2>4. found = At(head, q.path) BY <1>3 DEF At
  <2>5. IsFile(found) BY <2>1, <2>4, <1>2, <1>7, FileFields
  <2> QED BY <2>1, <2>2, <2>3, <2>4, <2>5, <1>4, <1>7 DEF ImportOK, OpenedOK
<1>8. r # None => ImportOK(r, head) BY <1>5, <1>7
<1> QED BY <1>6, <1>8, <1>1, RequestMoves

(* It reads the commit, which may be a later one. *)
LEMMA HeadIsRead == ASSUME ImportInv, NEW c \in Caller, L!ReadHead(c) PROVE ImportInv'
<1>1. UNCHANGED <<reading, head, shared, outrun, crossed>> BY DEF L!ReadHead, L!Other, L!Stored
<1>2. PICK q : q = importing[c] OBVIOUS
<1>3. ImportOK(q, head) /\ q.phase = "opened" BY <1>2, PhaseIs DEF L!ReadHead, L!StepOf
<1>4. PICK r : r = [q EXCEPT !.phase = "placed", !.ref = head] OBVIOUS
<1>5. /\ IsImport(r) /\ r.phase = "placed" /\ r.path = q.path /\ r.list = q.list /\ r.opened = q.opened /\ r.content = q.content
      /\ r.ref = head
  BY <1>3, <1>4 DEF ImportOK, IsImport
<1>6. head \in 1 .. head BY DEF ImportInv, WorkOK
<1>7. ImportOK(r, head) BY <1>3, <1>5, <1>6 DEF ImportOK, OpenedOK
<1>8. importing' = [importing EXCEPT ![c] = r] BY <1>2, <1>4 DEF L!ReadHead, L!Becomes
<1> QED BY <1>7, <1>8, <1>1, RequestMoves

(* Its entries are matched. *)
LEMMA EntriesAreMatched == ASSUME ImportInv, NEW c \in Caller, L!Match(c) PROVE ImportInv'
<1>1. UNCHANGED <<reading, head, shared, outrun, crossed>> BY DEF L!Match, L!Other, L!Stored
<1>2. PICK q : q = importing[c] OBVIOUS
<1>3. ImportOK(q, head) /\ q.phase = "placed" BY <1>2, PhaseIs DEF L!Match, L!StepOf
<1>4. CASE L!Becomes(c, None) BY <1>4, <1>1, RequestMoves DEF L!Becomes
<1>5. CASE \E rows \in L!RowsFor(q.content) : L!Becomes(c, [q EXCEPT !.phase = "matched", !.rows = rows])
  <2>1. PICK rows \in L!RowsFor(q.content) : L!Becomes(c, [q EXCEPT !.phase = "matched", !.rows = rows]) BY <1>5
  <2>2. PICK r : r = [q EXCEPT !.phase = "matched", !.rows = rows] OBVIOUS
  <2>3. /\ IsImport(r) /\ r.phase = "matched" /\ r.path = q.path /\ r.list = q.list /\ r.opened = q.opened /\ r.rows = rows
        /\ r.ref = q.ref
    BY <1>3, <2>2 DEF ImportOK, IsImport
  <2>4. IsRows(rows) /\ L!Entries(rows) = q.content BY <1>3, RowsGiven DEF ImportOK
  <2>5. ImportOK(r, head) BY <1>3, <2>3, <2>4 DEF ImportOK, OpenedOK
  <2>6. importing' = [importing EXCEPT ![c] = r] BY <2>1, <2>2 DEF L!Becomes
  <2> QED BY <2>5, <2>6, <1>1, RequestMoves
<1> QED BY <1>2, <1>4, <1>5 DEF L!Match

(* Its transaction stores all of it or nothing. *)
LEMMA ListIsStored == ASSUME ImportInv, NEW c \in Caller, L!Commit(c) PROVE ImportInv'
<1>1. UNCHANGED head /\ importing' = [importing EXCEPT ![c] = None] BY DEF L!Commit, L!Other, L!Becomes
<1>2. PICK q : q = importing[c] OBVIOUS
<1>3. ImportOK(q, head) /\ q.phase = "matched" BY <1>2, PhaseIs DEF L!Commit, L!StepOf
<1>4. CASE UNCHANGED L!Stored BY <1>1, <1>4, RequestMoves DEF L!Stored
<1>5. ASSUME NEW l \in List, L!Storable(q.rows), reading' = [reading EXCEPT ![l] = L!Listed(q)],
             shared' = shared \ {l},
             outrun' = IF q.path # None /\ q.opened # q.ref THEN outrun \union {l} ELSE outrun \ {l},
             crossed' = IF L!Beside(l) THEN crossed \union {l} ELSE crossed \ {l}
      PROVE  ImportInv'
  <2>1. PICK r : r = L!Listed(q) OBVIOUS
  <2>2. /\ IsReading(r) /\ r.path = q.path /\ r.ref = q.ref /\ r.rows = q.rows
        /\ r.items = L!Items(q.rows) /\ r.count = L!Cardinality(L!MatchedRows(q.rows))
    BY <2>1 DEF L!Listed, IsReading
  <2>3. IsRows(q.rows) /\ OpenedOK(q, head) /\ (q.path # None => L!Entries(q.rows) = At(q.opened, q.path) /\ q.ref \in 1 .. head)
    BY <1>3 DEF ImportOK
  <2>4. MembersOK(r, FALSE, FALSE) BY <1>5, <2>2, <2>3, ItemsCounted DEF MembersOK, OpenedOK
  <2>5. l \notin shared' /\ MembersOK(r, l \in shared', l \in crossed') BY <2>4, <1>5 DEF MembersOK
  <2>6. ASSUME l \notin outrun' PROVE SourceOK(r, head)
    <3>1. q.path # None => q.opened = q.ref BY <2>6, <1>5
    <3> QED BY <3>1, <2>2, <2>3 DEF SourceOK, OpenedOK
  <2>7. \A k \in List \ {l} : /\ (k \in shared <=> k \in shared') /\ (k \in outrun <=> k \in outrun')
                              /\ (k \in crossed <=> k \in crossed')
    BY <1>5
  <2>10. \A d \in L!Edits' : d \in L!Edits /\ importing'[d] = importing[d] BY <1>1 DEF L!Edits, ImportInv, WorkOK
  <2>11. \A d \in L!Edits' : importing[d].list = l => l \in crossed' BY <2>10, <1>5 DEF L!Beside
  <2>8. ReadingOK' /\ EditsOK' /\ reading' = [k \in List |-> reading'[k]]
    BY <2>1, <2>5, <2>6, <2>7, <2>10, <2>11, <1>1, <1>5, ListMoves
  <2>9. WorkOK' BY <2>8, <1>1 DEF ImportInv, WorkOK
  <2> QED BY <2>8, <2>9 DEF ImportInv
<1>6. \/ UNCHANGED L!Stored
      \/ \E l \in List : /\ L!Storable(q.rows) /\ reading' = [reading EXCEPT ![l] = L!Listed(q)]
                         /\ shared' = shared \ {l}
                         /\ outrun' = IF q.path # None /\ q.opened # q.ref THEN outrun \union {l} ELSE outrun \ {l}
                         /\ crossed' = IF L!Beside(l) THEN crossed \union {l} ELSE crossed \ {l}
  <2>1. PICK l \in IF q.list = None THEN {k \in List : reading[k] = None} ELSE {q.list} :
            IF L!Storable(q.rows) /\ (q.list # None => L!Live(l))
            THEN /\ reading' = [reading EXCEPT ![l] = L!Listed(q)]
                 /\ shared' = shared \ {l}
                 /\ outrun' = IF q.path # None /\ q.opened # q.ref THEN outrun \union {l} ELSE outrun \ {l}
                 /\ crossed' = IF L!Beside(l) THEN crossed \union {l} ELSE crossed \ {l}
            ELSE UNCHANGED L!Stored
    BY <1>2 DEF L!Commit
  <2>2. q.list \in List \union {None} BY <1>3 DEF ImportOK
  <2>3. l \in List BY <2>1, <2>2
  <2> QED BY <2>1, <2>3
<1> QED BY <1>4, <1>5, <1>6

(* A list is deleted. *)
LEMMA ListIsDeleted == ASSUME ImportInv, NEW l \in List, L!DeleteList(l) PROVE ImportInv'
<1>1. reading' = [reading EXCEPT ![l] = Gone] /\ UNCHANGED <<head, importing, shared, outrun, crossed>> BY DEF L!DeleteList
<1>4. L!Edits' = L!Edits BY <1>1 DEF L!Edits
<1>2. ReadingOK' /\ EditsOK' /\ reading' = [k \in List |-> reading'[k]] BY <1>1, <1>4, ListMoves
<1>3. WorkOK' BY <1>1, <1>2 DEF ImportInv, WorkOK
<1> QED BY <1>2, <1>3 DEF ImportInv

(* A correction takes one book away and brings another. *)
LEMMA MatchIsCorrected ==
  ASSUME ImportInv, NEW l \in List, L!Live(l), NEW i \in DOMAIN reading[l].rows, NEW b, L!Correct(l, i, b)
  PROVE  ImportInv'
<1>1. UNCHANGED <<head, importing, outrun>> BY DEF L!Correct
<1>2. PICK list : list = reading[l] OBVIOUS
<1>3. MembersOK(list, l \in shared, l \in crossed) /\ (l \notin outrun => SourceOK(list, head)) /\ i \in DOMAIN list.rows
  BY <1>2 DEF ImportInv, ReadingOK
<1>4. PICK line : line = [list.rows[i] EXCEPT !.book = b, !.path = IF b = None THEN "none" ELSE "manual"] OBVIOUS
<1>5. PICK rows : rows = [list.rows EXCEPT ![i] = line] OBVIOUS
<1>6. rows = [list.rows EXCEPT ![i].book = b, ![i].path = IF b = None THEN "none" ELSE "manual"]
  BY <1>3, <1>4, <1>5 DEF MembersOK, IsRows
<1>7. PICK items : items = L!Replaced(list.items, list.rows[i].book, b, i) OBVIOUS
<1>8. PICK r : r = [list EXCEPT !.rows = rows, !.items = items, !.count = L!Cardinality(DOMAIN items)] OBVIOUS
<1>9. reading' = [reading EXCEPT ![l] = r] BY <1>2, <1>6, <1>7, <1>8 DEF L!Correct
<1>10. /\ IsReading(r) /\ r.rows = rows /\ r.items = items /\ r.count = L!Cardinality(DOMAIN items)
       /\ r.path = list.path /\ r.ref = list.ref
  BY <1>3, <1>8 DEF MembersOK, IsReading
<1>11. IsRow(line) /\ line.book = b /\ line.entry = list.rows[i].entry
  <2>1. PICK x : x = list.rows[i] OBVIOUS
  <2>2. IsRow(x) BY <2>1, <1>3 DEF MembersOK, IsRows
  <2>3. line = [x EXCEPT !.book = b, !.path = IF b = None THEN "none" ELSE "manual"] BY <2>1, <1>4
  <2> QED BY <2>1, <2>2, <2>3 DEF IsRow
<1>12. DOMAIN rows = DOMAIN list.rows /\ rows[i] = line /\ \A j \in DOMAIN rows : j # i => rows[j] = list.rows[j]
  BY <1>3, <1>5
<1>13. IsRows(rows) BY <1>3, <1>11, <1>12 DEF MembersOK, IsRows
<1>14. L!Entries(rows) = L!Entries(list.rows) BY <1>11, <1>12 DEF L!Entries
<1>15. PICK old : old = list.rows[i].book OBVIOUS
<1>16. DOMAIN items = IF b = old THEN DOMAIN list.items
                      ELSE IF b = None THEN DOMAIN list.items \ {old} ELSE (DOMAIN list.items \ {old}) \union {b}
  BY <1>7, <1>15 DEF L!Replaced
<1>17. shared' = IF \E j \in DOMAIN rows \ {i} : b # None /\ rows[j].book = b THEN shared \union {l} ELSE shared
  BY <1>2, <1>6 DEF L!Correct
<1>25. crossed' = IF L!Beside(l) THEN crossed \union {l} ELSE crossed BY DEF L!Correct
<1>18. ASSUME l \notin crossed' PROVE DOMAIN items \subseteq Books(rows)
  <2> SUFFICES ASSUME NEW x \in DOMAIN items PROVE x \in Books(rows)
    OBVIOUS
  <2>1. CASE x = b /\ b # None
    <3>1. i \in DOMAIN rows /\ rows[i].book = b BY <1>3, <1>11, <1>12
    <3> QED BY <2>1, <3>1 DEF Books
  <2>2. CASE ~(x = b /\ b # None)
    <3>1. x \in DOMAIN list.items BY <2>2, <1>16
    <3>2. PICK j \in DOMAIN list.rows : list.rows[j].book = x /\ x # None BY <3>1, <1>3, <1>18, <1>25 DEF MembersOK, Books
    <3>3. j # i BY <3>2, <2>2, <1>15, <1>16
    <3> QED BY <3>2, <3>3, <1>12 DEF Books
  <2> QED BY <2>1, <2>2
<1>19. ASSUME l \notin crossed', l \notin shared' PROVE DOMAIN items = Books(rows) /\ Injective(rows)
  <2>1. \A j \in DOMAIN rows : j # i /\ b # None => rows[j].book # b BY <1>19, <1>17
  <2>2. DOMAIN list.items = Books(list.rows) /\ Injective(list.rows) BY <1>19, <1>17, <1>25, <1>3 DEF MembersOK
  <2>3. Injective(rows) BY <2>1, <2>2, <1>11, <1>12 DEF Injective
  <2>4. ASSUME NEW x \in Books(rows) PROVE x \in DOMAIN items
    <3>1. PICK j \in DOMAIN rows : rows[j].book = x /\ x # None BY <2>4 DEF Books
    <3>2. CASE j = i
      <4>1. x = b BY <3>1, <3>2, <1>11, <1>12
      <4>2. b = old => x \in DOMAIN list.items BY <4>1, <3>1, <2>2, <1>3, <1>15 DEF Books
      <4> QED BY <4>1, <4>2, <3>1, <1>16
    <3>3. CASE j # i
      <4>1. list.rows[j].book = x /\ j \in DOMAIN list.rows BY <3>1, <3>3, <1>12
      <4>2. x \in DOMAIN list.items BY <4>1, <3>1, <2>2 DEF Books
      <4>3. x # old BY <4>1, <3>1, <3>3, <2>2, <1>3, <1>15 DEF Injective
      <4> QED BY <4>2, <4>3, <1>16
    <3> QED BY <3>2, <3>3
  <2> QED BY <2>3, <2>4, <1>18, <1>19
<1>20. MembersOK(r, l \in shared', l \in crossed')
  BY <1>3, <1>10, <1>13, <1>18, <1>19 DEF MembersOK
<1>21. l \notin outrun' => SourceOK(r, head) BY <1>1, <1>3, <1>10, <1>14 DEF SourceOK
<1>22. \A k \in List \ {l} : /\ (k \in shared <=> k \in shared') /\ (k \in outrun <=> k \in outrun')
                             /\ (k \in crossed <=> k \in crossed')
  BY <1>1, <1>17, <1>25
<1>26. L!Edits' = L!Edits /\ \A c \in L!Edits : importing[c].list = l => l \in crossed' BY <1>1, <1>25 DEF L!Edits, L!Beside
<1>23. ReadingOK' /\ EditsOK' /\ reading' = [k \in List |-> reading'[k]] BY <1>1, <1>9, <1>20, <1>21, <1>22, <1>26, ListMoves
<1>24. WorkOK' BY <1>1, <1>23 DEF ImportInv, WorkOK
<1> QED BY <1>23, <1>24 DEF ImportInv

(* A request for wanted books copies the rows. *)
LEMMA UnresolvedAreRead ==
  ASSUME ImportInv, NEW c \in Caller, NEW l \in List, L!ReadUnresolved(c, l) PROVE ImportInv'
<1>1. UNCHANGED <<reading, head, shared, outrun, crossed>> BY DEF L!ReadUnresolved, L!Other
<1>2. PICK r : r = [phase |-> "create", list |-> l, edition |-> reading[l].edition, rows |-> reading[l].rows,
                    left |-> L!Unresolved(l), book |-> None]
  OBVIOUS
<1>3. IsRows(reading[l].rows) BY DEF L!ReadUnresolved, ImportInv, ReadingOK, MembersOK
<1>4. L!Unresolved(l) # {} /\ L!Unresolved(l) \subseteq DOMAIN reading[l].rows BY DEF L!ReadUnresolved, L!Unresolved
<1>5. AskingOK(r) BY <1>2, <1>3, <1>4 DEF AskingOK, IsAsking
<1>6. importing' = [importing EXCEPT ![c] = r] BY <1>2 DEF L!ReadUnresolved, L!Starts
<1> QED BY <1>1, <1>5, <1>6, RequestMoves

(* What is left after an entry. *)
LEMMA NextEntry ==
  ASSUME ImportInv, NEW c \in Caller, AskingOK(importing[c]), L!AfterThis(c) # None
  PROVE  /\ AskingOK(L!AfterThis(c)) /\ L!AfterThis(c).phase = "create" /\ L!AfterThis(c).list = importing[c].list
         /\ L!AfterThis(c).edition = importing[c].edition /\ L!AfterThis(c).rows = importing[c].rows
         /\ L!AfterThis(c).left = importing[c].left \ {L!First(importing[c].left)}
<1>1. PICK q, left : q = importing[c] /\ left = q.left \ {L!First(q.left)} OBVIOUS
<1>2. PICK r : r = [q EXCEPT !.phase = "create", !.left = left, !.book = None] OBVIOUS
<1>3. left # {} /\ L!AfterThis(c) = r BY <1>1, <1>2 DEF L!AfterThis
<1>4. IsAsking(r) /\ r.phase = "create" /\ r.list = q.list /\ r.edition = q.edition /\ r.rows = q.rows /\ r.left = left
  BY <1>1, <1>2 DEF AskingOK, IsAsking
<1>5. AskingOK(r) BY <1>1, <1>3, <1>4 DEF AskingOK
<1> QED BY <1>1, <1>3, <1>4, <1>5

(* It makes a book, or goes on with the next entry. *)
LEMMA BookIsCreated == ASSUME ImportInv, NEW c \in Caller, L!Create(c) PROVE ImportInv'
<1>1. UNCHANGED <<reading, head, shared, outrun, crossed>> BY DEF L!Create, L!Stored
<1>2. PICK q : q = importing[c] OBVIOUS
<1>3. AskingOK(q) BY <1>2, PhaseIs DEF L!Create
<1>4. CASE L!Becomes(c, L!AfterThis(c))
  <2>1. PICK r : r = L!AfterThis(c) OBVIOUS
  <2>2. r # None => AskingOK(r) BY <2>1, <1>2, <1>3, NextEntry
  <2>3. importing' = [importing EXCEPT ![c] = r] BY <2>1, <1>4 DEF L!Becomes
  <2> QED BY <2>2, <2>3, <1>1, RequestMoves
<1>5. ASSUME NEW w, L!Becomes(c, [importing[c] EXCEPT !.phase = "mark", !.book = w]) PROVE ImportInv'
  <2>1. PICK r : r = [q EXCEPT !.phase = "mark", !.book = w] OBVIOUS
  <2>2. IsAsking(r) /\ r.phase = "mark" /\ r.list = q.list /\ r.rows = q.rows /\ r.left = q.left
    BY <1>3, <2>1 DEF AskingOK, IsAsking
  <2>3. AskingOK(r) BY <1>3, <2>2 DEF AskingOK
  <2>4. importing' = [importing EXCEPT ![c] = r] BY <2>1, <1>2, <1>5 DEF L!Becomes
  <2> QED BY <2>3, <2>4, <1>1, RequestMoves
<1> QED BY <1>4, <1>5 DEF L!Create

(* A mark changes neither entries nor members. *)
Marked(rows, k, w) == [rows EXCEPT ![k].wanted = w]
LEMMA MarkedRows ==
  ASSUME NEW rows, IsRows(rows), NEW k, NEW w
  PROVE  /\ IsRows(Marked(rows, k, w)) /\ DOMAIN Marked(rows, k, w) = DOMAIN rows
         /\ \A i \in DOMAIN rows :
              /\ Marked(rows, k, w)[i].entry = rows[i].entry /\ Marked(rows, k, w)[i].book = rows[i].book
              /\ Marked(rows, k, w)[i].path = rows[i].path
              /\ Marked(rows, k, w)[i].wanted = IF i = k THEN w ELSE rows[i].wanted
<1>0. PICK new : new = Marked(rows, k, w) OBVIOUS
<1>1. DOMAIN new = DOMAIN rows BY <1>0 DEF Marked
<1>2. ASSUME NEW i \in DOMAIN rows
      PROVE  /\ IsRow(new[i]) /\ new[i].entry = rows[i].entry /\ new[i].book = rows[i].book /\ new[i].path = rows[i].path
             /\ new[i].wanted = IF i = k THEN w ELSE rows[i].wanted
  <2>1. PICK x : x = rows[i] OBVIOUS
  <2>2. IsRow(x) BY <2>1 DEF IsRows
  <2>3. CASE i = k
    <3>1. new[i] = [x EXCEPT !.wanted = w] BY <2>1, <2>3, <1>0 DEF Marked
    <3> QED BY <3>1, <2>1, <2>2, <2>3 DEF IsRow
  <2>4. CASE i # k
    <3>1. new[i] = x BY <2>1, <2>4, <1>0 DEF Marked
    <3> QED BY <3>1, <2>1, <2>2, <2>4
  <2> QED BY <2>3, <2>4
<1>3. IsRows(new) BY <1>1, <1>2 DEF IsRows
<1> QED BY <1>0, <1>1, <1>2, <1>3

(* It marks the row, or does not find it. *)
LEMMA BookIsMarked == ASSUME ImportInv, NEW c \in Caller, L!Mark(c) PROVE ImportInv'
<1>1. UNCHANGED <<head, shared, outrun, crossed>> BY DEF L!Mark, L!Other
<1>2. PICK q, r : q = importing[c] /\ r = L!AfterThis(c) OBVIOUS
<1>3. AskingOK(q) BY <1>2, PhaseIs DEF L!Mark
<1>4. r # None => AskingOK(r) BY <1>2, <1>3, NextEntry
<1>5. importing' = [importing EXCEPT ![c] = r] BY <1>2 DEF L!Mark, L!Becomes
<1>6. CASE UNCHANGED reading BY <1>1, <1>4, <1>5, <1>6, RequestMoves
<1>7. CASE L!Marks(q.list, q.edition) /\ reading' = [reading EXCEPT ![q.list].rows[L!First(q.left)].wanted = q.book]
  <2>1. PICK l, k, list : l = q.list /\ k = L!First(q.left) /\ list = reading[l] OBVIOUS
  <2>2. l \in List /\ L!Live(l) BY <1>3, <1>7, <2>1 DEF AskingOK, L!Marks
  <2>3. MembersOK(list, l \in shared, l \in crossed) /\ (l \notin outrun => SourceOK(list, head))
    BY <2>1, <2>2 DEF ImportInv, ReadingOK
  <2>4. PICK rows : rows = Marked(list.rows, k, q.book) OBVIOUS
  <2>5. PICK m : m = [list EXCEPT !.rows = rows] OBVIOUS
  <2>6. reading' = [reading EXCEPT ![l] = m] BY <1>7, <2>1, <2>4, <2>5 DEF Marked
  <2>7. /\ IsReading(m) /\ m.rows = rows /\ m.items = list.items /\ m.count = list.count /\ m.path = list.path
        /\ m.ref = list.ref
    BY <2>3, <2>5 DEF MembersOK, IsReading
  <2>8. /\ IsRows(rows) /\ DOMAIN rows = DOMAIN list.rows
        /\ \A i \in DOMAIN rows : rows[i].entry = list.rows[i].entry /\ rows[i].book = list.rows[i].book
    BY <2>3, <2>4, MarkedRows DEF MembersOK
  <2>9. Books(rows) = Books(list.rows) /\ L!Entries(rows) = L!Entries(list.rows) /\ (Injective(list.rows) => Injective(rows))
    BY <2>8 DEF Books, L!Entries, Injective
  <2>10. MembersOK(m, l \in shared', l \in crossed') /\ (l \notin outrun' => SourceOK(m, head))
    BY <1>1, <2>3, <2>7, <2>8, <2>9 DEF MembersOK, SourceOK
  <2>13. \A d \in L!Edits' : d \in L!Edits /\ importing'[d] = importing[d]
    <3>1. importing'[c] = r /\ \A d \in Caller : d # c => importing'[d] = importing[d] BY <1>5 DEF ImportInv, WorkOK
    <3>2. c \notin L!Edits' BY <3>1, <1>4 DEF L!Edits, AskingOK
    <3> QED BY <3>1, <3>2 DEF L!Edits
  <2>11. ReadingOK' /\ EditsOK' /\ reading' = [j \in List |-> reading'[j]]
    BY <1>1, <2>1, <2>2, <2>6, <2>7, <2>10, <2>13, ListMoves
  <2>12. WorkOK' BY <1>1, <1>4, <1>5, <2>11 DEF ImportInv, WorkOK
  <2> QED BY <2>11, <2>12 DEF ImportInv
<1> QED BY <1>2, <1>6, <1>7 DEF L!Mark

(* A whole-list update reads the row, and then the members. *)
LEMMA ListIsRead ==
  ASSUME ImportInv, NEW c \in Caller, L!ReadMembers(c) \/ \E l \in List : L!ReadList(c, l) PROVE ImportInv'
<1>1. UNCHANGED <<reading, head, shared, outrun, crossed>> BY DEF L!ReadMembers, L!ReadList, L!Other, L!Stored
<1>2. ASSUME NEW l \in List, L!ReadList(c, l) PROVE ImportInv'
  <2>1. PICK r : r = [phase |-> "row", list |-> l, count |-> reading[l].count, items |-> <<>>] OBVIOUS
  <2>2. EditOK(r) /\ Faithful(r) BY <2>1 DEF EditOK, IsEdit, Faithful
  <2>3. importing' = [importing EXCEPT ![c] = r] BY <1>2, <2>1 DEF L!ReadList, L!Starts
  <2> QED BY <2>2, <2>3, <1>1, RequestMoves
<1>3. CASE L!ReadMembers(c)
  <2>1. PICK q, l : q = importing[c] /\ l = q.list OBVIOUS
  <2>2. EditOK(q) /\ Faithful(q) BY <1>3, <2>1, PhaseIs DEF L!ReadMembers
  <2>3. CASE L!Becomes(c, None) BY <2>3, <1>1, RequestMoves DEF L!Becomes
  <2>4. CASE L!Becomes(c, [q EXCEPT !.phase = "members", !.items = reading[l].items])
    <3>1. PICK r : r = [q EXCEPT !.phase = "members", !.items = reading[l].items] OBVIOUS
    <3>2. IsEdit(r) /\ r.phase = "members" /\ r.list = l /\ r.count = q.count /\ r.items = reading[l].items
      BY <2>1, <2>2, <3>1 DEF EditOK, IsEdit
    <3>3. EditOK(r) /\ Faithful(r) BY <2>1, <2>2, <3>2 DEF EditOK, Faithful
    <3>4. importing' = [importing EXCEPT ![c] = r] BY <2>4, <3>1 DEF L!Becomes
    <3> QED BY <3>3, <3>4, <1>1, RequestMoves
  <2> QED BY <1>3, <2>1, <2>3, <2>4 DEF L!ReadMembers
<1> QED BY <1>2, <1>3

(* It puts back the members it has read. *)
LEMMA ListIsWritten == ASSUME ImportInv, NEW c \in Caller, L!UpdateList(c) PROVE ImportInv'
<1>1. UNCHANGED <<head, shared, outrun, crossed>> /\ importing' = [importing EXCEPT ![c] = None]
  BY DEF L!UpdateList, L!Other, L!Becomes
<1>2. PICK q, l, list : q = importing[c] /\ l = q.list /\ list = reading[l] OBVIOUS
<1>3. EditOK(q) /\ Faithful(q) /\ q.phase = "members" /\ l \in List
  BY <1>2, PhaseIs DEF L!UpdateList, L!StepOf, EditOK
<1>4. CASE UNCHANGED reading BY <1>1, <1>4, RequestMoves
<1>5. CASE L!Live(l) /\ reading' = [reading EXCEPT ![l] = [list EXCEPT !.items = L!Renumbered(q.items), !.count = q.count]]
  <2>1. PICK r : r = [list EXCEPT !.items = L!Renumbered(q.items), !.count = q.count] OBVIOUS
  <2>2. MembersOK(list, l \in shared, l \in crossed) /\ (l \notin outrun => SourceOK(list, head))
    BY <1>2, <1>3, <1>5 DEF ImportInv, ReadingOK
  <2>3. /\ IsReading(r) /\ r.path = list.path /\ r.ref = list.ref /\ r.rows = list.rows
        /\ DOMAIN r.items = DOMAIN q.items /\ r.count = q.count
    BY <2>1, <2>2 DEF MembersOK, IsReading, L!Renumbered
  <2>4. l \notin crossed => r.count = list.count /\ DOMAIN r.items = DOMAIN list.items BY <1>2, <1>3, <1>5, <2>3 DEF Faithful
  <2>5. MembersOK(r, l \in shared', l \in crossed') BY <1>1, <2>2, <2>3, <2>4 DEF MembersOK
  <2>6. l \notin outrun' => SourceOK(r, head) BY <1>1, <2>2, <2>3 DEF SourceOK
  <2>7. \A d \in L!Edits' : d \in L!Edits /\ importing'[d] = importing[d] BY <1>1 DEF L!Edits, ImportInv, WorkOK
  <2>8. reading' = [reading EXCEPT ![l] = r] BY <1>5, <2>1
  <2>9. ReadingOK' /\ EditsOK' /\ reading' = [k \in List |-> reading'[k]]
    BY <1>1, <1>2, <1>3, <1>5, <2>4, <2>5, <2>6, <2>7, <2>8, ListMoves
  <2>10. WorkOK' BY <2>9, <1>1 DEF ImportInv, WorkOK
  <2> QED BY <2>9, <2>10 DEF ImportInv
<1> QED BY <1>2, <1>4, <1>5 DEF L!UpdateList

(* Every step keeps the invariant. *)
LEMMA ImportStep == ASSUME ImportInv, [L!Next]_(L!vars) PROVE ImportInv'
<1>1. CASE L!Sync \/ L!CloneAgain BY <1>1, CloneMoves
<1>2. ASSUME NEW c \in Caller,
             L!Upload(c) \/ L!Open(c) \/ L!Fetch(c) \/ L!ReadHead(c) \/ L!Match(c) \/ L!Commit(c) \/ L!Create(c) \/ L!Mark(c)
      PROVE  ImportInv'
  BY <1>2, ImportBegins, FileIsFetched, HeadIsRead, EntriesAreMatched, ListIsStored, BookIsCreated, BookIsMarked
<1>3. ASSUME NEW c \in Caller, NEW l \in List, L!Check(c, l) \/ L!ReadUnresolved(c, l) PROVE ImportInv'
  BY <1>3, ImportBegins, UnresolvedAreRead
<1>4. ASSUME NEW l \in List, L!DeleteList(l) \/ (L!Live(l) /\ \E i \in DOMAIN reading[l].rows : \E b : L!Correct(l, i, b))
      PROVE  ImportInv'
  BY <1>4, ListIsDeleted, MatchIsCorrected
<1>5. CASE UNCHANGED <<reading, head, importing, shared, outrun, crossed>>
  BY <1>5 DEF ImportInv, ReadingOK, WorkOK, EditsOK, L!Edits, Faithful, L!Live
<1>6. ASSUME NEW b, L!Remove(b) \/ L!Bring(b) PROVE UNCHANGED <<reading, head, importing, shared, outrun, crossed>>
  BY <1>6 DEF L!Remove, L!Bring
<1>8. ASSUME NEW c \in Caller, L!ReadMembers(c) \/ L!UpdateList(c) \/ \E l \in List : L!ReadList(c, l) PROVE ImportInv'
  BY <1>8, ListIsRead, ListIsWritten
<1>7. UNCHANGED L!vars => UNCHANGED <<reading, head, importing, shared, outrun, crossed>> BY DEF L!vars
<1> QED BY <1>1, <1>2, <1>3, <1>4, <1>5, <1>6, <1>7, <1>8 DEF L!Next

(* What the invariant gives. *)
LEMMA MembersGiven == ASSUME ImportInv PROVE L!EntriesAreMembers
<1>1. ASSUME NEW l \in List, L!Live(l), l \notin crossed
      PROVE  LET books == {reading[l].rows[i].book : i \in DOMAIN reading[l].rows} \ {None} IN
             /\ DOMAIN reading[l].items \subseteq books
             /\ l \notin shared => DOMAIN reading[l].items = books
             /\ reading[l].count = L!Cardinality(DOMAIN reading[l].items)
  <2>1. MembersOK(reading[l], l \in shared, l \in crossed) BY <1>1 DEF ImportInv, ReadingOK
  <2> QED BY <1>1, <2>1 DEF MembersOK, Books
<1> QED BY <1>1 DEF L!EntriesAreMembers

(* A file that is unchanged is that of the commit that is recorded. *)
LEMMA SourceGiven == ASSUME ImportInv PROVE L!UnchangedIsCurrent
<1> SUFFICES ASSUME NEW l \in List, L!Live(l), l \notin outrun, reading[l].path # None, reading[l].ref >= known,
                    L!CheckPathChange(reading[l].ref, reading[l].path) = "unchanged"
             PROVE  L!Entries(reading[l].rows) = History[head][reading[l].path]
  BY DEF L!UnchangedIsCurrent
<1>1. PICK ref, path : ref = reading[l].ref /\ path = reading[l].path OBVIOUS
<1>2. At(ref, path) # Gone /\ L!Entries(reading[l].rows) = At(ref, path) /\ ref \in Nat
  BY <1>1 DEF ImportInv, ReadingOK, SourceOK
<1>3. At(ref, path) = At(head, path)
  BY <1>1, <1>2 DEF L!CheckPathChange, At
<1> QED BY <1>1, <1>2, <1>3 DEF At

--------------------------------------------------------------------------------
(* Wanted books.  A request knows rows by their place in the edition it read;  *)
(* that is enough while no import stores that edition again (EditionsOK,       *)
(* SameOK), while no one else asks for the same entry (AskedOK), and while the *)
(* rows that look as if nothing had been made for them are right (UnresolvedOK)*)

(* None is none of the pairs and requests. *)
ReadingListsApart ==
    /\ \A l, e : [list |-> l, entry |-> e] # None
    /\ \A ph, l, n, rs, ls, b : [phase |-> ph, list |-> l, edition |-> n, rows |-> rs, left |-> ls, book |-> b] # None

(* A request is an import, or one for wanted books. *)
Importing(r) == r # None /\ r.phase \in {"checked", "opened", "placed", "matched"}
Asks(r) == r # None /\ r.phase \in {"create", "mark"}
(* It has an edition, unlike an edit. *)
HasEdition(r) == Importing(r) \/ Asks(r)
(* What a wanted book is made for. *)
Key(l, e) == [list |-> l, entry |-> e]
(* What a wanted book for a row is made for. *)
KeyIn(r, i) == Key(r.list, r.rows[i].entry)
(* The rows for which it may still create a book. *)
Still(r) == IF r.phase = "create" THEN r.left ELSE r.left \ {L!First(r.left)}
(* The books that are there for it. *)
MadeFor(key) == {w \in Wanted \intersect L!There : made[w] = key}

(* No list, and no other request, has the edition of an import. *)
EditionsOK ==
    /\ imports \in Nat
    /\ \A l \in List : L!Live(l) => reading[l].edition \in Nat /\ reading[l].edition <= imports
    /\ \A c \in Caller : HasEdition(importing[c]) => importing[c].edition \in Nat /\ importing[c].edition <= imports
    /\ \A c \in Caller : Importing(importing[c]) => \A l \in List : L!Live(l) => reading[l].edition # importing[c].edition
    /\ \A c, d \in Caller : Importing(importing[c]) /\ c # d /\ HasEdition(importing[d]) => importing[d].edition # importing[c].edition

(* The same entries, whatever they are matched with. *)
SameRows(a, b) == DOMAIN a = DOMAIN b /\ \A i \in DOMAIN a : a[i].entry = b[i].entry
(* A request for wanted books has the entries of the list it read, while its edition is
   stored. *)
SameOK ==
    \A c \in Caller : Asks(importing[c]) /\ L!Live(importing[c].list) /\ reading[importing[c].list].edition = importing[c].edition =>
        SameRows(reading[importing[c].list].rows, importing[c].rows)

(* Nothing is there for an entry that a request is still to ask for, and no other entry
   of its is the same, unless it is undecided. *)
AskerOK(r) ==
    /\ \A i \in r.left : \A j \in DOMAIN r.rows : i # j /\ r.rows[j].entry = r.rows[i].entry => KeyIn(r, i) \in undecided
    /\ \A i \in Still(r) : KeyIn(r, i) \in undecided \/ MadeFor(KeyIn(r, i)) = {}
    /\ r.phase = "mark" => r.book \in Wanted
(* Two requests share no entry, unless it is undecided. *)
ApartOK(r, s) == r.list = s.list => \A i \in r.left, j \in s.left : r.rows[i].entry = s.rows[j].entry => KeyIn(r, i) \in undecided
(* The requests for wanted books. *)
AskedOK ==
    /\ \A c \in Caller : Asks(importing[c]) => AskerOK(importing[c])
    /\ \A c, d \in Caller : Asks(importing[c]) /\ Asks(importing[d]) /\ c # d => ApartOK(importing[c], importing[d])

(* A book has been made for it, and the row is not marked yet. *)
Excuses(r, key) == Asks(r) /\ r.phase = "mark" /\ KeyIn(r, L!First(r.left)) = key
Marking(key) == \E c \in Caller : Excuses(importing[c], key)
(* Nothing is there for an entry whose row is not marked. *)
KeySettled(key) == key \in undecided \/ MadeFor(key) = {} \/ Marking(key)
(* A row without a book and a mark is one for which nothing is there. *)
RowSettled(l, line) == line.path = "none" /\ line.wanted = None => KeySettled(Key(l, line.entry))
(* All rows of the lists are. *)
UnresolvedOK ==
    \A l \in List : L!Live(l) => \A i \in DOMAIN reading[l].rows : RowSettled(l, reading[l].rows[i])

(* A wanted book that is there was made for an entry. *)
MadeOK ==
    /\ \A w \in Wanted \intersect L!There : made[w] # None
    /\ made = [w \in Wanted |-> made[w]] /\ shelf = [b \in L!Id |-> shelf[b]]
(* All of it. *)
WantedInv == EditionsOK /\ SameOK /\ AskedOK /\ UnresolvedOK /\ MadeOK /\ L!WantedOnce

(* The next entry is one that is left. *)
LEMMA FirstIsLeft == ASSUME NEW r, AskingOK(r) PROVE L!First(r.left) \in r.left
<1>1. r.left \subseteq Nat /\ r.left # {} BY DEF AskingOK, IsRows
<1>2. \E x \in r.left : \A y \in r.left : x <= y BY <1>1, Least
<1> QED BY <1>2 DEF L!First

(* A pair has its parts. *)
LEMMA PairsDiffer == ASSUME NEW l, NEW e, NEW m, NEW f, Key(l, e) = Key(m, f) PROVE l = m /\ e = f
<1>1. Key(l, e).list = l /\ Key(l, e).entry = e /\ Key(m, f).list = m /\ Key(m, f).entry = f BY DEF Key
<1> QED BY <1>1

(* What was made, and is there, stays. *)
LEMMA MadeStays ==
  ASSUME UNCHANGED made, \A w \in Wanted : shelf'[w] = shelf[w], NEW key
  PROVE  MadeFor(key)' = MadeFor(key)
BY DEF MadeFor, L!There, L!Id

(* So a request stays in order. *)
LEMMA AskerStays ==
  ASSUME NEW r, AskerOK(r), undecided \subseteq undecided', \A key : MadeFor(key)' = MadeFor(key)
  PROVE  AskerOK(r)'
BY DEF AskerOK

(* Nothing is wanted at first. *)
LEMMA WantedStarts == ASSUME L!Init PROVE WantedInv
<1>1. \A l \in List : ~L!Live(l) BY DEF L!Init, L!Live
<1>2. \A c \in Caller : ~Asks(importing[c]) /\ importing[c] = None /\ ~Importing(importing[c]) BY DEF L!Init, Asks, Importing
<1>3. Wanted \intersect L!There = {} BY ListsAssumption DEF L!Init, L!There, L!Id
<1>4. EditionsOK /\ SameOK /\ AskedOK /\ UnresolvedOK BY <1>1, <1>2 DEF L!Init, EditionsOK, HasEdition, SameOK, AskedOK, UnresolvedOK
<1>5. MadeOK BY <1>3 DEF MadeOK, L!Init
<1> QED BY <1>3, <1>4, <1>5 DEF WantedInv, L!WantedOnce

(* The books that are there for entries stay the same, and so does what is asked and stored. *)
LEMMA OnceStays ==
  ASSUME MadeOK, L!WantedOnce, UNCHANGED made, shelf' = [b \in L!Id |-> shelf'[b]], \A w \in Wanted : shelf'[w] = shelf[w],
         undecided \subseteq undecided'
  PROVE  MadeOK' /\ L!WantedOnce'
<1>1. (Wanted \intersect L!There)' = Wanted \intersect L!There BY DEF L!There, L!Id
<1> QED BY <1>1 DEF MadeOK, L!WantedOnce

(* A request that asks for no books moves on, and the lists keep their rows. *)
LEMMA ImportMoves ==
  ASSUME ImportInv, WantedInv, NEW c \in Caller, NEW r, importing' = [importing EXCEPT ![c] = r],
         UNCHANGED <<made, shelf, undecided>>,
         \A l \in List : L!Live(l)' => L!Live(l) /\ reading'[l].edition = reading[l].edition /\ reading'[l].rows = reading[l].rows,
         ~Asks(importing[c]), ~Asks(r), imports' \in Nat, imports <= imports',
         Importing(r) => /\ r.edition \in Nat /\ r.edition <= imports'
                         /\ \A l \in List : L!Live(l) => reading[l].edition # r.edition
                         /\ \A d \in Caller : d # c /\ HasEdition(importing[d]) => importing[d].edition # r.edition
  PROVE  WantedInv'
<1>1. importing'[c] = r /\ (\A d \in Caller : d # c => importing'[d] = importing[d]) BY DEF ImportInv, WorkOK
<1>2. \A d \in Caller : Asks(importing[d]) => importing[d].list \in List
  BY DEF Asks, ImportInv, WorkOK, AskingOK, ImportOK, EditOK
<1>3. \A key : MadeFor(key)' = MadeFor(key) BY MadeStays
<1>4. EditionsOK'
  <2>1. imports \in Nat /\ imports' \in Nat BY DEF WantedInv, EditionsOK
  <2>2. \A l \in List : L!Live(l)' => reading'[l].edition \in Nat /\ reading'[l].edition <= imports'
    BY <2>1 DEF WantedInv, EditionsOK
  <2>3. \A d \in Caller : HasEdition(importing'[d]) => importing'[d].edition \in Nat /\ importing'[d].edition <= imports'
    <3> SUFFICES ASSUME NEW d \in Caller, HasEdition(importing'[d])
                 PROVE  importing'[d].edition \in Nat /\ importing'[d].edition <= imports'
      OBVIOUS
    <3>1. CASE d = c BY <3>1, <1>1 DEF HasEdition
    <3>2. CASE d # c BY <3>2, <2>1, <1>1 DEF WantedInv, EditionsOK
    <3> QED BY <3>1, <3>2
  <2>4. \A d \in Caller : Importing(importing'[d]) => \A l \in List : L!Live(l)' => reading'[l].edition # importing'[d].edition
    <3> SUFFICES ASSUME NEW d \in Caller, Importing(importing'[d]), NEW l \in List, L!Live(l)'
                 PROVE  reading'[l].edition # importing'[d].edition
      OBVIOUS
    <3>1. L!Live(l) /\ reading'[l].edition = reading[l].edition OBVIOUS
    <3>2. CASE d = c BY <3>1, <3>2, <1>1
    <3>3. CASE d # c BY <3>1, <3>3, <1>1 DEF WantedInv, EditionsOK
    <3> QED BY <3>2, <3>3
  <2>5. \A d, e \in Caller : Importing(importing'[d]) /\ d # e /\ HasEdition(importing'[e]) => importing'[e].edition # importing'[d].edition
    <3> SUFFICES ASSUME NEW d \in Caller, NEW e \in Caller, Importing(importing'[d]), d # e, HasEdition(importing'[e])
                 PROVE  importing'[e].edition # importing'[d].edition
      OBVIOUS
    <3>1. CASE d = c BY <3>1, <1>1
    <3>2. CASE e = c
      <4>1. Importing(r) /\ HasEdition(importing[d]) /\ d # c /\ importing'[d] = importing[d] BY <3>2, <1>1 DEF HasEdition
      <4> QED BY <4>1, <3>2, <1>1
    <3>3. CASE d # c /\ e # c BY <3>3, <1>1 DEF WantedInv, EditionsOK
    <3> QED BY <3>1, <3>2, <3>3
  <2> QED BY <2>1, <2>2, <2>3, <2>4, <2>5 DEF EditionsOK, Importing, HasEdition, Asks
<1>5. \A d \in Caller : Asks(importing'[d]) => d # c /\ importing'[d] = importing[d] BY <1>1
<1>6. SameOK'
  <2>1. ASSUME NEW d \in Caller, NEW q, q = importing[d], Asks(importing'[d]), L!Live(importing[d].list)',
               reading'[importing'[d].list].edition = importing'[d].edition
        PROVE  SameRows(reading'[importing'[d].list].rows, importing'[d].rows)
    <3>1. importing'[d] = q /\ q.list \in List /\ Asks(q) BY <2>1, <1>2, <1>5
    <3>2. L!Live(q.list) /\ reading[q.list].edition = q.edition /\ reading'[q.list].rows = reading[q.list].rows BY <2>1, <3>1
    <3>3. SameRows(reading[q.list].rows, q.rows) BY <2>1, <3>1, <3>2 DEF WantedInv, SameOK
    <3> QED BY <3>1, <3>2, <3>3
  <2> QED BY <2>1 DEF SameOK, L!Live
<1>7. AskedOK'
  <2>1. \A q : AskerOK(q) => AskerOK(q)' BY <1>3, AskerStays
  <2>2. \A q, s : ApartOK(q, s) => ApartOK(q, s)' BY DEF ApartOK
  <2>3. \A d \in Caller : Asks(importing'[d]) => AskerOK(importing[d]) BY <1>5 DEF WantedInv, AskedOK
  <2>4. \A d, e \in Caller : Asks(importing'[d]) /\ Asks(importing'[e]) /\ d # e => ApartOK(importing[d], importing[e])
    BY <1>5 DEF WantedInv, AskedOK
  <2> QED BY <2>1, <2>2, <2>3, <2>4, <1>5 DEF AskedOK
<1>8. UnresolvedOK'
  <2>1. ASSUME NEW key, KeySettled(key) PROVE KeySettled(key)'
    <3>1. Marking(key) => Marking(key)'
      <4>1. ASSUME NEW d \in Caller, Excuses(importing[d], key) PROVE Excuses(importing'[d], key)
        <5>1. d # c BY <4>1 DEF Excuses
        <5> QED BY <4>1, <5>1, <1>1
      <4> QED BY <4>1 DEF Marking
    <3> QED BY <2>1, <3>1, <1>3 DEF KeySettled
  <2>2. ASSUME NEW l \in List, L!Live(l)', NEW i \in DOMAIN reading'[l].rows PROVE RowSettled(l, reading[l].rows[i])'
    <3>1. PICK line : line = reading[l].rows[i] OBVIOUS
    <3>2. L!Live(l) /\ reading'[l].rows = reading[l].rows BY <2>2
    <3>3. RowSettled(l, line) BY <2>2, <3>1, <3>2 DEF WantedInv, UnresolvedOK
    <3> QED BY <2>1, <3>1, <3>2, <3>3 DEF RowSettled
  <2> QED BY <2>2 DEF UnresolvedOK
<1>9. MadeOK' /\ L!WantedOnce' BY OnceStays DEF WantedInv, MadeOK
<1> QED BY <1>4, <1>6, <1>7, <1>8, <1>9 DEF WantedInv

(* An import gets the next edition. *)
LEMMA NewImport ==
  ASSUME ImportInv, WantedInv, NEW c \in Caller, NEW stage \in {"placed", "opened", "checked"}, NEW l, NEW p, NEW content,
         L!Starts(c, L!Import(stage, l, p, content)), UNCHANGED <<reading, made, shelf, undecided>>
  PROVE  WantedInv'
<1>1. PICK r : r = L!Import(stage, l, p, content) OBVIOUS
<1>2. importing' = [importing EXCEPT ![c] = r] /\ importing[c] = None /\ imports' = imports + 1 BY <1>1 DEF L!Starts, L!Free
<1>3. r.phase = stage /\ r.edition = imports + 1 BY <1>1 DEF L!Import
<1>4. ~Asks(r) /\ ~Asks(importing[c]) BY <1>2, <1>3 DEF Asks
<1>5. imports \in Nat BY DEF WantedInv, EditionsOK
<1>6. \A k \in List : L!Live(k) => reading[k].edition # r.edition BY <1>3, <1>5 DEF WantedInv, EditionsOK
<1>7. \A d \in Caller : d # c /\ HasEdition(importing[d]) => importing[d].edition # r.edition BY <1>3, <1>5 DEF WantedInv, EditionsOK
<1>8. imports' \in Nat /\ imports <= imports' /\ r.edition \in Nat /\ r.edition <= imports' BY <1>2, <1>3, <1>5
<1> QED BY <1>2, <1>4, <1>6, <1>7, <1>8, ImportMoves DEF L!Live

(* It begins so. *)
LEMMA ImportBeginsOnce ==
  ASSUME ImportInv, WantedInv, NEW c \in Caller, L!Upload(c) \/ L!Open(c) \/ \E l \in List : L!Check(c, l)
  PROVE  WantedInv'
<1>1. UNCHANGED <<reading, made, shelf, undecided>> BY DEF L!Upload, L!Open, L!Check, L!Other, L!Stored
<1>2. CASE L!Upload(c) BY <1>1, <1>2, NewImport DEF L!Upload
<1>3. CASE L!Open(c) BY <1>1, <1>3, NewImport DEF L!Open
<1>4. CASE \E l \in List : L!Check(c, l)
  <2>1. PICK l \in List : \E p : L!Starts(c, L!Import("checked", l, p, <<>>)) BY <1>4 DEF L!Check
  <2>2. PICK p : L!Starts(c, L!Import("checked", l, p, <<>>)) BY <2>1
  <2> QED BY <2>2, <1>1, NewImport
<1> QED BY <1>2, <1>3, <1>4

(* It keeps its edition. *)
LEMMA ImportGoesOn ==
  ASSUME ImportInv, WantedInv, NEW c \in Caller, L!Fetch(c) \/ L!ReadHead(c) \/ L!Match(c)
  PROVE  WantedInv'
<1>1. UNCHANGED <<reading, made, shelf, undecided, imports>> BY DEF L!Fetch, L!ReadHead, L!Match, L!Other, L!Stored, L!Becomes
<1>2. PICK q : q = importing[c] OBVIOUS
<1>3. ImportOK(q, head) /\ Importing(q)
  BY <1>2, PhaseIs DEF L!Fetch, L!ReadHead, L!Match, L!StepOf, ImportOK, Importing
<1>4. PICK r : importing' = [importing EXCEPT ![c] = r] /\ (r = None \/ (Importing(r) /\ r.edition = q.edition))
  <2>1. CASE L!Fetch(c)
    <3>1. PICK found, r : r = (IF found = Gone THEN None ELSE [q EXCEPT !.phase = "opened", !.content = found, !.opened = head])
                          /\ L!Becomes(c, r)
      BY <2>1, <1>2 DEF L!Fetch
    <3>2. found # Gone => r.phase = "opened" /\ r.edition = q.edition BY <3>1, <1>3 DEF ImportOK, IsImport
    <3>3. r = None \/ (Importing(r) /\ r.edition = q.edition) BY <3>1, <3>2 DEF Importing
    <3> QED BY <3>1, <3>3 DEF L!Becomes
  <2>2. CASE L!ReadHead(c)
    <3>1. PICK r : r = [q EXCEPT !.phase = "placed", !.ref = head] OBVIOUS
    <3>2. r.phase = "placed" /\ r.edition = q.edition BY <3>1, <1>3 DEF ImportOK, IsImport
    <3>3. L!Becomes(c, r) BY <3>1, <2>2, <1>2 DEF L!ReadHead
    <3> QED BY <3>2, <3>3 DEF Importing, L!Becomes
  <2>3. CASE L!Match(c)
    <3>1. CASE L!Becomes(c, None) BY <3>1 DEF L!Becomes
    <3>2. ASSUME NEW rows, L!Becomes(c, [q EXCEPT !.phase = "matched", !.rows = rows])
          PROVE  \E r : importing' = [importing EXCEPT ![c] = r] /\ (r = None \/ (Importing(r) /\ r.edition = q.edition))
      <4>1. PICK r : r = [q EXCEPT !.phase = "matched", !.rows = rows] OBVIOUS
      <4>2. r.phase = "matched" /\ r.edition = q.edition BY <4>1, <1>3 DEF ImportOK, IsImport
      <4> QED BY <4>1, <4>2, <3>2 DEF Importing, L!Becomes
    <3> QED BY <2>3, <1>2, <3>1, <3>2 DEF L!Match
  <2> QED BY <2>1, <2>2, <2>3
<1>5. imports \in Nat /\ q.edition \in Nat /\ q.edition <= imports
  BY <1>2, <1>3 DEF WantedInv, EditionsOK, HasEdition
<1>6. \A l \in List : L!Live(l) => reading[l].edition # q.edition BY <1>2, <1>3 DEF WantedInv, EditionsOK
<1>7. \A d \in Caller : d # c /\ HasEdition(importing[d]) => importing[d].edition # q.edition BY <1>2, <1>3 DEF WantedInv, EditionsOK
<1>8. imports' \in Nat /\ imports <= imports' BY <1>1, <1>5
<1>9. Importing(r) => /\ r.edition \in Nat /\ r.edition <= imports'
                      /\ \A l \in List : L!Live(l) => reading[l].edition # r.edition
                      /\ \A d \in Caller : d # c /\ HasEdition(importing[d]) => importing[d].edition # r.edition
  BY <1>1, <1>4, <1>5, <1>6, <1>7 DEF Importing
<1>10. ~Asks(importing[c]) /\ ~Asks(r) BY <1>2, <1>3, <1>4 DEF Asks, Importing
<1> QED BY <1>1, <1>4, <1>8, <1>9, <1>10, ImportMoves DEF L!Live

(* Lists go, and owned books come and go. *)
LEMMA OthersMove ==
  ASSUME ImportInv, WantedInv, UNCHANGED <<importing, imports, made, undecided>>,
         shelf' = [b \in L!Id |-> shelf'[b]], \A w \in Wanted : shelf'[w] = shelf[w],
         \A l \in List : L!Live(l)' => L!Live(l) /\ reading'[l] = reading[l]
  PROVE  WantedInv'
<1>1. \A key : MadeFor(key)' = MadeFor(key) BY MadeStays
<1>2. EditionsOK' BY DEF WantedInv, EditionsOK
<1>3. SameOK'
  <2>1. \A c \in Caller : Asks(importing[c]) => importing[c].list \in List
    BY DEF Asks, ImportInv, WorkOK, AskingOK, ImportOK, EditOK
  <2> QED BY <2>1 DEF WantedInv, SameOK
<1>4. AskedOK'
  <2>1. \A q : AskerOK(q) => AskerOK(q)' BY <1>1, AskerStays
  <2>2. \A q, s : ApartOK(q, s) => ApartOK(q, s)' BY DEF ApartOK
  <2> QED BY <2>1, <2>2 DEF WantedInv, AskedOK
<1>5. UnresolvedOK'
  <2>1. \A key : KeySettled(key) => KeySettled(key)' BY <1>1 DEF KeySettled, Marking
  <2> QED BY <2>1 DEF WantedInv, UnresolvedOK, RowSettled
<1>6. MadeOK' /\ L!WantedOnce' BY OnceStays DEF WantedInv, MadeOK
<1> QED BY <1>2, <1>3, <1>4, <1>5, <1>6 DEF WantedInv

(* These are the pulls, the deletions, and what becomes of owned books. *)
LEMMA OthersMoveOnce ==
  ASSUME ImportInv, WantedInv,
         \/ L!Sync \/ L!CloneAgain \/ UNCHANGED L!vars
         \/ \E l \in List : L!DeleteList(l)
         \/ \E b \in Owned : L!Remove(b) \/ L!Bring(b)
  PROVE  WantedInv'
<1>1. shelf = [b \in L!Id |-> shelf[b]] BY DEF WantedInv, MadeOK
<1>2. CASE L!Sync \/ L!CloneAgain \/ UNCHANGED L!vars
  <2>1. UNCHANGED <<reading, importing, imports, made, undecided, shelf>> BY <1>2 DEF L!Sync, L!CloneAgain, L!vars
  <2> QED BY <2>1, <1>1, OthersMove DEF L!Live
<1>3. ASSUME NEW l \in List, L!DeleteList(l) PROVE WantedInv'
  <2>1. UNCHANGED <<importing, imports, made, undecided, shelf>> BY <1>3 DEF L!DeleteList
  <2>2. \A k \in List : L!Live(k)' => L!Live(k) /\ reading'[k] = reading[k]
    BY <1>3 DEF L!DeleteList, L!Live, ImportInv, WorkOK
  <2> QED BY <2>1, <2>2, <1>1, OthersMove
<1>4. ASSUME NEW b \in Owned, L!Remove(b) \/ L!Bring(b) PROVE WantedInv'
  <2>1. UNCHANGED <<reading, importing, imports, made, undecided>> BY <1>4 DEF L!Remove, L!Bring
  <2>2. shelf' = [x \in L!Id |-> shelf'[x]] /\ \A w \in Wanted : shelf'[w] = shelf[w]
    <3>1. PICK what : shelf' = [shelf EXCEPT ![b] = what] BY <1>4 DEF L!Remove, L!Bring
    <3>2. \A w \in Wanted : w # b /\ w \in L!Id BY ListsAssumption DEF L!Id
    <3> QED BY <1>1, <3>1, <3>2
  <2> QED BY <2>1, <2>2, OthersMove DEF L!Live
<1> QED BY <1>2, <1>3, <1>4

(* The rows of one list change, with their entries as they were. *)
LEMMA RowsChange ==
  ASSUME ImportInv, WantedInv, NEW l \in List, L!Live(l), NEW r, reading' = [reading EXCEPT ![l] = r],
         r.edition = reading[l].edition, SameRows(r.rows, reading[l].rows),
         UNCHANGED <<importing, imports, made, shelf>>, undecided \subseteq undecided',
         \A i \in DOMAIN r.rows : RowSettled(l, r.rows[i])'
  PROVE  WantedInv'
<1>1. reading'[l] = r /\ (\A k \in List : k # l => reading'[k] = reading[k]) BY DEF ImportInv, WorkOK
<1>2. \A k \in List : L!Live(k)' => L!Live(k) /\ reading'[k].edition = reading[k].edition BY <1>1 DEF L!Live
<1>3. \A key : MadeFor(key)' = MadeFor(key) BY MadeStays
<1>4. EditionsOK' BY <1>2 DEF WantedInv, EditionsOK
<1>5. SameOK'
  <2>1. \A c \in Caller : Asks(importing[c]) => importing[c].list \in List
    BY DEF Asks, ImportInv, WorkOK, AskingOK, ImportOK, EditOK
  <2>2. ASSUME NEW c \in Caller, Asks(importing[c]), L!Live(importing[c].list)', reading'[importing[c].list].edition = importing[c].edition
        PROVE  SameRows(reading'[importing[c].list].rows, importing[c].rows)
    <3>1. PICK q, k : q = importing[c] /\ k = q.list OBVIOUS
    <3>2. k \in List /\ L!Live(k) /\ reading[k].edition = q.edition BY <2>1, <2>2, <3>1, <1>2 DEF L!Live
    <3>3. SameRows(reading[k].rows, q.rows) BY <3>1, <3>2, <2>2 DEF WantedInv, SameOK
    <3>4. SameRows(reading'[k].rows, reading[k].rows) BY <3>2, <1>1 DEF SameRows
    <3> QED BY <3>1, <3>3, <3>4 DEF SameRows
  <2> QED BY <2>2 DEF SameOK, L!Live
<1>6. AskedOK'
  <2>1. \A q : AskerOK(q) => AskerOK(q)' BY <1>3, AskerStays
  <2>2. \A q, s : ApartOK(q, s) => ApartOK(q, s)' BY DEF ApartOK
  <2> QED BY <2>1, <2>2 DEF WantedInv, AskedOK
<1>7. UnresolvedOK'
  <2>1. \A key : KeySettled(key) => KeySettled(key)' BY <1>3 DEF KeySettled, Marking
  <2>2. ASSUME NEW k \in List, k # l, L!Live(k)', NEW i \in DOMAIN reading'[k].rows
        PROVE  RowSettled(k, reading[k].rows[i])'
    <3>1. reading'[k] = reading[k] /\ L!Live(k) BY <2>2, <1>1, <1>2
    <3>2. RowSettled(k, reading[k].rows[i]) BY <3>1, <2>2 DEF WantedInv, UnresolvedOK
    <3> QED BY <3>1, <3>2, <2>1 DEF RowSettled
  <2>3. ASSUME NEW i \in DOMAIN reading'[l].rows PROVE RowSettled(l, reading[l].rows[i])'
    BY <1>1, <2>3 DEF RowSettled
  <2> QED BY <2>2, <2>3 DEF UnresolvedOK
<1>8. MadeOK' /\ L!WantedOnce' BY OnceStays DEF WantedInv, MadeOK
<1> QED BY <1>4, <1>5, <1>6, <1>7, <1>8 DEF WantedInv

(* A correction that takes the book away leaves the entry undecided. *)
LEMMA CorrectedOnce ==
  ASSUME ImportInv, WantedInv, NEW l \in List, L!Live(l), NEW i \in DOMAIN reading[l].rows, NEW b, L!Correct(l, i, b)
  PROVE  WantedInv'
<1>1. UNCHANGED <<importing, imports, made, shelf>> BY DEF L!Correct
<1>2. PICK list : list = reading[l] OBVIOUS
<1>3. MembersOK(list, l \in shared, l \in crossed) /\ i \in DOMAIN list.rows BY <1>2 DEF ImportInv, ReadingOK
<1>4. PICK line : line = [list.rows[i] EXCEPT !.book = b, !.path = IF b = None THEN "none" ELSE "manual"] OBVIOUS
<1>5. PICK rows : rows = [list.rows EXCEPT ![i] = line] OBVIOUS
<1>6. rows = [list.rows EXCEPT ![i].book = b, ![i].path = IF b = None THEN "none" ELSE "manual"]
  BY <1>3, <1>4, <1>5 DEF MembersOK, IsRows
<1>7. PICK items : items = L!Replaced(list.items, list.rows[i].book, b, i) OBVIOUS
<1>8. PICK r : r = [list EXCEPT !.rows = rows, !.items = items, !.count = L!Cardinality(DOMAIN items)] OBVIOUS
<1>9. reading' = [reading EXCEPT ![l] = r] BY <1>2, <1>6, <1>7, <1>8 DEF L!Correct
<1>10. r.rows = rows /\ r.edition = list.edition BY <1>3, <1>8 DEF MembersOK, IsReading
<1>11. line.entry = list.rows[i].entry /\ line.path = IF b = None THEN "none" ELSE "manual"
  <2>1. PICK x : x = list.rows[i] OBVIOUS
  <2>2. IsRow(x) BY <2>1, <1>3 DEF MembersOK, IsRows
  <2>3. line = [x EXCEPT !.book = b, !.path = IF b = None THEN "none" ELSE "manual"] BY <2>1, <1>4
  <2> QED BY <2>1, <2>2, <2>3 DEF IsRow
<1>12. DOMAIN rows = DOMAIN list.rows /\ rows[i] = line /\ \A j \in DOMAIN rows : j # i => rows[j] = list.rows[j]
  BY <1>3, <1>5
<1>13. SameRows(rows, list.rows) BY <1>11, <1>12 DEF SameRows
<1>14. undecided' = IF b = None THEN undecided \union {Key(l, list.rows[i].entry)} ELSE undecided
  <2>1. rows[i].entry = list.rows[i].entry BY <1>11, <1>12
  <2> QED BY <1>2, <1>6, <2>1 DEF L!Correct, Key
<1>15. ASSUME NEW j \in DOMAIN rows PROVE RowSettled(l, rows[j])'
  <2>1. CASE j = i BY <2>1, <1>11, <1>12, <1>14 DEF RowSettled, KeySettled
  <2>2. CASE j # i
    <3>1. RowSettled(l, rows[j]) BY <2>2, <1>2, <1>12, <1>15 DEF WantedInv, UnresolvedOK
    <3>2. \A key : MadeFor(key)' = MadeFor(key) BY <1>1, MadeStays
    <3>3. \A key : KeySettled(key) => KeySettled(key)' BY <1>1, <1>14, <3>2 DEF KeySettled, Marking
    <3> QED BY <3>1, <3>3 DEF RowSettled
  <2> QED BY <2>1, <2>2
<1> QED BY <1>1, <1>2, <1>9, <1>10, <1>13, <1>14, <1>15, RowsChange

(* A request for wanted books goes on, or ends. *)
LEMMA AskerMoves ==
  ASSUME ImportInv, WantedInv, NEW c \in Caller, NEW r, Asks(importing[c]),
         importing' = [importing EXCEPT ![c] = r], UNCHANGED imports, undecided \subseteq undecided',
         r # None => /\ Asks(r) /\ r.list = importing[c].list /\ r.rows = importing[c].rows /\ r.edition = importing[c].edition
                     /\ r.left \subseteq importing[c].left,
         \A l \in List : L!Live(l)' => /\ L!Live(l) /\ reading'[l].edition = reading[l].edition
                                     /\ SameRows(reading'[l].rows, reading[l].rows)
  PROVE  /\ EditionsOK' /\ SameOK'
         /\ (\A d, e \in Caller : Asks(importing[d]) /\ Asks(importing[e]) /\ d # e => ApartOK(importing[d], importing[e]))'
<1>1. importing'[c] = r /\ (\A d \in Caller : d # c => importing'[d] = importing[d]) BY DEF ImportInv, WorkOK
<1>2. ~Importing(r) /\ ~Importing(importing[c]) BY DEF Asks, Importing
<1>4. \A d \in Caller : HasEdition(importing'[d]) => HasEdition(importing[d]) /\ importing'[d].edition = importing[d].edition
  <2>1. HasEdition(r) => HasEdition(importing[c]) /\ r.edition = importing[c].edition BY DEF HasEdition, Importing, Asks
  <2> QED BY <2>1, <1>1
<1>5. \A d \in Caller : Importing(importing'[d]) => Importing(importing[d]) BY <1>1, <1>2
<1>6. EditionsOK'
  <2>1. imports' \in Nat BY DEF WantedInv, EditionsOK
  <2>2. \A l \in List : L!Live(l)' => reading'[l].edition \in Nat /\ reading'[l].edition <= imports'
    BY DEF WantedInv, EditionsOK
  <2>3. \A d \in Caller : HasEdition(importing'[d]) => importing'[d].edition \in Nat /\ importing'[d].edition <= imports'
    BY <1>4 DEF WantedInv, EditionsOK
  <2>4. \A d \in Caller : Importing(importing'[d]) => \A l \in List : L!Live(l)' => reading'[l].edition # importing'[d].edition
    BY <1>4, <1>5 DEF WantedInv, EditionsOK, Importing
  <2>5. \A d, e \in Caller : Importing(importing'[d]) /\ d # e /\ HasEdition(importing'[e]) => importing'[e].edition # importing'[d].edition
    BY <1>4, <1>5 DEF WantedInv, EditionsOK, Importing
  <2> QED BY <2>1, <2>2, <2>3, <2>4, <2>5 DEF EditionsOK
<1>7. \A d \in Caller : Asks(importing'[d]) =>
        /\ Asks(importing[d]) /\ importing'[d].list = importing[d].list /\ importing'[d].rows = importing[d].rows
        /\ importing'[d].edition = importing[d].edition /\ importing'[d].left \subseteq importing[d].left
  <2> SUFFICES ASSUME NEW d \in Caller, Asks(importing'[d])
               PROVE  /\ Asks(importing[d]) /\ importing'[d].list = importing[d].list /\ importing'[d].rows = importing[d].rows
                      /\ importing'[d].edition = importing[d].edition /\ importing'[d].left \subseteq importing[d].left
    OBVIOUS
  <2>1. CASE d = c
    <3>1. r # None BY <2>1, <1>1 DEF Asks
    <3> QED BY <3>1, <2>1, <1>1
  <2>2. CASE d # c BY <2>2, <1>1
  <2> QED BY <2>1, <2>2
<1>8. SameOK'
  <2>1. \A d \in Caller : Asks(importing[d]) => importing[d].list \in List
    BY DEF Asks, ImportInv, WorkOK, AskingOK, ImportOK, EditOK
  <2>2. ASSUME NEW d \in Caller, Asks(importing'[d]), NEW k, k = importing'[d].list, L!Live(k)', reading'[k].edition = importing'[d].edition
        PROVE  SameRows(reading'[k].rows, importing'[d].rows)
    <3>1. k \in List /\ k = importing[d].list /\ Asks(importing[d]) /\ reading'[k].edition = importing[d].edition BY <2>1, <2>2, <1>7
    <3>2. L!Live(k) /\ reading[k].edition = importing[d].edition /\ SameRows(reading'[k].rows, reading[k].rows) BY <2>2, <3>1
    <3>3. SameRows(reading[k].rows, importing[d].rows) BY <3>1, <3>2 DEF WantedInv, SameOK
    <3>4. importing'[d].rows = importing[d].rows BY <2>2, <1>7
    <3> QED BY <3>2, <3>3, <3>4 DEF SameRows
  <2> QED BY <2>2 DEF SameOK, L!Live
<1>9. ASSUME NEW d \in Caller, NEW e \in Caller, Asks(importing'[d]), Asks(importing'[e]), d # e
      PROVE  ApartOK(importing[d], importing[e])'
  <2>1. ApartOK(importing[d], importing[e]) BY <1>9, <1>7 DEF WantedInv, AskedOK
  <2> QED BY <2>1, <1>9, <1>7 DEF ApartOK, KeyIn
<1> QED BY <1>6, <1>8, <1>9

(* ... without a book that is made. *)
LEMMA PassesOn ==
  ASSUME ImportInv, WantedInv, NEW c \in Caller, Asks(importing[c]), AskingOK(importing[c]),
         importing' = [importing EXCEPT ![c] = L!AfterThis(c)], UNCHANGED <<imports, made, shelf>>, undecided \subseteq undecided',
         \A l \in List : L!Live(l)' => /\ L!Live(l) /\ reading'[l].edition = reading[l].edition
                                     /\ SameRows(reading'[l].rows, reading[l].rows)
  PROVE  EditionsOK' /\ SameOK' /\ AskedOK' /\ MadeOK' /\ L!WantedOnce'
<1>1. PICK r, q : r = L!AfterThis(c) /\ q = importing[c] OBVIOUS
<1>2. r # None => /\ AskingOK(r) /\ r.phase = "create" /\ r.list = q.list /\ r.edition = q.edition /\ r.rows = q.rows
                  /\ r.left = q.left \ {L!First(q.left)}
  BY <1>1, NextEntry
<1>3. r # None => Asks(r) /\ r.left \subseteq q.left BY <1>2 DEF Asks
<1>4. importing'[c] = r /\ (\A d \in Caller : d # c => importing'[d] = importing[d]) BY <1>1 DEF ImportInv, WorkOK
<1>5. /\ EditionsOK' /\ SameOK'
      /\ (\A d, e \in Caller : Asks(importing[d]) /\ Asks(importing[e]) /\ d # e => ApartOK(importing[d], importing[e]))'
  BY <1>1, <1>2, <1>3, AskerMoves
<1>6. \A key : MadeFor(key)' = MadeFor(key) BY MadeStays
<1>7. ASSUME NEW d \in Caller, Asks(importing'[d]) PROVE AskerOK(importing[d])'
  <2>1. CASE d = c
    <3>1. r # None BY <2>1, <1>4, <1>7 DEF Asks
    <3>2. AskerOK(q) BY <1>1 DEF WantedInv, AskedOK
    <3>3. Still(r) \subseteq Still(q) BY <3>1, <1>2 DEF Still
    <3>4. AskerOK(r) BY <3>1, <3>2, <3>3, <1>2, <1>3 DEF AskerOK, KeyIn
    <3>5. AskerOK(r)' BY <3>4, <1>6, AskerStays
    <3> QED BY <3>5, <2>1, <1>4 DEF AskerOK, Still
  <2>2. CASE d # c
    <3>1. PICK s : s = importing[d] OBVIOUS
    <3>2. importing'[d] = s /\ AskerOK(s) BY <2>2, <3>1, <1>4, <1>7 DEF WantedInv, AskedOK
    <3>3. AskerOK(s)' BY <3>2, <1>6, AskerStays
    <3> QED BY <3>2, <3>3 DEF AskerOK, Still
  <2> QED BY <2>1, <2>2
<1>8. AskedOK' BY <1>5, <1>7 DEF AskedOK
<1>9. MadeOK' /\ L!WantedOnce' BY OnceStays DEF WantedInv, MadeOK
<1> QED BY <1>5, <1>8, <1>9

(* A request goes on without a book. *)
LEMMA SkippedOnce ==
  ASSUME ImportInv, WantedInv, NEW c \in Caller, L!StepOf(c, "create"), L!Becomes(c, L!AfterThis(c)),
         UNCHANGED <<reading, made, shelf, undecided>>
  PROVE  WantedInv'
<1>1. Asks(importing[c]) /\ AskingOK(importing[c]) BY PhaseIs DEF L!StepOf, Asks
<1>2. importing' = [importing EXCEPT ![c] = L!AfterThis(c)] /\ UNCHANGED imports BY DEF L!Becomes
<1>3. \A l \in List : L!Live(l)' => /\ L!Live(l) /\ reading'[l].edition = reading[l].edition
                                  /\ SameRows(reading'[l].rows, reading[l].rows)
  BY DEF L!Live, SameRows
<1>4. EditionsOK' /\ SameOK' /\ AskedOK' /\ MadeOK' /\ L!WantedOnce' BY <1>1, <1>2, <1>3, PassesOn
<1>5. \A d \in Caller : d # c => importing'[d] = importing[d] BY <1>2 DEF ImportInv, WorkOK
<1>6. ASSUME NEW key, KeySettled(key) PROVE KeySettled(key)'
  <2>1. \A d \in Caller : Excuses(importing[d], key) => d # c BY DEF Excuses, L!StepOf
  <2>2. Marking(key) => Marking(key)' BY <2>1, <1>5 DEF Marking, Excuses
  <2>3. MadeFor(key)' = MadeFor(key) BY MadeStays
  <2> QED BY <1>6, <2>2, <2>3 DEF KeySettled
<1>7. UnresolvedOK' BY <1>6 DEF WantedInv, UnresolvedOK, RowSettled, L!Live
<1> QED BY <1>4, <1>7 DEF WantedInv

(* A book is made for an entry that had none. *)
LEMMA CreatedOnce ==
  ASSUME ReadingListsApart, ImportInv, WantedInv, NEW c \in Caller, NEW w \in Wanted, L!StepOf(c, "create"),
         made[w] = None, made' = [made EXCEPT ![w] = [list |-> importing[c].list, entry |-> L!EntryOf(c)]],
         shelf' = [shelf EXCEPT ![w] = L!EntryOf(c)],
         L!Becomes(c, [importing[c] EXCEPT !.phase = "mark", !.book = w]), UNCHANGED <<reading, undecided>>
  PROVE  WantedInv'
<1>1. PICK q, k, key : q = importing[c] /\ k = L!First(q.left) /\ key = KeyIn(q, k) OBVIOUS
<1>2. Asks(q) /\ AskingOK(q) /\ q.phase = "create" BY <1>1, PhaseIs DEF L!StepOf, Asks
<1>3. k \in q.left BY <1>1, <1>2, FirstIsLeft
<1>4. PICK r : r = [q EXCEPT !.phase = "mark", !.book = w] OBVIOUS
<1>5. /\ r = [phase |-> "mark", list |-> q.list, edition |-> q.edition, rows |-> q.rows, left |-> q.left, book |-> w]
      /\ r.phase = "mark" /\ r.list = q.list /\ r.edition = q.edition /\ r.rows = q.rows /\ r.left = q.left /\ r.book = w
  BY <1>2, <1>4 DEF AskingOK, IsAsking
<1>6. Asks(r) BY <1>5 DEF Asks, ReadingListsApart
<1>7. importing' = [importing EXCEPT ![c] = r] /\ UNCHANGED imports BY <1>1, <1>4 DEF L!Becomes
<1>8. importing'[c] = r /\ (\A d \in Caller : d # c => importing'[d] = importing[d]) BY <1>7 DEF ImportInv, WorkOK
<1>9. made' = [made EXCEPT ![w] = key] BY <1>1 DEF L!EntryOf, KeyIn, Key
<1>10. w \in L!Id /\ w \notin L!There BY DEF WantedInv, MadeOK, L!Id
<1>11. /\ made'[w] = key /\ \A v \in Wanted : v # w => made'[v] = made[v] /\ (v \in L!There' => v \in L!There)
  BY <1>9 DEF WantedInv, MadeOK, L!There, L!Id
<1>12. \A x : MadeFor(x)' \subseteq MadeFor(x) \union {w} /\ (x # key => MadeFor(x)' \subseteq MadeFor(x))
  BY <1>11 DEF MadeFor
<1>13. AskerOK(q) BY <1>1, <1>2 DEF WantedInv, AskedOK
<1>14. key \in undecided \/ MadeFor(key) = {} BY <1>1, <1>2, <1>3, <1>13 DEF AskerOK, Still
<1>15. /\ EditionsOK' /\ SameOK'
       /\ (\A d, e \in Caller : Asks(importing[d]) /\ Asks(importing[e]) /\ d # e => ApartOK(importing[d], importing[e]))'
  <2>1. \A l \in List : L!Live(l)' => /\ L!Live(l) /\ reading'[l].edition = reading[l].edition
                                    /\ SameRows(reading'[l].rows, reading[l].rows)
    BY DEF L!Live, SameRows
  <2> QED BY <2>1, <1>1, <1>2, <1>5, <1>6, <1>7, AskerMoves
<1>16. ASSUME NEW s, AskerOK(s), \A i \in Still(s) : KeyIn(s, i) = key => key \in undecided PROVE AskerOK(s)'
  <2>1. ASSUME NEW i \in Still(s) PROVE KeyIn(s, i) \in undecided \/ MadeFor(KeyIn(s, i))' = {}
    <3>1. PICK x : x = KeyIn(s, i) OBVIOUS
    <3>2. x \in undecided \/ MadeFor(x) = {} BY <1>16, <2>1, <3>1 DEF AskerOK
    <3>3. x = key => x \in undecided BY <1>16, <2>1, <3>1
    <3>4. x # key => MadeFor(x)' \subseteq MadeFor(x) BY <1>12
    <3>5. x \in undecided \/ MadeFor(x)' = {} BY <3>2, <3>3, <3>4
    <3> QED BY <3>1, <3>5 DEF MadeFor
  <2> QED BY <2>1, <1>16 DEF AskerOK
<1>17. ASSUME NEW d \in Caller, Asks(importing'[d]) PROVE AskerOK(importing[d])'
  <2>1. CASE d = c
    <3>1. ASSUME NEW i \in Still(r), KeyIn(r, i) = key PROVE key \in undecided
      <4>1. i \in q.left /\ i # k BY <3>1, <1>1, <1>5 DEF Still
      <4>2. q.rows[i].entry = q.rows[k].entry BY <3>1, <1>1, <1>5, PairsDiffer DEF KeyIn
      <4>3. k \in DOMAIN q.rows BY <1>2, <1>3 DEF AskingOK
      <4>4. KeyIn(q, i) \in undecided BY <4>1, <4>2, <4>3, <1>13 DEF AskerOK
      <4> QED BY <4>4, <3>1, <1>5 DEF KeyIn
    <3>2. AskerOK(r)
      <4>1. Still(r) \subseteq Still(q) BY <1>2, <1>5 DEF Still
      <4> QED BY <4>1, <1>5, <1>13 DEF AskerOK, KeyIn
    <3>3. AskerOK(r)' BY <3>1, <3>2, <1>16
    <3> QED BY <3>3, <2>1, <1>8 DEF AskerOK, Still
  <2>2. CASE d # c
    <3>1. PICK s : s = importing[d] OBVIOUS
    <3>2. importing'[d] = s /\ AskerOK(s) /\ Asks(s) /\ ApartOK(s, q)
      BY <2>2, <3>1, <1>1, <1>2, <1>8, <1>17 DEF WantedInv, AskedOK
    <3>3. ASSUME NEW i \in Still(s), KeyIn(s, i) = key PROVE key \in undecided
      <4>1. i \in s.left BY <3>3 DEF Still
      <4>2. s.list = q.list /\ s.rows[i].entry = q.rows[k].entry BY <3>3, <1>1, PairsDiffer DEF KeyIn
      <4> QED BY <4>1, <4>2, <3>2, <3>3, <1>3 DEF ApartOK
    <3>4. AskerOK(s)' BY <3>2, <3>3, <1>16
    <3> QED BY <3>2, <3>4 DEF AskerOK, Still
  <2> QED BY <2>1, <2>2
<1>18. UnresolvedOK'
  <2>1. ASSUME NEW x, KeySettled(x) PROVE KeySettled(x)'
    <3>1. CASE x = key
      <4>1. Excuses(r, key) BY <1>1, <1>5, <1>6 DEF Excuses, KeyIn
      <4> QED BY <4>1, <3>1, <1>8 DEF KeySettled, Marking
    <3>2. CASE x # key
      <4>1. \A d \in Caller : Excuses(importing[d], x) => d # c BY <1>1, <1>2 DEF Excuses
      <4>2. Marking(x) => Marking(x)' BY <4>1, <1>8 DEF Marking, Excuses
      <4>3. MadeFor(x) = {} => MadeFor(x)' = {} BY <3>2, <1>12
      <4> QED BY <2>1, <4>2, <4>3 DEF KeySettled
    <3> QED BY <3>1, <3>2
  <2> QED BY <2>1 DEF WantedInv, UnresolvedOK, RowSettled, L!Live
<1>19. MadeOK'
  <2>1. key # None BY <1>1 DEF KeyIn, Key, ReadingListsApart
  <2>2. made' = [v \in Wanted |-> made'[v]] /\ shelf' = [b \in L!Id |-> shelf'[b]] BY <1>9 DEF WantedInv, MadeOK
  <2> QED BY <2>1, <2>2, <1>11 DEF WantedInv, MadeOK
<1>20. L!WantedOnce'
  <2> SUFFICES ASSUME NEW u \in Wanted, NEW v \in Wanted, u \in L!There', v \in L!There', u # v, made'[u] = made'[v]
               PROVE  made'[u] \in undecided
    BY DEF L!WantedOnce
  <2>1. CASE u # w /\ v # w BY <2>1, <1>11 DEF WantedInv, L!WantedOnce
  <2>2. CASE u = w
    <3>1. v \in MadeFor(key) BY <2>2, <1>11 DEF MadeFor
    <3> QED BY <3>1, <2>2, <1>11, <1>14
  <2>3. CASE v = w
    <3>1. u \in MadeFor(key) BY <2>3, <1>11 DEF MadeFor
    <3> QED BY <3>1, <2>3, <1>11, <1>14
  <2> QED BY <2>1, <2>2, <2>3
<1> QED BY <1>15, <1>17, <1>18, <1>19, <1>20 DEF WantedInv, AskedOK

(* A row is marked, or its entry becomes undecided. *)
LEMMA MarkedOnce == ASSUME ImportInv, WantedInv, NEW c \in Caller, L!Mark(c) PROVE WantedInv'
<1>1. PICK q, k, key : q = importing[c] /\ k = L!First(q.left) /\ key = KeyIn(q, k) OBVIOUS
<1>2. Asks(q) /\ AskingOK(q) /\ q.phase = "mark" BY <1>1, PhaseIs DEF L!Mark, L!StepOf, Asks
<1>3. importing' = [importing EXCEPT ![c] = L!AfterThis(c)] /\ UNCHANGED <<imports, made, shelf>> BY DEF L!Mark, L!Becomes, L!Other
<1>4. \A d \in Caller : d # c => importing'[d] = importing[d] BY <1>3 DEF ImportInv, WorkOK
<1>5. \A x : MadeFor(x)' = MadeFor(x) BY <1>3, MadeStays
<1>6. undecided \subseteq undecided' BY DEF L!Mark
<1>7. ASSUME NEW x, x # key \/ x \in undecided', KeySettled(x) PROVE KeySettled(x)'
  <2>1. CASE x \in undecided' BY <2>1 DEF KeySettled
  <2>2. CASE x # key
    <3>1. \A d \in Caller : Excuses(importing[d], x) => d # c BY <2>2, <1>1 DEF Excuses
    <3>2. Marking(x) => Marking(x)' BY <3>1, <1>4 DEF Marking, Excuses
    <3> QED BY <3>2, <1>5, <1>6, <1>7 DEF KeySettled
  <2> QED BY <1>7, <2>1, <2>2
<1>8. CASE UNCHANGED reading /\ key \in undecided'
  <2>1. \A l \in List : L!Live(l)' => /\ L!Live(l) /\ reading'[l].edition = reading[l].edition
                                    /\ SameRows(reading'[l].rows, reading[l].rows)
    BY <1>8 DEF L!Live, SameRows
  <2>2. EditionsOK' /\ SameOK' /\ AskedOK' /\ MadeOK' /\ L!WantedOnce' BY <2>1, <1>1, <1>2, <1>3, <1>6, PassesOn
  <2>3. \A x : KeySettled(x) => KeySettled(x)' BY <1>7, <1>8
  <2>4. UnresolvedOK' BY <2>3, <1>8 DEF WantedInv, UnresolvedOK, RowSettled, L!Live
  <2> QED BY <2>2, <2>4 DEF WantedInv
<1>9. CASE L!Marks(q.list, q.edition) /\ reading' = [reading EXCEPT ![q.list].rows[k].wanted = q.book]
  <2>1. PICK l, list : l = q.list /\ list = reading[l] OBVIOUS
  <2>2. l \in List /\ L!Live(l) /\ list.edition = q.edition BY <1>2, <1>9, <2>1 DEF AskingOK, L!Marks
  <2>3. MembersOK(list, l \in shared, l \in crossed) BY <2>1, <2>2 DEF ImportInv, ReadingOK
  <2>4. PICK rows : rows = Marked(list.rows, k, q.book) OBVIOUS
  <2>5. PICK m : m = [list EXCEPT !.rows = rows] OBVIOUS
  <2>6. reading' = [reading EXCEPT ![l] = m] BY <1>9, <2>1, <2>4, <2>5 DEF Marked
  <2>7. m.rows = rows /\ m.edition = list.edition BY <2>3, <2>5 DEF MembersOK, IsReading
  <2>8. /\ DOMAIN rows = DOMAIN list.rows
        /\ \A i \in DOMAIN rows : /\ rows[i].entry = list.rows[i].entry /\ rows[i].path = list.rows[i].path
                                  /\ rows[i].wanted = IF i = k THEN q.book ELSE list.rows[i].wanted
    BY <2>3, <2>4, MarkedRows DEF MembersOK
  <2>9. reading'[l] = m /\ (\A j \in List : j # l => reading'[j] = reading[j]) BY <2>2, <2>6 DEF ImportInv, WorkOK
  <2>10. \A j \in List : L!Live(j)' => /\ L!Live(j) /\ reading'[j].edition = reading[j].edition
                                     /\ SameRows(reading'[j].rows, reading[j].rows)
    <3>1. SameRows(rows, list.rows) BY <2>8 DEF SameRows
    <3>2. \A j \in List : j # l => (L!Live(j)' => L!Live(j)) /\ SameRows(reading'[j].rows, reading[j].rows)
      BY <2>9 DEF L!Live, SameRows
    <3> QED BY <3>1, <3>2, <2>1, <2>2, <2>7, <2>9
  <2>11. EditionsOK' /\ SameOK' /\ AskedOK' /\ MadeOK' /\ L!WantedOnce' BY <2>10, <1>1, <1>2, <1>3, <1>6, PassesOn
  <2>12. ASSUME NEW j \in List, j # l, L!Live(j)', NEW i \in DOMAIN reading'[j].rows
         PROVE  RowSettled(j, reading[j].rows[i])'
    <3>1. PICK x, line : line = reading[j].rows[i] /\ x = Key(j, line.entry) OBVIOUS
    <3>2. reading'[j] = reading[j] BY <2>9, <2>12
    <3>3. L!Live(j) BY <2>10, <2>12
    <3>4. RowSettled(j, line) BY <2>12, <3>1, <3>2, <3>3 DEF WantedInv, UnresolvedOK
    <3>5. x # key BY <3>1, <2>1, <2>12, <1>1, PairsDiffer DEF KeyIn
    <3>6. KeySettled(x) => KeySettled(x)' BY <3>5, <1>7
    <3> QED BY <3>1, <3>2, <3>4, <3>6 DEF RowSettled
  <2>13. ASSUME NEW i \in DOMAIN rows PROVE RowSettled(l, rows[i])'
    <3>1. CASE i = k
      <4>1. rows[i].wanted \in Wanted BY <3>1, <2>8, <2>13, <1>1, <1>2 DEF WantedInv, AskedOK, AskerOK
      <4> QED BY <4>1, ListsAssumption DEF RowSettled
    <3>2. CASE i # k
      <4>1. PICK x : x = Key(l, rows[i].entry) OBVIOUS
      <4>2. RowSettled(l, list.rows[i]) BY <2>1, <2>2, <2>8, <2>13 DEF WantedInv, UnresolvedOK
      <4>3. x = key => key \in undecided
        <5>1. ASSUME x = key PROVE key \in undecided
          <6>1. SameRows(list.rows, q.rows) BY <1>1, <1>2, <2>1, <2>2 DEF WantedInv, SameOK
          <6>2. i \in DOMAIN q.rows /\ list.rows[i].entry = q.rows[i].entry BY <6>1, <2>8, <2>13 DEF SameRows
          <6>3. rows[i].entry = q.rows[k].entry
            <7>1. Key(l, rows[i].entry) = Key(l, q.rows[k].entry) BY <5>1, <4>1, <1>1, <2>1 DEF KeyIn
            <7> QED BY <7>1, PairsDiffer
          <6>4. q.rows[i].entry = q.rows[k].entry BY <6>2, <6>3, <2>8, <2>13
          <6>5. k \in q.left BY <1>1, <1>2, FirstIsLeft
          <6>6. AskerOK(q) BY <1>1, <1>2 DEF WantedInv, AskedOK
          <6> QED BY <6>2, <6>4, <6>5, <6>6, <3>2, <1>1 DEF AskerOK
        <5> QED BY <5>1
      <4>4. KeySettled(x) => KeySettled(x)' BY <4>3, <1>6, <1>7
      <4>5. rows[i].path = list.rows[i].path /\ rows[i].wanted = list.rows[i].wanted /\ rows[i].entry = list.rows[i].entry
        BY <2>8, <2>13, <3>2
      <4> QED BY <4>1, <4>2, <4>4, <4>5 DEF RowSettled
    <3> QED BY <3>1, <3>2
  <2>14. UnresolvedOK'
    <3>1. ASSUME NEW i \in DOMAIN reading'[l].rows PROVE RowSettled(l, reading[l].rows[i])'
      <4>1. i \in DOMAIN rows /\ reading'[l].rows[i] = rows[i] BY <3>1, <2>7, <2>9
      <4>2. RowSettled(l, rows[i])' BY <4>1, <2>13
      <4> QED BY <4>1, <4>2 DEF RowSettled
    <3> QED BY <3>1, <2>12 DEF UnresolvedOK
  <2> QED BY <2>11, <2>14 DEF WantedInv
<1>10. \/ UNCHANGED reading /\ key \in undecided'
       \/ L!Marks(q.list, q.edition) /\ reading' = [reading EXCEPT ![q.list].rows[k].wanted = q.book]
  <2>1. key = [list |-> importing[c].list, entry |-> L!EntryOf(c)] BY <1>1 DEF KeyIn, Key, L!EntryOf
  <2> QED BY <2>1, <1>1 DEF L!Mark
<1> QED BY <1>8, <1>9, <1>10

(* A request finds the rows for which nothing is there, or that are undecided. *)
LEMMA AskedOnce ==
  ASSUME ReadingListsApart, ImportInv, WantedInv, NEW c \in Caller, NEW l \in List, L!ReadUnresolved(c, l) PROVE WantedInv'
<1>1. PICK rows, r : /\ rows = reading[l].rows
                     /\ r = [phase |-> "create", list |-> l, edition |-> reading[l].edition, rows |-> rows,
                             left |-> L!Unresolved(l), book |-> None]
  OBVIOUS
<1>2. /\ r.phase = "create" /\ r.list = l /\ r.edition = reading[l].edition /\ r.rows = rows /\ r.left = L!Unresolved(l)
      /\ Asks(r) /\ ~Importing(r)
  BY <1>1 DEF Asks, Importing, ReadingListsApart
<1>3. /\ importing' = [importing EXCEPT ![c] = r] /\ importing[c] = None /\ imports' = imports + 1 /\ L!Live(l)
      /\ UNCHANGED <<reading, made, shelf>>
  BY <1>1 DEF L!ReadUnresolved, L!Starts, L!Free, L!Other
<1>4. importing'[c] = r /\ (\A d \in Caller : d # c => importing'[d] = importing[d]) BY <1>3 DEF ImportInv, WorkOK
<1>5. undecided' = undecided \union {Key(l, e) : e \in IF L!AtWork(l) = {} THEN L!Repeated(rows) ELSE {rows[i].entry : i \in L!Unresolved(l)}}
  BY <1>1 DEF L!ReadUnresolved, Key
<1>6. L!Unresolved(l) = {i \in DOMAIN rows : rows[i].path = "none" /\ rows[i].wanted = None} BY <1>1 DEF L!Unresolved
<1>7. ASSUME NEW i \in L!Unresolved(l), L!AtWork(l) # {} PROVE Key(l, rows[i].entry) \in undecided'
  BY <1>5, <1>7
<1>8. \A key : MadeFor(key)' = MadeFor(key) BY <1>3, MadeStays
<1>9. ~Asks(importing[c]) /\ ~Importing(importing[c]) BY <1>3 DEF Asks, Importing
<1>10. EditionsOK'
  <2>1. imports \in Nat /\ r.edition \in Nat /\ r.edition <= imports BY <1>2, <1>3 DEF WantedInv, EditionsOK
  <2>2. \A d \in Caller : Importing(importing'[d]) => d # c /\ importing'[d] = importing[d] BY <1>2, <1>4
  <2>3. \A d \in Caller : Importing(importing[d]) => importing[d].edition # r.edition BY <1>2, <1>3 DEF WantedInv, EditionsOK
  <2>4. \A d \in Caller : HasEdition(importing'[d]) => importing'[d].edition \in Nat /\ importing'[d].edition <= imports
    <3> SUFFICES ASSUME NEW d \in Caller, HasEdition(importing'[d]) PROVE importing'[d].edition \in Nat /\ importing'[d].edition <= imports
      OBVIOUS
    <3>1. CASE d = c BY <3>1, <2>1, <1>4
    <3>2. CASE d # c BY <3>2, <1>4 DEF WantedInv, EditionsOK
    <3> QED BY <3>1, <3>2
  <2>5. \A d \in Caller : HasEdition(importing'[d]) => importing'[d].edition \in Nat /\ importing'[d].edition <= imports'
    BY <2>1, <2>4, <1>3
  <2>6. \A k \in List : L!Live(k)' => reading'[k].edition \in Nat /\ reading'[k].edition <= imports'
    BY <2>1, <1>3 DEF WantedInv, EditionsOK, L!Live
  <2>7. \A d \in Caller : Importing(importing'[d]) => \A k \in List : L!Live(k)' => reading'[k].edition # importing'[d].edition
    BY <2>2, <1>3 DEF WantedInv, EditionsOK, L!Live
  <2>8. \A d, e \in Caller : Importing(importing'[d]) /\ d # e /\ HasEdition(importing'[e]) => importing'[e].edition # importing'[d].edition
    <3> SUFFICES ASSUME NEW d \in Caller, NEW e \in Caller, Importing(importing'[d]), d # e, HasEdition(importing'[e])
                 PROVE  importing'[e].edition # importing'[d].edition
      OBVIOUS
    <3>1. CASE e = c BY <3>1, <2>2, <2>3, <1>4
    <3>2. CASE e # c BY <3>2, <2>2, <1>4 DEF WantedInv, EditionsOK
    <3> QED BY <3>1, <3>2
  <2>9. imports' \in Nat BY <2>1, <1>3
  <2> QED BY <2>5, <2>6, <2>7, <2>8, <2>9 DEF EditionsOK, Importing, HasEdition, Asks
<1>11. SameOK'
  <2>1. SameRows(reading[l].rows, r.rows) BY <1>1, <1>2 DEF SameRows
  <2> SUFFICES ASSUME NEW d \in Caller, Asks(importing'[d]), L!Live(importing'[d].list), reading[importing'[d].list].edition = importing'[d].edition
               PROVE  SameRows(reading[importing'[d].list].rows, importing'[d].rows)
    BY <1>3 DEF SameOK, L!Live
  <2>2. CASE d = c BY <2>1, <2>2, <1>2, <1>4
  <2>3. CASE d # c
    <3>1. importing'[d] = importing[d] BY <2>3, <1>4
    <3> QED BY <3>1 DEF WantedInv, SameOK
  <2> QED BY <2>2, <2>3
<1>12. AskerOK(r)'
  <2>1. ASSUME NEW i \in r.left, NEW j \in DOMAIN r.rows, i # j, r.rows[j].entry = r.rows[i].entry
        PROVE  KeyIn(r, i) \in undecided'
    <3>1. i \in L!Unresolved(l) /\ i \in DOMAIN rows /\ j \in DOMAIN rows /\ rows[j].entry = rows[i].entry
      BY <2>1, <1>2, <1>6
    <3>2. CASE L!AtWork(l) # {} BY <3>1, <3>2, <1>2, <1>7 DEF KeyIn
    <3>3. CASE L!AtWork(l) = {}
      <4>1. rows[i].entry \in L!Repeated(rows) BY <3>1, <2>1 DEF L!Repeated
      <4> QED BY <4>1, <3>3, <1>2, <1>5 DEF KeyIn
    <3> QED BY <3>2, <3>3
  <2>2. ASSUME NEW i \in r.left PROVE KeyIn(r, i) \in undecided' \/ MadeFor(KeyIn(r, i)) = {}
    <3>1. i \in DOMAIN rows /\ rows[i].path = "none" /\ rows[i].wanted = None /\ i \in L!Unresolved(l) BY <2>2, <1>2, <1>6
    <3>2. PICK key : key = KeyIn(r, i) OBVIOUS
    <3>3. key = Key(l, rows[i].entry) BY <3>2, <1>2 DEF KeyIn
    <3>4. KeySettled(key) BY <3>1, <3>3, <1>1, <1>3 DEF WantedInv, UnresolvedOK, RowSettled
    <3>5. ASSUME Marking(key) PROVE key \in undecided'
      <4>1. PICK d \in Caller : Excuses(importing[d], key) BY <3>5 DEF Marking
      <4>2. importing[d].list = l BY <4>1, <3>3, PairsDiffer DEF Excuses, KeyIn
      <4>3. d \in L!AtWork(l) BY <4>1, <4>2 DEF L!AtWork, Excuses, Asks
      <4> QED BY <4>3, <3>1, <3>3, <1>7
    <3> QED BY <3>2, <3>4, <3>5, <1>5 DEF KeySettled
  <2>3. \A i \in r.left : KeyIn(r, i) \in undecided' \/ MadeFor(KeyIn(r, i))' = {}
    BY <2>2, <1>3 DEF MadeFor, L!There
  <2> QED BY <2>1, <2>3, <1>2 DEF AskerOK, Still
<1>13. ASSUME NEW d \in Caller, Asks(importing'[d]) PROVE AskerOK(importing[d])'
  <2>1. CASE d = c BY <2>1, <1>4, <1>12 DEF AskerOK, Still
  <2>2. CASE d # c
    <3>1. PICK s : s = importing[d] OBVIOUS
    <3>2. importing'[d] = s /\ AskerOK(s) BY <2>2, <3>1, <1>4, <1>13 DEF WantedInv, AskedOK
    <3>3. AskerOK(s)' BY <3>2, <1>5, <1>8, AskerStays
    <3> QED BY <3>2, <3>3 DEF AskerOK, Still
  <2> QED BY <2>1, <2>2
<1>14. ASSUME NEW d \in Caller, NEW e \in Caller, Asks(importing'[d]), Asks(importing'[e]), d # e
       PROVE  ApartOK(importing[d], importing[e])'
  <2> SUFFICES ASSUME importing'[d].list = importing'[e].list, NEW i \in importing'[d].left, NEW j \in importing'[e].left,
                      importing'[d].rows[i].entry = importing'[e].rows[j].entry
               PROVE  KeyIn(importing'[d], i) \in undecided'
    BY DEF ApartOK, KeyIn
  <2>1. CASE d # c /\ e # c
    <3>1. importing'[d] = importing[d] /\ importing'[e] = importing[e] BY <2>1, <1>4
    <3>2. ApartOK(importing[d], importing[e]) BY <3>1, <1>14 DEF WantedInv, AskedOK
    <3> QED BY <3>1, <3>2, <1>5 DEF ApartOK
  <2>2. CASE d = c
    <3>1. e # c /\ importing'[e] = importing[e] BY <2>2, <1>4, <1>14
    <3>2. e \in L!AtWork(l) BY <3>1, <2>2, <1>2, <1>4, <1>14 DEF L!AtWork, Asks
    <3>3. i \in L!Unresolved(l) BY <2>2, <1>2, <1>4
    <3> QED BY <3>2, <3>3, <2>2, <1>2, <1>4, <1>7 DEF KeyIn
  <2>3. CASE e = c
    <3>1. d # c /\ importing'[d] = importing[d] BY <2>3, <1>4, <1>14
    <3>2. d \in L!AtWork(l) BY <3>1, <2>3, <1>2, <1>4, <1>14 DEF L!AtWork, Asks
    <3>3. j \in L!Unresolved(l) BY <2>3, <1>2, <1>4
    <3>4. KeyIn(importing'[d], i) = Key(l, rows[j].entry) BY <2>3, <1>2, <1>4 DEF KeyIn
    <3> QED BY <3>2, <3>3, <3>4, <1>7
  <2> QED BY <2>1, <2>2, <2>3
<1>15. UnresolvedOK'
  <2>1. ASSUME NEW x, KeySettled(x) PROVE KeySettled(x)'
    <3>1. \A d \in Caller : Excuses(importing[d], x) => d # c BY <1>9 DEF Excuses
    <3>2. Marking(x) => Marking(x)' BY <3>1, <1>4 DEF Marking, Excuses
    <3> QED BY <2>1, <3>2, <1>5, <1>8 DEF KeySettled
  <2> QED BY <2>1, <1>3 DEF WantedInv, UnresolvedOK, RowSettled, L!Live
<1>16. MadeOK' /\ L!WantedOnce' BY <1>3, <1>5, OnceStays DEF WantedInv, MadeOK
<1> QED BY <1>10, <1>11, <1>13, <1>14, <1>15, <1>16 DEF WantedInv, AskedOK

(* An import stores rows for which nothing is there, or that become undecided. *)
LEMMA StoredOnce == ASSUME ImportInv, WantedInv, NEW c \in Caller, L!Commit(c) PROVE WantedInv'
<1>1. PICK q : q = importing[c] OBVIOUS
<1>2. ImportOK(q, head) /\ q.phase = "matched" /\ Importing(q)
  BY <1>1, PhaseIs DEF L!Commit, L!StepOf, Importing
<1>3. UNCHANGED <<imports, made, shelf>> /\ importing' = [importing EXCEPT ![c] = None] BY DEF L!Commit, L!Other, L!Becomes
<1>4. importing'[c] = None /\ (\A d \in Caller : d # c => importing'[d] = importing[d]) BY <1>3 DEF ImportInv, WorkOK
<1>5. CASE UNCHANGED L!Stored
  <2>1. imports' \in Nat /\ imports <= imports' BY <1>3 DEF WantedInv, EditionsOK
  <2>2. UNCHANGED <<reading, made, shelf, undecided>> BY <1>3, <1>5 DEF L!Stored
  <2>3. ~Asks(q) /\ ~Asks(None) /\ ~Importing(None) BY <1>2 DEF Asks, Importing
  <2> QED BY <2>1, <2>2, <2>3, <1>1, <1>3, ImportMoves DEF L!Live
<1>6. ASSUME NEW l \in List, reading' = [reading EXCEPT ![l] = L!Listed(q)], undecided' = undecided \union L!Overlooked(l, q.rows)
      PROVE  WantedInv'
  <2>1. PICK r : r = L!Listed(q) OBVIOUS
  <2>2. r.rows = q.rows /\ r.edition = q.edition BY <2>1 DEF L!Listed
  <2>3. reading'[l] = r /\ (\A k \in List : k # l => reading'[k] = reading[k]) BY <1>6, <2>1 DEF ImportInv, WorkOK
  <2>4. \A key : MadeFor(key)' = MadeFor(key) BY <1>3, MadeStays
  <2>5. ASSUME NEW d \in Caller, HasEdition(importing'[d])
        PROVE  d # c /\ importing'[d] = importing[d] /\ importing[d].edition # q.edition
    BY <2>5, <1>1, <1>2, <1>4 DEF WantedInv, EditionsOK, HasEdition, Importing, Asks
  <2>6. EditionsOK'
    <3>1. q.edition \in Nat /\ q.edition <= imports BY <1>1, <1>2 DEF WantedInv, EditionsOK, HasEdition
    <3>2. \A k \in List : L!Live(k)' => k = l \/ (L!Live(k) /\ reading'[k] = reading[k]) BY <2>3 DEF L!Live
    <3>3. imports' \in Nat BY <1>3 DEF WantedInv, EditionsOK
    <3>4. \A k \in List : L!Live(k)' => reading'[k].edition \in Nat /\ reading'[k].edition <= imports'
      BY <3>1, <3>2, <2>2, <2>3, <1>3 DEF WantedInv, EditionsOK
    <3>5. \A d \in Caller : HasEdition(importing'[d]) => importing'[d].edition \in Nat /\ importing'[d].edition <= imports'
      BY <2>5, <1>3 DEF WantedInv, EditionsOK
    <3>6. \A d \in Caller : Importing(importing'[d]) => \A k \in List : L!Live(k)' => reading'[k].edition # importing'[d].edition
      <4> SUFFICES ASSUME NEW d \in Caller, Importing(importing'[d]), NEW k \in List, L!Live(k)'
                   PROVE  reading'[k].edition # importing'[d].edition
        OBVIOUS
      <4>1. importing'[d] = importing[d] /\ importing[d].edition # q.edition BY <2>5 DEF HasEdition
      <4>2. CASE k = l BY <4>1, <4>2, <2>2, <2>3
      <4>3. CASE k # l BY <4>1, <4>3, <3>2 DEF WantedInv, EditionsOK
      <4> QED BY <4>2, <4>3
    <3>7. \A d, e \in Caller : Importing(importing'[d]) /\ d # e /\ HasEdition(importing'[e]) => importing'[e].edition # importing'[d].edition
      <4> SUFFICES ASSUME NEW d \in Caller, NEW e \in Caller, Importing(importing'[d]), d # e, HasEdition(importing'[e])
                   PROVE  importing'[e].edition # importing'[d].edition
        OBVIOUS
      <4>1. importing'[d] = importing[d] /\ importing'[e] = importing[e] BY <2>5 DEF HasEdition
      <4> QED BY <4>1 DEF WantedInv, EditionsOK
    <3> QED BY <3>3, <3>4, <3>5, <3>6, <3>7 DEF EditionsOK, Importing, HasEdition, Asks
  <2>7. SameOK'
    <3> SUFFICES ASSUME NEW d \in Caller, Asks(importing'[d]), NEW k, k = importing'[d].list, L!Live(k)', reading'[k].edition = importing'[d].edition
                 PROVE  SameRows(reading'[k].rows, importing'[d].rows)
      BY DEF SameOK, L!Live
    <3>1. importing'[d] = importing[d] /\ importing[d].edition # q.edition BY <2>5 DEF HasEdition
    <3>2. k \in List BY <3>1 DEF Asks, ImportInv, WorkOK, AskingOK, ImportOK, EditOK
    <3>3. k # l BY <3>1, <2>2, <2>3
    <3>4. reading'[k] = reading[k] /\ L!Live(k) BY <3>2, <3>3, <2>3 DEF L!Live
    <3> QED BY <3>1, <3>4 DEF WantedInv, SameOK
  <2>8. AskedOK'
    <3>1. \A s : AskerOK(s) => AskerOK(s)' BY <2>4, <1>6, AskerStays
    <3>2. \A s, t : ApartOK(s, t) => ApartOK(s, t)' BY <1>6 DEF ApartOK
    <3>3. ASSUME NEW d \in Caller, Asks(importing'[d]) PROVE AskerOK(importing[d])'
      <4>1. PICK s : s = importing[d] OBVIOUS
      <4>2. importing'[d] = s /\ AskerOK(s) BY <4>1, <3>3, <2>5 DEF WantedInv, AskedOK, HasEdition
      <4>3. AskerOK(s)' BY <4>2, <3>1
      <4> QED BY <4>2, <4>3 DEF AskerOK, Still
    <3>4. ASSUME NEW d \in Caller, NEW e \in Caller, Asks(importing'[d]), Asks(importing'[e]), d # e PROVE ApartOK(importing[d], importing[e])'
      <4>1. importing'[d] = importing[d] /\ importing'[e] = importing[e] BY <3>4, <2>5 DEF HasEdition
      <4>2. ApartOK(importing[d], importing[e]) BY <4>1, <3>4 DEF WantedInv, AskedOK
      <4> QED BY <4>1, <4>2, <1>6 DEF ApartOK, KeyIn
    <3> QED BY <3>3, <3>4 DEF AskedOK
  <2>9. ASSUME NEW i \in DOMAIN q.rows PROVE RowSettled(l, q.rows[i])'
    <3>1. PICK key, e : e = q.rows[i].entry /\ key = Key(l, e) OBVIOUS
    <3>2. L!WantedFor(l, e) \cap L!There = MadeFor(key) BY <3>1 DEF L!WantedFor, MadeFor, Key
    <3>3. q.rows[i].path = "none" /\ MadeFor(key) # {} => key \in L!Overlooked(l, q.rows)
      BY <3>1, <3>2, <2>9 DEF L!Overlooked, Key
    <3>4. q.rows[i].path = "none" => KeySettled(key)' BY <3>3, <2>4, <1>6 DEF KeySettled
    <3> QED BY <3>1, <3>4 DEF RowSettled
  <2>10. UnresolvedOK'
    <3>1. ASSUME NEW x, KeySettled(x) PROVE KeySettled(x)'
      <4>1. \A d \in Caller : Excuses(importing[d], x) => d # c BY <1>1, <1>2 DEF Excuses
      <4>2. Marking(x) => Marking(x)' BY <4>1, <1>4 DEF Marking, Excuses
      <4> QED BY <3>1, <4>2, <2>4, <1>6 DEF KeySettled
    <3>2. ASSUME NEW k \in List, k # l, L!Live(k)', NEW i \in DOMAIN reading'[k].rows PROVE RowSettled(k, reading[k].rows[i])'
      <4>1. PICK line : line = reading[k].rows[i] OBVIOUS
      <4>2. reading'[k] = reading[k] /\ L!Live(k) BY <3>2, <2>3 DEF L!Live
      <4>3. RowSettled(k, line) BY <4>1, <4>2, <3>2 DEF WantedInv, UnresolvedOK
      <4> QED BY <4>1, <4>2, <4>3, <3>1 DEF RowSettled
    <3>3. ASSUME NEW i \in DOMAIN reading'[l].rows PROVE RowSettled(l, reading[l].rows[i])'
      <4>1. i \in DOMAIN q.rows /\ reading'[l].rows[i] = q.rows[i] BY <3>3, <2>2, <2>3
      <4>2. RowSettled(l, q.rows[i])' BY <4>1, <2>9
      <4> QED BY <4>1, <4>2 DEF RowSettled
    <3> QED BY <3>2, <3>3 DEF UnresolvedOK
  <2>11. MadeOK' /\ L!WantedOnce' BY <1>3, <1>6, OnceStays DEF WantedInv, MadeOK
  <2> QED BY <2>6, <2>7, <2>8, <2>10, <2>11 DEF WantedInv
<1>7. \/ UNCHANGED L!Stored
      \/ \E l \in List : reading' = [reading EXCEPT ![l] = L!Listed(q)] /\ undecided' = undecided \union L!Overlooked(l, q.rows)
  <2>1. PICK l \in IF q.list = None THEN {k \in List : reading[k] = None} ELSE {q.list} :
            \/ UNCHANGED L!Stored
            \/ reading' = [reading EXCEPT ![l] = L!Listed(q)] /\ undecided' = undecided \union L!Overlooked(l, q.rows)
    BY <1>1 DEF L!Commit
  <2>2. q.list \in List \union {None} BY <1>2 DEF ImportOK
  <2>3. l \in List BY <2>1, <2>2
  <2> QED BY <2>1, <2>3
<1> QED BY <1>5, <1>6, <1>7

(* A whole-list update asks for nothing, and leaves the rows. *)
LEMMA EditedOnce ==
  ASSUME ImportInv, WantedInv, NEW c \in Caller, L!ReadMembers(c) \/ L!UpdateList(c) \/ \E l \in List : L!ReadList(c, l)
  PROVE  WantedInv'
<1>1. UNCHANGED <<made, shelf, undecided>> /\ imports' \in Nat /\ imports <= imports'
  BY DEF L!ReadMembers, L!UpdateList, L!ReadList, L!Starts, L!Becomes, L!Other, L!Stored, WantedInv, EditionsOK
<1>2. ~Asks(importing[c]) BY DEF L!ReadMembers, L!UpdateList, L!ReadList, L!Starts, L!Free, L!StepOf, Asks
<1>3. PICK r : importing' = [importing EXCEPT ![c] = r] /\ ~Asks(r) /\ ~Importing(r)
  <2>1. ASSUME NEW l \in List, L!ReadList(c, l)
        PROVE  \E e : importing' = [importing EXCEPT ![c] = e] /\ ~Asks(e) /\ ~Importing(e)
    <3>1. PICK e : e = [phase |-> "row", list |-> l, count |-> reading[l].count, items |-> <<>>] OBVIOUS
    <3>2. e.phase = "row" BY <3>1
    <3> QED BY <2>1, <3>1, <3>2 DEF L!ReadList, L!Starts, Asks, Importing
  <2>2. CASE L!ReadMembers(c)
    <3>1. EditOK(importing[c]) BY <2>2, PhaseIs DEF L!ReadMembers
    <3>2. PICK e : e = [importing[c] EXCEPT !.phase = "members", !.items = reading[importing[c].list].items] OBVIOUS
    <3>3. e.phase = "members" BY <3>1, <3>2 DEF EditOK, IsEdit
    <3>4. ~Asks(None) /\ ~Importing(None) BY DEF Asks, Importing
    <3> QED BY <2>2, <3>2, <3>3, <3>4 DEF L!ReadMembers, L!Becomes, Asks, Importing
  <2>3. CASE L!UpdateList(c) BY <2>3 DEF L!UpdateList, L!Becomes, Asks, Importing
  <2> QED BY <2>1, <2>2, <2>3
<1>4. \A l \in List : L!Live(l)' => L!Live(l) /\ reading'[l].edition = reading[l].edition /\ reading'[l].rows = reading[l].rows
  <2>1. CASE UNCHANGED reading BY <2>1 DEF L!Live
  <2>2. CASE L!UpdateList(c) /\ reading' # reading
    <3>1. PICK q, k, list : q = importing[c] /\ k = q.list /\ list = reading[k] OBVIOUS
    <3>2. k \in List BY <2>2, <3>1, PhaseIs DEF L!UpdateList, EditOK
    <3>3. PICK e : e = [list EXCEPT !.items = L!Renumbered(q.items), !.count = q.count] OBVIOUS
    <3>4. L!Live(k) /\ reading' = [reading EXCEPT ![k] = e] BY <2>2, <3>1, <3>3 DEF L!UpdateList
    <3>5. IsReading(list) BY <3>1, <3>2, <3>4 DEF ImportInv, ReadingOK, MembersOK
    <3>6. e.edition = list.edition /\ e.rows = list.rows BY <3>3, <3>5 DEF IsReading
    <3>7. reading'[k] = e /\ \A l \in List : l # k => reading'[l] = reading[l] BY <3>2, <3>4 DEF ImportInv, WorkOK
    <3> QED BY <3>1, <3>4, <3>6, <3>7 DEF L!Live
  <2>3. L!UpdateList(c) \/ UNCHANGED reading BY DEF L!ReadMembers, L!ReadList, L!Stored
  <2> QED BY <2>1, <2>2, <2>3
<1> QED BY <1>1, <1>2, <1>3, <1>4, ImportMoves

(* Every step keeps the invariant. *)
LEMMA WantedStep == ASSUME ReadingListsApart, ImportInv, WantedInv, [L!Next]_(L!vars) PROVE WantedInv'
<1>1. CASE \/ L!Sync \/ L!CloneAgain \/ UNCHANGED L!vars
           \/ \E l \in List : L!DeleteList(l)
           \/ \E b \in Owned : L!Remove(b) \/ L!Bring(b)
  BY <1>1, OthersMoveOnce
<1>2. ASSUME NEW c \in Caller, L!Upload(c) \/ L!Open(c) \/ L!Fetch(c) \/ L!ReadHead(c) \/ L!Match(c) \/ L!Commit(c) \/ L!Mark(c)
      PROVE  WantedInv'
  BY <1>2, ImportBeginsOnce, ImportGoesOn, StoredOnce, MarkedOnce
<1>3. ASSUME NEW c \in Caller, L!Create(c) PROVE WantedInv'
  <2>1. UNCHANGED <<reading, undecided>> /\ L!StepOf(c, "create") BY <1>3 DEF L!Create, L!Stored
  <2>2. CASE L!Becomes(c, L!AfterThis(c)) /\ UNCHANGED <<made, shelf>> BY <2>1, <2>2, SkippedOnce
  <2>3. CASE \E w \in Wanted : /\ made[w] = None
                               /\ made' = [made EXCEPT ![w] = [list |-> importing[c].list, entry |-> L!EntryOf(c)]]
                               /\ shelf' = [shelf EXCEPT ![w] = L!EntryOf(c)]
                               /\ L!Becomes(c, [importing[c] EXCEPT !.phase = "mark", !.book = w])
    BY <2>1, <2>3, CreatedOnce
  <2> QED BY <1>3, <2>2, <2>3 DEF L!Create
<1>4. ASSUME NEW c \in Caller, NEW l \in List, L!Check(c, l) \/ L!ReadUnresolved(c, l) PROVE WantedInv'
  BY <1>4, ImportBeginsOnce, AskedOnce
<1>5. ASSUME NEW l \in List, L!Live(l), NEW i \in DOMAIN reading[l].rows, NEW b, L!Correct(l, i, b) PROVE WantedInv'
  BY <1>5, CorrectedOnce
<1>6. ASSUME NEW c \in Caller, L!ReadMembers(c) \/ L!UpdateList(c) \/ \E l \in List : L!ReadList(c, l) PROVE WantedInv'
  BY <1>6, EditedOnce
<1> QED BY <1>1, <1>2, <1>3, <1>4, <1>5, <1>6 DEF L!Next

(* Each step of the whole is a step of the reading lists or leaves them alone. *)
LEMMA ReadingListsStep == [ExchangesNext]_exchangeVars => [L!Next]_(L!vars)
BY DEF ExchangesNext, exchangeVars, listVars, L!vars

(* The first invariant holds throughout. *)
LEMMA ImportsHold == ExchangesSpec => []ImportInv
<1>1. ExchangesInit => ImportInv
  BY ImportStarts DEF ExchangesInit
<1>2. ImportInv /\ [ExchangesNext]_exchangeVars => ImportInv'
  BY ReadingListsStep, ImportStep
<1> QED
  BY <1>1, <1>2, PTL DEF ExchangesSpec

(* A list has as members the books its entries are matched with, whatever is   *)
(* imported again, corrected and written back as a whole (cbl_import.go,       *)
(* cbl_reimport.go, CorrectCBLImportEntry, UpdateListRecord); see              *)
(* EntriesAreMembers for two entries with one book, and for a whole-list       *)
(* update that is crossed.                                                     *)
THEOREM MembersFollowEntries == ExchangesSpec => []EntriesAreMembers
<1>1. ImportInv => EntriesAreMembers
  BY MembersGiven DEF EntriesAreMembers
<1> QED
  BY <1>1, ImportsHold, PTL

(* A list that the repository has nothing new for has the entries of its file, *)
(* across pulls and new clones (cblrepo CheckPathChange); see                  *)
(* UnchangedIsCurrent for the pull between two reads.                          *)
THEOREM UnchangedListsAreCurrent == ExchangesSpec => []UnchangedIsCurrent
<1>1. ImportInv => UnchangedIsCurrent
  BY SourceGiven DEF UnchangedIsCurrent
<1> QED
  BY <1>1, ImportsHold, PTL

(* Asking again for the missing books of a list makes no second wanted book    *)
(* for an entry (handleAddCBLUnmatchedToWanted, MarkCBLImportEntryWanted); see *)
(* WantedOnce for what is left undecided.                                      *)
THEOREM WantedBooksOnce == ASSUME ReadingListsApart PROVE ExchangesSpec => []WantedOnce
<1>1. ExchangesInit => WantedInv
  BY WantedStarts DEF ExchangesInit
<1>2. ImportInv /\ WantedInv /\ [ExchangesNext]_exchangeVars => WantedInv'
  BY ReadingListsStep, WantedStep
<1>3. WantedInv => WantedOnce
  BY DEF WantedInv, WantedOnce
<1> QED
  BY <1>1, <1>2, <1>3, ImportsHold, PTL DEF ExchangesSpec

--------------------------------------------------------------------------------
(* Events.  What a client has and what waits for it grows by the event the hub *)
(* is giving out, or the client is taken out of the table (CountInv).  The hub *)
(* and the client's reader close a channel once, for whoever closes it takes   *)
(* the client out of the table with it (TableInv).                             *)

(* None stands for a hub between two events, and is no set of clients. *)
NoClients == None \notin SUBSET Client

(* Got, or on its way. *)
Events(c) == got[c] \o (IF writer[c] = "gone" THEN <<>> ELSE send[c])

TableInv ==
    /\ clients \subseteq Client /\ clients \intersect closed = {} /\ ~panicked
    /\ turn = None \/ turn \subseteq clients
    /\ reader = [c \in Client |-> reader[c]] /\ writer = [c \in Client |-> writer[c]]
    /\ sent \in Nat /\ joined \in [Client -> Nat]
    /\ send \in [Client -> Seq(Nat)] /\ got \in [Client -> Seq(Nat)]

(* Nothing is sent to a client before it is registered, nor written before it starts. *)
NewInv ==
    \A c \in Client :
        /\ reader[c] \in {"none", "registering"} =>
              c \notin clients /\ c \notin closed /\ send[c] = <<>> /\ got[c] = <<>>
        /\ reader[c] \in {"none", "registering", "starting"} => writer[c] = "none"

StillDue(c) == turn # None /\ c \in turn

EventsCounted(c) ==
    /\ \A i \in 1 .. Len(Events(c)) : Events(c)[i] = joined[c] + i
    /\ c \in clients /\ writer[c] # "gone" =>
          Len(Events(c)) = IF StillDue(c) THEN sent - joined[c] - 1 ELSE sent - joined[c]

CountInv == \A c \in Client : EventsCounted(c)

HubInv == TableInv /\ NewInv /\ CountInv

LEMMA AllIsSeq == ASSUME TableInv, NEW c \in Client PROVE Events(c) \in Seq(Nat) /\ DOMAIN Events(c) = 1 .. Len(Events(c))
<1>1. got[c] \in Seq(Nat) /\ (IF writer[c] = "gone" THEN <<>> ELSE send[c]) \in Seq(Nat)
  BY DEF TableInv
<1> QED
  BY <1>1 DEF Events

(* What holds says that there are no gaps. *)
LEMMA InvIsNoGaps == ASSUME HubInv PROVE H!NoGaps
<1>1. \A c \in Client : DOMAIN Events(c) = 1 .. Len(Events(c))
  BY AllIsSeq DEF HubInv
<1>2. \A c \in Client : /\ \A i \in DOMAIN Events(c) : Events(c)[i] = joined[c] + i
                        /\ (c \in clients /\ writer[c] # "gone" /\ (turn = None \/ c \notin turn))
                              => Len(Events(c)) = sent - joined[c]
  BY <1>1 DEF HubInv, CountInv, EventsCounted, StillDue
<1>3. ~panicked
  BY DEF HubInv, TableInv
<1> QED
  BY <1>2, <1>3 DEF H!NoGaps, Events

(* A client that gets nothing and owes nothing stays counted. *)
LEMMA StaysCounted ==
    ASSUME NEW c \in Client, EventsCounted(c), Events(c)' = Events(c), joined'[c] = joined[c], sent' = sent,
           c \in clients' => c \in clients, writer'[c] # "gone" => writer[c] # "gone", StillDue(c)' <=> StillDue(c)
    PROVE  EventsCounted(c)'
<1> DEFINE after == Events(c)'
<1>1. after = Events(c)
  OBVIOUS
<1>2. EventsCounted(c)' <=>
        /\ \A i \in 1 .. Len(after) : after[i] = joined'[c] + i
        /\ c \in clients' /\ writer'[c] # "gone" =>
              Len(after) = IF StillDue(c)' THEN sent' - joined'[c] - 1 ELSE sent' - joined'[c]
  BY DEF EventsCounted
<1> HIDE DEF after
<1> QED
  BY <1>1, <1>2 DEF EventsCounted

(* What was got before is a prefix. *)
LEMMA PrefixOfAll ==
    ASSUME NEW s \in Seq(Nat), NEW t \in Seq(Nat), NEW i \in 1 .. Len(s)
    PROVE  i \in 1 .. Len(s \o t) /\ (s \o t)[i] = s[i]
BY SMTT(30)

(* The next event is the next number. *)
LEMMA NextCounted ==
    ASSUME NEW s \in Seq(Nat), NEW first \in Nat, NEW event \in Nat, Len(s) = event - first - 1,
           \A i \in 1 .. Len(s) : s[i] = first + i
    PROVE  /\ Len(Append(s, event)) = event - first
           /\ \A i \in 1 .. Len(Append(s, event)) : Append(s, event)[i] = first + i
<1>1. Len(Append(s, event)) = Len(s) + 1 /\ Len(s) \in Nat
  OBVIOUS
<1>2. \A i \in 1 .. Len(s) : Append(s, event)[i] = s[i]
  OBVIOUS
<1>3. Append(s, event)[Len(s) + 1] = event /\ Len(s) + 1 = event - first
  OBVIOUS
<1>4. \A i \in 1 .. Len(s) + 1 : i \in 1 .. Len(s) \/ i = Len(s) + 1
  BY <1>1
<1>5. event = first + (Len(s) + 1)
  BY <1>1
<1> QED
  BY <1>1, <1>2, <1>3, <1>4, <1>5

(* An event more at the end. *)
LEMMA OneMoreEvent ==
    ASSUME NEW s \in Seq(Nat), NEW t \in Seq(Nat), NEW x \in Nat
    PROVE  s \o Append(t, x) = Append(s \o t, x)
BY SMTT(30)

LEMMA TakeKeeps == ASSUME NoClients, HubInv, H!Take PROVE HubInv'
<1>1. /\ turn = None /\ turn' = clients /\ sent' = sent + 1
      /\ UNCHANGED H!clientVars
  BY DEF H!Take
<1>2. \A c \in Client : Events(c)' = Events(c) /\ joined'[c] = joined[c] /\ writer'[c] = writer[c]
  BY <1>1 DEF H!clientVars, Events
<1>3. TableInv' /\ NewInv'
  BY <1>1 DEF H!clientVars, HubInv, TableInv, NewInv
<1>4. turn' # None /\ \A c \in clients : StillDue(c)' /\ ~StillDue(c)
  BY <1>1 DEF HubInv, TableInv, NoClients, StillDue
<1>5. ASSUME NEW c \in Client PROVE EventsCounted(c)'
  <2> DEFINE after == Events(c)'
  <2>1. sent \in Nat /\ joined[c] \in Nat /\ (c \in clients => ~StillDue(c) /\ StillDue(c)')
    BY <1>4 DEF HubInv, TableInv
  <2>2. /\ \A i \in 1 .. Len(Events(c)) : Events(c)[i] = joined[c] + i
        /\ c \in clients /\ writer[c] # "gone" => Len(Events(c)) = sent - joined[c]
    BY <2>1 DEF HubInv, CountInv, EventsCounted
  <2>3. after = Events(c) /\ joined'[c] = joined[c] /\ writer'[c] = writer[c] /\ clients' = clients
    BY <1>1, <1>2 DEF H!clientVars
  <2>4. EventsCounted(c)' <=>
        /\ \A i \in 1 .. Len(after) : after[i] = joined'[c] + i
        /\ c \in clients' /\ writer'[c] # "gone" =>
              Len(after) = IF StillDue(c)' THEN sent' - joined'[c] - 1 ELSE sent' - joined'[c]
    BY DEF EventsCounted
  <2> HIDE DEF after
  <2> QED
    BY <1>1, <2>1, <2>2, <2>3, <2>4
<1> QED
  BY <1>3, <1>5 DEF HubInv, CountInv

LEMMA DeliveredKeeps == ASSUME HubInv, H!Delivered PROVE HubInv'
<1>1. turn = {} /\ turn' = None /\ sent' = sent /\ UNCHANGED H!clientVars
  BY DEF H!Delivered
<1>2. \A c \in Client : Events(c)' = Events(c) /\ StillDue(c)' = StillDue(c)
  BY <1>1 DEF H!clientVars, Events, StillDue
<1>3. TableInv' /\ NewInv'
  BY <1>1 DEF H!clientVars, HubInv, TableInv, NewInv
<1>4. ASSUME NEW c \in Client PROVE EventsCounted(c)'
  BY <1>1, <1>2, StaysCounted DEF H!clientVars, HubInv, CountInv
<1> QED
  BY <1>3, <1>4 DEF HubInv, CountInv

(* The client whose turn it is has the event, or leaves the table. *)
LEMMA DeliverKeeps == ASSUME NoClients, HubInv, NEW d \in Client, H!Deliver(d) PROVE HubInv'
<1>1. /\ turn # None /\ d \in turn /\ turn \subseteq clients /\ turn' = turn \ {d}
      /\ UNCHANGED <<sent, reader, writer, joined, got>>
      /\ d \in clients /\ d \notin closed /\ clients \subseteq Client
  BY DEF H!Deliver, HubInv, TableInv
<1>2. reader[d] \notin {"none", "registering"}
  BY <1>1 DEF HubInv, NewInv
<1>3. sent \in Nat /\ joined[d] \in Nat /\ send[d] \in Seq(Nat) /\ got[d] \in Seq(Nat)
  BY DEF HubInv, TableInv
<1>4. turn' # None /\ ~StillDue(d)' /\ StillDue(d) /\ \A c \in Client \ {d} : StillDue(c)' <=> StillDue(c)
  BY <1>1 DEF StillDue, NoClients
<1>5. CASE send' = [send EXCEPT ![d] = Append(send[d], sent)] /\ UNCHANGED <<clients, closed, panicked>>
  <2>1. send'[d] = Append(send[d], sent) /\ \A c \in Client \ {d} : send'[c] = send[c]
    BY <1>5 DEF HubInv, TableInv
  <2>2. \A c \in Client \ {d} : Events(c)' = Events(c)
    BY <1>1, <2>1 DEF Events
  <2>3. TableInv'
    <3>1. send' \in [Client -> Seq(Nat)]
      BY <1>3, <1>5 DEF HubInv, TableInv
    <3> QED
      BY <1>1, <1>5, <3>1 DEF HubInv, TableInv
  <2>4. NewInv'
    BY <1>1, <1>2, <1>5, <2>1 DEF HubInv, NewInv
  <2>5. ASSUME NEW c \in Client \ {d} PROVE EventsCounted(c)'
    BY <1>1, <1>4, <1>5, <2>2, StaysCounted DEF HubInv, CountInv
  <2>6. EventsCounted(d)'
    <3>1. CASE writer[d] = "gone"
      <4> DEFINE after == Events(d)'
      <4>1. after = Events(d) /\ writer'[d] = "gone" /\ joined'[d] = joined[d]
        BY <1>1, <3>1 DEF Events
      <4>2. (\A i \in 1 .. Len(after) : after[i] = joined'[d] + i) => EventsCounted(d)'
        BY <4>1 DEF EventsCounted
      <4> HIDE DEF after
      <4> QED
        BY <4>1, <4>2 DEF HubInv, CountInv, EventsCounted
    <3>2. CASE writer[d] # "gone"
      <4> DEFINE after == Events(d)'
      <4>1. after = Append(Events(d), sent)
        BY <1>1, <1>3, <2>1, <3>2, OneMoreEvent DEF Events
      <4>2. Len(Events(d)) = sent - joined[d] - 1 /\ \A i \in 1 .. Len(Events(d)) : Events(d)[i] = joined[d] + i
        BY <1>1, <1>4, <3>2 DEF HubInv, CountInv, EventsCounted
      <4>3. Events(d) \in Seq(Nat)
        BY AllIsSeq DEF HubInv
      <4>4. (\A i \in 1 .. Len(after) : after[i] = joined[d] + i) /\ Len(after) = sent - joined[d] => EventsCounted(d)'
        BY <1>1, <1>4 DEF EventsCounted
      <4> HIDE DEF after
      <4> QED
        BY <1>3, <4>1, <4>2, <4>3, <4>4, NextCounted
    <3> QED
      BY <3>1, <3>2
  <2>7. CountInv'
    BY <2>5, <2>6 DEF CountInv
  <2> QED
    BY <2>3, <2>4, <2>7 DEF HubInv
<1>6. CASE H!Close(d) /\ UNCHANGED send
  <2>1. closed' = closed \union {d} /\ clients' = clients \ {d} /\ ~panicked'
    BY <1>1, <1>6 DEF H!Close, HubInv, TableInv
  <2>2. \A c \in Client : Events(c)' = Events(c)
    BY <1>1, <1>6 DEF Events
  <2>3. TableInv'
    BY <1>1, <1>6, <2>1 DEF HubInv, TableInv
  <2>4. NewInv'
    BY <1>1, <1>2, <1>6, <2>1 DEF HubInv, NewInv
  <2>5. ASSUME NEW c \in Client PROVE EventsCounted(c)'
    <3>1. CASE c = d
      <4> DEFINE after == Events(d)'
      <4>1. after = Events(d) /\ joined'[d] = joined[d] /\ d \notin clients'
        BY <1>1, <2>1, <2>2
      <4>2. (\A i \in 1 .. Len(after) : after[i] = joined'[d] + i) => EventsCounted(d)'
        BY <4>1 DEF EventsCounted
      <4> HIDE DEF after
      <4> QED
        BY <3>1, <4>1, <4>2 DEF HubInv, CountInv, EventsCounted
    <3>2. CASE c # d
      BY <1>1, <1>4, <2>1, <2>2, <3>2, StaysCounted DEF HubInv, CountInv
    <3> QED
      BY <3>1, <3>2
  <2> QED
    BY <2>3, <2>4, <2>5 DEF HubInv, CountInv
<1> QED
  BY <1>5, <1>6 DEF H!Deliver, H!Give

(* The events count from the registration. *)
LEMMA RegisterKeeps == ASSUME HubInv, NEW d \in Client, H!Register(d) PROVE HubInv'
<1>1. /\ reader[d] = "registering" /\ turn = None
      /\ clients' = clients \union {d} /\ joined' = [joined EXCEPT ![d] = sent]
      /\ reader' = [reader EXCEPT ![d] = "starting"]
      /\ UNCHANGED <<sent, turn, send, closed, writer, got, panicked>>
  BY DEF H!Register
<1>2. d \notin closed /\ send[d] = <<>> /\ got[d] = <<>> /\ writer[d] = "none"
  BY <1>1 DEF HubInv, NewInv
<1>3. /\ joined'[d] = sent /\ reader'[d] = "starting" /\ sent \in Nat
      /\ \A c \in Client \ {d} : joined'[c] = joined[c] /\ reader'[c] = reader[c]
  BY <1>1 DEF HubInv, TableInv
<1>4. \A c \in Client : Events(c)' = Events(c) /\ ~StillDue(c) /\ ~StillDue(c)'
  BY <1>1 DEF Events, StillDue
<1>5. TableInv'
  BY <1>1, <1>2 DEF HubInv, TableInv
<1>6. NewInv'
  BY <1>1, <1>3 DEF HubInv, NewInv
<1>7. ASSUME NEW c \in Client PROVE EventsCounted(c)'
  <2>1. CASE c = d
    <3> DEFINE after == Events(d)'
    <3>1. after = <<>> \o <<>>
      BY <1>1, <1>2 DEF Events
    <3>2. after = <<>>
      BY <3>1, ConcatEmptySeq
    <3>3. (\A i \in 1 .. Len(after) : after[i] = sent + i) /\ Len(after) = sent - sent => EventsCounted(d)'
      BY <1>1, <1>3, <1>4 DEF EventsCounted
    <3> HIDE DEF after
    <3> QED
      BY <1>3, <2>1, <3>2, <3>3
  <2>2. CASE c # d
    BY <1>1, <1>3, <1>4, <2>2, StaysCounted DEF HubInv, CountInv
  <2> QED
    BY <2>1, <2>2
<1> QED
  BY <1>5, <1>6, <1>7 DEF HubInv, CountInv

(* Only a client that is still in the table has its channel closed by unregister. *)
LEMMA UnregisterKeeps == ASSUME HubInv, NEW d \in Client, H!Unregister(d) PROVE HubInv'
<1>1. /\ reader[d] = "leaving" /\ turn = None /\ reader' = [reader EXCEPT ![d] = "gone"]
      /\ UNCHANGED <<sent, turn, send, writer, joined, got>>
      /\ IF d \in clients THEN H!Close(d) ELSE UNCHANGED <<clients, closed, panicked>>
  BY DEF H!Unregister
<1>2. /\ clients' = clients \ {d} /\ closed' \subseteq closed \union {d}
      /\ ~panicked' /\ clients' \intersect closed' = {}
  <2>1. CASE d \in clients
    BY <1>1, <2>1 DEF H!Close, HubInv, TableInv
  <2>2. CASE d \notin clients
    BY <1>1, <2>2 DEF HubInv, TableInv
  <2> QED
    BY <2>1, <2>2
<1>3. reader'[d] = "gone" /\ \A c \in Client \ {d} : reader'[c] = reader[c]
  BY <1>1 DEF HubInv, TableInv
<1>4. \A c \in Client : Events(c)' = Events(c) /\ (StillDue(c)' <=> StillDue(c))
  BY <1>1 DEF Events, StillDue
<1>5. TableInv'
  BY <1>1, <1>2 DEF HubInv, TableInv
<1>6. NewInv'
  BY <1>1, <1>2, <1>3 DEF HubInv, NewInv
<1>7. ASSUME NEW c \in Client PROVE EventsCounted(c)'
  BY <1>1, <1>2, <1>4, StaysCounted DEF HubInv, CountInv
<1> QED
  BY <1>5, <1>6, <1>7 DEF HubInv, CountInv

(* A client whose writer is gone has what it got. *)
LEMMA GotCounted ==
    ASSUME HubInv, NEW d \in Client, Events(d) = got[d] \o send[d]
    PROVE  \A i \in 1 .. Len(got[d]) : got[d][i] = joined[d] + i
<1>1. \A i \in 1 .. Len(Events(d)) : Events(d)[i] = joined[d] + i
  BY DEF HubInv, CountInv, EventsCounted
<1>2. got[d] \in Seq(Nat) /\ send[d] \in Seq(Nat)
  BY DEF HubInv, TableInv
<1>3. ASSUME NEW i \in 1 .. Len(got[d]) PROVE got[d][i] = joined[d] + i
  <2>1. i \in 1 .. Len(Events(d)) /\ Events(d)[i] = got[d][i]
    BY <1>2, PrefixOfAll
  <2> QED
    BY <1>1, <2>1
<1> QED
  BY <1>3

LEMMA GoneCounted ==
    ASSUME NEW d \in Client, Events(d)' = got[d], writer'[d] = "gone", joined' = joined,
           \A i \in 1 .. Len(got[d]) : got[d][i] = joined[d] + i
    PROVE  EventsCounted(d)'
<1> DEFINE after == Events(d)'
<1>1. (\A i \in 1 .. Len(after) : after[i] = joined[d] + i) => EventsCounted(d)'
  BY DEF EventsCounted
<1>2. after = got[d]
  OBVIOUS
<1> HIDE DEF after
<1> QED
  BY <1>1, <1>2

(* What was on its way arrives, all of it, or is lost with the writer. *)
LEMMA WritePumpKeeps == ASSUME HubInv, NEW d \in Client, H!WritePump(d) PROVE HubInv'
<1>1. /\ writer[d] = "writing" /\ send' = [send EXCEPT ![d] = <<>>]
      /\ \/ got' = [got EXCEPT ![d] = got[d] \o send[d]] /\ UNCHANGED writer
         \/ writer' = [writer EXCEPT ![d] = "gone"] /\ UNCHANGED got
      /\ UNCHANGED <<sent, turn, clients, closed, reader, joined, panicked>>
  BY DEF H!WritePump
<1>2. send[d] \in Seq(Nat) /\ got[d] \in Seq(Nat) /\ Events(d) = got[d] \o send[d]
      /\ reader[d] \notin {"none", "registering"}
  BY <1>1 DEF HubInv, TableInv, NewInv, Events
<1>3. \A c \in Client : StillDue(c)' <=> StillDue(c)
  BY <1>1 DEF StillDue
<1>4. \A c \in Client \ {d} : send'[c] = send[c] /\ got'[c] = got[c] /\ writer'[c] = writer[c] /\ Events(c)' = Events(c)
  BY <1>1 DEF HubInv, TableInv, Events
<1>5. TableInv'
  <2>1. got[d] \o send[d] \in Seq(Nat) /\ <<>> \in Seq(Nat)
    BY <1>2
  <2>2. send' \in [Client -> Seq(Nat)] /\ got' \in [Client -> Seq(Nat)]
    BY <1>1, <2>1 DEF HubInv, TableInv
  <2> QED
    BY <1>1, <2>2 DEF HubInv, TableInv
<1>6. NewInv'
  BY <1>1, <1>2, <1>4 DEF HubInv, NewInv
<1>7. \/ Events(d)' = Events(d) /\ writer' = writer
      \/ Events(d)' = got[d] /\ writer'[d] = "gone"
  <2>1. send'[d] = <<>>
    BY <1>1 DEF HubInv, TableInv
  <2>2. CASE got' = [got EXCEPT ![d] = got[d] \o send[d]] /\ UNCHANGED writer
    <3>1. got'[d] = got[d] \o send[d] /\ writer'[d] = "writing"
      BY <1>1, <2>2 DEF HubInv, TableInv
    <3>2. Events(d)' = (got[d] \o send[d]) \o <<>>
      BY <2>1, <3>1 DEF Events
    <3>3. got[d] \o send[d] \in Seq(Nat)
      BY <1>2
    <3> QED
      BY <1>2, <2>2, <3>2, <3>3, ConcatEmptySeq
  <2>3. CASE writer' = [writer EXCEPT ![d] = "gone"] /\ UNCHANGED got
    <3>1. writer'[d] = "gone" /\ got'[d] = got[d]
      BY <2>3 DEF HubInv, TableInv
    <3>2. Events(d)' = got[d] \o <<>>
      BY <3>1 DEF Events
    <3> QED
      BY <1>2, <3>1, <3>2, ConcatEmptySeq
  <2> QED
    BY <1>1, <2>2, <2>3
<1>8. \A i \in 1 .. Len(got[d]) : got[d][i] = joined[d] + i
  BY <1>2, GotCounted
<1>9. ASSUME NEW c \in Client PROVE EventsCounted(c)'
  <2>1. CASE c = d /\ Events(d)' = Events(d) /\ writer' = writer
    BY <1>1, <1>3, <2>1, StaysCounted DEF HubInv, CountInv
  <2>2. CASE c = d /\ Events(d)' = got[d] /\ writer'[d] = "gone"
    BY <1>1, <1>8, <2>2, GoneCounted
  <2>3. CASE c # d
    BY <1>1, <1>3, <1>4, <2>3, StaysCounted DEF HubInv, CountInv
  <2> QED
    BY <1>7, <2>1, <2>2, <2>3
<1> QED
  BY <1>5, <1>6, <1>9 DEF HubInv, CountInv

LEMMA WriteEndsKeeps == ASSUME HubInv, NEW d \in Client, H!WriteEnds(d) PROVE HubInv'
<1>1. /\ writer[d] = "writing" /\ writer' = [writer EXCEPT ![d] = "gone"]
      /\ UNCHANGED <<sent, turn, clients, send, closed, reader, joined, got, panicked>>
  BY DEF H!WriteEnds
<1>2. send[d] \in Seq(Nat) /\ got[d] \in Seq(Nat) /\ Events(d) = got[d] \o send[d]
      /\ reader[d] \notin {"none", "registering"} /\ writer'[d] = "gone"
  BY <1>1 DEF HubInv, TableInv, NewInv, Events
<1>3. \A c \in Client \ {d} : writer'[c] = writer[c] /\ Events(c)' = Events(c)
  BY <1>1 DEF HubInv, TableInv, Events
<1>4. TableInv' /\ NewInv'
  <2>1. TableInv'
    BY <1>1 DEF HubInv, TableInv
  <2> QED
    BY <1>1, <1>2, <1>3, <2>1 DEF HubInv, NewInv
<1>5. Events(d)' = got[d]
  <2>1. Events(d)' = got[d] \o <<>>
    BY <1>1, <1>2 DEF Events
  <2> QED
    BY <1>2, <2>1, ConcatEmptySeq
<1>6. \A i \in 1 .. Len(got[d]) : got[d][i] = joined[d] + i
  BY <1>2, GotCounted
<1>7. ASSUME NEW c \in Client PROVE EventsCounted(c)'
  <2>1. CASE c = d
    BY <1>1, <1>2, <1>5, <1>6, <2>1, GoneCounted
  <2>2. CASE c # d
    BY <1>1, <1>3, <2>2, StaysCounted DEF HubInv, CountInv, StillDue
  <2> QED
    BY <2>1, <2>2
<1> QED
  BY <1>4, <1>7 DEF HubInv, CountInv

(* The client's goroutines come and go: nothing is sent. *)
LEMMA ReaderKeeps ==
    ASSUME HubInv, NEW d \in Client, H!Connect(d) \/ H!Start(d) \/ H!ReadPump(d)
    PROVE  HubInv'
<1>1. UNCHANGED <<sent, turn, clients, send, closed, joined, got, panicked>>
  BY DEF H!Connect, H!Start, H!ReadPump
<1>2. \A c \in Client : writer[c] # "gone" <=> writer'[c] # "gone"
  <2>1. CASE H!Start(d)
    <3>1. writer[d] = "none" /\ writer' = [writer EXCEPT ![d] = "writing"]
      BY <2>1 DEF H!Start, HubInv, NewInv
    <3> QED
      BY <3>1 DEF HubInv, TableInv
  <2> QED
    BY <2>1 DEF H!Connect, H!ReadPump
<1>3. TableInv'
  BY <1>1 DEF H!Connect, H!Start, H!ReadPump, HubInv, TableInv
<1>4. NewInv'
  <2>1. CASE H!Connect(d)
    BY <1>1, <2>1 DEF H!Connect, HubInv, TableInv, NewInv
  <2>2. CASE H!Start(d)
    BY <1>1, <2>2 DEF H!Start, HubInv, TableInv, NewInv
  <2>3. CASE H!ReadPump(d)
    BY <1>1, <2>3 DEF H!ReadPump, HubInv, TableInv, NewInv
  <2> QED
    BY <2>1, <2>2, <2>3
<1>5. \A c \in Client : Events(c)' = Events(c) /\ (StillDue(c)' <=> StillDue(c))
  BY <1>1, <1>2 DEF Events, StillDue
<1>6. ASSUME NEW c \in Client PROVE EventsCounted(c)'
  BY <1>1, <1>2, <1>5, StaysCounted DEF HubInv, CountInv
<1> QED
  BY <1>3, <1>4, <1>6 DEF HubInv, CountInv

LEMMA NoClientMoves == ASSUME HubInv, UNCHANGED <<sent, turn, H!clientVars>> PROVE HubInv'
<1>1. \A c \in Client : Events(c)' = Events(c) /\ (StillDue(c)' <=> StillDue(c))
  BY DEF H!clientVars, Events, StillDue
<1>2. TableInv' /\ NewInv'
  BY DEF H!clientVars, HubInv, TableInv, NewInv
<1>3. ASSUME NEW c \in Client PROVE EventsCounted(c)'
  BY <1>1, StaysCounted DEF H!clientVars, HubInv, CountInv
<1> QED
  BY <1>2, <1>3 DEF HubInv, CountInv

LEMMA HubStarts == ASSUME H!Init PROVE HubInv
<1>1. \A c \in Client : Events(c) = <<>> /\ Len(Events(c)) = 0
  <2>1. \A c \in Client : Events(c) = <<>> \o <<>>
    BY DEF H!Init, H!NewClients, Events
  <2>2. <<>> \in Seq(Nat) /\ Len(<<>>) = 0
    OBVIOUS
  <2>3. <<>> \o <<>> = <<>>
    BY <2>2, ConcatEmptySeq
  <2> QED
    BY <2>1, <2>2, <2>3
<1>2. TableInv
  BY DEF H!Init, H!NewHub, H!NewClients, TableInv
<1>3. NewInv
  BY DEF H!Init, H!NewHub, H!NewClients, NewInv
<1>4. CountInv
  <2>1. \A c \in Client : c \notin clients /\ Len(Events(c)) = 0
    BY <1>1 DEF H!Init, H!NewHub
  <2> QED
    BY <2>1, 1 .. 0 = {} DEF CountInv, EventsCounted
<1> QED
  BY <1>2, <1>3, <1>4 DEF HubInv

(* Every step keeps the invariant. *)
LEMMA HubSteps == ASSUME NoClients, HubInv, [H!Next]_(H!vars) PROVE HubInv'
<1>1. CASE H!Broadcast
  BY <1>1, NoClientMoves DEF H!Broadcast
<1>2. CASE H!Take
  BY <1>2, TakeKeeps
<1>3. CASE H!Delivered
  BY <1>3, DeliveredKeeps
<1>4. ASSUME NEW c \in Client, H!Deliver(c) PROVE HubInv'
  BY <1>4, DeliverKeeps
<1>5. ASSUME NEW c \in Client, H!Register(c) PROVE HubInv'
  BY <1>5, RegisterKeeps
<1>6. ASSUME NEW c \in Client, H!Unregister(c) PROVE HubInv'
  BY <1>6, UnregisterKeeps
<1>7. ASSUME NEW c \in Client, H!WritePump(c) PROVE HubInv'
  BY <1>7, WritePumpKeeps
<1>8. ASSUME NEW c \in Client, H!WriteEnds(c) PROVE HubInv'
  BY <1>8, WriteEndsKeeps
<1>9. ASSUME NEW c \in Client, H!Connect(c) \/ H!Start(c) \/ H!ReadPump(c) PROVE HubInv'
  BY <1>9, ReaderKeeps
<1>10. CASE UNCHANGED H!vars
  BY <1>10, NoClientMoves DEF H!vars, H!clientVars
<1> QED
  BY <1>1, <1>2, <1>3, <1>4, <1>5, <1>6, <1>7, <1>8, <1>9, <1>10 DEF H!Next

(* Each step of the whole is a step of the hub or leaves it alone. *)
LEMMA HubStep == [ExchangesNext]_exchangeVars => [H!Next]_(H!vars)
BY DEF ExchangesNext, exchangeVars, hubVars, H!vars, H!clientVars

(* A browser has every event since its registration or is disconnected, and no *)
(* channel is closed twice (hub.go Run), for any clients, events and sizes of  *)
(* channels; see NoGaps.                                                       *)
THEOREM NoEventIsMissed == ASSUME NoClients PROVE ExchangesSpec => []NoGaps
<1>1. ExchangesInit => HubInv
  BY HubStarts DEF ExchangesInit
<1>2. HubInv /\ [ExchangesNext]_exchangeVars => HubInv'
  BY HubStep, HubSteps
<1>3. HubInv => NoGaps
  BY InvIsNoGaps DEF NoGaps
<1> QED
  BY <1>1, <1>2, <1>3, PTL DEF ExchangesSpec

--------------------------------------------------------------------------------
(* Each step of the whole is a step of the devices or leaves them alone. *)
LEMMA DevicesStep == [ExchangesNext]_exchangeVars => [DP!Next]_(DP!vars)
<1>1. D!Next => DP!Next
  BY DEF D!Seen, DP!Seen, D!DeviceRow, DP!DeviceRow, D!NoLists, DP!NoLists, D!Upserted, DP!Upserted,
         D!ShownRegistered, DP!ShownRegistered, D!LoadedListed, DP!LoadedListed, D!Loaded, DP!Loaded,
         D!Start, DP!Start, D!Migrate, DP!Migrate, D!Migrated, DP!Migrated, D!Stop, DP!Stop, D!Move, DP!Move,
         D!Age, DP!Age, D!Broadcast, DP!Broadcast, D!MinVersion, DP!MinVersion, D!Readable, DP!Readable,
         D!HashFits, DP!HashFits, D!Valid, DP!Valid, D!Added, DP!Added, D!AddAnswering, DP!AddAnswering,
         D!HandleDiscovered, DP!HandleDiscovered, D!DirectPing, DP!DirectPing, D!Idle, DP!Idle, D!Request,
         DP!Request, D!Take, DP!Take, D!Others, DP!Others, D!Cross, DP!Cross, D!Settle, DP!Settle, D!Unwritten, DP!Unwritten,
         D!RowFails, DP!RowFails, D!LoadRegistered, DP!LoadRegistered, D!Turn, DP!Turn, D!Done,
         DP!Done, D!Dev, DP!Dev, D!Register, DP!Register, D!LookForRow, DP!LookForRow, D!InsertRow,
         DP!InsertRow, D!Unregister, DP!Unregister, D!DeleteDevice, DP!DeleteDevice, D!Edit, DP!Edit,
         D!SaveEdit, DP!SaveEdit, D!SetDeviceAddress, DP!SetDeviceAddress, D!AddList, DP!AddList,
         D!InsertMissing, DP!InsertMissing, D!AddDeviceList, DP!AddDeviceList, D!ChangeList, DP!ChangeList,
         D!HasList, DP!HasList, D!UpdateDeviceList, DP!UpdateDeviceList, D!RemoveDeviceList,
         DP!RemoveDeviceList, D!Resolve, DP!Resolve, D!Probed, DP!Probed, D!QuickProbe, DP!QuickProbe,
         D!FallBack, DP!FallBack, D!FoundElsewhere, DP!FoundElsewhere, D!ManualProbe, DP!ManualProbe, D!Sync,
         DP!Sync, D!Rowed, DP!Rowed, D!Next, DP!Next
<1> QED
  BY <1>1 DEF ExchangesNext, exchangeVars, deviceVars, DP!vars

LEMMA DevicesInit == ExchangesInit => DP!Init
BY DEF ExchangesInit, D!Init, DP!Init, D!NoLists, DP!NoLists

(* A sync is sent to an address where its device answered (internal/api,       *)
(* internal/device), whatever the rest of the server does.                     *)
THEOREM SyncsCarryOver == ASSUME DP!NoneApart PROVE ExchangesSpec => []SentWhereItAnswered
<1>1. DP!SentWhereItAnswered => SentWhereItAnswered
  BY DEF SentWhereItAnswered, D!SentWhereItAnswered, DP!SentWhereItAnswered, D!Turn, DP!Turn, D!Dev, DP!Dev
<1> QED
  BY <1>1, DevicesInit, DevicesStep, DP!SyncsGoWhereTheyAnswer, PTL DEF ExchangesSpec, DP!Spec

(* What the api and the table say of a device agrees unless requests for it    *)
(* crossed or failed, until it is registered, unregistered or loaded once      *)
(* more, whatever the rest of the server does.                                 *)
THEOREM DevicesCarryOver == ASSUME DP!NoneApart PROVE ExchangesSpec => []RegistrationAgrees
<1>1. DP!RegistrationAgrees => RegistrationAgrees
  BY DEF RegistrationAgrees, D!RegistrationAgrees, DP!RegistrationAgrees, D!ShownRegistered, DP!ShownRegistered
<1> QED
  BY <1>1, DevicesInit, DevicesStep, DP!DevicesAgree, PTL DEF ExchangesSpec, DP!Spec
================================================================================
