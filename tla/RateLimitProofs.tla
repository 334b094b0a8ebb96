--------------------------- MODULE RateLimitProofs ---------------------------
(***************************************************************************)
(* Proofs about the rate limiter, for all requests, clients, rates and     *)
(* bursts, and for a clock that runs as long as one likes.                 *)
(*                                                                         *)
(* WindowBound is not inductive: it says nothing of the tokens a client    *)
(* has saved, nor of a bucket nobody has touched since the observer began  *)
(* to count.  IInv adds both.  The refinement of TokenBucket rests on      *)
(* Untouched: a client without a bucket counts as one with a full bucket.  *)
(***************************************************************************)
EXTENDS RateLimit, TLAPS

\* A client without a bucket has been neither served nor refused.
Untouched ==
  \A c \in IP : c \notin buckets =>
    tokens[c] = Full /\ allowed[c] = 0 /\ denied[c] = 0

\* allow is called on a bucket that is in the map.
LoadedIsStored == \A r \in Request : pc[r] = "loaded" => ip[r] \in buckets

CountsOn == \A c \in IP : base[c] <= allowed[c]

\* What was let through since mark, as of the last refill.
Counted(c) == allowed[c] - base[c]

\* No refill since mark: nothing has been let through since.
QuietSince == \A c \in IP : last[c] < mark[c] => allowed[c] = base[c]

\* A refill since mark: what was let through and what is left was paid for.
PaidFor ==
  \A c \in IP : last[c] >= mark[c] =>
    Counted(c) * Unit + tokens[c] <= Full + (last[c] - mark[c]) * Rate

\* Tokens only go away by being spent.
NothingLost == \A c \in IP : tokens[c] + allowed[c] * Unit >= Full

IInv ==
  /\ TypeOK /\ Untouched /\ LoadedIsStored
  /\ CountsOn /\ QuietSince /\ PaidFor /\ NothingLost
  /\ BurstGranted

-----------------------------------------------------------------------------
(* Arithmetic.                                                             *)

\* A product of naturals is one.
LEMMA ProductNat == ASSUME NEW a \in Nat, NEW k \in Nat PROVE a * k \in Nat
OBVIOUS

\* What is refilled in two intervals is what is refilled in both together.
LEMMA SumTimes ==
  ASSUME NEW a \in Int, NEW b \in Int, NEW k \in Int
  PROVE  (a + b) * k = a * k + b * k
OBVIOUS

\* One more token is Unit more parts.
LEMMA OneMore ==
  ASSUME NEW a \in Int, NEW u \in Int PROVE (a + 1) * u = a * u + u
OBVIOUS

\* Units can be compared instead of parts.
LEMMA CompareUnits ==
  ASSUME NEW a \in Nat, NEW b \in Nat, NEW u \in Nat \ {0},
         (a + 1) * u > b * u
  PROVE  a >= b
OBVIOUS

-----------------------------------------------------------------------------
(* A bucket after the refill at the head of allow.                         *)

\* Full is a number of parts.
LEMMA FullNat == Full \in Nat
BY RateLimitAssumption, ProductNat DEF Full

\* The refill neither takes tokens away nor goes beyond a full bucket nor
\* beyond what the time since the last one yields.
LEMMA RefillBounds ==
  ASSUME TypeOK, NEW c \in IP
  PROVE  /\ Refilled(c) \in Nat
         /\ tokens[c] <= Refilled(c)
         /\ Refilled(c) <= Full
         /\ Refilled(c) <= tokens[c] + (now - last[c]) * Rate
<1>1. /\ tokens[c] \in Nat /\ tokens[c] <= Full /\ now - last[c] \in Nat
  BY FullNat DEF TypeOK
<1>2. (now - last[c]) * Rate \in Nat
  BY <1>1, ProductNat, RateLimitAssumption
<1> QED  BY <1>1, <1>2, FullNat DEF Refilled

\* After the refill the account of every observer is still balanced, whether
\* or not the bucket was refilled since the observer began to count.
LEMMA RefillIsPaidFor ==
  ASSUME IInv, NEW c \in IP
  PROVE  /\ Counted(c) * Unit + Refilled(c) <= Full + (now - mark[c]) * Rate
         /\ Refilled(c) + allowed[c] * Unit >= Full
<1> USE RateLimitAssumption
<1>1. /\ now \in Nat /\ last[c] \in Nat /\ mark[c] \in Nat /\ tokens[c] \in Nat
      /\ last[c] <= now /\ mark[c] <= now
      /\ allowed[c] \in Nat /\ base[c] \in Nat
  BY FullNat DEF IInv, TypeOK
<1>2. /\ Refilled(c) \in Nat /\ tokens[c] <= Refilled(c) /\ Refilled(c) <= Full
      /\ Refilled(c) <= tokens[c] + (now - last[c]) * Rate
  BY RefillBounds DEF IInv
<1>3. Counted(c) * Unit + Refilled(c) <= Full + (now - mark[c]) * Rate
  <2>1. CASE last[c] < mark[c]
    <3>1. Counted(c) = 0 /\ Counted(c) * Unit = 0
      BY <1>1, <2>1 DEF IInv, QuietSince, Counted
    <3>2. (now - mark[c]) * Rate \in Nat
      BY <1>1, ProductNat
    <3> QED  BY <1>2, <3>1, <3>2, FullNat
  <2>2. CASE last[c] >= mark[c]
    <3> DEFINE early == (last[c] - mark[c]) * Rate
               late  == (now - last[c]) * Rate
    <3>1. Counted(c) * Unit + tokens[c] <= Full + early
      BY <2>2 DEF IInv, PaidFor
    <3>2. (now - mark[c]) * Rate = early + late
      <4>1. now - mark[c] = (last[c] - mark[c]) + (now - last[c])
        BY <1>1
      <4> QED  BY <1>1, <4>1, SumTimes
    <3>3. early \in Int /\ late \in Int /\ Counted(c) * Unit \in Int
      BY <1>1 DEF Counted
    <3> HIDE DEF early, late
    <3> QED  BY <1>1, <1>2, <3>1, <3>2, <3>3, FullNat DEF late
  <2> QED  BY <1>1, <2>1, <2>2
<1>4. Refilled(c) + allowed[c] * Unit >= Full
  <2>1. tokens[c] + allowed[c] * Unit >= Full /\ allowed[c] * Unit \in Nat
    BY <1>1, ProductNat DEF IInv, NothingLost
  <2> QED  BY <1>1, <1>2, <2>1, FullNat
<1> QED  BY <1>3, <1>4

-----------------------------------------------------------------------------
(* IInv is inductive, one lemma per action.                                *)

\* Before the first request every bucket is full and nothing was counted.
LEMMA InitHolds == Init => IInv
<1> SUFFICES ASSUME Init PROVE IInv
  OBVIOUS
<1> USE RateLimitAssumption, FullNat
<1>1. TypeOK
  BY DEF Init, TypeOK, At
<1>2. \A c \in IP : /\ tokens[c] = Full /\ last[c] = 0 /\ mark[c] = 0
                    /\ allowed[c] = 0 /\ base[c] = 0 /\ denied[c] = 0
  BY DEF Init
<1>3. Untouched /\ LoadedIsStored /\ CountsOn /\ QuietSince /\ NothingLost
  BY <1>2 DEF Init, Untouched, LoadedIsStored, CountsOn, QuietSince, NothingLost
<1>4. PaidFor /\ BurstGranted
  BY <1>2 DEF PaidFor, BurstGranted, Counted
<1> QED  BY <1>1, <1>3, <1>4 DEF IInv

\* Time alone changes no account.
LEMMA TickHolds == IInv /\ Tick => IInv'
<1> SUFFICES ASSUME IInv, Tick PROVE IInv'
  OBVIOUS
<1>1. TypeOK'
  BY DEF IInv, TypeOK, Tick, bucketVars, histVars
<1> QED
  BY <1>1 DEF IInv, Tick, bucketVars, histVars, Untouched, LoadedIsStored, CountsOn,
              QuietSince, PaidFor, NothingLost, BurstGranted, Counted, Full

\* A bucket that is not in the map yet concerns nobody.
LEMMA BuildHolds == ASSUME NEW r \in Request PROVE IInv /\ Build(r) => IInv'
<1> SUFFICES ASSUME IInv, Build(r) PROVE IInv'
  OBVIOUS
<1>1. TypeOK'
  BY DEF IInv, TypeOK, Build, bucketVars, histVars, At
<1>2. LoadedIsStored'
  BY DEF IInv, TypeOK, LoadedIsStored, Build, bucketVars
<1> QED
  BY <1>1, <1>2 DEF IInv, Build, bucketVars, histVars, Untouched, CountsOn,
              QuietSince, PaidFor, NothingLost, BurstGranted, Counted, Full

\* The bucket stored is full, and its client had not been served: this is
\* where the race of first requests is decided.
LEMMA LoadOrStoreHolds ==
  ASSUME NEW r \in Request PROVE IInv /\ LoadOrStore(r) => IInv'
<1> SUFFICES ASSUME IInv, LoadOrStore(r) PROVE IInv'
  OBVIOUS
<1> DEFINE c == ip[r]
<1> USE RateLimitAssumption, FullNat
<1>1. c \in IP /\ fresh[r] \in Nat /\ fresh[r] <= now
  BY DEF IInv, TypeOK
<1>2. /\ pc' = [pc EXCEPT ![r] = "loaded"]
      /\ UNCHANGED <<now, ip, fresh, allowed, denied, mark, base>>
  BY DEF LoadOrStore, histVars
<1>3. CASE Stores(c)
  <2>1. /\ c \notin buckets
        /\ buckets' = buckets \cup {c}
        /\ tokens' = [tokens EXCEPT ![c] = Full]
        /\ last' = [last EXCEPT ![c] = fresh[r]]
    BY <1>3 DEF LoadOrStore, Stores
  <2>2. tokens[c] = Full /\ allowed[c] = 0 /\ denied[c] = 0 /\ base[c] = 0
    BY <1>1, <2>1 DEF IInv, TypeOK, Untouched, CountsOn
  <2> HIDE DEF c
  <2>3. TypeOK'
    BY <1>1, <1>2, <2>1 DEF IInv, TypeOK, At
  <2>4. Untouched' /\ CountsOn' /\ NothingLost' /\ BurstGranted'
    BY <1>1, <1>2, <2>1, <2>2
    DEF IInv, TypeOK, Untouched, CountsOn, NothingLost, BurstGranted, Full
  <2>5. LoadedIsStored'
    BY <1>1, <1>2, <2>1 DEF c, IInv, TypeOK, LoadedIsStored
  <2>6. QuietSince'
    BY <1>1, <1>2, <2>1, <2>2 DEF IInv, TypeOK, QuietSince
  <2>7. PaidFor'
    <3> SUFFICES ASSUME NEW d \in IP, last'[d] >= mark[d]
                 PROVE  (allowed[d] - base[d]) * Unit + tokens'[d]
                          <= Full + (last'[d] - mark[d]) * Rate
      BY <1>2 DEF PaidFor, Counted, Full
    <3>1. CASE d = c
      <4>1. last'[d] - mark[d] \in Nat
        BY <1>1, <2>1, <3>1 DEF IInv, TypeOK
      <4>2. (last'[d] - mark[d]) * Rate \in Nat
        BY <4>1, ProductNat
      <4>3. (allowed[d] - base[d]) * Unit = 0 /\ tokens'[d] = Full
        BY <1>1, <2>1, <2>2, <3>1 DEF IInv, TypeOK
      <4> QED  BY <4>2, <4>3
    <3>2. CASE d # c
      BY <2>1, <3>2 DEF IInv, TypeOK, PaidFor, Counted
    <3> QED  BY <3>1, <3>2
  <2> QED  BY <2>3, <2>4, <2>5, <2>6, <2>7 DEF IInv
<1>4. CASE ~Stores(c)
  <2>1. c \in buckets /\ UNCHANGED bucketVars
    BY <1>4 DEF LoadOrStore, Stores
  <2>2. TypeOK'
    BY <1>2, <2>1 DEF IInv, TypeOK, bucketVars, At
  <2>3. LoadedIsStored'
    BY <1>2, <2>1 DEF IInv, TypeOK, LoadedIsStored, bucketVars
  <2> QED
    BY <1>2, <2>1, <2>2, <2>3
    DEF IInv, bucketVars, Untouched, CountsOn, QuietSince, PaidFor,
        NothingLost, BurstGranted, Counted, Full
<1> QED  BY <1>3, <1>4

\* A request that is let through pays one token for itself.
LEMMA AllowHolds == ASSUME NEW r \in Request PROVE IInv /\ Allow(r) => IInv'
<1> SUFFICES ASSUME IInv, Allow(r) PROVE IInv'
  OBVIOUS
<1> DEFINE c == ip[r]
           full == Refilled(c)
<1> USE RateLimitAssumption, FullNat
<1>1. c \in IP /\ c \in buckets
  BY DEF IInv, TypeOK, LoadedIsStored, Allow
<1>2. /\ pc' = [pc EXCEPT ![r] = "served"]
      /\ tokens' = [tokens EXCEPT ![c] = full - Unit]
      /\ last' = [last EXCEPT ![c] = now]
      /\ allowed' = [allowed EXCEPT ![c] = @ + 1]
      /\ UNCHANGED <<now, buckets, ip, fresh, denied, mark, base>>
  BY DEF Allow, Pay, Stamp
<1>3. /\ full \in Nat /\ full >= Unit /\ full <= Full
      /\ Counted(c) * Unit + full <= Full + (now - mark[c]) * Rate
      /\ full + allowed[c] * Unit >= Full
  BY <1>1, RefillBounds, RefillIsPaidFor DEF IInv, Allow, Affordable
<1>4. /\ now \in Nat /\ mark[c] \in Nat /\ mark[c] <= now
      /\ allowed[c] \in Nat /\ base[c] \in Nat /\ base[c] <= allowed[c]
  BY <1>1 DEF IInv, TypeOK, CountsOn
<1>5. /\ (allowed[c] + 1) * Unit = allowed[c] * Unit + Unit
      /\ (allowed[c] + 1 - base[c]) * Unit = (allowed[c] - base[c]) * Unit + Unit
  <2> DEFINE n == allowed[c] - base[c]
  <2>1. allowed[c] + 1 - base[c] = n + 1 /\ n \in Int /\ allowed[c] \in Int /\ Unit \in Int
    BY <1>4
  <2>2. (allowed[c] + 1) * Unit = allowed[c] * Unit + Unit
    BY <2>1, OneMore
  <2> HIDE DEF n
  <2>3. (n + 1) * Unit = n * Unit + Unit
    BY <2>1, OneMore
  <2> QED  BY <2>1, <2>2, <2>3 DEF n
<1> HIDE DEF c, full
<1>6. TypeOK'
  BY <1>1, <1>2, <1>3 DEF IInv, TypeOK, At
<1>7. Untouched' /\ CountsOn' /\ QuietSince' /\ BurstGranted'
  BY <1>1, <1>2, <1>4
  DEF IInv, TypeOK, Untouched, CountsOn, QuietSince, BurstGranted, Full
<1>8. LoadedIsStored'
  BY <1>2 DEF IInv, TypeOK, LoadedIsStored
<1>9. PaidFor'
  <2> SUFFICES ASSUME NEW d \in IP, last'[d] >= mark[d]
               PROVE  (allowed'[d] - base[d]) * Unit + tokens'[d]
                        <= Full + (last'[d] - mark[d]) * Rate
    BY <1>2 DEF PaidFor, Counted, Full
  <2>1. CASE d = c
    <3>1. /\ allowed'[d] = allowed[c] + 1 /\ tokens'[d] = full - Unit
          /\ last'[d] = now
      BY <1>1, <1>2, <2>1 DEF IInv, TypeOK
    <3>2. (allowed[c] - base[c]) * Unit \in Int /\ (now - mark[c]) * Rate \in Int
      BY <1>4
    <3> QED  BY <1>3, <1>4, <1>5, <2>1, <3>1, <3>2 DEF Counted
  <2>2. CASE d # c
    BY <1>2, <2>2 DEF IInv, TypeOK, PaidFor, Counted
  <2> QED  BY <2>1, <2>2
<1>10. NothingLost'
  <2> SUFFICES ASSUME NEW d \in IP PROVE tokens'[d] + allowed'[d] * Unit >= Full
    BY DEF NothingLost, Full
  <2>1. CASE d = c
    <3>1. allowed'[d] = allowed[c] + 1 /\ tokens'[d] = full - Unit
      BY <1>1, <1>2, <2>1 DEF IInv, TypeOK
    <3>2. allowed[c] * Unit \in Int
      BY <1>4
    <3> QED  BY <1>3, <1>5, <3>1, <3>2
  <2>2. CASE d # c
    BY <1>2, <2>2 DEF IInv, TypeOK, NothingLost
  <2> QED  BY <2>1, <2>2
<1> QED  BY <1>6, <1>7, <1>8, <1>9, <1>10 DEF IInv

\* A request that is refused finds less than a token left of what its client
\* was entitled to, so the client has spent its burst.
LEMMA DenyHolds == ASSUME NEW r \in Request PROVE IInv /\ Deny(r) => IInv'
<1> SUFFICES ASSUME IInv, Deny(r) PROVE IInv'
  OBVIOUS
<1> DEFINE c == ip[r]
           full == Refilled(c)
<1> USE RateLimitAssumption, FullNat
<1>1. c \in IP /\ c \in buckets
  BY DEF IInv, TypeOK, LoadedIsStored, Deny
<1>2. /\ pc' = [pc EXCEPT ![r] = "refused"]
      /\ tokens' = [tokens EXCEPT ![c] = full]
      /\ last' = [last EXCEPT ![c] = now]
      /\ denied' = [denied EXCEPT ![c] = @ + 1]
      /\ UNCHANGED <<now, buckets, ip, fresh, allowed, mark, base>>
  BY DEF Deny, Stamp
<1>3. /\ full \in Nat /\ full < Unit /\ full <= Full
      /\ Counted(c) * Unit + full <= Full + (now - mark[c]) * Rate
      /\ full + allowed[c] * Unit >= Full
  BY <1>1, RefillBounds, RefillIsPaidFor DEF IInv, Deny, Affordable
<1>4. now \in Nat /\ allowed[c] \in Nat /\ mark[c] \in Nat /\ mark[c] <= now
  BY <1>1 DEF IInv, TypeOK
<1>5. allowed[c] >= Burst
  <2>1. (allowed[c] + 1) * Unit = allowed[c] * Unit + Unit
    BY <1>4, OneMore
  <2>2. allowed[c] * Unit \in Int
    BY <1>4
  <2>3. (allowed[c] + 1) * Unit > Burst * Unit
    BY <1>3, <2>1, <2>2 DEF Full
  <2> QED  BY <1>4, <2>3, CompareUnits
<1> HIDE DEF c, full
<1>6. TypeOK'
  BY <1>1, <1>2, <1>3 DEF IInv, TypeOK, At
<1>7. Untouched' /\ CountsOn' /\ QuietSince' /\ BurstGranted'
  BY <1>1, <1>2, <1>4, <1>5
  DEF IInv, TypeOK, Untouched, CountsOn, QuietSince, BurstGranted, Full
<1>8. LoadedIsStored' /\ NothingLost'
  BY <1>2, <1>3 DEF IInv, TypeOK, LoadedIsStored, NothingLost, Full
<1>9. PaidFor'
  BY <1>1, <1>2, <1>3, <1>4 DEF IInv, TypeOK, PaidFor, Counted, Full
<1> QED  BY <1>6, <1>7, <1>8, <1>9 DEF IInv

\* An observer begins with nothing counted and at most a full bucket.
LEMMA StartCountingHolds ==
  ASSUME NEW c \in IP PROVE IInv /\ StartCounting(c) => IInv'
<1> SUFFICES ASSUME IInv, StartCounting(c) PROVE IInv'
  OBVIOUS
<1> USE RateLimitAssumption, FullNat
<1>1. /\ mark' = [mark EXCEPT ![c] = now]
      /\ base' = [base EXCEPT ![c] = allowed[c]]
      /\ UNCHANGED <<now, bucketVars, pc, ip, fresh, allowed, denied>>
  BY DEF StartCounting
<1>2. TypeOK'
  BY <1>1 DEF IInv, TypeOK, bucketVars
<1>3. /\ Untouched' /\ LoadedIsStored' /\ CountsOn' /\ QuietSince'
      /\ NothingLost' /\ BurstGranted'
  BY <1>1
  DEF IInv, TypeOK, Untouched, LoadedIsStored, CountsOn, QuietSince, NothingLost,
      BurstGranted, bucketVars, Full
<1>4. PaidFor'
  <2> SUFFICES ASSUME NEW d \in IP, last[d] >= mark'[d]
               PROVE  (allowed[d] - base'[d]) * Unit + tokens[d]
                        <= Full + (last[d] - mark'[d]) * Rate
    BY <1>1 DEF PaidFor, Counted, Full, bucketVars
  <2>1. CASE d = c
    <3>1. base'[d] = allowed[d] /\ mark'[d] = now /\ last[d] = now
      BY <1>1, <2>1 DEF IInv, TypeOK
    <3>2. /\ (allowed[d] - base'[d]) * Unit = 0
          /\ (last[d] - mark'[d]) * Rate = 0
      BY <3>1 DEF IInv, TypeOK
    <3> QED  BY <3>2 DEF IInv, TypeOK
  <2>2. CASE d # c
    BY <1>1, <2>2 DEF IInv, TypeOK, PaidFor, Counted
  <2> QED  BY <2>1, <2>2
<1> QED  BY <1>2, <1>3, <1>4 DEF IInv

\* IInv holds in every state of the limiter.
THEOREM Invariance == Spec => []IInv
<1>1. IInv /\ [Next]_vars => IInv'
  <2> SUFFICES ASSUME IInv, [Next]_vars PROVE IInv'
    OBVIOUS
  <2>1. CASE Tick
    BY <2>1, TickHolds
  <2>2. ASSUME NEW r \in Request, Build(r) \/ LoadOrStore(r) \/ Allow(r) \/ Deny(r)
        PROVE  IInv'
    BY <2>2, BuildHolds, LoadOrStoreHolds, AllowHolds, DenyHolds
  <2>3. ASSUME NEW c \in IP, StartCounting(c) PROVE IInv'
    BY <2>3, StartCountingHolds
  <2>4. CASE UNCHANGED vars
    BY <2>4
    DEF vars, bucketVars, histVars, IInv, TypeOK, Untouched, LoadedIsStored, CountsOn,
        QuietSince, PaidFor, NothingLost, BurstGranted, Counted, Full
  <2> QED  BY <2>1, <2>2, <2>3, <2>4 DEF Next, Terminated
<1> QED  BY InitHolds, <1>1, PTL DEF Spec

-----------------------------------------------------------------------------

\* No bucket is ever overdrawn, over-full or ahead of the clock, whatever the
\* order in which concurrent requests build, store and use buckets.
THEOREM TypeCorrect == Spec => []TypeOK
<1>1. IInv => TypeOK
  BY DEF IInv
<1> QED  BY Invariance, <1>1, PTL

\* The limit holds in every interval, for every rate and burst.
THEOREM LimitHolds == Spec => []WindowBound
<1>1. IInv => WindowBound
  <2> SUFFICES ASSUME IInv, NEW c \in IP
               PROVE  Counted(c) * Unit <= Full + (now - mark[c]) * Rate
    BY DEF WindowBound, Counted
  <2>1. /\ Counted(c) * Unit + Refilled(c) <= Full + (now - mark[c]) * Rate
        /\ Refilled(c) \in Nat
    BY RefillIsPaidFor, RefillBounds DEF IInv
  <2>2. Counted(c) * Unit \in Int /\ (now - mark[c]) * Rate \in Int
    BY RateLimitAssumption DEF IInv, TypeOK, Counted
  <2> QED  BY <2>1, <2>2, FullNat
<1> QED  BY Invariance, <1>1, PTL

\* The limiter refuses nobody who has not used up the burst.
THEOREM BurstIsGranted == Spec => []BurstGranted
<1>1. IInv => BurstGranted
  BY DEF IInv
<1> QED  BY Invariance, <1>1, PTL

-----------------------------------------------------------------------------
(* The refinement of TokenBucket: Level is what its buckets hold.          *)

Level == [c \in IP |-> Refilled(c)]

\* What a bucket that has just been used holds needs no refill.
LEMMA UsedNow ==
  ASSUME NEW c \in IP, now' \in Nat, last'[c] = now', tokens'[c] \in Nat, tokens'[c] <= Full
  PROVE  Refilled(c)' = tokens'[c]
<1>1. (now' - last'[c]) * Rate = 0
  BY RateLimitAssumption
<1> QED  BY <1>1, FullNat DEF Refilled, Full

\* A full bucket stays full, however long ago it was stamped.
LEMMA FullStaysFull ==
  ASSUME NEW n \in Nat, NEW t \in Nat, t <= n, NEW c \in IP, now' = n,
         last'[c] = t, tokens'[c] = Full
  PROVE  Refilled(c)' = Full
<1>1. (n - t) * Rate \in Nat
  <2>1. n - t \in Nat
    OBVIOUS
  <2> QED  BY <2>1, ProductNat, RateLimitAssumption
<1> QED  BY <1>1, FullNat DEF Refilled, Full

\* So does a bucket that its client does not have yet.
LEMMA UnusedIsFull ==
  ASSUME IInv, NEW c \in IP, c \notin buckets
  PROVE  Refilled(c) = Full
<1>1. tokens[c] = Full /\ now - last[c] \in Nat
  BY DEF IInv, Untouched, TypeOK
<1>2. (now - last[c]) * Rate \in Nat
  BY <1>1, ProductNat, RateLimitAssumption
<1> QED  BY <1>1, <1>2, FullNat DEF Refilled

\* To refill at each tick and to refill once for all of them is the same, also
\* when the bucket overflows in between.
LEMMA TickRefills ==
  ASSUME IInv, Tick, NEW c \in IP
  PROVE  Refilled(c)' = Abstract!Capped(Refilled(c) + Rate)
<1> DEFINE early == (now - last[c]) * Rate
           late  == (now' - last'[c]) * Rate
<1>1. /\ now \in Nat /\ last[c] \in Nat /\ now - last[c] \in Nat
      /\ now' = now + 1 /\ last' = last /\ tokens' = tokens /\ tokens[c] \in Nat
  BY FullNat DEF IInv, TypeOK, Tick, bucketVars
<1>2. late = early + Rate
  <2>1. now' - last'[c] = (now - last[c]) + 1
    BY <1>1
  <2> QED  BY <1>1, <2>1, OneMore, RateLimitAssumption
<1>3. early \in Nat
  BY <1>1, ProductNat, RateLimitAssumption
<1>4. /\ Refilled(c) = IF tokens[c] + early > Full THEN Full ELSE tokens[c] + early
      /\ Refilled(c)' = IF tokens[c] + late > Full THEN Full ELSE tokens[c] + late
  BY <1>1 DEF Refilled, Full
<1> HIDE DEF early, late
<1> QED
  BY <1>1, <1>2, <1>3, <1>4, FullNat, RateLimitAssumption DEF Abstract!Capped

\* A bucket that a step does not touch holds what it held.
LEMMA OthersKeep ==
  ASSUME NEW c \in IP, now' = now, tokens'[c] = tokens[c], last'[c] = last[c]
  PROVE  Refilled(c)' = Refilled(c)
BY DEF Refilled, Full

\* Every bucket refills at the tick.
LEMMA TickRefines == ASSUME IInv, Tick PROVE Abstract!Tick
<1>1. Level' = [c \in IP |-> Abstract!Capped(Level[c] + Rate)]
  BY TickRefills DEF Level
<1> QED  BY <1>1 DEF Level, Tick, histVars, Abstract!Tick

\* Storing a bucket, or losing the race for it, changes nothing for anybody.
LEMMA LoadOrStoreStutters ==
  ASSUME IInv, NEW r \in Request, LoadOrStore(r)
  PROVE  UNCHANGED Abstract!vars
<1> DEFINE c == ip[r]
<1>1. /\ UNCHANGED <<now, allowed, denied>>
      /\ c \in IP /\ fresh[r] \in Nat /\ fresh[r] <= now /\ now \in Nat
  BY DEF LoadOrStore, histVars, IInv, TypeOK
<1>2. ASSUME NEW d \in IP PROVE Refilled(d)' = Refilled(d)
  <2>1. CASE Stores(c) /\ d = c
    <3>1. c \notin buckets /\ tokens'[c] = Full /\ last'[c] = fresh[r]
      BY <1>1, <2>1 DEF LoadOrStore, Stores, IInv, TypeOK
    <3> HIDE DEF c
    <3> QED  BY <1>1, <2>1, <3>1, FullStaysFull, UnusedIsFull
  <2>2. CASE ~Stores(c) \/ d # c
    <3>1. tokens'[d] = tokens[d] /\ last'[d] = last[d]
      BY <1>1, <2>2 DEF LoadOrStore, bucketVars, IInv, TypeOK
    <3> QED  BY <1>1, <3>1, OthersKeep
  <2> QED  BY <2>1, <2>2
<1>3. Level' = Level
  BY <1>2 DEF Level
<1> QED  BY <1>1, <1>3 DEF Level, Abstract!vars

\* allow decides by the bucket it has just refilled.
LEMMA DecisionRefines ==
  ASSUME IInv, NEW r \in Request, Allow(r) \/ Deny(r)
  PROVE  Abstract!Admit(ip[r]) \/ Abstract!Refuse(ip[r])
<1> USE RateLimitAssumption, FullNat
<1> PICK c \in IP : c = ip[r]
  BY DEF IInv, TypeOK
<1> DEFINE paid == IF Allow(r) THEN Refilled(c) - Unit ELSE Refilled(c)
<1>1. now \in Nat /\ Refilled(c) \in Nat /\ Refilled(c) <= Full
  BY RefillBounds DEF IInv, TypeOK
<1>2. /\ tokens' = [tokens EXCEPT ![c] = paid]
      /\ last' = [last EXCEPT ![c] = now]
      /\ now' = now
  BY DEF Allow, Deny, Pay, Stamp
<1>3. paid \in Nat /\ paid <= Full
  BY <1>1 DEF Allow, Affordable
<1> HIDE DEF paid
<1>4. Refilled(c)' = paid
  <2>1. tokens'[c] = paid /\ last'[c] = now'
    BY <1>1, <1>2 DEF IInv, TypeOK
  <2> QED  BY <1>1, <1>2, <1>3, <2>1, UsedNow
<1>5. ASSUME NEW d \in IP, d # c PROVE Refilled(d)' = Refilled(d)
  <2>1. tokens'[d] = tokens[d] /\ last'[d] = last[d]
    BY <1>2, <1>5 DEF IInv, TypeOK
  <2> QED  BY <1>2, <2>1, OthersKeep
<1>6. Level' = [Level EXCEPT ![c] = paid] /\ Level[c] = Refilled(c)
  BY <1>1, <1>4, <1>5 DEF Level
<1>7. CASE Allow(r)
  <2>1. /\ Level[c] >= Unit /\ paid = Level[c] - Unit
        /\ allowed' = [allowed EXCEPT ![c] = @ + 1] /\ UNCHANGED <<now, denied>>
    BY <1>6, <1>7 DEF paid, Allow, Affordable
  <2> QED  BY <1>6, <2>1 DEF Level, Abstract!Admit
<1>8. CASE Deny(r)
  <2>1. ~ Allow(r)
    BY <1>8 DEF Allow, Deny
  <2>2. /\ Level[c] < Unit /\ paid = Level[c]
        /\ denied' = [denied EXCEPT ![c] = @ + 1] /\ UNCHANGED <<now, allowed>>
    BY <1>1, <1>6, <1>8, <2>1 DEF paid, Deny, Affordable
  <2>3. Level' = Level
    BY <1>6, <2>2 DEF Level
  <2> QED  BY <2>2, <2>3 DEF Level, Abstract!Refuse
<1> QED  BY <1>7, <1>8

\* No other step concerns a bucket.
LEMMA RestStutters ==
  ASSUME UNCHANGED <<now, bucketVars, allowed, denied>>
  PROVE  UNCHANGED Abstract!vars
<1>1. \A c \in IP : Refilled(c)' = Refilled(c)
  BY DEF bucketVars, Refilled, Full
<1>2. Level' = Level
  BY <1>1 DEF Level
<1> QED  BY <1>2 DEF Level, Abstract!vars

\* The limiter of the code, with its lazy refills, its map and its races,
\* decides like one that keeps a bucket for every client and refills them all
\* at every tick.
THEOREM Refinement == Spec => ImplementsTokenBucket
<1>1. Init => Abstract!Init
  <2> SUFFICES ASSUME Init PROVE Abstract!Init
    OBVIOUS
  <2>1. ASSUME NEW c \in IP PROVE Refilled(c) = Full
    BY InitHolds, UnusedIsFull DEF Init
  <2>2. Level = [c \in IP |-> Full]
    BY <2>1 DEF Level
  <2> QED  BY <2>2 DEF Level, Init, Abstract!Init
<1>2. IInv /\ [Next]_vars => [Abstract!Next]_(Abstract!vars)
  <2> SUFFICES ASSUME IInv, [Next]_vars PROVE [Abstract!Next]_(Abstract!vars)
    OBVIOUS
  <2>1. CASE Tick
    BY <2>1, TickRefines DEF Abstract!Next
  <2>2. ASSUME NEW r \in Request, Build(r) PROVE UNCHANGED Abstract!vars
    BY <2>2, RestStutters DEF Build, histVars
  <2>3. ASSUME NEW r \in Request, LoadOrStore(r) PROVE UNCHANGED Abstract!vars
    BY <2>3, LoadOrStoreStutters
  <2>4. ASSUME NEW r \in Request, Allow(r) \/ Deny(r) PROVE Abstract!Next
    <3>1. ip[r] \in IP
      BY DEF IInv, TypeOK
    <3> QED  BY <2>4, <3>1, DecisionRefines DEF Abstract!Next
  <2>5. ASSUME NEW c \in IP, StartCounting(c) PROVE UNCHANGED Abstract!vars
    BY <2>5, RestStutters DEF StartCounting
  <2>6. CASE UNCHANGED vars
    BY <2>6, RestStutters DEF vars, histVars
  <2> QED  BY <2>1, <2>2, <2>3, <2>4, <2>5, <2>6 DEF Next, Terminated
<1> QED
  BY Invariance, <1>1, <1>2, PTL DEF Spec, ImplementsTokenBucket, Abstract!Spec

=============================================================================
