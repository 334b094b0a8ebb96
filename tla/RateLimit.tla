----------------------------- MODULE RateLimit ------------------------------
(***************************************************************************)
(* The rate limiter (framework/middleware/ratelimit.go): one token bucket  *)
(* per client IP in a sync.Map, each bucket under a mutex.                 *)
(*                                                                         *)
(* Time is counted in ticks of the clock and a token in Unit parts, so     *)
(* that a tick refills Rate parts: requestsPerSecond is Rate / Unit tokens *)
(* per tick, and float64 arithmetic is exact here.  The middleware is used *)
(* by concurrent requests: a request first builds a bucket of its own,     *)
(* reading the clock, then stores it unless the IP has one, then calls     *)
(* allow.                                                                  *)
(***************************************************************************)
EXTENDS Integers, FiniteSets

CONSTANTS
  Request,  \* the requests
  IP,       \* the clients
  Unit,     \* parts in a token
  Rate,     \* parts refilled in a tick
  Burst,    \* the argument burst, in tokens
  MaxTime   \* bound: the clock stops here

ASSUME RateLimitAssumption ==
  /\ Unit \in Nat \ {0}
  /\ Rate \in Nat
  /\ Burst \in Nat
  /\ MaxTime \in Nat

VARIABLES
  now,      \* the clock
  buckets,  \* the IPs that have a bucket in the sync.Map
  tokens,   \* bucket.tokens, per IP
  last,     \* bucket.lastRefill, per IP
  pc,       \* where each request is
  ip,       \* the IP of each request
  fresh,    \* lastRefill of the bucket the request has built
  allowed,  \* history: requests let through per IP
  denied,   \* history: requests answered 429 per IP
  mark,     \* history: per IP, a time at which somebody starts to count
  base      \* history: per IP, what was let through until then

bucketVars == <<buckets, tokens, last>>
histVars == <<allowed, denied, mark, base>>
vars == <<now, bucketVars, pc, ip, fresh, histVars>>

Full == Burst * Unit

Init ==
  /\ now = 0
  /\ buckets = {}
  /\ tokens = [c \in IP |-> Full]
  /\ last = [c \in IP |-> 0]
  /\ pc = [r \in Request |-> "idle"]
  /\ ip \in [Request -> IP]
  /\ fresh = [r \in Request |-> 0]
  /\ allowed = [c \in IP |-> 0]
  /\ denied = [c \in IP |-> 0]
  /\ mark = [c \in IP |-> 0]
  /\ base = [c \in IP |-> 0]

Tick ==
  /\ now < MaxTime
  /\ now' = now + 1
  /\ UNCHANGED <<bucketVars, pc, ip, fresh, histVars>>

\* The arguments of LoadOrStore: a full bucket stamped with the time.
Build(r) ==
  /\ pc[r] = "idle"
  /\ pc' = [pc EXCEPT ![r] = "built"]
  /\ fresh' = [fresh EXCEPT ![r] = now]
  /\ UNCHANGED <<now, bucketVars, ip, histVars>>

\* Mutant: Store: every request brings a bucket of its own.
StoresAlways(c) == TRUE

\* Whether LoadOrStore stores the bucket of the request.
Stores(c) == c \notin buckets

LoadOrStore(r) ==
  /\ pc[r] = "built"
  /\ pc' = [pc EXCEPT ![r] = "loaded"]
  /\ LET c == ip[r] IN
       IF Stores(c)
         THEN /\ buckets' = buckets \cup {c}
              /\ tokens' = [tokens EXCEPT ![c] = Full]
              /\ last' = [last EXCEPT ![c] = fresh[r]]
         ELSE UNCHANGED bucketVars
  /\ UNCHANGED <<now, ip, fresh, histVars>>

\* The tokens of a bucket after the refill at the head of allow.
Refilled(c) ==
  LET sum == tokens[c] + (now - last[c]) * Rate
  IN  IF sum > Full THEN Full ELSE sum

\* Mutant: off by one.
AffordableStrictly(t) == t > Unit

\* A refilled bucket can pay for a request.
Affordable(t) == t >= Unit

Pay(t) == t - Unit

\* Mutant: the refill is stamped with a time read before the lock.
StampEarly(r) == fresh[r]

\* The time of a refill: allow reads the clock under the mutex.
Stamp(r) == now

\* allow, all of it under the bucket's mutex, and the two outcomes.
Allow(r) ==
  /\ pc[r] = "loaded"
  /\ Affordable(Refilled(ip[r]))
  /\ pc' = [pc EXCEPT ![r] = "served"]
  /\ tokens' = [tokens EXCEPT ![ip[r]] = Pay(Refilled(ip[r]))]
  /\ last' = [last EXCEPT ![ip[r]] = Stamp(r)]
  /\ allowed' = [allowed EXCEPT ![ip[r]] = @ + 1]
  /\ UNCHANGED <<now, buckets, ip, fresh, denied, mark, base>>

Deny(r) ==
  /\ pc[r] = "loaded"
  /\ ~Affordable(Refilled(ip[r]))
  /\ pc' = [pc EXCEPT ![r] = "refused"]
  /\ tokens' = [tokens EXCEPT ![ip[r]] = Refilled(ip[r])]
  /\ last' = [last EXCEPT ![ip[r]] = Stamp(r)]
  /\ denied' = [denied EXCEPT ![ip[r]] = @ + 1]
  /\ UNCHANGED <<now, buckets, ip, fresh, allowed, mark, base>>

\* An observer of client c starts to count: a history step, not one of the
\* code.
StartCounting(c) ==
  /\ mark' = [mark EXCEPT ![c] = now]
  /\ base' = [base EXCEPT ![c] = allowed[c]]
  /\ UNCHANGED <<now, bucketVars, pc, ip, fresh, allowed, denied>>

\* Every request has been decided and the clock is at its bound.
Terminated ==
  /\ now = MaxTime
  /\ \A r \in Request : pc[r] \in {"served", "refused"}
  /\ UNCHANGED vars

Next ==
  \/ Tick
  \/ \E r \in Request : Build(r) \/ LoadOrStore(r) \/ Allow(r) \/ Deny(r)
  \/ \E c \in IP : StartCounting(c)
  \/ Terminated

Spec == Init /\ [][Next]_vars

-----------------------------------------------------------------------------
(* What the limiter promises.                                              *)

At == {"idle", "built", "loaded", "served", "refused"}

\* Every variable has its type: a bucket is never overdrawn, never over-full,
\* and its clock never ahead of the time.
TypeOK ==
  /\ now \in Nat
  /\ buckets \subseteq IP
  /\ tokens \in [IP -> Int]
  /\ \A c \in IP : tokens[c] \in 0..Full
  /\ last \in [IP -> Nat]
  /\ \A c \in IP : last[c] <= now
  /\ pc \in [Request -> At]
  /\ ip \in [Request -> IP]
  /\ fresh \in [Request -> Nat]
  /\ \A r \in Request : fresh[r] <= now
  /\ allowed \in [IP -> Nat]
  /\ denied \in [IP -> Nat]
  /\ mark \in [IP -> Nat]
  /\ base \in [IP -> Nat]
  /\ \A c \in IP : mark[c] <= now

\* In no interval does a client get more requests through than the burst and
\* what is refilled in the interval, however its requests race for the bucket.
WindowBound ==
  \A c \in IP : (allowed[c] - base[c]) * Unit <= Full + (now - mark[c]) * Rate

\* A client is refused only after it has used up its burst: the race of first
\* requests for the sync.Map costs it nothing.
BurstGranted ==
  \A c \in IP : denied[c] > 0 => allowed[c] >= Burst

\* The limiter implements TokenBucket: buckets that are refilled only when they
\* are used, and made only when a client first appears, decide every request as
\* if all of them had been there from the start and were refilled at every tick.
\* Neither the race of first requests nor the early timestamp of the bucket
\* that wins it can be noticed.
Abstract == INSTANCE TokenBucket WITH level <- [c \in IP |-> Refilled(c)]

ImplementsTokenBucket == Abstract!Spec

=============================================================================
