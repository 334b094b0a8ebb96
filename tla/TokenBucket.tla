----------------------------- MODULE TokenBucket ----------------------------
(***************************************************************************)
(* What the rate limiter promises, without a map, mutexes or timestamps:   *)
(* every client has a bucket from the start, the clock refills all of them *)
(* at every tick, and a request is decided by what its client's holds.     *)
(***************************************************************************)
EXTENDS Integers

CONSTANTS
  IP,    \* the clients
  Unit,  \* parts in a token
  Rate,  \* parts refilled in a tick
  Full   \* parts in a full bucket

VARIABLES
  now,      \* the clock
  level,    \* per client, the parts in its bucket
  allowed,  \* per client, the requests let through
  denied    \* per client, the requests refused

vars == <<now, level, allowed, denied>>

Init ==
  /\ now = 0
  /\ level = [c \in IP |-> Full]
  /\ allowed = [c \in IP |-> 0]
  /\ denied = [c \in IP |-> 0]

\* What does not fit into a bucket is lost.
Capped(n) == IF n > Full THEN Full ELSE n

Tick ==
  /\ now' = now + 1
  /\ level' = [c \in IP |-> Capped(level[c] + Rate)]
  /\ UNCHANGED <<allowed, denied>>

Admit(c) ==
  /\ level[c] >= Unit
  /\ level' = [level EXCEPT ![c] = @ - Unit]
  /\ allowed' = [allowed EXCEPT ![c] = @ + 1]
  /\ UNCHANGED <<now, denied>>

Refuse(c) ==
  /\ level[c] < Unit
  /\ denied' = [denied EXCEPT ![c] = @ + 1]
  /\ UNCHANGED <<now, level, allowed>>

Next == Tick \/ \E c \in IP : Admit(c) \/ Refuse(c)

Spec == Init /\ [][Next]_vars

=============================================================================
