---------------------------- MODULE EventStreams ----------------------------
(***************************************************************************)
(* What an HTTP transport promises about event streams, without locks,     *)
(* sockets or handlers: each session has a log, in which an event is once, *)
(* a stream attaches to the end of one log, reads on from there without    *)
(* gaps, and may detach at any time, never to come back.                   *)
(***************************************************************************)
EXTENDS Naturals, Sequences

CONSTANTS
  Sid,     \* sessions
  Stream,  \* event streams
  Event,   \* what can be sent
  None     \* no session

VARIABLES
  log,     \* per session, everything sent to it
  room,    \* per stream, the session it is or was attached to
  next,    \* per stream, the index of the entry it reads next; 0 when detached
  feed     \* per stream, what its client has read

vars == <<log, room, next, feed>>

Init ==
  /\ log = [s \in Sid |-> <<>>]
  /\ room = [w \in Stream |-> None]
  /\ next = [w \in Stream |-> 0]
  /\ feed = [w \in Stream |-> <<>>]

\* An event is sent to a session once.
Publish(e, s) ==
  /\ \A i \in 1..Len(log[s]) : log[s][i] # e
  /\ log' = [log EXCEPT ![s] = Append(@, e)]
  /\ UNCHANGED <<room, next, feed>>

Attach(w, s) ==
  /\ room[w] = None
  /\ room' = [room EXCEPT ![w] = s]
  /\ next' = [next EXCEPT ![w] = Len(log[s]) + 1]
  /\ UNCHANGED <<log, feed>>

Read(w) ==
  /\ next[w] # 0
  /\ next[w] <= Len(log[room[w]])
  /\ feed' = [feed EXCEPT ![w] = Append(@, log[room[w]][next[w]])]
  /\ next' = [next EXCEPT ![w] = @ + 1]
  /\ UNCHANGED <<log, room>>

\* A DELETE detaches every stream of its session at once.
Detach(W) ==
  /\ next' = [w \in Stream |-> IF w \in W THEN 0 ELSE next[w]]
  /\ UNCHANGED <<log, room, feed>>

Next ==
  \/ \E e \in Event, s \in Sid : Publish(e, s)
  \/ \E w \in Stream, s \in Sid : Attach(w, s)
  \/ \E w \in Stream : Read(w)
  \/ \E W \in SUBSET {w \in Stream : room[w] # None} : Detach(W)

Spec == Init /\ [][Next]_vars

=============================================================================
