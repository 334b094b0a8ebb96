------------------------------ MODULE Sessions ------------------------------
(***************************************************************************)
(* The session manager shared by the two HTTP transports                   *)
(* (framework/transport/session.go): the map of sessions under a           *)
(* sync.RWMutex, and per session the list of SSE writers under a           *)
(* sync.Mutex.  Every goroutine of net/http calls into it concurrently.    *)
(*                                                                         *)
(* The module has the state and the steps; Streamable and Sse are the      *)
(* handlers that take them.  A critical section in which the code cannot   *)
(* block is one step.  writeSSE keeps the session's mutex across network   *)
(* writes, so it is one step per loop iteration and one per write.         *)
(*                                                                         *)
(* An event is named by the goroutine that sends it: each sends one.       *)
(***************************************************************************)
EXTENDS Naturals, Sequences, FiniteSets

CONSTANTS
  Sid,     \* the ids crypto/rand will produce, pairwise distinct
  Stream,  \* the GET handlers; each one registers one sseWriter
  Proc,    \* all goroutines that call the session manager
  None     \* nil, the empty id, "nobody holds the lock"

ASSUME SessionsAssumption ==
  /\ Stream \subseteq Proc
  /\ None \notin Proc
  /\ None \notin Sid

VARIABLES
  pc,        \* where each goroutine is
  sess,      \* its local s: the session it works on
  sessions,  \* sm.sessions, as the set of its keys
  used,      \* every id Create has returned
  pending,   \* sm.mu: the goroutine in Lock(), which shuts new readers out
  readers,   \* sm.mu: the goroutines that hold RLock
  writers,   \* s.writers, as a set: the order of the writers is not observable
  mu,        \* s.mu: its owner
  closed,    \* sw.closed
  done,      \* whether sw.done is closed
  todo,      \* Broadcast: the sessions its range loop has still to visit
  left,      \* writeSSE: the writers its range loop has still to visit
  kept,      \* writeSSE: the filtered slice `active`
  out,       \* writeSSE: the writer whose Fprintf is in progress
  sent,      \* the events written on each connection, in order
  hist,      \* history: the order in which writeSSE calls entered a session
  due        \* history: the streams that were open when a Broadcast began

mapVars   == <<sessions, used, pending, readers>>
writeVars == <<left, kept, out, sent, hist>>
sessVars  == <<writers, mu, closed, done>>

NewSessionManager ==
  /\ sessions = {}
  /\ used = {}
  /\ pending = None
  /\ readers = {}
  /\ writers = [s \in Sid |-> {}]
  /\ mu = [s \in Sid |-> None]
  /\ closed = [w \in Stream |-> FALSE]
  /\ done = [w \in Stream |-> FALSE]
  /\ pc = [p \in Proc |-> "idle"]
  /\ sess = [p \in Proc |-> None]
  /\ todo = [p \in Proc |-> {}]
  /\ left = [p \in Proc |-> {}]
  /\ kept = [p \in Proc |-> {}]
  /\ out = [p \in Proc |-> None]
  /\ sent = [w \in Stream |-> <<>>]
  /\ hist = [s \in Sid |-> <<>>]
  /\ due = [p \in Proc |-> {}]

Goto(p, from, to) ==
  /\ pc[p] = from
  /\ pc' = [pc EXCEPT ![p] = to]

-----------------------------------------------------------------------------
(* The locks.                                                              *)

\* RLock waits while a writer is pending.
CanRLock == pending = None

\* Lock first claims the writer's side; from here on no reader enters.
MapLock(p, from, to) ==
  /\ Goto(p, from, to)
  /\ pending = None
  /\ pending' = p
  /\ UNCHANGED <<sess, sessions, used, readers, todo, due, sessVars, writeVars>>

\* Lock returns when the readers that were inside have left.
MapLocked(p) == pending = p /\ readers = {}

\* Mutant: writeSSE and the others run without s.mu.
SessionUnlocked(s) == TRUE

\* s.mu.Lock() returns.
SessionLockFree(s) == mu[s] = None

-----------------------------------------------------------------------------
(* Create, Get, Delete                                                     *)

\* Mutant: an id is given out again once its session is deleted.
ReusedIds == Sid \ sessions

\* Mutant: ids collide.
CollidingIds == Sid

\* What rand.Read can return: an id is never drawn twice.
FreshIds == Sid \ used

\* The critical section of Create: a fresh id enters the map.
CreateInsert(p, from, to) ==
  /\ Goto(p, from, to)
  /\ MapLocked(p)
  /\ \E s \in FreshIds :
       /\ sessions' = sessions \cup {s}
       /\ used' = used \cup {s}
       /\ sess' = [sess EXCEPT ![p] = s]
  /\ pending' = None
  /\ UNCHANGED <<readers, todo, due, sessVars, writeVars>>

\* Mutant: Get never finds a session.
GetNothing(id) == None

\* Get, one critical section under RLock.
GetSession(id) == IF id \in sessions THEN id ELSE None

\* The first critical section of Delete, on the map.
DeleteRemove(p, id, from, found, missing) ==
  /\ Goto(p, from, IF id \in sessions THEN found ELSE missing)
  /\ MapLocked(p)
  /\ sessions' = sessions \ {id}
  /\ pending' = None
  /\ UNCHANGED <<sess, used, readers, todo, due, sessVars, writeVars>>

\* Mutant: Delete goes over the writers of all sessions.
SweepEverybody(id) == UNION {writers[s] : s \in Sid}

\* The writers whose done channel the second critical section closes.
SweptBy(id) == writers[id]

\* The second critical section of Delete, on the session it took out.
DeleteSweep(p, id, from, to) ==
  /\ Goto(p, from, to)
  /\ SessionLockFree(id)
  /\ closed' = [w \in Stream |-> closed[w] \/ w \in SweptBy(id)]
  /\ done' = [w \in Stream |-> done[w] \/ w \in SweptBy(id)]
  /\ UNCHANGED <<sess, todo, due, writers, mu, mapVars, writeVars>>

-----------------------------------------------------------------------------
(* addWriter and the cleanup function it returns                           *)

\* Mutant: addWriter does not lock.
AddUnlocked(w) == TRUE

\* What addWriter waits for before it appends to s.writers.
AddReady(w) == SessionLockFree(sess[w])

AddWriter(w, from, to) ==
  /\ Goto(w, from, to)
  /\ AddReady(w)
  /\ writers' = [writers EXCEPT ![sess[w]] = @ \cup {w}]
  /\ UNCHANGED <<sess, todo, due, mu, closed, done, mapVars, writeVars>>

\* Mutant: cleanup does not lock.
CleanupUnlocked(w) == TRUE

\* What cleanup waits for before it sets sw.closed.
CleanupReady(w) == SessionLockFree(sess[w])

Cleanup(w, from, to) ==
  /\ Goto(w, from, to)
  /\ CleanupReady(w)
  /\ closed' = [closed EXCEPT ![w] = TRUE]
  /\ UNCHANGED <<sess, todo, due, writers, mu, done, mapVars, writeVars>>

-----------------------------------------------------------------------------
(* writeSSE.  A goroutine in it has pc "write"; Fprintf and Flush on one   *)
(* connection last from WriteNext to WriteOk or WriteFail.                 *)

\* s.mu.Lock() and the start of the range loop.
WriteLock(p, s, from) ==
  /\ Goto(p, from, "write")
  /\ SessionLockFree(s)
  /\ mu' = [mu EXCEPT ![s] = p]
  /\ sess' = [sess EXCEPT ![p] = s]
  /\ left' = [left EXCEPT ![p] = writers[s]]
  /\ kept' = [kept EXCEPT ![p] = {}]
  /\ hist' = [hist EXCEPT ![s] = Append(@, p)]
  /\ todo' = [todo EXCEPT ![p] = @ \ {s}]
  /\ UNCHANGED <<due, writers, closed, done, out, sent, mapVars>>

\* Mutant: writeSSE does not look at sw.closed.
WriteToAll(w) == TRUE

\* Whether the loop writes to w; otherwise it drops w from the list.
IsActive(w) == ~closed[w]

\* The next iteration takes a writer.
WriteNext(p) ==
  /\ pc[p] = "write"
  /\ out[p] = None
  /\ \E w \in left[p] :
       /\ left' = [left EXCEPT ![p] = @ \ {w}]
       /\ out' = IF IsActive(w) THEN [out EXCEPT ![p] = w] ELSE out
  /\ UNCHANGED <<pc, sess, todo, due, kept, sent, hist, mapVars, sessVars>>

\* Fprintf returned no error: flush, and keep the writer.
WriteOk(p) ==
  /\ pc[p] = "write"
  /\ out[p] # None
  /\ sent' = [sent EXCEPT ![out[p]] = Append(@, p)]
  /\ kept' = [kept EXCEPT ![p] = @ \cup {out[p]}]
  /\ out' = [out EXCEPT ![p] = None]
  /\ UNCHANGED <<pc, sess, todo, due, left, hist, mapVars, sessVars>>

\* Mutant: writeSSE tries again after an error.
WriteRetries(p, broken) ==
  /\ pc[p] = "write"
  /\ out[p] \in broken
  /\ left' = [left EXCEPT ![p] = @ \cup {out[p]}]
  /\ out' = [out EXCEPT ![p] = None]
  /\ UNCHANGED <<pc, sess, todo, due, kept, sent, hist, mapVars, sessVars>>

\* Fprintf returned an error: the connection of the writer is broken.
WriteFail(p, broken) ==
  /\ pc[p] = "write"
  /\ out[p] \in broken
  /\ closed' = [closed EXCEPT ![out[p]] = TRUE]
  /\ out' = [out EXCEPT ![p] = None]
  /\ UNCHANGED <<pc, sess, todo, due, left, kept, sent, hist, writers, mu, done,
                 mapVars>>

\* The list that replaces s.writers once the loop has ended.
Filtered(p) == kept[p]

\* s.writers = active, and the deferred Unlock.
WriteUnlock(p, to) ==
  /\ Goto(p, "write", to)
  /\ left[p] = {}
  /\ out[p] = None
  /\ writers' = [writers EXCEPT ![sess[p]] = Filtered(p)]
  /\ mu' = [mu EXCEPT ![sess[p]] = None]
  /\ UNCHANGED <<sess, todo, due, closed, done, mapVars, writeVars>>

-----------------------------------------------------------------------------
(* Broadcast: the read lock is held from the first session to the last.    *)

\* The streams that are open on these sessions and not closed.
ActiveStreams(ids) ==
  {w \in Stream : pc[w] = "streaming" /\ sess[w] \in ids /\ ~closed[w]}

\* Mutant: Broadcast copies the map and lets the read lock go.
RUnlockedEarly(p) == readers

\* Whom Lock waits for while the range loop runs.
RLocked(p) == readers \cup {p}

BroadcastBegin(p, from) ==
  /\ Goto(p, from, "range")
  /\ CanRLock
  /\ readers' = RLocked(p)
  /\ todo' = [todo EXCEPT ![p] = sessions]
  /\ due' = [due EXCEPT ![p] = ActiveStreams(sessions)]
  /\ UNCHANGED <<sess, sessions, used, pending, sessVars, writeVars>>

BroadcastSession(p) == \E s \in todo[p] : WriteLock(p, s, "range")

\* Mutant: Broadcast returns without RUnlock.
BroadcastEndsLocked(p, to) ==
  /\ Goto(p, "range", to)
  /\ todo[p] = {}
  /\ UNCHANGED <<sess, todo, due, mapVars, sessVars, writeVars>>

BroadcastEnd(p, to) ==
  /\ Goto(p, "range", to)
  /\ todo[p] = {}
  /\ readers' = readers \ {p}
  /\ UNCHANGED <<sess, sessions, used, pending, todo, due, sessVars, writeVars>>

-----------------------------------------------------------------------------
(* Event streams as their clients know them, for the refinement of         *)
(* EventStreams.                                                           *)

\* addWriter was called for w.
Attached(w) == sess[w] # None /\ (closed[w] \/ w \in writers[sess[w]])

\* The event last sent to w's session is still on its way to w.
Awaits(w) ==
  \E p \in Proc : /\ pc[p] = "write"
                  /\ sess[p] = sess[w]
                  /\ w \in left[p] \/ out[p] = w

RoomOf(w) == IF Attached(w) THEN sess[w] ELSE None

NextOf(w) ==
  IF ~Attached(w) \/ closed[w] THEN 0
  ELSE Len(hist[sess[w]]) + (IF Awaits(w) THEN 0 ELSE 1)

=============================================================================
