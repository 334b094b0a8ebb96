------------------------- MODULE EventStreamsProofs -------------------------
(***************************************************************************)
(* Proofs about EventStreams, for any number of sessions, streams and      *)
(* events.  They know of no locks, handlers or sockets; both transports    *)
(* take them over through their refinements.                               *)
(***************************************************************************)
EXTENDS EventStreams, TLAPS

\* Every variable has its type.
TypeOK ==
  /\ log \in [Sid -> Seq(Event)]
  /\ room \in [Stream -> Sid \cup {None}]
  /\ next \in [Stream -> Nat]
  /\ feed \in [Stream -> Seq(Event)]
  /\ \A w \in Stream : next[w] # 0 => room[w] \in Sid

\* f is a run of l, and n the index of the entry after it unless it is 0.
Run(f, l, n) ==
  \E i \in 1..Len(l) : \E j \in i..Len(l) :
    f = SubSeq(l, i, j) /\ (n # 0 => n = j + 1)

\* What a client has read is a run of the log of the session it attached to, up
\* to where it reads on.
Gapless ==
  \A w \in Stream :
    /\ room[w] = None => feed[w] = <<>>
    /\ feed[w] # <<>> => Run(feed[w], log[room[w]], next[w])

-----------------------------------------------------------------------------
(* Runs of a log.                                                          *)

\* Reading on from a run of a log gives a run, and a log that grows keeps it.
LEMMA RunGrows ==
  ASSUME NEW S, NEW l \in Seq(S), NEW e \in S, NEW i \in 1..Len(l), NEW j \in i..Len(l)
  PROVE  /\ SubSeq(Append(l, e), i, j) = SubSeq(l, i, j)
         /\ j + 1 \in 1..Len(l) => Append(SubSeq(l, i, j), l[j + 1]) = SubSeq(l, i, j + 1)
         /\ <<l[i]>> = SubSeq(l, i, i)
OBVIOUS

\* A log that grows keeps its runs, and the next entry continues a run.
LEMMA RunStays ==
  ASSUME NEW l \in Seq(Event), NEW f, NEW n, Run(f, l, n)
  PROVE  /\ \A e \in Event : Run(f, Append(l, e), n)
         /\ Run(f, l, 0)
         /\ n # 0 /\ n <= Len(l) => Run(Append(f, l[n]), l, n + 1)
<1>0. PICK i \in 1..Len(l) : \E j \in i..Len(l) : f = SubSeq(l, i, j) /\ (n # 0 => n = j + 1)
  BY DEF Run
<1>1. PICK j \in i..Len(l) : f = SubSeq(l, i, j) /\ (n # 0 => n = j + 1)
  BY <1>0
<1>2. /\ i \in Nat /\ j \in Nat /\ Len(l) \in Nat
      /\ j \in i..Len(l) /\ 1 <= i /\ i <= j /\ j <= Len(l)
  BY <1>1
<1>3. ASSUME NEW e \in Event PROVE Run(f, Append(l, e), n)
  <2>1. Len(Append(l, e)) = Len(l) + 1
    BY <1>3
  <2>2. i \in 1..Len(Append(l, e)) /\ j \in i..Len(Append(l, e))
    BY <1>2, <2>1
  <2>3. f = SubSeq(Append(l, e), i, j)
    BY <1>1, <1>2, RunGrows
  <2> QED  BY <1>1, <2>2, <2>3 DEF Run
<1>4. Run(f, l, 0)
  BY <1>1 DEF Run
<1>5. ASSUME n # 0, n <= Len(l) PROVE Run(Append(f, l[n]), l, n + 1)
  <2>1. n = j + 1 /\ j + 1 \in 1..Len(l) /\ j + 1 \in i..Len(l)
    BY <1>1, <1>2, <1>5
  <2>2. Append(f, l[n]) = SubSeq(l, i, j + 1)
    <3>1. ASSUME NEW e \in Event PROVE Append(SubSeq(l, i, j), l[j + 1]) = SubSeq(l, i, j + 1)
      BY <1>1, <2>1, RunGrows
    <3>2. l[j + 1] \in Event
      BY <2>1
    <3> QED  BY <1>1, <2>1, <3>1, <3>2
  <2> QED  BY <1>1, <2>1, <2>2 DEF Run
<1> QED  BY <1>3, <1>4, <1>5

\* An entry that follows what was read continues it, or begins a run.
LEMMA RunBegins ==
  ASSUME NEW l \in Seq(Event), NEW n \in 1..Len(l), NEW f \in Seq(Event),
         f # <<>> => Run(f, l, n)
  PROVE  Run(Append(f, l[n]), l, n + 1)
<1>1. CASE f = <<>>
  <2>1. n \in n..Len(l) /\ l[n] \in Event
    BY Zenon, SMT
  <2>2. <<l[n]>> = SubSeq(l, n, n)
    BY <2>1, RunGrows
  <2>3. Append(f, l[n]) = <<l[n]>>
    BY <1>1
  <2> QED  BY <2>1, <2>2, <2>3 DEF Run
<1>2. CASE f # <<>>
  BY <1>2, RunStays
<1> QED  BY <1>1, <1>2

-----------------------------------------------------------------------------
(* The steps.                                                              *)

\* Publishing.
LEMMA PublishGapless ==
  ASSUME TypeOK, Gapless, NEW e \in Event, NEW s \in Sid, Publish(e, s)
  PROVE  TypeOK' /\ Gapless'
<1>1. /\ log' = [log EXCEPT ![s] = Append(@, e)]
      /\ UNCHANGED <<room, next, feed>>
  BY DEF Publish
<1>2. TypeOK'
  BY <1>1 DEF TypeOK
<1>3. ASSUME NEW w \in Stream, feed[w] # <<>>
      PROVE  Run(feed[w], log'[room[w]], next[w])
  <2>1. room[w] \in Sid /\ Run(feed[w], log[room[w]], next[w])
    BY <1>3 DEF TypeOK, Gapless
  <2>2. log'[room[w]] \in {log[room[w]], Append(log[room[w]], e)}
    BY <1>1, <2>1 DEF TypeOK
  <2>3. log[room[w]] \in Seq(Event)
    BY <2>1 DEF TypeOK
  <2> QED  BY <2>1, <2>2, <2>3, RunStays
<1>4. Gapless'
  <2> SUFFICES ASSUME NEW w \in Stream
               PROVE  /\ room'[w] = None => feed'[w] = <<>>
                      /\ feed'[w] # <<>> => Run(feed'[w], log'[room'[w]], next'[w])
    BY DEF Gapless, Run
  <2> QED  BY <1>1, <1>3 DEF Gapless
<1> QED  BY <1>2, <1>4

\* Attaching.
LEMMA AttachGapless ==
  ASSUME TypeOK, Gapless, None \notin Sid, NEW g \in Stream, NEW s \in Sid, Attach(g, s)
  PROVE  TypeOK' /\ Gapless'
<1>1. /\ room[g] = None
      /\ room' = [room EXCEPT ![g] = s]
      /\ next' = [next EXCEPT ![g] = Len(log[s]) + 1]
      /\ UNCHANGED <<log, feed>>
  BY DEF Attach
<1>2. Len(log[s]) + 1 \in Nat
  BY DEF TypeOK
<1>3. /\ room'[g] = s
      /\ \A w \in Stream : w # g => room'[w] = room[w] /\ next'[w] = next[w]
  BY <1>1 DEF TypeOK
<1>4. TypeOK'
  BY <1>1, <1>2, <1>3 DEF TypeOK
<1>5. Gapless'
  <2> SUFFICES ASSUME NEW w \in Stream
               PROVE  /\ room'[w] = None => feed'[w] = <<>>
                      /\ feed'[w] # <<>> => Run(feed'[w], log'[room'[w]], next'[w])
    BY DEF Gapless, Run
  <2>1. CASE w = g
    BY <1>1, <1>3, <2>1 DEF Gapless
  <2>2. CASE w # g
    BY <1>1, <1>3, <2>2 DEF Gapless
  <2> QED  BY <2>1, <2>2
<1> QED  BY <1>4, <1>5

\* Reading.
LEMMA ReadGapless ==
  ASSUME TypeOK, Gapless, None \notin Sid, NEW g \in Stream, Read(g)
  PROVE  TypeOK' /\ Gapless'
<1> DEFINE l == log[room[g]]
           n == next[g]
<1>1. /\ n # 0 /\ n <= Len(l)
      /\ feed' = [feed EXCEPT ![g] = Append(@, l[n])]
      /\ next' = [next EXCEPT ![g] = n + 1]
      /\ UNCHANGED <<log, room>>
  BY DEF Read
<1>2. room[g] \in Sid /\ l \in Seq(Event) /\ n \in 1..Len(l) /\ feed[g] \in Seq(Event)
  BY <1>1 DEF TypeOK
<1>3. /\ feed'[g] = Append(feed[g], l[n]) /\ next'[g] = n + 1
      /\ \A w \in Stream : w # g => feed'[w] = feed[w] /\ next'[w] = next[w]
  BY <1>1 DEF TypeOK
<1> HIDE DEF l, n
<1>4. TypeOK'
  <2>1. l[n] \in Event /\ n + 1 \in Nat
    BY <1>2
  <2>2. Append(feed[g], l[n]) \in Seq(Event)
    BY <1>2, <2>1
  <2> QED  BY <1>1, <1>2, <1>3, <2>1, <2>2 DEF TypeOK
<1>5. Run(feed'[g], l, n + 1)
  <2>1. feed[g] # <<>> => Run(feed[g], l, n)
    BY DEF Gapless, l, n
  <2> QED  BY <1>2, <1>3, <2>1, RunBegins
<1>6. Gapless'
  <2> SUFFICES ASSUME NEW w \in Stream
               PROVE  /\ room'[w] = None => feed'[w] = <<>>
                      /\ feed'[w] # <<>> => Run(feed'[w], log'[room'[w]], next'[w])
    BY DEF Gapless, Run
  <2>1. CASE w = g
    BY <1>1, <1>2, <1>3, <1>5, <2>1 DEF l
  <2>2. CASE w # g
    BY <1>1, <1>3, <2>2 DEF Gapless
  <2> QED  BY <2>1, <2>2
<1> QED  BY <1>4, <1>6

\* Detaching.
LEMMA DetachGapless ==
  ASSUME TypeOK, Gapless, NEW W, Detach(W)
  PROVE  TypeOK' /\ Gapless'
<1>1. /\ next' = [w \in Stream |-> IF w \in W THEN 0 ELSE next[w]]
      /\ UNCHANGED <<log, room, feed>>
  BY DEF Detach
<1>2. TypeOK'
  BY <1>1 DEF TypeOK
<1>3. ASSUME NEW w \in Stream, feed[w] # <<>>
      PROVE  Run(feed[w], log[room[w]], next'[w])
  <2>1. room[w] \in Sid /\ Run(feed[w], log[room[w]], next[w])
    BY <1>3 DEF TypeOK, Gapless
  <2>2. log[room[w]] \in Seq(Event)
    BY <2>1 DEF TypeOK
  <2>3. next'[w] \in {0, next[w]}
    BY <1>1
  <2> QED  BY <2>1, <2>2, <2>3, RunStays
<1>4. Gapless'
  <2> SUFFICES ASSUME NEW w \in Stream
               PROVE  /\ room'[w] = None => feed'[w] = <<>>
                      /\ feed'[w] # <<>> => Run(feed'[w], log'[room'[w]], next'[w])
    BY DEF Gapless, Run
  <2> QED  BY <1>1, <1>3 DEF Gapless
<1> QED  BY <1>2, <1>4

-----------------------------------------------------------------------------
(* The theorems.                                                           *)

\* Whatever is published and whoever comes and goes, no client misses an entry
\* of its session's log between the first and the last it has read.
THEOREM NoGaps == None \notin Sid => (Spec => [](TypeOK /\ Gapless))
<1> SUFFICES ASSUME None \notin Sid PROVE Spec => [](TypeOK /\ Gapless)
  OBVIOUS
<1>1. Init => TypeOK /\ Gapless
  BY DEF Init, TypeOK, Gapless
<1>2. (TypeOK /\ Gapless) /\ [Next]_vars => (TypeOK /\ Gapless)'
  <2> SUFFICES ASSUME TypeOK, Gapless, [Next]_vars PROVE TypeOK' /\ Gapless'
    OBVIOUS
  <2>1. CASE Next
    BY <2>1, PublishGapless, AttachGapless, ReadGapless, DetachGapless DEF Next
  <2>2. CASE UNCHANGED vars
    BY <2>2 DEF vars, TypeOK, Gapless, Run
  <2> QED  BY <2>1, <2>2
<1> QED  BY <1>1, <1>2, PTL DEF Spec

\* A stream that has detached never reads again, nor changes its session.
StaysDetached ==
  \A w \in Stream : room[w] # None /\ next[w] = 0 =>
    next'[w] = 0 /\ room'[w] = room[w] /\ feed'[w] = feed[w]

\* Detaching is for good.  (T: the variables are functions, so that EXCEPT changes
\* one stream and no other.)
THEOREM DetachedForGood == Spec => [][StaysDetached]_vars
<1> DEFINE T == /\ room = [w \in Stream |-> room[w]] /\ next = [w \in Stream |-> next[w]]
                /\ feed = [w \in Stream |-> feed[w]]
<1>1. Init => T
  BY DEF Init
<1>2. T /\ [Next]_vars => T'
  <2> SUFFICES ASSUME T, [Next]_vars PROVE T'
    OBVIOUS
  <2>1. CASE Next
    BY <2>1 DEF Next, Publish, Attach, Read, Detach
  <2>2. CASE UNCHANGED vars
    BY <2>2 DEF vars
  <2> QED  BY <2>1, <2>2
<1>3. T /\ [Next]_vars => [StaysDetached]_vars
  <2> SUFFICES ASSUME T, Next PROVE StaysDetached
    BY DEF vars
  <2> SUFFICES ASSUME NEW w \in Stream, room[w] # None, next[w] = 0
               PROVE  next'[w] = 0 /\ room'[w] = room[w] /\ feed'[w] = feed[w]
    BY DEF StaysDetached
  <2>1. ASSUME NEW e \in Event, NEW s \in Sid, Publish(e, s) PROVE UNCHANGED <<room, next, feed>>
    BY <2>1 DEF Publish
  <2>2. ASSUME NEW g \in Stream, NEW s \in Sid, Attach(g, s)
        PROVE  next'[w] = 0 /\ room'[w] = room[w] /\ feed'[w] = feed[w]
    BY <2>2 DEF Attach
  <2>3. ASSUME NEW g \in Stream, Read(g)
        PROVE  next'[w] = 0 /\ room'[w] = room[w] /\ feed'[w] = feed[w]
    BY <2>3 DEF Read
  <2>4. ASSUME NEW W, Detach(W)
        PROVE  next'[w] = 0 /\ room'[w] = room[w] /\ feed'[w] = feed[w]
    BY <2>4 DEF Detach
  <2> QED  BY <2>1, <2>2, <2>3, <2>4 DEF Next
<1> HIDE DEF T
<1> QED  BY <1>1, <1>2, <1>3, PTL DEF Spec

-----------------------------------------------------------------------------
(* What it means for the events that an event is published once.           *)

\* No event is twice in s.
Distinct(s) == \A i, j \in 1..Len(s) : s[i] = s[j] => i = j

LogsOnce == \A s \in Sid : Distinct(log[s])

\* No client reads an event twice.
ReadOnce == \A w \in Stream : Distinct(feed[w])

\* Two clients of one session that have both read two events have read them in
\* the same order, and with as many others in between.
SameOrder ==
  \A v, w \in Stream : room[v] = room[w] =>
    \A i, j \in 1..Len(feed[v]), k, m \in 1..Len(feed[w]) :
      feed[v][i] = feed[w][k] /\ feed[v][j] = feed[w][m] => i + m = j + k

\* The entry after the last is a new one.
LEMMA DistinctGrows ==
  ASSUME NEW l \in Seq(Event), NEW e \in Event, Distinct(l),
         \A i \in 1..Len(l) : l[i] # e
  PROVE  Distinct(Append(l, e))
<1>1. /\ Len(Append(l, e)) = Len(l) + 1 /\ Len(l) \in Nat
      /\ Append(l, e)[Len(l) + 1] = e
      /\ \A i \in 1..Len(l) : Append(l, e)[i] = l[i]
  OBVIOUS
<1>2. \A i \in 1..Len(l) + 1 : i \in 1..Len(l) \/ i = Len(l) + 1
  BY <1>1
<1> QED  BY <1>1, <1>2 DEF Distinct

\* Logs have each event once.
LEMMA NextLogsOnce == ASSUME TypeOK, LogsOnce, [Next]_vars PROVE LogsOnce'
<1>1. ASSUME NEW e \in Event, NEW s \in Sid, Publish(e, s) PROVE LogsOnce'
  <2>1. /\ log'[s] = Append(log[s], e) /\ log[s] \in Seq(Event)
        /\ \A t \in Sid : t # s => log'[t] = log[t]
        /\ \A i \in 1..Len(log[s]) : log[s][i] # e
    BY <1>1 DEF Publish, TypeOK
  <2>2. Distinct(log'[s])
    BY <2>1, DistinctGrows DEF LogsOnce
  <2> QED  BY <2>1, <2>2 DEF LogsOnce, Distinct
<1>2. CASE UNCHANGED log
  BY <1>2 DEF LogsOnce, Distinct
<1> QED  BY <1>1, <1>2 DEF Next, Attach, Read, Detach, vars

\* A run is its log from some place on.
LEMMA RunIsLog ==
  ASSUME NEW l \in Seq(Event), NEW f, NEW n, Run(f, l, n)
  PROVE  \E o \in Nat : \A i \in 1..Len(f) : o + i \in 1..Len(l) /\ f[i] = l[o + i]
<1>1. PICK i \in 1..Len(l) : \E j \in i..Len(l) : f = SubSeq(l, i, j)
  BY DEF Run
<1>2. PICK j \in i..Len(l) : f = SubSeq(l, i, j)
  BY <1>1
<1>3. /\ i \in Nat \ {0} /\ j \in Nat /\ Len(l) \in Nat /\ i <= j /\ j <= Len(l)
  BY <1>2
<1>4. Len(f) = j - i + 1 /\ \A k \in 1..Len(f) : f[k] = l[i + k - 1]
  BY <1>2, <1>3
<1>5. PICK o \in Nat : o + 1 = i
  <2>1. i - 1 \in Nat /\ (i - 1) + 1 = i
    BY <1>3
  <2> QED  BY <2>1
<1>6. ASSUME NEW k \in 1..Len(f) PROVE o + k \in 1..Len(l) /\ f[k] = l[o + k]
  BY <1>3, <1>4, <1>5
<1> QED  BY <1>6

\* The same for what a client has read, also when that is nothing.
LEMMA FeedIsLog ==
  ASSUME TypeOK, Gapless, NEW w \in Stream
  PROVE  \E o \in Nat : \A i \in 1..Len(feed[w]) :
           /\ room[w] \in Sid
           /\ o + i \in 1..Len(log[room[w]])
           /\ feed[w][i] = log[room[w]][o + i]
<1>1. CASE feed[w] = <<>>
  <2>1. \A i \in 1..Len(feed[w]) : FALSE
    BY <1>1
  <2> QED  BY <2>1
<1>2. CASE feed[w] # <<>>
  <2> DEFINE l == log[room[w]]
             f == feed[w]
             n == next[w]
  <2>1. room[w] \in Sid /\ l \in Seq(Event) /\ Run(f, l, n)
    BY <1>2 DEF TypeOK, Gapless
  <2> HIDE DEF l, f, n
  <2>2. PICK o \in Nat : \A i \in 1..Len(f) : o + i \in 1..Len(l) /\ f[i] = l[o + i]
    BY <2>1, RunIsLog
  <2>3. \A i \in 1..Len(feed[w]) :
          /\ room[w] \in Sid
          /\ o + i \in 1..Len(log[room[w]])
          /\ feed[w][i] = log[room[w]][o + i]
    BY <2>1, <2>2 DEF l, f
  <2> QED  BY <2>3
<1> QED  BY <1>1, <1>2

\* An event is published to a session once; so a client reads it once at most, and
\* the clients of a session read what they both read in one order.
THEOREM AtMostOnce == None \notin Sid => (Spec => [](ReadOnce /\ SameOrder))
<1> SUFFICES ASSUME None \notin Sid PROVE Spec => [](ReadOnce /\ SameOrder)
  OBVIOUS
<1>1. Init => LogsOnce
  BY DEF Init, LogsOnce, Distinct
<1>2. TypeOK /\ Gapless /\ LogsOnce => ReadOnce /\ SameOrder
  <2> SUFFICES ASSUME TypeOK, Gapless, LogsOnce PROVE ReadOnce /\ SameOrder
    OBVIOUS
  <2>1. ASSUME NEW v \in Stream, NEW w \in Stream, room[v] = room[w],
               NEW i \in 1..Len(feed[v]), NEW j \in 1..Len(feed[v]),
               NEW k \in 1..Len(feed[w]), NEW m \in 1..Len(feed[w]),
               feed[v][i] = feed[w][k], feed[v][j] = feed[w][m]
        PROVE  i + m = j + k
    <3>1. PICK o \in Nat : \A n \in 1..Len(feed[v]) :
                 /\ room[v] \in Sid /\ o + n \in 1..Len(log[room[v]])
                 /\ feed[v][n] = log[room[v]][o + n]
      BY FeedIsLog
    <3>2. PICK q \in Nat : \A n \in 1..Len(feed[w]) :
                 /\ room[w] \in Sid /\ q + n \in 1..Len(log[room[w]])
                 /\ feed[w][n] = log[room[w]][q + n]
      BY FeedIsLog
    <3>3. room[v] \in Sid /\ Distinct(log[room[v]])
      BY <3>1 DEF LogsOnce
    <3>4. o + i = q + k
      <4>1. /\ o + i \in 1..Len(log[room[v]]) /\ feed[v][i] = log[room[v]][o + i]
            /\ q + k \in 1..Len(log[room[v]]) /\ feed[w][k] = log[room[v]][q + k]
        BY <2>1, <3>1, <3>2
      <4> QED  BY <2>1, <3>3, <4>1 DEF Distinct
    <3>5. o + j = q + m
      <4>1. /\ o + j \in 1..Len(log[room[v]]) /\ feed[v][j] = log[room[v]][o + j]
            /\ q + m \in 1..Len(log[room[v]]) /\ feed[w][m] = log[room[v]][q + m]
        BY <2>1, <3>1, <3>2
      <4> QED  BY <2>1, <3>3, <4>1 DEF Distinct
    <3>6. i \in Nat /\ j \in Nat /\ k \in Nat /\ m \in Nat
      BY DEF TypeOK
    <3> QED  BY <3>4, <3>5, <3>6
  <2>2. SameOrder
    BY <2>1 DEF SameOrder
  <2>3. ASSUME NEW w \in Stream, NEW i \in 1..Len(feed[w]), NEW j \in 1..Len(feed[w]),
               feed[w][i] = feed[w][j]
        PROVE  i = j
    <3>1. i + j = j + j
      BY <2>1, <2>3
    <3> QED  BY <3>1 DEF TypeOK
  <2> QED  BY <2>2, <2>3 DEF ReadOnce, Distinct
<1> QED  BY NoGaps, NextLogsOnce, <1>1, <1>2, PTL DEF Spec

=============================================================================
