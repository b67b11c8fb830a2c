----------------------------- MODULE ReadsProofs -----------------------------
(***************************************************************************)
(* Proofs about Reads, for any gets, any finite set of queries and any     *)
(* bounds.  A handler of the worker queue is a chain of functions on the   *)
(* state w; a lemma for each link says which fields it may change.         *)
(***************************************************************************)
EXTENDS Reads, TLAPS

----------------------------------------------------------------------------
(***************************************************************************)
(* The facts about sequences that the proofs use.                          *)
(***************************************************************************)
\* A sequence is a function on its places.
LEMMA LenFacts ==
  ASSUME NEW S, NEW s \in Seq(S)
  PROVE  Len(s) \in Nat /\ DOMAIN s = 1 .. Len(s) /\ s \in [1 .. Len(s) -> S]
OBVIOUS

\* What is at a place of a sequence.
LEMMA ElementFacts ==
  ASSUME NEW S, NEW s \in Seq(S), NEW i \in 1 .. Len(s)
  PROVE  s[i] \in S
OBVIOUS

\* The empty sequence has no place.
LEMMA EmptyFacts ==
  ASSUME NEW S
  PROVE  <<>> \in Seq(S) /\ \A s \in Seq(S) : s = <<>> <=> Len(s) = 0
OBVIOUS

\* An element is appended at a place of its own.
LEMMA AppendFacts ==
  ASSUME NEW S, NEW s \in Seq(S), NEW x \in S
  PROVE  LET t == Append(s, x)
         IN  /\ t \in Seq(S) /\ t # <<>> /\ Len(t) = Len(s) + 1
             /\ t[Len(s) + 1] = x /\ \A i \in 1 .. Len(s) : t[i] = s[i]
OBVIOUS

\* Without its first element, a sequence moves up by one place.
LEMMA HeadTailFacts ==
  ASSUME NEW S, NEW s \in Seq(S), s # <<>>
  PROVE  /\ Head(s) \in S /\ Tail(s) \in Seq(S) /\ Len(Tail(s)) = Len(s) - 1
         /\ \A i \in 1 .. Len(Tail(s)) : Tail(s)[i] = s[i + 1]
OBVIOUS

----------------------------------------------------------------------------
(***************************************************************************)
(* Invariants of the state of the worker queue.                            *)
(***************************************************************************)
Watched(v) ==
  \A q \in Queries : /\ v.listeners[q] # {} <=> q \in v.targets
                     /\ v.view[q] # "none" <=> q \in v.targets

Timer(v) ==
  /\ v.timer => v.online = "Unknown" /\ v.failures = 0 /\ IsStarted(v)
  /\ v.online = "Online" => v.failures = 0 /\ ~v.timer

Idle(v) == v.idle => v.targets = {} /\ IsOpen(v)

(***************************************************************************)
(* Invariants of the gets: ph, mu and wk are the values of phase, muted    *)
(* and work.  A refusal is the last event of its get, which is then gone;  *)
(* a get that is answered and not muted was refused.                       *)
(***************************************************************************)
Listening(v, g) == \E q \in Queries : g \in v.listeners[q]

Gone(v, g, ph, wk) ==
  /\ ph[g] # "new"
  /\ ~Listening(v, g)
  /\ \A i \in 1 .. Len(wk) : wk[i].get = g => wk[i].op # "listen"

Inboxes(v, ph, wk) ==
  \A g \in Gets : \A i \in 1 .. Len(v.inbox[g]) :
    v.inbox[g][i] = "error" => i = Len(v.inbox[g]) /\ Gone(v, g, ph, wk)

Refused(v, ph, mu, wk) ==
  \A g \in Gets : ph[g] = "answered" /\ g \notin mu =>
    v.inbox[g] = <<>> /\ Gone(v, g, ph, wk)

GetsOK(v, ph, mu, wk) == Inboxes(v, ph, wk) /\ Refused(v, ph, mu, wk)

\* r is v with other events, views of the same targets and another state of
\* the stream: everything a chain of handlers does besides listening.
Follows(r, v) ==
  /\ r \in Worker
  /\ r.listeners = v.listeners
  /\ \A q \in Queries : r.view[q] = "none" <=> v.view[q] = "none"
  /\ \A ph, mu, wk : GetsOK(v, ph, mu, wk) => GetsOK(r, ph, mu, wk)

\* The fields of the state of the worker have their types.
LEMMA WorkerFields ==
  ASSUME NEW v \in Worker
  PROVE  /\ v.online \in {"Unknown", "Online", "Offline"} /\ v.failures \in 0 .. 1
         /\ v.timer \in BOOLEAN
         /\ v.state \in {"Initial", "Starting", "Open", "Backoff", "Error"}
         /\ v.idle \in BOOLEAN /\ v.up \in Seq(Request) /\ v.down \in Seq(Message)
         /\ v.pending \in [Queries -> Int] /\ v.targets \in SUBSET Queries
         /\ v.listeners \in [Queries -> SUBSET Gets] /\ v.raised \in SUBSET Gets
         /\ v.view \in [Queries -> {"none", "local", "synced"}]
         /\ v.current \in [Queries -> Nat] /\ v.changes \in SUBSET Queries
         /\ v.inbox \in [Gets -> Seq(Event)]
BY Zenon DEF Worker

\* Nothing happened.
LEMMA FollowsItself ==
  ASSUME NEW v \in Worker
  PROVE  Follows(v, v)
BY Zenon DEF Follows

\* One chain of handlers after another.
LEMMA FollowsOn ==
  ASSUME NEW u, NEW v, NEW r, Follows(v, u), Follows(r, v)
  PROVE  Follows(r, u)
BY Zenon DEF Follows

\* A step that leaves listeners, views and inboxes alone.
LEMMA FollowsQuietly ==
  ASSUME NEW v \in Worker, NEW r \in Worker,
         r.listeners = v.listeners, r.view = v.view, r.inbox = v.inbox
  PROVE  Follows(r, v)
BY DEF Follows, GetsOK, Inboxes, Refused, Gone, Listening

\* Raise adds an event for gets that listen, and changes nothing else.
LEMMA RaiseFields ==
  ASSUME NEW v \in Worker, NEW gs \in SUBSET Gets, NEW e \in Event
  PROVE  LET r == Raise(v, gs, e)
         IN  /\ r \in Worker
             /\ r.online = v.online /\ r.failures = v.failures /\ r.timer = v.timer
             /\ r.state = v.state /\ r.idle = v.idle /\ r.up = v.up /\ r.down = v.down
             /\ r.pending = v.pending /\ r.targets = v.targets
             /\ r.listeners = v.listeners /\ r.view = v.view /\ r.current = v.current
             /\ \A g \in Gets \ gs : r.inbox[g] = v.inbox[g]
             /\ \A g \in gs : r.inbox[g] = Append(v.inbox[g], e)
<1> DEFINE box == [g \in Gets |-> IF g \in gs THEN Append(v.inbox[g], e) ELSE v.inbox[g]]
           ra == v.raised \cup gs
<1>1. Raise(v, gs, e) = [v EXCEPT !.raised = ra, !.inbox = box]
  BY Zenon DEF Raise, Worker
<1>2. v.inbox \in [Gets -> Seq(Event)] /\ v.raised \in SUBSET Gets
  BY Zenon DEF Worker
<1>3. \A g \in Gets : Append(v.inbox[g], e) \in Seq(Event)
  BY <1>2, AppendFacts, Zenon
<1>4. box \in [Gets -> Seq(Event)] /\ ra \in SUBSET Gets
  BY <1>2, <1>3, Zenon
<1>5. /\ \A g \in Gets \ gs : box[g] = v.inbox[g]
      /\ \A g \in gs : box[g] = Append(v.inbox[g], e)
  BY Zenon
<1> HIDE DEF box, ra
<1> DEFINE r == [v EXCEPT !.raised = ra, !.inbox = box]
<1>6. r \in Worker
  BY <1>4, Zenon DEF Worker
<1>7. /\ r.online = v.online /\ r.failures = v.failures /\ r.timer = v.timer
      /\ r.state = v.state /\ r.idle = v.idle /\ r.up = v.up /\ r.down = v.down
      /\ r.pending = v.pending /\ r.targets = v.targets
      /\ r.listeners = v.listeners /\ r.view = v.view /\ r.current = v.current
      /\ r.inbox = box
  BY Zenon DEF Worker
<1> HIDE DEF r
<1> QED
  BY <1>1, <1>5, <1>6, <1>7 DEF r

\* A refusal aside, that keeps the invariants of the gets.
LEMMA RaiseFollows ==
  ASSUME NEW v \in Worker, NEW gs \in SUBSET Gets, NEW e \in Event \ {"error"},
         \A g \in gs : Listening(v, g)
  PROVE  Follows(Raise(v, gs, e), v)
<1> DEFINE r == Raise(v, gs, e)
<1>1. /\ r \in Worker /\ r.listeners = v.listeners /\ r.view = v.view
      /\ \A g \in Gets \ gs : r.inbox[g] = v.inbox[g]
      /\ \A g \in gs : r.inbox[g] = Append(v.inbox[g], e)
  BY RaiseFields, Zenon
<1> HIDE DEF r
<1>2. ASSUME NEW ph, NEW mu, NEW wk, GetsOK(v, ph, mu, wk)
      PROVE  GetsOK(r, ph, mu, wk)
  <2>1. \A g \in Gets : Gone(r, g, ph, wk) <=> Gone(v, g, ph, wk)
    BY <1>1, Zenon DEF Gone, Listening
  <2>2. \A g \in gs : ~Gone(v, g, ph, wk)
    BY Zenon DEF Gone
  <2>3. ASSUME NEW g \in Gets, NEW i \in 1 .. Len(r.inbox[g]), r.inbox[g][i] = "error"
        PROVE  i = Len(r.inbox[g]) /\ Gone(r, g, ph, wk)
    <3>1. CASE g \notin gs
      BY <1>1, <1>2, <2>1, <2>3, <3>1, Zenon DEF GetsOK, Inboxes
    <3>2. CASE g \in gs
      <4>1. v.inbox[g] \in Seq(Event) /\ Len(v.inbox[g]) \in Nat
        BY WorkerFields, LenFacts
      <4>2. /\ r.inbox[g] = Append(v.inbox[g], e)
            /\ Len(Append(v.inbox[g], e)) = Len(v.inbox[g]) + 1
            /\ \A j \in 1 .. Len(v.inbox[g]) : Append(v.inbox[g], e)[j] = v.inbox[g][j]
            /\ Append(v.inbox[g], e)[Len(v.inbox[g]) + 1] = e
        BY <1>1, <3>2, <4>1, AppendFacts
      <4>3. i \in 1 .. Len(v.inbox[g]) \/ i = Len(v.inbox[g]) + 1
        BY <4>1, <4>2
      <4>4. \A j \in 1 .. Len(v.inbox[g]) : v.inbox[g][j] # "error"
        BY <1>2, <2>2, <3>2, Zenon DEF GetsOK, Inboxes
      <4> QED
        BY <2>3, <4>2, <4>3, <4>4, Zenon
    <3> QED
      BY <3>1, <3>2, Zenon
  <2>4. ASSUME NEW g \in Gets, ph[g] = "answered", g \notin mu
        PROVE  r.inbox[g] = <<>> /\ Gone(r, g, ph, wk)
    BY <1>1, <1>2, <2>1, <2>2, <2>4, Zenon DEF GetsOK, Refused
  <2> QED
    BY <2>3, <2>4, Zenon DEF GetsOK, Inboxes, Refused
<1> QED
  BY <1>1, <1>2, Zenon DEF Follows, r

\* The state of the stream and of its targets is the same.
SameStream(r, v) ==
  /\ r.state = v.state /\ r.idle = v.idle /\ r.up = v.up /\ r.down = v.down
  /\ r.pending = v.pending /\ r.targets = v.targets /\ r.current = v.current

SameTracker(r, v) ==
  r.online = v.online /\ r.failures = v.failures /\ r.timer = v.timer

\* OnViewSnapshot tells listeners of the query.
LEMMA SnapshotFollows ==
  ASSUME NEW v \in Worker, NEW q \in Queries, NEW gs \in SUBSET v.listeners[q]
  PROVE  LET r == OnViewSnapshot(v, gs, q)
         IN  Follows(r, v) /\ SameStream(r, v) /\ SameTracker(r, v)
<1> DEFINE told == {g \in gs : g \in v.raised \/ ShouldRaiseInitialEvent(v, q)}
           e == IF v.view[q] = "synced" THEN "synced" ELSE "cached"
<1>1. v.listeners[q] \in SUBSET Gets
  BY WorkerFields, Zenon
<1>2. told \in SUBSET Gets /\ (\A g \in told : Listening(v, g))
  BY <1>1, Zenon DEF Listening
<1>3. e \in Event \ {"error"} /\ e \in Event
  BY Zenon DEF Event
<1>4. OnViewSnapshot(v, gs, q) = Raise(v, told, e)
  BY Zenon DEF OnViewSnapshot
<1> HIDE DEF told, e
<1>5. Follows(Raise(v, told, e), v)
  BY <1>2, <1>3, RaiseFollows, Zenon
<1>6. SameStream(Raise(v, told, e), v) /\ SameTracker(Raise(v, told, e), v)
  BY <1>2, <1>3, RaiseFields, ZenonT(60) DEF SameStream, SameTracker
<1> QED
  BY <1>4, <1>5, <1>6, Zenon

\* The views hear of a new state.
LEMMA ApplyFollows ==
  ASSUME NEW v \in Worker, NEW state
  PROVE  LET r == ApplyOnlineStateChange(v, state)
         IN  Follows(r, v) /\ SameStream(r, v) /\ SameTracker(r, v)
<1> DEFINE lost == IF state = "Offline" THEN {q \in Queries : v.view[q] = "synced"} ELSE {}
           view == [q \in Queries |-> IF q \in lost THEN "local" ELSE v.view[q]]
           gs == (UNION {v.listeners[q] : q \in lost}) \cap v.raised
           u == [v EXCEPT !.view = view]
<1>1. /\ v.view \in [Queries -> {"none", "local", "synced"}] /\ v.raised \in SUBSET Gets
      /\ v.listeners \in [Queries -> SUBSET Gets]
  BY WorkerFields, Zenon
<1>2. ApplyOnlineStateChange(v, state) = Raise(u, gs, "cached")
  BY Zenon DEF ApplyOnlineStateChange, Worker
<1>3. /\ lost \subseteq Queries
      /\ view \in [Queries -> {"none", "local", "synced"}]
      /\ \A q \in Queries : view[q] = "none" <=> v.view[q] = "none"
  BY <1>1, Zenon
<1>4. gs \in SUBSET Gets /\ (\A g \in gs : Listening(v, g))
  BY <1>1, <1>3, Zenon DEF Listening
<1> HIDE DEF lost, view, gs
<1>5. /\ u \in Worker /\ u.view = view /\ u.listeners = v.listeners /\ u.inbox = v.inbox
      /\ SameStream(u, v) /\ SameTracker(u, v)
  BY <1>3, Zenon DEF Worker, SameStream, SameTracker
<1> HIDE DEF u
<1>6. Follows(u, v)
  BY <1>3, <1>5 DEF Follows, GetsOK, Inboxes, Refused, Gone, Listening
<1>7. "cached" \in Event \ {"error"} /\ "cached" \in Event
  BY Zenon DEF Event
<1>8. \A g \in gs : Listening(u, g)
  BY <1>4, <1>5, Zenon DEF Listening
<1>9. Follows(Raise(u, gs, "cached"), u)
  BY <1>4, <1>5, <1>7, <1>8, RaiseFollows, Zenon
<1>10. SameStream(Raise(u, gs, "cached"), u) /\ SameTracker(Raise(u, gs, "cached"), u)
  BY <1>4, <1>5, <1>7, RaiseFields, ZenonT(60) DEF SameStream, SameTracker
<1> QED
  BY <1>2, <1>5, <1>6, <1>9, <1>10, FollowsOn, Zenon DEF SameStream, SameTracker

\* The listeners hear of a new state.
LEMMA ChangedFollows ==
  ASSUME NEW v \in Worker
  PROVE  LET r == OnOnlineStateChanged(v)
         IN  Follows(r, v) /\ SameStream(r, v) /\ SameTracker(r, v)
<1> DEFINE known == {q \in Queries : v.view[q] # "none"}
           gs == {g \in UNION {v.listeners[q] : q \in known} : g \notin v.raised}
<1>1. v.listeners \in [Queries -> SUBSET Gets]
  BY WorkerFields, Zenon
<1>2. gs \in SUBSET Gets /\ (\A g \in gs : Listening(v, g))
  BY <1>1, Zenon DEF Listening
<1>3. "cached" \in Event \ {"error"} /\ "cached" \in Event
  BY Zenon DEF Event
<1>4. OnOnlineStateChanged(v) = IF v.online # "Offline" THEN v ELSE Raise(v, gs, "cached")
  BY Zenon DEF OnOnlineStateChanged
<1> HIDE DEF gs
<1>5. Follows(Raise(v, gs, "cached"), v)
  BY <1>2, <1>3, RaiseFollows, Zenon
<1>6. SameStream(Raise(v, gs, "cached"), v) /\ SameTracker(Raise(v, gs, "cached"), v)
  BY <1>2, <1>3, RaiseFields, Zenon DEF SameStream, SameTracker
<1> QED
  BY <1>4, <1>5, <1>6, FollowsItself, Zenon DEF SameStream, SameTracker

\* Broadcast sets the state and nothing else of the tracker or the stream.
LEMMA BroadcastFollows ==
  ASSUME NEW v \in Worker, NEW state \in {"Unknown", "Online", "Offline"}
  PROVE  LET r == Broadcast(v, state)
         IN  /\ Follows(r, v) /\ SameStream(r, v)
             /\ r.online = state /\ r.failures = v.failures /\ r.timer = v.timer
<1>1. CASE v.online = state
  BY <1>1, FollowsItself, Zenon DEF Broadcast, SameStream
<1>2. CASE v.online # state
  <2> DEFINE a == ApplyOnlineStateChange(v, state)
             b == [a EXCEPT !.online = state]
             c == OnOnlineStateChanged(b)
  <2>1. Follows(a, v) /\ SameStream(a, v) /\ SameTracker(a, v)
    BY ApplyFollows, Zenon
  <2>2. a \in Worker
    BY <2>1, Zenon DEF Follows
  <2>3. Broadcast(v, state) = c
    BY <1>2, Zenon DEF Broadcast
  <2> HIDE DEF a
  <2>4. /\ b \in Worker /\ b.listeners = a.listeners /\ b.view = a.view
        /\ b.inbox = a.inbox /\ SameStream(b, a)
        /\ b.online = state /\ b.failures = a.failures /\ b.timer = a.timer
    BY <2>2, Zenon DEF Worker, SameStream
  <2> HIDE DEF b
  <2>5. Follows(b, a)
    BY <2>2, <2>4, FollowsQuietly, Zenon
  <2>6. Follows(c, b) /\ SameStream(c, b) /\ SameTracker(c, b)
    BY <2>4, ChangedFollows, Zenon
  <2> HIDE DEF c
  <2>7. Follows(c, v)
    BY <2>1, <2>5, <2>6, FollowsOn, Zenon
  <2> QED
    BY <2>1, <2>3, <2>4, <2>6, <2>7, Zenon DEF SameStream, SameTracker
<1> QED
  BY <1>1, <1>2, Zenon

\* UpdateState also stops the timer and forgets failures.
LEMMA UpdateFollows ==
  ASSUME NEW v \in Worker, NEW state \in {"Unknown", "Online", "Offline"}
  PROVE  LET r == UpdateState(v, state)
         IN  /\ Follows(r, v) /\ SameStream(r, v)
             /\ r.online = state /\ r.failures = 0 /\ ~r.timer
<1> DEFINE a == [v EXCEPT !.timer = FALSE, !.failures = 0]
           b == Broadcast(a, state)
<1>1. UpdateState(v, state) = b
  BY Zenon DEF UpdateState
<1>2. /\ a \in Worker /\ a.listeners = v.listeners /\ a.view = v.view
      /\ a.inbox = v.inbox /\ SameStream(a, v) /\ a.failures = 0 /\ ~a.timer
  <2>1. 0 \in 0 .. 1
    OBVIOUS
  <2>2. a \in Worker
    BY <2>1, Zenon DEF Worker
  <2>3. /\ a.listeners = v.listeners /\ a.view = v.view
        /\ a.inbox = v.inbox /\ SameStream(a, v) /\ a.failures = 0 /\ ~a.timer
    BY Zenon DEF Worker, SameStream
  <2> QED
    BY <2>2, <2>3, Zenon
<1> HIDE DEF a
<1>3. Follows(a, v)
  BY <1>2, FollowsQuietly, Zenon
<1>4. /\ Follows(b, a) /\ SameStream(b, a)
      /\ b.online = state /\ b.failures = a.failures /\ b.timer = a.timer
  BY <1>2, BroadcastFollows, Zenon
<1> HIDE DEF b
<1>5. Follows(b, v)
  BY <1>3, <1>4, FollowsOn, Zenon
<1> QED
  BY <1>1, <1>2, <1>4, <1>5, Zenon DEF SameStream

----------------------------------------------------------------------------
(***************************************************************************)
(* The stream.                                                             *)
(***************************************************************************)
\* Timer, for a moment at which the stream may not be started.
Calm(v) ==
  /\ v.timer => v.online = "Unknown" /\ v.failures = 0
  /\ v.online = "Online" => v.failures = 0 /\ ~v.timer

\* HandleWatchStreamStart sets the timer only for a stream that is started.
LEMMA StartedFollows ==
  ASSUME NEW v \in Worker, Calm(v), IsStarted(v)
  PROVE  LET r == HandleWatchStreamStart(v)
         IN  Follows(r, v) /\ SameStream(r, v) /\ Timer(r)
<1>1. CASE v.failures # 0
  BY <1>1, FollowsItself, Zenon DEF HandleWatchStreamStart, SameStream, Calm, Timer
<1>2. CASE v.failures = 0
  <2> DEFINE b == Broadcast(v, "Unknown")
             c == [b EXCEPT !.timer = TRUE]
  <2>1. /\ Follows(b, v) /\ SameStream(b, v)
        /\ b.online = "Unknown" /\ b.failures = v.failures
    BY BroadcastFollows, Zenon
  <2>2. HandleWatchStreamStart(v) = c /\ b \in Worker
    BY <1>2, <2>1, Zenon DEF HandleWatchStreamStart, Follows
  <2> HIDE DEF b
  <2>3. /\ c \in Worker /\ c.listeners = b.listeners /\ c.view = b.view
        /\ c.inbox = b.inbox /\ SameStream(c, b)
        /\ c.online = b.online /\ c.failures = b.failures
    BY <2>2, Zenon DEF Worker, SameStream
  <2> HIDE DEF c
  <2>4. Follows(c, v)
    BY <2>1, <2>2, <2>3, FollowsQuietly, FollowsOn, Zenon
  <2> QED
    BY <1>2, <2>1, <2>2, <2>3, <2>4, Zenon DEF SameStream, Timer, IsStarted, IsOpen
<1> QED
  BY <1>1, <1>2, Zenon

\* StartWatchStream starts the stream; it is not open yet.
LEMMA StartFollows ==
  ASSUME NEW v \in Worker, Calm(v)
  PROVE  LET r == StartWatchStream(v)
         IN  /\ Follows(r, v) /\ Timer(r) /\ ~IsOpen(r)
             /\ r.idle = v.idle /\ r.targets = v.targets
<1> DEFINE st == IF v.state = "Error" THEN "Backoff" ELSE "Starting"
           pe == [q \in Queries |-> 0]
           cu == [q \in Queries |-> 0]
           a == [v EXCEPT !.state = st, !.pending = pe, !.current = cu, !.changes = Queries]
           r == HandleWatchStreamStart(a)
<1>1. StartWatchStream(v) = r
  BY Zenon DEF StartWatchStream, Worker
<1>2. st \in {"Starting", "Backoff"} /\ pe \in [Queries -> Int] /\ cu \in [Queries -> Nat]
  OBVIOUS
<1> HIDE DEF st, pe, cu
<1>3. /\ a \in Worker /\ a.listeners = v.listeners /\ a.view = v.view
      /\ a.inbox = v.inbox /\ SameTracker(a, v) /\ a.state = st
      /\ a.idle = v.idle /\ a.targets = v.targets
  BY <1>2, Zenon DEF Worker, SameTracker
<1> HIDE DEF a
<1>4. Calm(a) /\ IsStarted(a) /\ ~IsOpen(a)
  BY <1>2, <1>3, Zenon DEF Calm, SameTracker, IsStarted, IsOpen
<1>5. Follows(r, a) /\ SameStream(r, a) /\ Timer(r)
  BY <1>3, <1>4, StartedFollows, Zenon
<1> HIDE DEF r
<1>6. Follows(r, v)
  BY <1>3, <1>5, FollowsQuietly, FollowsOn, Zenon
<1> QED
  BY <1>1, <1>3, <1>4, <1>5, <1>6, Zenon DEF SameStream, IsOpen

\* A call that ends takes the idle timer and all messages with it.
LEMMA ClosedFollows ==
  ASSUME NEW v \in Worker, NEW state \in {"Initial", "Error"}
  PROVE  LET r == Closed(v, state)
         IN  /\ Follows(r, v) /\ r \in Worker /\ SameTracker(r, v) /\ r.state = state
             /\ ~r.idle /\ r.targets = v.targets
<1> DEFINE r == Closed(v, state)
<1>1. <<>> \in Seq(Request) /\ <<>> \in Seq(Message)
  BY EmptyFacts, Zenon
<1>2. /\ r \in Worker /\ r.listeners = v.listeners /\ r.view = v.view /\ r.inbox = v.inbox
      /\ SameTracker(r, v) /\ r.state = state /\ ~r.idle /\ r.targets = v.targets
  BY <1>1, Zenon DEF Closed, Worker, SameTracker
<1> HIDE DEF r
<1> QED
  BY <1>2, FollowsQuietly, Zenon DEF r

\* HandleWatchStreamFailure stops the timer before it says Offline.
LEMMA FailureFollows ==
  ASSUME NEW v \in Worker, Calm(v)
  PROVE  LET r == HandleWatchStreamFailure(v)
         IN  Follows(r, v) /\ SameStream(r, v) /\ Calm(r) /\ ~r.timer
<1>1. CASE v.online = "Online"
  <2> DEFINE r == Broadcast(v, "Unknown")
  <2>1. /\ Follows(r, v) /\ SameStream(r, v)
        /\ r.online = "Unknown" /\ r.failures = v.failures /\ r.timer = v.timer
    BY BroadcastFollows, Zenon
  <2> HIDE DEF r
  <2> QED
    BY <1>1, <2>1, Zenon DEF HandleWatchStreamFailure, Calm, r
<1>2. CASE v.online # "Online"
  <2> DEFINE a == [v EXCEPT !.failures = 1, !.timer = FALSE]
             r == Broadcast(a, "Offline")
  <2>1. 1 \in 0 .. 1
    OBVIOUS
  <2>2. a \in Worker
    BY <2>1, Zenon DEF Worker
  <2>3. /\ a.listeners = v.listeners /\ a.view = v.view
        /\ a.inbox = v.inbox /\ SameStream(a, v) /\ ~a.timer
    BY Zenon DEF Worker, SameStream
  <2> HIDE DEF a
  <2>4. /\ Follows(r, a) /\ SameStream(r, a)
        /\ r.online = "Offline" /\ r.timer = a.timer
    BY <2>2, BroadcastFollows, Zenon
  <2>5. HandleWatchStreamFailure(v) = r
    BY <1>2, Zenon DEF HandleWatchStreamFailure, a
  <2> HIDE DEF r
  <2>6. Follows(r, v)
    BY <2>2, <2>3, <2>4, FollowsQuietly, FollowsOn, Zenon
  <2> QED
    BY <2>3, <2>4, <2>5, <2>6, Zenon DEF Calm, SameStream
<1> QED
  BY <1>1, <1>2, Zenon

\* A request that goes out stops the idle timer.
LEMMA SendFollows ==
  ASSUME NEW v \in Worker, NEW q \in Queries, NEW add \in BOOLEAN,
         listens' \in [Queries -> Nat]
  PROVE  LET r == Send(v, q, add)
         IN  /\ Follows(r, v) /\ SameTracker(r, v) /\ r.state = v.state /\ ~r.idle
             /\ r.targets = v.targets
<1> DEFINE pe == [v.pending EXCEPT ![q] = v.pending[q] + 1]
           up == Append(v.up, [q |-> q, add |-> add, no |-> listens'[q]])
           r == [v EXCEPT !.pending = pe, !.up = up, !.idle = FALSE]
<1>1. Send(v, q, add) = r
  BY Zenon DEF Send, Worker
<1>2. v.pending \in [Queries -> Int] /\ v.up \in Seq(Request)
  BY WorkerFields, Zenon
<1>3. [q |-> q, add |-> add, no |-> listens'[q]] \in Request
  BY Zenon DEF Request
<1>4. pe \in [Queries -> Int] /\ up \in Seq(Request)
  BY <1>2, <1>3, AppendFacts
<1> HIDE DEF pe, up
<1>5. /\ r \in Worker /\ r.listeners = v.listeners /\ r.view = v.view /\ r.inbox = v.inbox
      /\ SameTracker(r, v) /\ r.state = v.state /\ ~r.idle /\ r.targets = v.targets
  BY <1>4, Zenon DEF Worker, SameTracker
<1> HIDE DEF r
<1> QED
  BY <1>1, <1>5, FollowsQuietly, Zenon

\* Another set of targets, and nothing else.
LEMMA TargetsFollow ==
  ASSUME NEW v \in Worker, NEW ts \in SUBSET Queries
  PROVE  LET r == [v EXCEPT !.targets = ts]
         IN  /\ r \in Worker /\ Follows(r, v) /\ SameTracker(r, v)
             /\ r.state = v.state /\ r.idle = v.idle /\ r.targets = ts
<1> DEFINE r == [v EXCEPT !.targets = ts]
<1>1. /\ r \in Worker /\ r.listeners = v.listeners /\ r.view = v.view /\ r.inbox = v.inbox
      /\ SameTracker(r, v) /\ r.state = v.state /\ r.idle = v.idle /\ r.targets = ts
  BY Zenon DEF Worker, SameTracker
<1> HIDE DEF r
<1> QED
  BY <1>1, FollowsQuietly, Zenon DEF r

\* RemoteStore::Listen watches one more target.
LEMMA ListenFollows ==
  ASSUME NEW v \in Worker, NEW q \in Queries, Timer(v), Idle(v),
         listens' \in [Queries -> Nat]
  PROVE  LET r == Listen(v, q)
         IN  /\ Follows(r, v) /\ Timer(r) /\ Idle(r)
             /\ r.targets = v.targets \cup {q}
<1> DEFINE ts == v.targets \cup {q}
           a == [v EXCEPT !.targets = ts]
<1>1. ts \in SUBSET Queries
  BY WorkerFields, Zenon
<1>2. /\ a \in Worker /\ Follows(a, v) /\ SameTracker(a, v)
      /\ a.state = v.state /\ a.idle = v.idle /\ a.targets = ts
  BY <1>1, TargetsFollow, Zenon
<1>3. Listen(v, q) = IF ShouldStartWatchStream(a) THEN StartWatchStream(a)
                     ELSE IF IsOpen(v) THEN Send(a, q, TRUE)
                     ELSE a
  BY Zenon DEF Listen, Worker
<1> HIDE DEF a
<1>4. CASE ShouldStartWatchStream(a)
  <2> DEFINE r == StartWatchStream(a)
  <2>1. ~v.idle
    BY <1>2, <1>4, Zenon DEF ShouldStartWatchStream, IsStarted, IsOpen, Idle
  <2>2. Calm(a)
    BY <1>2, Zenon DEF Calm, Timer, SameTracker
  <2>3. Follows(r, a) /\ Timer(r) /\ ~IsOpen(r) /\ r.idle = a.idle /\ r.targets = a.targets
    BY <1>2, <2>2, StartFollows, Zenon
  <2> HIDE DEF r
  <2>4. Follows(r, v)
    BY <1>2, <2>3, FollowsOn, Zenon
  <2> QED
    BY <1>2, <1>3, <1>4, <2>1, <2>3, <2>4, Zenon DEF Idle, r
<1>5. CASE ~ShouldStartWatchStream(a) /\ IsOpen(v)
  <2> DEFINE r == Send(a, q, TRUE)
  <2>1. Follows(r, a) /\ SameTracker(r, a) /\ r.state = a.state /\ ~r.idle /\ r.targets = a.targets
    BY <1>2, SendFollows, Zenon
  <2> HIDE DEF r
  <2>2. Follows(r, v)
    BY <1>2, <2>1, FollowsOn, Zenon
  <2>3. Timer(r)
    BY <1>2, <2>1, Zenon DEF Timer, SameTracker, IsStarted, IsOpen
  <2> QED
    BY <1>2, <1>3, <1>5, <2>1, <2>2, <2>3, Zenon DEF Idle, r
<1>6. CASE ~ShouldStartWatchStream(a) /\ ~IsOpen(v)
  <2>1. Timer(a) /\ ~a.idle
    BY <1>2, <1>6, Zenon DEF Timer, Idle, SameTracker, IsStarted, IsOpen
  <2> QED
    BY <1>2, <1>3, <1>6, <2>1, Zenon DEF Idle
<1> QED
  BY <1>4, <1>5, <1>6, Zenon

\* RemoteStore::StopListening watches one target less.
LEMMA StopFollows ==
  ASSUME NEW v \in Worker, NEW q \in Queries, Timer(v), Idle(v),
         listens' \in [Queries -> Nat]
  PROVE  LET r == StopListening(v, q)
         IN  /\ Follows(r, v) /\ Timer(r) /\ Idle(r)
             /\ r.targets = v.targets \ {q}
<1> DEFINE ts == v.targets \ {q}
           a == [v EXCEPT !.targets = ts]
           b == IF IsOpen(v) THEN Send(a, q, FALSE) ELSE a
<1>1. ts \in SUBSET Queries
  BY WorkerFields, Zenon
<1>2. /\ a \in Worker /\ Follows(a, v) /\ SameTracker(a, v)
      /\ a.state = v.state /\ a.idle = v.idle /\ a.targets = ts
  BY <1>1, TargetsFollow, Zenon
<1>3. StopListening(v, q) = IF b.targets # {} THEN b
                            ELSE IF IsOpen(v) THEN [b EXCEPT !.idle = TRUE]
                            ELSE UpdateState(b, "Unknown")
  BY Zenon DEF StopListening, Worker
<1> HIDE DEF a
<1>4. /\ Follows(b, a) /\ SameTracker(b, a) /\ b.state = a.state /\ ~b.idle
      /\ b.targets = a.targets
  <2>1. CASE IsOpen(v)
    BY <1>2, <2>1, SendFollows, Zenon
  <2>2. CASE ~IsOpen(v)
    BY <1>2, <2>2, FollowsItself, Zenon DEF Idle, SameTracker
  <2> QED
    BY <2>1, <2>2, Zenon
<1> HIDE DEF b
<1>5. b \in Worker /\ Follows(b, v) /\ b.targets = ts /\ Timer(b) /\ b.state = v.state
  BY <1>2, <1>4, FollowsOn, Zenon DEF Follows, Timer, SameTracker, IsStarted, IsOpen
<1> HIDE DEF ts
<1>6. CASE b.targets # {}
  BY <1>3, <1>4, <1>5, <1>6, Zenon DEF Idle, ts
<1>7. CASE b.targets = {} /\ IsOpen(v)
  <2> DEFINE r == [b EXCEPT !.idle = TRUE]
  <2>1. /\ r \in Worker /\ r.listeners = b.listeners /\ r.view = b.view /\ r.inbox = b.inbox
        /\ SameTracker(r, b) /\ r.state = b.state /\ r.targets = b.targets
    BY <1>5, Zenon DEF Worker, SameTracker
  <2> HIDE DEF r
  <2>2. Follows(r, v)
    BY <1>5, <2>1, FollowsQuietly, FollowsOn, Zenon
  <2>3. Timer(r) /\ Idle(r)
    BY <1>5, <1>7, <2>1, Zenon DEF Timer, Idle, SameTracker, IsStarted, IsOpen
  <2> QED
    BY <1>3, <1>5, <1>7, <2>1, <2>2, <2>3, Zenon DEF r, ts
<1>8. CASE b.targets = {} /\ ~IsOpen(v)
  <2> DEFINE r == UpdateState(b, "Unknown")
  <2>1. /\ Follows(r, b) /\ SameStream(r, b)
        /\ r.online = "Unknown" /\ r.failures = 0 /\ ~r.timer
    BY <1>5, UpdateFollows, Zenon
  <2> HIDE DEF r
  <2>2. Follows(r, v)
    BY <1>5, <2>1, FollowsOn, Zenon
  <2>3. Timer(r) /\ Idle(r)
    BY <1>4, <2>1, Zenon DEF Timer, Idle, SameStream
  <2> QED
    BY <1>3, <1>5, <1>8, <2>1, <2>2, <2>3, Zenon DEF r, ts, SameStream
<1> QED
  BY <1>6, <1>7, <1>8, Zenon

\* OnWatchStreamClose starts a stream that is needed again.
LEMMA CloseFollows ==
  ASSUME NEW v \in Worker, Calm(v), ~v.idle
  PROVE  LET r == OnWatchStreamClose(v)
         IN  Follows(r, v) /\ Timer(r) /\ ~r.idle /\ r.targets = v.targets
<1>1. CASE ShouldStartWatchStream(v)
  <2> DEFINE a == HandleWatchStreamFailure(v)
             r == StartWatchStream(a)
  <2>1. Follows(a, v) /\ SameStream(a, v) /\ Calm(a)
    BY FailureFollows, Zenon
  <2> HIDE DEF a
  <2>2. a \in Worker
    BY <2>1, Zenon DEF Follows
  <2>3. Follows(r, a) /\ Timer(r) /\ r.idle = a.idle /\ r.targets = a.targets
    BY <2>1, <2>2, StartFollows, Zenon
  <2> HIDE DEF r
  <2>4. Follows(r, v)
    BY <2>1, <2>3, FollowsOn, Zenon
  <2> QED
    BY <1>1, <2>1, <2>3, <2>4, Zenon DEF OnWatchStreamClose, SameStream, a, r
<1>2. CASE ~ShouldStartWatchStream(v)
  <2> DEFINE r == UpdateState(v, "Unknown")
  <2>1. /\ Follows(r, v) /\ SameStream(r, v)
        /\ r.online = "Unknown" /\ r.failures = 0 /\ ~r.timer
    BY UpdateFollows, Zenon
  <2> HIDE DEF r
  <2> QED
    BY <1>2, <2>1, Zenon DEF OnWatchStreamClose, SameStream, Timer, r
<1> QED
  BY <1>1, <1>2, Zenon

\* RestartNetwork keeps the targets and starts the stream for them.
LEMMA RestartFollows ==
  ASSUME NEW v \in Worker
  PROVE  LET r == RestartNetwork(v)
         IN  Follows(r, v) /\ Timer(r) /\ ~r.idle /\ r.targets = v.targets
<1> DEFINE a == Closed(v, "Initial")
           b == UpdateState(a, "Unknown")
           c == StartWatchStream(b)
<1>1. RestartNetwork(v) = IF b.targets # {} THEN c ELSE b
  BY Zenon DEF RestartNetwork
<1>2. Follows(a, v) /\ a \in Worker /\ ~a.idle /\ a.targets = v.targets
  BY ClosedFollows, Zenon
<1> HIDE DEF a
<1>3. /\ Follows(b, a) /\ SameStream(b, a)
      /\ b.online = "Unknown" /\ b.failures = 0 /\ ~b.timer
  BY <1>2, UpdateFollows, Zenon
<1> HIDE DEF b
<1>4. b \in Worker /\ Follows(b, v) /\ Calm(b) /\ Timer(b) /\ ~b.idle /\ b.targets = v.targets
  BY <1>2, <1>3, FollowsOn, Zenon DEF Follows, Calm, Timer, SameStream
<1>5. Follows(c, b) /\ Timer(c) /\ c.idle = b.idle /\ c.targets = b.targets
  BY <1>4, StartFollows, Zenon
<1> HIDE DEF c
<1>6. Follows(c, v)
  BY <1>4, <1>5, FollowsOn, Zenon
<1> QED
  BY <1>1, <1>4, <1>5, <1>6, Zenon

\* What a chain of handlers keeps, if it keeps the targets.
LEMMA FollowsWatched ==
  ASSUME NEW v \in Worker, NEW r, Follows(r, v), r.targets = v.targets, Watched(v)
  PROVE  Watched(r)
BY Zenon DEF Follows, Watched

\* Raise leaves the stream and the tracker alone.
LEMMA RaiseSame ==
  ASSUME NEW v \in Worker, NEW gs \in SUBSET Gets, NEW e \in Event
  PROVE  SameStream(Raise(v, gs, e), v) /\ SameTracker(Raise(v, gs, e), v)
BY RaiseFields, Zenon DEF SameStream, SameTracker

\* OnViewSnapshots tells listeners of the queries.
LEMMA SnapshotsFollow ==
  ASSUME NEW v \in Worker, NEW qs \in SUBSET Queries
  PROVE  LET r == OnViewSnapshots(v, qs)
         IN  Follows(r, v) /\ SameStream(r, v) /\ SameTracker(r, v)
<1> DEFINE Heard(x) ==
             UNION {{g \in v.listeners[q] : g \in v.raised \/ ShouldRaiseInitialEvent(v, q)} :
                      q \in {q \in qs : v.view[q] = x}}
           sy == Heard("synced")
           lo == Heard("local")
           a == Raise(v, sy, "synced")
           r == Raise(a, lo, "cached")
<1>1. OnViewSnapshots(v, qs) = r
  BY Zenon DEF OnViewSnapshots
<1>2. v.listeners \in [Queries -> SUBSET Gets]
  BY WorkerFields, Zenon
<1>3. /\ sy \in SUBSET Gets /\ \A g \in sy : Listening(v, g)
      /\ lo \in SUBSET Gets /\ \A g \in lo : Listening(v, g)
  BY <1>2, Zenon DEF Listening
<1>4. "synced" \in Event \ {"error"} /\ "cached" \in Event \ {"error"}
  BY Zenon DEF Event
<1> HIDE DEF Heard, sy, lo
<1>5. Follows(a, v)
  BY <1>3, <1>4, RaiseFollows, Zenon
<1>6. SameStream(a, v) /\ SameTracker(a, v)
  BY <1>3, <1>4, RaiseSame, Zenon
<1> HIDE DEF a
<1>7. a \in Worker /\ \A g \in lo : Listening(a, g)
  BY <1>3, <1>5, Zenon DEF Follows, Listening
<1>8. Follows(r, a)
  BY <1>3, <1>4, <1>7, RaiseFollows, Zenon
<1>9. SameStream(r, a) /\ SameTracker(r, a)
  BY <1>3, <1>4, <1>7, RaiseSame, Zenon
<1> HIDE DEF r
<1> QED
  BY <1>1, <1>5, <1>6, <1>8, <1>9, FollowsOn, Zenon DEF SameStream, SameTracker

\* a is v with the TargetChanges of a snapshot applied to the views of qs.
Applied(a, v, qs) ==
  \E ch \in SUBSET Queries :
    a = [v EXCEPT !.changes = ch,
                  !.view = [q \in Queries |->
                              IF q \notin qs THEN v.view[q]
                              ELSE IF v.current[q] # 0 THEN "synced" ELSE "local"]]

\* The views a snapshot has a TargetChange for are views of watched targets.
LEMMA AppliedFields ==
  ASSUME NEW v \in Worker, NEW qs \in SUBSET v.targets, Watched(v), NEW a, Applied(a, v, qs)
  PROVE  /\ a \in Worker /\ a.listeners = v.listeners
         /\ a.inbox = v.inbox /\ a.raised = v.raised /\ a.online = v.online
         /\ SameStream(a, v) /\ SameTracker(a, v) /\ Follows(a, v)
<1> DEFINE vi == [q \in Queries |-> IF q \notin qs THEN v.view[q]
                                    ELSE IF v.current[q] # 0 THEN "synced" ELSE "local"]
<1> PICK ch \in SUBSET Queries : a = [v EXCEPT !.changes = ch, !.view = vi]
  BY Zenon DEF Applied
<1>1. v.view \in [Queries -> {"none", "local", "synced"}] /\ v.targets \in SUBSET Queries
  BY WorkerFields, Zenon
<1>2. \A q \in qs : v.view[q] # "none"
  BY <1>1, Zenon DEF Watched
<1>3. /\ vi \in [Queries -> {"none", "local", "synced"}]
      /\ \A p \in Queries : vi[p] = "none" <=> v.view[p] = "none"
  BY <1>1, <1>2
<1>4. /\ a \in Worker /\ a.view = vi /\ a.listeners = v.listeners /\ a.inbox = v.inbox
      /\ a.raised = v.raised /\ a.online = v.online
      /\ SameStream(a, v) /\ SameTracker(a, v)
  BY <1>3, Zenon DEF Worker, SameStream, SameTracker
<1>5. Follows(a, v)
  BY <1>3, <1>4 DEF Follows, GetsOK, Inboxes, Refused, Gone, Listening
<1> QED
  BY <1>4, <1>5, Zenon

\* A snapshot puts views in sync or out of sync and tells their listeners.
LEMMA WatchSnapshotFollows ==
  ASSUME NEW v \in Worker, NEW qs \in SUBSET v.targets, NEW news, Watched(v)
  PROVE  LET r == ApplyRemoteEvent(v, qs, news)
         IN  Follows(r, v) /\ SameStream(r, v) /\ SameTracker(r, v)
<1> DEFINE ch == {q \in v.changes : ~IsActiveTarget(v, q)}
           vi == [q \in Queries |-> IF q \notin qs THEN v.view[q]
                                    ELSE IF v.current[q] # 0 THEN "synced" ELSE "local"]
           a == [v EXCEPT !.changes = ch, !.view = vi]
           ps == {q \in Queries : q \in news \/ a.view[q] # v.view[q]}
           r == OnViewSnapshots(a, ps)
<1>1. ApplyRemoteEvent(v, qs, news) = r
  BY Zenon DEF ApplyRemoteEvent, Worker
<1>2. ch \in SUBSET Queries
  BY WorkerFields, Zenon
<1>3. a \in Worker /\ SameStream(a, v) /\ SameTracker(a, v) /\ Follows(a, v)
  <2>1. Applied(a, v, qs)
    BY <1>2, Zenon DEF Applied
  <2> HIDE DEF a
  <2> QED
    BY <2>1, AppliedFields, Zenon
<1> HIDE DEF a
<1>4. ps \in SUBSET Queries
  BY Zenon
<1> HIDE DEF ps
<1>5. Follows(r, a) /\ SameStream(r, a) /\ SameTracker(r, a)
  BY <1>3, <1>4, SnapshotsFollow, Zenon
<1> HIDE DEF r
<1> QED
  BY <1>1, <1>3, <1>5, FollowsOn, Zenon DEF SameStream, SameTracker

\* A refused target is dropped with its view and its listeners, who are told.
LEMMA TargetErrorFields ==
  ASSUME NEW v \in Worker, NEW q \in Queries, q \in v.targets
  PROVE  LET r == ProcessTargetError(v, q)
         IN  /\ r \in Worker /\ SameTracker(r, v)
             /\ r.state = v.state /\ r.idle = v.idle /\ r.up = v.up /\ r.down = v.down
             /\ r.pending = [v.pending EXCEPT ![q] = 0]
             /\ r.current = [v.current EXCEPT ![q] = 0]
             /\ r.targets = v.targets \ {q}
             /\ r.view = [v.view EXCEPT ![q] = "none"]
             /\ r.listeners = [v.listeners EXCEPT ![q] = {}]
             /\ \A g \in Gets \ v.listeners[q] : r.inbox[g] = v.inbox[g]
             /\ \A g \in v.listeners[q] : r.inbox[g] = Append(v.inbox[g], "error")
<1> DEFINE ts == v.targets \ {q}
           pe == [v.pending EXCEPT ![q] = 0]
           cu == [v.current EXCEPT ![q] = 0]
           ch == v.changes \cup {q}
           a == [v EXCEPT !.targets = ts, !.pending = pe, !.current = cu, !.changes = ch]
           gs == v.listeners[q]
           b == Raise(a, gs, "error")
           r == [b EXCEPT !.view[q] = "none", !.listeners[q] = {}]
<1>1. /\ v.targets \in SUBSET Queries /\ v.pending \in [Queries -> Int]
      /\ v.current \in [Queries -> Nat] /\ v.changes \in SUBSET Queries
      /\ v.listeners \in [Queries -> SUBSET Gets]
      /\ v.view \in [Queries -> {"none", "local", "synced"}]
  BY WorkerFields, Zenon
<1>2. /\ ts \in SUBSET Queries /\ pe \in [Queries -> Int]
      /\ cu \in [Queries -> Nat] /\ ch \in SUBSET Queries
  BY <1>1
<1>3. /\ a \in Worker /\ SameTracker(a, v) /\ a.state = v.state /\ a.idle = v.idle
      /\ a.targets = ts /\ a.view = v.view /\ a.listeners = v.listeners
      /\ a.inbox = v.inbox /\ a.up = v.up /\ a.down = v.down
      /\ a.pending = pe /\ a.current = cu
  BY <1>2, Zenon DEF Worker, SameTracker
<1>4. ProcessTargetError(v, q) = r
  BY <1>3, Zenon DEF ProcessTargetError, HandleRejectedListen, RemoveTarget, Worker
<1> HIDE DEF a
<1>5. "error" \in Event /\ gs \in SUBSET Gets
  BY <1>1, Zenon DEF Event
<1> HIDE DEF gs
<1>6. /\ b \in Worker
      /\ b.online = a.online /\ b.failures = a.failures /\ b.timer = a.timer
      /\ b.state = a.state /\ b.idle = a.idle /\ b.up = a.up /\ b.down = a.down
      /\ b.pending = a.pending /\ b.current = a.current
      /\ b.targets = a.targets /\ b.listeners = a.listeners /\ b.view = a.view
      /\ \A g \in Gets \ gs : b.inbox[g] = a.inbox[g]
      /\ \A g \in gs : b.inbox[g] = Append(a.inbox[g], "error")
  <2>1. a \in Worker /\ gs \in SUBSET Gets /\ "error" \in Event
    BY <1>3, <1>5, Zenon
  <2> QED
    BY ONLY <2>1, RaiseFields, Zenon
<1> HIDE DEF b
<1> DEFINE vi == [b.view EXCEPT ![q] = "none"]
           li == [b.listeners EXCEPT ![q] = {}]
<1>7. r = [b EXCEPT !.view = vi, !.listeners = li]
  BY <1>6, Zenon DEF Worker
<1>8. vi \in [Queries -> {"none", "local", "synced"}] /\ li \in [Queries -> SUBSET Gets]
  BY <1>1, <1>3, <1>6, Zenon
<1> HIDE DEF vi, li
<1>9. /\ r \in Worker /\ SameTracker(r, b) /\ r.state = b.state /\ r.idle = b.idle
      /\ r.targets = b.targets /\ r.view = vi /\ r.listeners = li /\ r.inbox = b.inbox
      /\ r.up = b.up /\ r.down = b.down /\ r.pending = b.pending /\ r.current = b.current
  BY <1>6, <1>7, <1>8, Zenon DEF Worker, SameTracker
<1> HIDE DEF r
<1> QED
  BY <1>3, <1>4, <1>6, <1>9 DEF SameTracker, vi, li, gs

\* The error is the last event of listeners that are gone.
LEMMA TargetErrorKeeps ==
  ASSUME NEW v \in Worker, NEW q \in Queries, q \in v.targets,
         Watched(v), Timer(v), Idle(v),
         NEW ph, NEW mu, NEW wk, GetsOK(v, ph, mu, wk),
         \A g \in v.listeners[q] :
           /\ ph[g] # "new"
           /\ \A p \in Queries : g \in v.listeners[p] => p = q
           /\ \A i \in 1 .. Len(wk) : wk[i].get = g => wk[i].op # "listen"
  PROVE  LET r == ProcessTargetError(v, q)
         IN  Watched(r) /\ Timer(r) /\ Idle(r) /\ GetsOK(r, ph, mu, wk)
<1> DEFINE r == ProcessTargetError(v, q)
<1>1. /\ r \in Worker /\ SameTracker(r, v)
      /\ r.state = v.state /\ r.idle = v.idle
      /\ r.targets = v.targets \ {q}
      /\ r.view = [v.view EXCEPT ![q] = "none"]
      /\ r.listeners = [v.listeners EXCEPT ![q] = {}]
      /\ \A g \in Gets \ v.listeners[q] : r.inbox[g] = v.inbox[g]
      /\ \A g \in v.listeners[q] : r.inbox[g] = Append(v.inbox[g], "error")
  BY TargetErrorFields, Zenon
<1> HIDE DEF r
<1>2. /\ v.listeners \in [Queries -> SUBSET Gets]
      /\ v.view \in [Queries -> {"none", "local", "synced"}]
      /\ v.inbox \in [Gets -> Seq(Event)]
  BY WorkerFields, Zenon
<1>3. /\ r.listeners[q] = {} /\ r.view[q] = "none"
      /\ \A p \in Queries \ {q} : r.listeners[p] = v.listeners[p] /\ r.view[p] = v.view[p]
  BY <1>1, <1>2, Zenon
<1>4. Watched(r)
  BY <1>1, <1>3, Zenon DEF Watched
<1>5. Timer(r) /\ Idle(r)
  BY <1>1, Zenon DEF Timer, Idle, SameTracker, IsStarted, IsOpen
<1>6. \A g \in Gets : Gone(v, g, ph, wk) => Gone(r, g, ph, wk)
  BY <1>3, Zenon DEF Gone, Listening
<1>7. \A g \in v.listeners[q] : Gone(r, g, ph, wk) /\ ~Gone(v, g, ph, wk)
  BY <1>3, Zenon DEF Gone, Listening
<1>8. ASSUME NEW g \in Gets, NEW i \in 1 .. Len(r.inbox[g]), r.inbox[g][i] = "error"
      PROVE  i = Len(r.inbox[g]) /\ Gone(r, g, ph, wk)
  <2>1. CASE g \notin v.listeners[q]
    BY <1>1, <1>6, <1>8, <2>1 DEF GetsOK, Inboxes
  <2>2. CASE g \in v.listeners[q]
    <3>1. v.inbox[g] \in Seq(Event) /\ Len(v.inbox[g]) \in Nat
      BY <1>2, LenFacts, Zenon
    <3>2. "error" \in Event
      BY Zenon DEF Event
    <3>3. /\ r.inbox[g] = Append(v.inbox[g], "error")
          /\ Len(Append(v.inbox[g], "error")) = Len(v.inbox[g]) + 1
          /\ \A j \in 1 .. Len(v.inbox[g]) : Append(v.inbox[g], "error")[j] = v.inbox[g][j]
      BY <1>1, <2>2, <3>1, <3>2, AppendFacts, SMTT(30)
    <3>4. i \in 1 .. Len(v.inbox[g]) \/ i = Len(v.inbox[g]) + 1
      BY <3>1, <3>3
    <3>5. \A j \in 1 .. Len(v.inbox[g]) : v.inbox[g][j] # "error"
      BY <1>7, <2>2, Zenon DEF GetsOK, Inboxes
    <3> QED
      BY <1>7, <1>8, <2>2, <3>3, <3>4, <3>5, Zenon
  <2> QED
    BY <2>1, <2>2, Zenon
<1>9. ASSUME NEW g \in Gets, ph[g] = "answered", g \notin mu
      PROVE  r.inbox[g] = <<>> /\ Gone(r, g, ph, wk)
  BY <1>1, <1>6, <1>7, <1>9, Zenon DEF GetsOK, Refused
<1> QED
  BY <1>4, <1>5, <1>8, <1>9, Zenon DEF GetsOK, Inboxes, Refused, r

\* r is v with other TargetStates.
Retargets(r, v) ==
  /\ r \in Worker /\ SameTracker(r, v)
  /\ r.listeners = v.listeners /\ r.view = v.view
  /\ r.inbox = v.inbox /\ r.raised = v.raised
  /\ r.state = v.state /\ r.idle = v.idle /\ r.up = v.up /\ r.down = v.down
  /\ r.targets = v.targets

\* No target becomes current.
Fades(r, v) == r \in Worker /\ \A q \in Queries : r.current[q] \in {v.current[q], 0}

\* A message other than a snapshot is about one target.
LEMMA MessageKinds ==
  ASSUME NEW m \in Message, m.kind # "snapshot"
  PROVE  m \in Change /\ m.q \in Queries /\ m.no \in Nat
BY Zenon DEF Message, Change

\* The answer to a watch request.
LEMMA AddedFields ==
  ASSUME NEW v \in Worker, NEW q \in Queries
  PROVE  LET r == TargetAdded(v, q)
         IN  /\ Retargets(r, v) /\ Fades(r, v)
             /\ r.pending = [v.pending EXCEPT ![q] = v.pending[q] - 1]
<1> DEFINE pe == [v.pending EXCEPT ![q] = v.pending[q] - 1]
           ch == v.changes \ {q}
           c == [v EXCEPT !.pending = pe]
           d == [v EXCEPT !.pending = pe, !.changes = ch]
<1>1. TargetAdded(v, q) \in {c, d}
  BY Zenon DEF TargetAdded, Worker
<1>2. pe \in [Queries -> Int]
  BY WorkerFields
<1>3. ch \in SUBSET Queries
  BY WorkerFields, Zenon
<1> HIDE DEF pe, ch
<1>4. Retargets(c, v) /\ c.pending = pe /\ c.current = v.current
  BY <1>2, Zenon DEF Retargets, SameTracker, Worker
<1>5. Retargets(d, v) /\ d.pending = pe /\ d.current = v.current
  BY <1>2, <1>3, Zenon DEF Retargets, SameTracker, Worker
<1> HIDE DEF c, d
<1> QED
  BY <1>1, <1>4, <1>5, Zenon DEF Retargets, Fades, pe

\* The answer to an unwatch request; the last one takes the TargetState away.
LEMMA RemovedFields ==
  ASSUME NEW v \in Worker, NEW q \in Queries
  PROVE  LET r == TargetRemoved(v, q)
         IN  /\ Retargets(r, v) /\ Fades(r, v)
             /\ r.pending = [v.pending EXCEPT ![q] = v.pending[q] - 1]
<1> DEFINE pe == [v.pending EXCEPT ![q] = v.pending[q] - 1]
           pz == [pe EXCEPT ![q] = 0]
           cu == [v.current EXCEPT ![q] = 0]
           ch == v.changes \cup {q}
           c == [v EXCEPT !.pending = pe]
           d == [v EXCEPT !.pending = pz, !.current = cu, !.changes = ch]
<1>1. c.pending = pe
  BY Zenon DEF Worker
<1>2. TargetRemoved(v, q) = IF pe[q] # 0 THEN c ELSE d
  BY <1>1, Zenon DEF TargetRemoved, RemoveTarget, Worker
<1>3. pe \in [Queries -> Int]
  BY WorkerFields
<1>4. cu \in [Queries -> Nat] /\ (\A p \in Queries : cu[p] \in {v.current[p], 0})
  BY WorkerFields
<1>5. ch \in SUBSET Queries
  BY WorkerFields, Zenon
<1>6. pe[q] = 0 => pz = pe
  BY <1>3, Zenon
<1> HIDE DEF pe, cu, ch, pz
<1>7. Retargets(c, v) /\ c.pending = pe /\ c.current = v.current
  BY <1>3, Zenon DEF Retargets, SameTracker, Worker
<1>8. CASE pe[q] = 0
  <2>1. pz \in [Queries -> Int]
    BY <1>3, <1>6, <1>8, Zenon
  <2>2. Retargets(d, v) /\ d.pending = pz /\ d.current = cu
    BY <1>4, <1>5, <2>1, Zenon DEF Retargets, SameTracker, Worker
  <2> HIDE DEF d
  <2> QED
    BY <1>2, <1>4, <1>6, <1>8, <2>2, Zenon DEF Retargets, Fades, pe
<1>9. CASE pe[q] # 0
  <2> HIDE DEF c
  <2> QED
    BY <1>2, <1>7, <1>9, Zenon DEF Retargets, Fades, pe
<1> QED
  BY <1>8, <1>9, Zenon

\* CURRENT marks an active target, and no other.
LEMMA MarkFields ==
  ASSUME NEW v \in Worker, NEW q \in Queries, NEW no \in Nat
  PROVE  LET r == MarkCurrent(v, q, no)
         IN  /\ Retargets(r, v) /\ r.pending = v.pending
             /\ \A p \in Queries : r.current[p] # v.current[p] =>
                  p = q /\ IsActiveTarget(v, q) /\ r.current[p] = no
<1> DEFINE cu == [v.current EXCEPT ![q] = no]
           ch == v.changes \cup {q}
           c == [v EXCEPT !.current = cu, !.changes = ch]
<1>1. MarkCurrent(v, q, no) = IF ~IsActiveTarget(v, q) THEN v ELSE c
  BY Zenon DEF MarkCurrent, Worker
<1>2. /\ cu \in [Queries -> Nat] /\ cu[q] = no
      /\ \A p \in Queries : p # q => cu[p] = v.current[p]
  BY WorkerFields, Zenon
<1>3. ch \in SUBSET Queries
  BY WorkerFields, Zenon
<1> HIDE DEF cu, ch
<1>4. Retargets(c, v) /\ c.pending = v.pending /\ c.current = cu
  BY <1>2, <1>3, Zenon DEF Retargets, SameTracker, Worker
<1> HIDE DEF c
<1>5. Retargets(v, v)
  BY Zenon DEF Retargets, SameTracker
<1> QED
  BY <1>1, <1>2, <1>4, <1>5, Zenon

\* A target that is started over is not current.
LEMMA ResetFields ==
  ASSUME NEW v \in Worker, NEW q \in Queries
  PROVE  LET r == ResetTarget(v, q)
         IN  Retargets(r, v) /\ Fades(r, v) /\ r.pending = v.pending
<1> DEFINE cu == [v.current EXCEPT ![q] = 0]
           ch == v.changes \cup {q}
           c == [v EXCEPT !.current = cu, !.changes = ch]
<1>1. ResetTarget(v, q) \in {v, c}
  BY Zenon DEF ResetTarget, Worker
<1>2. cu \in [Queries -> Nat] /\ (\A p \in Queries : cu[p] \in {v.current[p], 0})
  BY WorkerFields
<1>3. ch \in SUBSET Queries
  BY WorkerFields, Zenon
<1> HIDE DEF cu, ch
<1>4. Retargets(c, v) /\ c.pending = v.pending /\ c.current = cu
  BY <1>2, <1>3, Zenon DEF Retargets, SameTracker, Worker
<1> HIDE DEF c
<1>5. Retargets(v, v)
  BY Zenon DEF Retargets, SameTracker
<1> QED
  BY <1>1, <1>2, <1>4, <1>5, Zenon DEF Retargets, Fades

----------------------------------------------------------------------------
(***************************************************************************)
(* The inductive invariant.                                                *)
(***************************************************************************)
\* A listener is a get that was issued for the query and is no longer queued.
Registered(v, ph, wk) ==
  \A q \in Queries : \A g \in v.listeners[q] :
    /\ of[g] = q
    /\ ph[g] # "new"
    /\ \A i \in 1 .. Len(wk) : wk[i].get = g => wk[i].op # "listen"

\* A get is queued for listening at most once, when it has been issued.
QueuedOnce(ph, wk) ==
  \A i \in 1 .. Len(wk) : wk[i].op = "listen" =>
    /\ ph[wk[i].get] # "new"
    /\ \A j \in 1 .. Len(wk) : wk[j].op = "listen" /\ wk[j].get = wk[i].get => i = j

Counted == \A g \in Gets : answers[g] = IF phase[g] = "answered" THEN 1 ELSE 0

RInv ==
  /\ TypeOK
  /\ Watched(w) /\ Timer(w) /\ Idle(w)
  /\ Registered(w, phase, work) /\ QueuedOnce(phase, work)
  /\ GetsOK(w, phase, muted, work)
  /\ Counted

\* What is left to show of a step of the worker queue that keeps listeners,
\* gets and work.
LEMMA WorkerSteps ==
  ASSUME RInv, UNCHANGED <<phase, of, answers, muted, work>>,
         Follows(w', w), Watched(w'), Timer(w'), Idle(w'),
         on' \subseteq Watch, listens' \in [Queries -> Nat], faults' \in 0 .. MaxFaults
  PROVE  RInv'
<1>1. TypeOK'
  BY Zenon DEF RInv, TypeOK, Follows
<1>2. GetsOK(w', phase, muted, work)
  BY Zenon DEF RInv, Follows
<1>3. Registered(w, phase, work)'
  BY DEF RInv, Registered, Follows
<1>4. QueuedOnce(phase, work)' /\ Counted' /\ GetsOK(w, phase, muted, work)'
  BY <1>2, Zenon DEF RInv, QueuedOnce, Counted
<1> QED
  BY <1>1, <1>3, <1>4, Zenon DEF RInv

\* A client that nobody has asked anything satisfies the invariant.
LEMMA InitSound == Init => RInv
<1> SUFFICES ASSUME Init PROVE RInv
  BY Zenon
<1>1. /\ <<>> \in Seq(Request) /\ <<>> \in Seq(Message) /\ <<>> \in Seq(Event)
      /\ <<>> \in Seq([op : {"listen", "remove"}, get : Gets]) /\ Len(<<>>) = 0
  BY EmptyFacts, Zenon
<1>2. 0 \in 0 .. 1 /\ 0 \in Nat /\ 0 \in Int /\ 0 \in 0 .. MaxFaults
  BY ReadsAssumption
<1>3. w \in Worker
  BY <1>1, <1>2, Zenon DEF Init, Worker
<1>4. /\ w.online = "Unknown" /\ ~w.timer /\ ~w.idle /\ w.targets = {}
      /\ \A q \in Queries : w.listeners[q] = {} /\ w.view[q] = "none"
      /\ \A g \in Gets : w.inbox[g] = <<>>
  BY Zenon DEF Init
<1>5. TypeOK
  BY <1>1, <1>2, <1>3, Zenon DEF Init, TypeOK
<1>6. Watched(w) /\ Timer(w) /\ Idle(w)
  BY <1>4, Zenon DEF Watched, Timer, Idle
<1>7. /\ Registered(w, phase, work) /\ QueuedOnce(phase, work)
      /\ GetsOK(w, phase, muted, work) /\ Counted
  BY <1>1, <1>4 DEF Init, Registered, QueuedOnce, GetsOK, Inboxes, Refused, Counted
<1> QED
  BY <1>5, <1>6, <1>7, Zenon DEF RInv

\* Facts about the worker queue with one more entry.
LEMMA WorkAppended ==
  ASSUME NEW wk \in Seq([op : {"listen", "remove"}, get : Gets]),
         NEW x \in [op : {"listen", "remove"}, get : Gets]
  PROVE  /\ Append(wk, x) \in Seq([op : {"listen", "remove"}, get : Gets])
         /\ \A i \in 1 .. Len(Append(wk, x)) :
              (i \in 1 .. Len(wk) /\ Append(wk, x)[i] = wk[i])
              \/ (i = Len(wk) + 1 /\ Append(wk, x)[i] = x)
         /\ \A i \in 1 .. Len(wk) : i \in 1 .. Len(Append(wk, x)) /\ Append(wk, x)[i] = wk[i]
<1>1. /\ Append(wk, x) \in Seq([op : {"listen", "remove"}, get : Gets])
      /\ Len(Append(wk, x)) = Len(wk) + 1 /\ Len(wk) \in Nat
      /\ \A i \in 1 .. Len(wk) : Append(wk, x)[i] = wk[i]
      /\ Append(wk, x)[Len(wk) + 1] = x
  BY AppendFacts, LenFacts
<1>2. \A i \in 1 .. Len(wk) + 1 : i \in 1 .. Len(wk) \/ i = Len(wk) + 1
  BY <1>1
<1>3. \A i \in 1 .. Len(wk) : i \in 1 .. Len(wk) + 1
  BY <1>1
<1> QED
  BY <1>1, <1>2, <1>3, Zenon

\* getDocuments: a get that is new has no events and is queued once.
LEMMA GetKeeps ==
  ASSUME RInv, NEW g \in Gets, getDocuments(g)
  PROVE  RInv'
<1> DEFINE x == [op |-> "listen", get |-> g]
<1>1. /\ phase[g] = "new" /\ phase' = [phase EXCEPT ![g] = "asked"]
      /\ work' = Append(work, x)
      /\ UNCHANGED <<of, answers, muted, w, on, listens, faults>>
  BY Zenon DEF getDocuments
<1>2. /\ phase \in [Gets -> {"new", "asked", "answered"}]
      /\ work \in Seq([op : {"listen", "remove"}, get : Gets])
      /\ x \in [op : {"listen", "remove"}, get : Gets] /\ x.op = "listen" /\ x.get = g
  BY Zenon DEF RInv, TypeOK
<1>3. /\ phase'[g] = "asked" /\ \A h \in Gets \ {g} : phase'[h] = phase[h]
      /\ phase' \in [Gets -> {"new", "asked", "answered"}]
  BY <1>1, <1>2, Zenon
<1> HIDE DEF x
<1>4. /\ work' \in Seq([op : {"listen", "remove"}, get : Gets])
      /\ \A i \in 1 .. Len(work') :
           (i \in 1 .. Len(work) /\ work'[i] = work[i]) \/ (i = Len(work) + 1 /\ work'[i] = x)
  BY <1>1, <1>2, WorkAppended
<1>5. TypeOK'
  BY <1>1, <1>3, <1>4, Zenon DEF RInv, TypeOK
<1>6. \A h \in Gets : Gone(w, h, phase, work) => Gone(w, h, phase', work')
  BY <1>1, <1>2, <1>3, <1>4 DEF Gone
<1>7. \A h \in Gets : phase'[h] = "answered" => phase[h] = "answered"
  BY <1>3, Zenon
<1>8. GetsOK(w, phase', muted, work')
  BY <1>6, <1>7, Zenon DEF RInv, GetsOK, Inboxes, Refused
<1>9. Registered(w, phase', work')
  <2> SUFFICES ASSUME NEW q \in Queries, NEW h \in w.listeners[q]
               PROVE  /\ of[h] = q /\ phase'[h] # "new"
                      /\ \A i \in 1 .. Len(work') : work'[i].get = h => work'[i].op # "listen"
    BY Zenon DEF Registered
  <2>1. /\ of[h] = q /\ phase[h] # "new" /\ h \in Gets
        /\ \A i \in 1 .. Len(work) : work[i].get = h => work[i].op # "listen"
    BY WorkerFields, SMTT(30) DEF RInv, Registered, TypeOK
  <2> QED
    BY <1>1, <1>2, <1>3, <1>4, <2>1
<1>10. QueuedOnce(phase', work')
  <2> SUFFICES ASSUME NEW i \in 1 .. Len(work'), work'[i].op = "listen"
               PROVE  /\ phase'[work'[i].get] # "new"
                      /\ \A j \in 1 .. Len(work') :
                           work'[j].op = "listen" /\ work'[j].get = work'[i].get => i = j
    BY Zenon DEF QueuedOnce
  <2>1. \A j \in 1 .. Len(work) : work[j].op = "listen" => work[j].get # g
    BY <1>1, Zenon DEF RInv, QueuedOnce
  <2>2. \A j \in 1 .. Len(work) : work[j].get \in Gets
    <3>1. \A j \in 1 .. Len(work) : work[j] \in [op : {"listen", "remove"}, get : Gets]
      BY <1>2, ElementFacts, Zenon
    <3> QED
      BY <3>1, Zenon
  <2>3. CASE work'[i] = x /\ i = Len(work) + 1
    BY <1>2, <1>3, <1>4, <2>1, <2>3
  <2>4. CASE i \in 1 .. Len(work) /\ work'[i] = work[i]
    <3>1. phase[work[i].get] # "new" /\ work[i].get # g /\ work[i].get \in Gets
      BY <2>1, <2>2, <2>4, Zenon DEF RInv, QueuedOnce
    <3>2. ASSUME NEW j \in 1 .. Len(work'), work'[j].op = "listen", work'[j].get = work'[i].get
          PROVE  i = j
      <4>1. j \in 1 .. Len(work) /\ work'[j] = work[j]
        BY <1>2, <1>4, <2>4, <3>1, <3>2, Zenon
      <4> QED
        BY <2>4, <3>2, <4>1, Zenon DEF RInv, QueuedOnce
    <3> QED
      BY <1>3, <2>4, <3>1, <3>2, Zenon
  <2> QED
    BY <1>4, <2>3, <2>4, Zenon
<1>11. Counted'
  BY <1>1, <1>3, Zenon DEF RInv, Counted
<1>12. /\ Registered(w, phase, work)' /\ QueuedOnce(phase, work)'
       /\ GetsOK(w, phase, muted, work)'
  BY <1>1, <1>8, <1>9, <1>10, Zenon DEF Registered
<1>13. Watched(w)' /\ Timer(w)' /\ Idle(w)'
  BY <1>1, Zenon DEF RInv
<1> QED
  BY <1>5, <1>11, <1>12, <1>13, Zenon DEF RInv

\* OnEvent: a get that is not muted has not been answered; a snapshot mutes it
\* and an error is its last event.
LEMMA EventKeeps ==
  ASSUME RInv, NEW g \in Gets, OnEvent(g)
  PROVE  RInv'
<1> DEFINE box == w.inbox[g]
           nb == [w.inbox EXCEPT ![g] = Tail(box)]
           x == [op |-> "remove", get |-> g]
<1>1. /\ w \in Worker /\ w.inbox \in [Gets -> Seq(Event)] /\ box \in Seq(Event)
      /\ phase \in [Gets -> {"new", "asked", "answered"}]
      /\ work \in Seq([op : {"listen", "remove"}, get : Gets])
      /\ answers \in [Gets -> Nat] /\ muted \subseteq Gets
      /\ x \in [op : {"listen", "remove"}, get : Gets] /\ x.op = "remove"
  BY WorkerFields, Zenon DEF RInv, TypeOK
<1>2. /\ box # <<>> /\ w' = [w EXCEPT !.inbox = nb]
      /\ UNCHANGED <<of, on, listens, faults>>
  BY <1>1, Zenon DEF OnEvent, Worker
<1>3. /\ Tail(box) \in Seq(Event) /\ Len(Tail(box)) = Len(box) - 1 /\ Len(box) \in Nat \ {0}
      /\ \A i \in 1 .. Len(Tail(box)) : Tail(box)[i] = box[i + 1]
      /\ Head(box) = box[1]
  BY <1>1, <1>2, HeadTailFacts, EmptyFacts, LenFacts
<1>4. /\ nb \in [Gets -> Seq(Event)] /\ nb[g] = Tail(box)
      /\ \A h \in Gets \ {g} : nb[h] = w.inbox[h]
  BY <1>1, <1>3, Zenon
<1> HIDE DEF nb, x
<1>5. /\ w' \in Worker /\ w'.inbox = nb /\ w'.listeners = w.listeners /\ w'.view = w.view
      /\ SameStream(w', w) /\ SameTracker(w', w)
  BY <1>1, <1>2, <1>4, Zenon DEF Worker, SameStream, SameTracker
<1>6. Watched(w') /\ Timer(w') /\ Idle(w')
  BY <1>5, Zenon DEF RInv, Watched, Timer, Idle, SameStream, SameTracker, IsStarted, IsOpen
<1>7. /\ phase' \in [Gets -> {"new", "asked", "answered"}]
      /\ \A h \in Gets : phase[h] # "new" => phase'[h] # "new"
      /\ \A h \in Gets \ {g} : phase'[h] = phase[h]
      /\ work' \in Seq([op : {"listen", "remove"}, get : Gets])
      /\ \A i \in 1 .. Len(work') :
           (i \in 1 .. Len(work) /\ work'[i] = work[i]) \/ work'[i].op = "remove"
      /\ muted \subseteq muted' /\ muted' \subseteq Gets
      /\ answers' \in [Gets -> Nat]
  <2>1. CASE UNCHANGED <<phase, answers, muted, work>>
    BY <1>1, <2>1, Zenon
  <2>2. CASE /\ phase' = [phase EXCEPT ![g] = "answered"]
             /\ answers' = [answers EXCEPT ![g] = @ + 1]
             /\ \/ UNCHANGED <<muted, work>>
                \/ muted' = muted \cup {g} /\ work' = Append(work, x)
    <3>1. /\ phase' \in [Gets -> {"new", "asked", "answered"}] /\ answers' \in [Gets -> Nat]
          /\ \A h \in Gets : phase[h] # "new" => phase'[h] # "new"
          /\ \A h \in Gets \ {g} : phase'[h] = phase[h]
          /\ muted \subseteq muted' /\ muted' \subseteq Gets
      BY <1>1, <2>2
    <3>2. CASE UNCHANGED work
      BY <1>1, <3>1, <3>2, Zenon
    <3>3. CASE work' = Append(work, x)
      BY <1>1, <3>1, <3>3, WorkAppended
    <3> QED
      BY <2>2, <3>1, <3>2, <3>3, Zenon
  <2> QED
    BY <2>1, <2>2, Zenon DEF OnEvent, x
<1>8. \A h \in Gets : Gone(w, h, phase, work) => Gone(w', h, phase', work')
  BY <1>5, <1>7, Zenon DEF Gone, Listening
<1>9. Inboxes(w', phase', work')
  <2> SUFFICES ASSUME NEW h \in Gets, NEW i \in 1 .. Len(nb[h]), nb[h][i] = "error"
               PROVE  i = Len(nb[h]) /\ Gone(w', h, phase', work')
    BY <1>5, Zenon DEF Inboxes
  <2>1. CASE h # g
    BY <1>4, <1>8, <2>1, Zenon DEF RInv, GetsOK, Inboxes
  <2>2. CASE h = g
    <3>1. i + 1 \in 1 .. Len(box) /\ box[i + 1] = "error" /\ i \in Nat
      <4>1. nb[h] = Tail(box) /\ i \in 1 .. Len(Tail(box)) /\ Tail(box)[i] = "error"
        BY <1>4, <2>2, Zenon
      <4>2. box[i + 1] = "error"
        BY <1>3, <4>1, Zenon
      <4>3. i + 1 \in 1 .. Len(box) /\ i \in Nat
        BY <1>3, <4>1
      <4> QED
        BY <4>2, <4>3, Zenon
    <3>2. i + 1 = Len(box) /\ Gone(w, g, phase, work)
      BY <3>1, Zenon DEF RInv, GetsOK, Inboxes
    <3> QED
      BY <1>3, <1>4, <1>8, <2>2, <3>1, <3>2
  <2> QED
    BY <2>1, <2>2, Zenon
<1>10. Head(box) = "error" => Tail(box) = <<>> /\ Gone(w, g, phase, work)
  <2> SUFFICES ASSUME Head(box) = "error" PROVE Tail(box) = <<>> /\ Gone(w, g, phase, work)
    BY Zenon
  <2>1. 1 \in 1 .. Len(box) /\ box[1] = "error"
    BY <1>3
  <2>2. 1 = Len(box) /\ Gone(w, g, phase, work)
    BY <2>1, Zenon DEF RInv, GetsOK, Inboxes
  <2>3. Len(Tail(box)) = 0
    BY <1>3, <2>2
  <2> QED
    BY <1>3, <2>2, <2>3, EmptyFacts, Zenon
<1>11. Refused(w', phase', muted', work')
  <2> SUFFICES ASSUME NEW h \in Gets, phase'[h] = "answered", h \notin muted'
               PROVE  nb[h] = <<>> /\ Gone(w', h, phase', work')
    BY <1>5, Zenon DEF Refused
  <2>1. CASE h # g
    BY <1>4, <1>7, <1>8, <2>1, Zenon DEF RInv, GetsOK, Refused
  <2>2. CASE h = g
    <3>1. g \notin muted
      BY <1>7, <2>2, Zenon
    <3>2. Head(box) = "error"
      BY <2>2, <3>1, Zenon DEF OnEvent
    <3> QED
      BY <1>4, <1>8, <1>10, <2>2, <3>2, Zenon
  <2> QED
    BY <2>1, <2>2, Zenon
<1>12. Registered(w', phase', work')
  <2>1. \A q \in Queries : \A h \in w.listeners[q] : h \in Gets
    BY <1>1, WorkerFields, Zenon
  <2> SUFFICES ASSUME NEW q \in Queries, NEW h \in w.listeners[q]
               PROVE  /\ of[h] = q /\ phase'[h] # "new"
                      /\ \A i \in 1 .. Len(work') : work'[i].get = h => work'[i].op # "listen"
    BY <1>5 DEF Registered
  <2>2. /\ of[h] = q /\ phase[h] # "new"
        /\ \A i \in 1 .. Len(work) : work[i].get = h => work[i].op # "listen"
    BY Zenon DEF RInv, Registered
  <2> QED
    BY <1>7, <2>1, <2>2, Zenon
<1>13. QueuedOnce(phase', work')
  <2>1. \A i \in 1 .. Len(work) : work[i] \in [op : {"listen", "remove"}, get : Gets]
    BY <1>1, ElementFacts, ZenonT(60)
  <2>2. \A i \in 1 .. Len(work) : work[i].get \in Gets
    BY <2>1, Zenon
  <2> QED
    BY <1>7, <2>2, Zenon DEF RInv, QueuedOnce
<1>14. Counted'
  <2>1. CASE g \in muted
    <3>1. UNCHANGED <<phase, answers>>
      BY <2>1, Zenon DEF OnEvent
    <3> QED
      BY <3>1, Zenon DEF RInv, Counted
  <2>2. CASE g \notin muted
    <3>1. phase[g] # "answered"
      BY <1>2, <2>2, Zenon DEF RInv, GetsOK, Refused
    <3>2. /\ phase' = [phase EXCEPT ![g] = "answered"]
          /\ answers' = [answers EXCEPT ![g] = @ + 1]
      BY <2>2, Zenon DEF OnEvent
    <3> QED
      BY <1>1, <3>1, <3>2 DEF RInv, Counted
  <2> QED
    BY <2>1, <2>2, Zenon
<1>15. TypeOK'
  BY <1>2, <1>5, <1>7, Zenon DEF RInv, TypeOK
<1>16. /\ Registered(w, phase, work)' /\ QueuedOnce(phase, work)'
       /\ GetsOK(w, phase, muted, work)'
  BY <1>2, <1>9, <1>11, <1>12, <1>13, Zenon DEF GetsOK, Registered
<1> QED
  BY <1>6, <1>14, <1>15, <1>16, Zenon DEF RInv

\* Facts about the worker queue without its first entry.
LEMMA WorkTail ==
  ASSUME RInv, work # <<>>
  PROVE  /\ Tail(work) \in Seq([op : {"listen", "remove"}, get : Gets])
         /\ Head(work).get \in Gets
         /\ \A i \in 1 .. Len(Tail(work)) :
              i + 1 \in 1 .. Len(work) /\ Tail(work)[i] = work[i + 1]
         /\ 1 \in 1 .. Len(work) /\ work[1] = Head(work)
         /\ QueuedOnce(phase, Tail(work))
<1>1. work \in Seq([op : {"listen", "remove"}, get : Gets])
  BY Zenon DEF RInv, TypeOK
<1>2. /\ Tail(work) \in Seq([op : {"listen", "remove"}, get : Gets])
      /\ Len(Tail(work)) = Len(work) - 1 /\ Len(work) \in Nat \ {0}
      /\ \A i \in 1 .. Len(Tail(work)) : Tail(work)[i] = work[i + 1]
      /\ Head(work) = work[1] /\ Head(work) \in [op : {"listen", "remove"}, get : Gets]
  <2> DEFINE S == [op : {"listen", "remove"}, get : Gets]
  <2>1. work \in Seq(S)
    BY <1>1, Zenon
  <2> HIDE DEF S
  <2>2. /\ Tail(work) \in Seq(S) /\ Len(Tail(work)) = Len(work) - 1 /\ Head(work) \in S
        /\ \A i \in 1 .. Len(Tail(work)) : Tail(work)[i] = work[i + 1]
    BY <2>1, HeadTailFacts, Zenon
  <2>3. Len(work) \in Nat /\ Head(work) = work[1]
    BY <2>1, LenFacts
  <2>4. Len(work) # 0
    BY <2>1, EmptyFacts, Zenon
  <2> QED
    BY <2>2, <2>3, <2>4, Zenon DEF S
<1>3. \A i \in 1 .. Len(Tail(work)) : i + 1 \in 1 .. Len(work) /\ i \in Nat
  BY <1>2
<1>4. Head(work).get \in Gets
  BY <1>2, Zenon
<1>5. QueuedOnce(phase, Tail(work))
  <2> SUFFICES ASSUME NEW i \in 1 .. Len(Tail(work)), Tail(work)[i].op = "listen"
               PROVE  /\ phase[Tail(work)[i].get] # "new"
                      /\ \A j \in 1 .. Len(Tail(work)) :
                           Tail(work)[j].op = "listen" /\ Tail(work)[j].get = Tail(work)[i].get
                             => i = j
    BY Zenon DEF QueuedOnce
  <2>1. phase[Tail(work)[i].get] # "new"
    BY <1>2, <1>3, Zenon DEF RInv, QueuedOnce
  <2>2. ASSUME NEW j \in 1 .. Len(Tail(work)), Tail(work)[j].op = "listen",
               Tail(work)[j].get = Tail(work)[i].get
        PROVE  i = j
    <3>1. i + 1 = j + 1
      BY <1>2, <1>3, <2>2, Zenon DEF RInv, QueuedOnce
    <3> QED
      BY <1>3, <3>1
  <2> QED
    BY <2>1, <2>2, Zenon
<1> QED
  BY <1>1, <1>2, <1>3, <1>4, <1>5

\* The same listeners but for those of q, of which one is added or removed.
LEMMA ListenersFields ==
  ASSUME NEW v \in Worker, NEW q \in Queries, NEW gs \in SUBSET Gets
  PROVE  LET r == [v EXCEPT !.listeners[q] = gs]
         IN  /\ r \in Worker /\ r.listeners = [v.listeners EXCEPT ![q] = gs]
             /\ r.view = v.view /\ r.inbox = v.inbox
             /\ SameStream(r, v) /\ SameTracker(r, v)
<1> DEFINE li == [v.listeners EXCEPT ![q] = gs]
           r == [v EXCEPT !.listeners = li]
<1>1. [v EXCEPT !.listeners[q] = gs] = r
  BY Zenon DEF Worker
<1>2. li \in [Queries -> SUBSET Gets]
  BY WorkerFields, Zenon
<1> HIDE DEF li
<1>3. /\ r \in Worker /\ r.listeners = li /\ r.view = v.view /\ r.inbox = v.inbox
      /\ SameStream(r, v) /\ SameTracker(r, v)
  BY <1>2, Zenon DEF Worker, SameStream, SameTracker
<1> HIDE DEF r
<1> QED
  BY <1>1, <1>3, Zenon DEF li

\* Another view of q.
LEMMA ViewFields ==
  ASSUME NEW v \in Worker, NEW q \in Queries, NEW x \in {"none", "local", "synced"}
  PROVE  LET r == [v EXCEPT !.view[q] = x]
         IN  /\ r \in Worker /\ r.view = [v.view EXCEPT ![q] = x]
             /\ r.listeners = v.listeners /\ r.inbox = v.inbox
             /\ SameStream(r, v) /\ SameTracker(r, v)
             /\ \A ph, mu, wk : GetsOK(v, ph, mu, wk) => GetsOK(r, ph, mu, wk)
<1> DEFINE vi == [v.view EXCEPT ![q] = x]
           r == [v EXCEPT !.view = vi]
<1>1. [v EXCEPT !.view[q] = x] = r
  BY Zenon DEF Worker
<1>2. vi \in [Queries -> {"none", "local", "synced"}]
  BY WorkerFields, Zenon
<1> HIDE DEF vi
<1>3. /\ r \in Worker /\ r.listeners = v.listeners /\ r.view = vi
      /\ r.inbox = v.inbox
      /\ SameStream(r, v) /\ SameTracker(r, v)
  BY <1>2, Zenon DEF Worker, SameStream, SameTracker
<1> HIDE DEF r
<1>4. \A ph, mu, wk : GetsOK(v, ph, mu, wk) => GetsOK(r, ph, mu, wk)
  BY <1>3 DEF GetsOK, Inboxes, Refused, Gone, Listening
<1> QED
  BY <1>1, <1>3, <1>4, Zenon DEF vi

\* What is left to show of a step that executes the first entry of the worker
\* queue.
LEMMA WorkSteps ==
  ASSUME RInv, work # <<>>, work' = Tail(work),
         UNCHANGED <<phase, of, answers, muted, on, faults>>,
         listens' \in [Queries -> Nat],
         w' \in Worker, Watched(w'), Timer(w'), Idle(w'),
         GetsOK(w', phase, muted, Tail(work)), Registered(w', phase, Tail(work))
  PROVE  RInv'
<1>1. Tail(work) \in Seq([op : {"listen", "remove"}, get : Gets]) /\ QueuedOnce(phase, Tail(work))
  BY WorkTail, Zenon
<1>2. TypeOK'
  BY <1>1, Zenon DEF RInv, TypeOK
<1>3. QueuedOnce(phase, work)' /\ Counted' /\ GetsOK(w, phase, muted, work)'
  BY <1>1, Zenon DEF RInv, Counted
<1>4. Registered(w, phase, work)'
  BY DEF Registered
<1> QED
  BY <1>2, <1>3, <1>4, Zenon DEF RInv

\* AddQueryListener: the get that listens was queued, so it was not refused.
LEMMA AddKeeps ==
  ASSUME RInv, AddQueryListener
  PROVE  RInv'
<1> DEFINE g == Head(work).get
           q == of[g]
           gs == w.listeners[q] \cup {g}
           added == [w EXCEPT !.listeners[q] = gs]
<1>1. /\ work # <<>> /\ Head(work).op = "listen" /\ work' = Tail(work)
      /\ UNCHANGED <<phase, of, answers, muted, on, faults>>
      /\ w.listeners[q] # {} => w' = OnViewSnapshot(added, {g}, q) /\ listens' = listens
      /\ w.listeners[q] = {} =>
           /\ w' = OnViewSnapshot(InitializeView(added, q), {g}, q)
           /\ listens' = [listens EXCEPT ![q] = listens[q] + 1]
  BY Zenon DEF AddQueryListener, RInv, TypeOK, Worker
<1>2. /\ g \in Gets /\ work[1] = Head(work) /\ 1 \in 1 .. Len(work)
      /\ \A i \in 1 .. Len(Tail(work)) : i + 1 \in 1 .. Len(work) /\ Tail(work)[i] = work[i + 1]
  BY <1>1, WorkTail, Zenon
<1>3. q \in Queries /\ w \in Worker /\ w.listeners \in [Queries -> SUBSET Gets]
  BY <1>2, WorkerFields, Zenon DEF RInv, TypeOK
<1>4. gs \in SUBSET Gets
  BY <1>2, <1>3, Zenon
<1> HIDE DEF gs
<1>5. /\ added \in Worker /\ added.listeners = [w.listeners EXCEPT ![q] = gs]
      /\ added.view = w.view /\ added.inbox = w.inbox
      /\ SameStream(added, w) /\ SameTracker(added, w)
  BY <1>3, <1>4, ListenersFields
<1> HIDE DEF added
<1>6. listens \in [Queries -> Nat] /\ listens' \in [Queries -> Nat]
  <2>1. listens \in [Queries -> Nat]
    BY Zenon DEF RInv, TypeOK
  <2>2. listens[q] \in Nat
    BY <1>3, <2>1, Zenon
  <2>3. listens' = listens \/ listens' = [listens EXCEPT ![q] = listens[q] + 1]
    BY <1>1, Zenon
  <2>4. CASE listens' = listens
    BY <2>1, <2>4, Zenon
  <2>5. CASE listens' = [listens EXCEPT ![q] = listens[q] + 1]
    <3> DEFINE n == listens[q] + 1
    <3>1. n \in Nat
      BY <2>2
    <3> HIDE DEF n
    <3>2. [listens EXCEPT ![q] = n] \in [Queries -> Nat]
      BY <2>1, <3>1, Zenon
    <3> QED
      BY <2>1, <2>5, <3>2, Zenon DEF n
  <2> QED
    BY <2>3, <2>4, <2>5, Zenon
<1>7. /\ phase[g] # "new"
      /\ \A i \in 1 .. Len(Tail(work)) : Tail(work)[i].get = g => Tail(work)[i].op # "listen"
  <2>1. phase[g] # "new"
    BY <1>1, <1>2, Zenon DEF RInv, QueuedOnce
  <2>2. ASSUME NEW i \in 1 .. Len(Tail(work)), Tail(work)[i].get = g,
               Tail(work)[i].op = "listen"
        PROVE  FALSE
    <3>1. 1 = i + 1
      BY <1>1, <1>2, <2>2, Zenon DEF RInv, QueuedOnce
    <3> QED
      BY <3>1
  <2> QED
    BY <2>1, <2>2, Zenon
<1>8. ~Gone(w, g, phase, work)
  BY <1>1, <1>2, Zenon DEF Gone
<1>9. \A h \in Gets : Gone(w, h, phase, work) => h # g /\ Gone(added, h, phase, Tail(work))
  <2> SUFFICES ASSUME NEW h \in Gets, Gone(w, h, phase, work)
               PROVE  h # g /\ Gone(added, h, phase, Tail(work))
    BY Zenon
  <2>1. h # g
    BY <1>8, Zenon
  <2>2. ~Listening(added, h)
    BY <1>3, <1>5, <2>1, SMTT(30) DEF Gone, Listening, gs
  <2>3. \A i \in 1 .. Len(Tail(work)) : Tail(work)[i].get = h => Tail(work)[i].op # "listen"
    BY <1>2, Zenon DEF Gone
  <2> QED
    BY <2>1, <2>2, <2>3, Zenon DEF Gone
<1>10. GetsOK(added, phase, muted, Tail(work))
  BY <1>5, <1>9, Zenon DEF RInv, GetsOK, Inboxes, Refused
<1>11. Registered(added, phase, Tail(work))
  <2> SUFFICES ASSUME NEW p \in Queries, NEW h \in added.listeners[p]
               PROVE  /\ of[h] = p /\ phase[h] # "new"
                      /\ \A i \in 1 .. Len(Tail(work)) :
                           Tail(work)[i].get = h => Tail(work)[i].op # "listen"
    BY Zenon DEF Registered
  <2>1. CASE h = g /\ p = q
    BY <1>7, <2>1, Zenon
  <2>2. CASE ~(h = g /\ p = q)
    <3>1. h \in w.listeners[p]
      BY <1>3, <1>5, <2>2 DEF gs
    <3>2. /\ of[h] = p /\ phase[h] # "new"
          /\ \A i \in 1 .. Len(work) : work[i].get = h => work[i].op # "listen"
      BY <3>1, Zenon DEF RInv, Registered
    <3> QED
      BY <1>2, <3>2, Zenon
  <2> QED
    BY <2>1, <2>2, Zenon
<1>12. /\ Timer(added) /\ Idle(added)
       /\ g \in added.listeners[q]
       /\ \A p \in Queries \ {q} : added.listeners[p] = w.listeners[p]
  BY <1>3, <1>5, Zenon DEF RInv, Timer, Idle, SameStream, SameTracker, IsStarted, IsOpen, gs
<1>13. CASE w.listeners[q] # {}
  <2>1. Watched(added)
    BY <1>3, <1>5, <1>12, <1>13, Zenon DEF RInv, Watched, SameStream
  <2>2. Follows(w', added) /\ SameStream(w', added) /\ SameTracker(w', added)
    <3>1. w' = OnViewSnapshot(added, {g}, q)
      BY <1>1, <1>13, Zenon
    <3>2. {g} \in SUBSET added.listeners[q]
      BY <1>12, Zenon
    <3> DEFINE s == {g}
    <3> HIDE DEF s
    <3>3. LET r == OnViewSnapshot(added, s, q)
          IN  Follows(r, added) /\ SameStream(r, added) /\ SameTracker(r, added)
      <4>1. s \in SUBSET added.listeners[q]
        BY <3>2, Zenon DEF s
      <4> QED
        BY <1>3, <1>5, <4>1, SnapshotFollows, Zenon
    <3> QED
      BY <3>1, <3>3, Zenon DEF s
  <2>3. Watched(w')
    BY <1>5, <2>1, <2>2, FollowsWatched, Zenon DEF SameStream
  <2>4. Timer(w') /\ Idle(w')
    BY <1>12, <2>2, Zenon DEF Timer, Idle, SameStream, SameTracker, IsStarted, IsOpen
  <2>5. /\ w' \in Worker /\ GetsOK(w', phase, muted, Tail(work))
        /\ Registered(w', phase, Tail(work))
    BY <1>10, <1>11, <2>2, Zenon DEF Follows, Registered
  <2> QED
    BY <1>1, <1>6, <2>3, <2>4, <2>5, WorkSteps, Zenon
<1>14. CASE w.listeners[q] = {}
  <2> DEFINE a == Listen(added, q)
             b == [a EXCEPT !.view[q] = "local"]
  <2>1. Follows(a, added) /\ Timer(a) /\ Idle(a) /\ a.targets = added.targets \cup {q}
    BY <1>3, <1>5, <1>6, <1>12, ListenFollows, Zenon
  <2>2. a \in Worker /\ w' = OnViewSnapshot(b, {g}, q)
    BY <1>1, <1>14, <2>1, Zenon DEF Follows, InitializeView
  <2> HIDE DEF a
  <2>3. /\ b \in Worker /\ b.view = [a.view EXCEPT ![q] = "local"]
        /\ b.listeners = a.listeners /\ b.inbox = a.inbox
        /\ SameStream(b, a) /\ SameTracker(b, a)
        /\ \A ph, mu, wk : GetsOK(a, ph, mu, wk) => GetsOK(b, ph, mu, wk)
    BY <1>3, <2>2, ViewFields, Zenon
  <2> HIDE DEF b
  <2>4. /\ GetsOK(b, phase, muted, Tail(work)) /\ b.listeners = added.listeners
        /\ Timer(b) /\ Idle(b)
    BY <1>10, <2>1, <2>3, Zenon
    DEF Follows, Timer, Idle, SameStream, SameTracker, IsStarted, IsOpen
  <2>5. a.view \in [Queries -> {"none", "local", "synced"}]
    BY <2>2, WorkerFields, Zenon
  <2>6. Watched(b)
    <3> SUFFICES ASSUME NEW p \in Queries
                 PROVE  /\ b.listeners[p] # {} <=> p \in b.targets
                        /\ b.view[p] # "none" <=> p \in b.targets
      BY Zenon DEF Watched
    <3>1. b.targets = w.targets \cup {q}
      BY <1>5, <2>1, <2>3, Zenon DEF SameStream
    <3>2. CASE p = q
      BY <1>12, <2>3, <2>4, <2>5, <3>1, <3>2, Zenon
    <3>3. CASE p # q
      <4>1. b.view[p] = "none" <=> w.view[p] = "none"
        BY <1>5, <2>1, <2>3, <2>5, <3>3, Zenon DEF Follows
      <4>2. b.listeners[p] = w.listeners[p]
        BY <1>12, <2>4, <3>3, Zenon
      <4> QED
        BY <3>1, <3>3, <4>1, <4>2, Zenon DEF RInv, Watched
    <3> QED
      BY <3>2, <3>3, Zenon
  <2>7. Follows(w', b) /\ SameStream(w', b) /\ SameTracker(w', b)
    <3> DEFINE s == {g}
    <3>1. s \in SUBSET b.listeners[q]
      BY <1>12, <2>4, Zenon
    <3> HIDE DEF s
    <3>2. LET r == OnViewSnapshot(b, s, q)
          IN  Follows(r, b) /\ SameStream(r, b) /\ SameTracker(r, b)
      BY <1>3, <2>3, <3>1, SnapshotFollows, Zenon
    <3> QED
      BY <2>2, <3>2, Zenon DEF s
  <2>8. Watched(w')
    BY <2>3, <2>6, <2>7, FollowsWatched, Zenon DEF SameStream
  <2>9. Timer(w') /\ Idle(w')
    BY <2>4, <2>7, Zenon DEF Timer, Idle, SameStream, SameTracker, IsStarted, IsOpen
  <2>10. /\ w' \in Worker /\ GetsOK(w', phase, muted, Tail(work))
         /\ Registered(w', phase, Tail(work))
    BY <1>11, <2>4, <2>7, SMTT(30) DEF Follows, Registered
  <2> QED
    BY <1>1, <1>6, <2>8, <2>9, <2>10, WorkSteps, Zenon
<1> QED
  BY <1>13, <1>14, Zenon

\* RemoveQueryListener: with the last listener of a query go its target and
\* its view.
LEMMA RemoveKeeps ==
  ASSUME RInv, RemoveQueryListener
  PROVE  RInv'
<1> DEFINE g == Head(work).get
           q == of[g]
           gs == w.listeners[q] \ {g}
           removed == [w EXCEPT !.listeners[q] = gs]
           last == w.listeners[q] # {} /\ gs = {}
<1>1. /\ work # <<>> /\ work' = Tail(work) /\ listens' = listens
      /\ UNCHANGED <<phase, of, answers, muted, on, faults>>
  BY Zenon DEF RemoveQueryListener
<1>2. /\ g \in Gets
      /\ \A i \in 1 .. Len(Tail(work)) : i + 1 \in 1 .. Len(work) /\ Tail(work)[i] = work[i + 1]
  BY <1>1, WorkTail, Zenon
<1>3. q \in Queries /\ w \in Worker /\ w.listeners \in [Queries -> SUBSET Gets]
  BY <1>2, WorkerFields, Zenon DEF RInv, TypeOK
<1>4. gs \in SUBSET Gets
  BY <1>3, Zenon
<1> HIDE DEF gs
<1>5. /\ removed \in Worker /\ removed.listeners = [w.listeners EXCEPT ![q] = gs]
      /\ removed.view = w.view /\ removed.inbox = w.inbox
      /\ SameStream(removed, w) /\ SameTracker(removed, w)
  BY <1>3, <1>4, ListenersFields
<1>6. removed.listeners[q] = gs /\ \A p \in Queries \ {q} : removed.listeners[p] = w.listeners[p]
  BY <1>3, <1>5, Zenon
<1>7. w' = IF last THEN RemoveAndCleanupTarget(removed, q) ELSE removed
  <2>1. removed = [w EXCEPT !.listeners[q] = @ \ {g}]
    BY <1>3, Zenon DEF Worker, gs
  <2> HIDE DEF removed
  <2> QED
    BY <1>6, <2>1, Zenon DEF RemoveQueryListener
<1> HIDE DEF removed
<1>8. \A h \in Gets : Gone(w, h, phase, work) => Gone(removed, h, phase, Tail(work))
  <2> SUFFICES ASSUME NEW h \in Gets, Gone(w, h, phase, work)
               PROVE  Gone(removed, h, phase, Tail(work))
    BY Zenon
  <2>1. ~Listening(removed, h)
    BY <1>3, <1>6, Zenon DEF Gone, Listening, gs
  <2>2. \A i \in 1 .. Len(Tail(work)) : Tail(work)[i].get = h => Tail(work)[i].op # "listen"
    BY <1>2, Zenon DEF Gone
  <2> QED
    BY <2>1, <2>2, Zenon DEF Gone
<1>9. GetsOK(removed, phase, muted, Tail(work))
  BY <1>5, <1>8, Zenon DEF RInv, GetsOK, Inboxes, Refused
<1>10. Registered(removed, phase, Tail(work))
  <2> SUFFICES ASSUME NEW p \in Queries, NEW h \in removed.listeners[p]
               PROVE  /\ of[h] = p /\ phase[h] # "new"
                      /\ \A i \in 1 .. Len(Tail(work)) :
                           Tail(work)[i].get = h => Tail(work)[i].op # "listen"
    BY Zenon DEF Registered
  <2>1. h \in w.listeners[p]
    BY <1>6, Zenon DEF gs
  <2>2. /\ of[h] = p /\ phase[h] # "new"
        /\ \A i \in 1 .. Len(work) : work[i].get = h => work[i].op # "listen"
    BY <2>1, Zenon DEF RInv, Registered
  <2> QED
    BY <1>2, <2>2, Zenon
<1>11. Timer(removed) /\ Idle(removed)
  BY <1>5, Zenon DEF RInv, Timer, Idle, SameStream, SameTracker, IsStarted, IsOpen
<1>12. listens' \in [Queries -> Nat]
  BY <1>1, Zenon DEF RInv, TypeOK
<1>13. CASE ~last
  <2>1. w' = removed
    BY <1>7, <1>13, Zenon
  <2>2. Watched(removed)
    <3> SUFFICES ASSUME NEW p \in Queries
                 PROVE  /\ removed.listeners[p] # {} <=> p \in removed.targets
                        /\ removed.view[p] # "none" <=> p \in removed.targets
      BY Zenon DEF Watched
    <3>1. removed.listeners[p] = {} <=> w.listeners[p] = {}
      BY <1>6, <1>13, Zenon DEF gs
    <3> QED
      BY <1>5, <3>1, Zenon DEF RInv, Watched, SameStream
  <2> QED
    BY <1>1, <1>5, <1>9, <1>10, <1>11, <1>12, <2>1, <2>2, WorkSteps, Zenon
<1>14. CASE last
  <2> DEFINE b == [removed EXCEPT !.view[q] = "none"]
  <2>1. w' = StopListening(b, q)
    BY <1>7, <1>14, Zenon DEF RemoveAndCleanupTarget
  <2>2. /\ b \in Worker /\ b.view = [removed.view EXCEPT ![q] = "none"]
        /\ b.listeners = removed.listeners /\ b.inbox = removed.inbox
        /\ SameStream(b, removed) /\ SameTracker(b, removed)
        /\ GetsOK(b, phase, muted, Tail(work))
    BY <1>3, <1>5, <1>9, ViewFields, Zenon
  <2> HIDE DEF b
  <2>3. Timer(b) /\ Idle(b)
    BY <1>11, <2>2, Zenon DEF Timer, Idle, SameStream, SameTracker, IsStarted, IsOpen
  <2>4. Follows(w', b) /\ Timer(w') /\ Idle(w') /\ w'.targets = b.targets \ {q}
    BY <1>3, <1>12, <2>1, <2>2, <2>3, StopFollows, Zenon
  <2>5. Watched(w')
    <3> SUFFICES ASSUME NEW p \in Queries
                 PROVE  /\ w'.listeners[p] # {} <=> p \in w'.targets
                        /\ w'.view[p] # "none" <=> p \in w'.targets
      BY Zenon DEF Watched
    <3>1. /\ w'.targets = w.targets \ {q}
          /\ w'.listeners = removed.listeners
          /\ w'.view[p] = "none" <=> b.view[p] = "none"
      BY <1>5, <2>2, <2>4, Zenon DEF SameStream, Follows
    <3>2. b.view = [w.view EXCEPT ![q] = "none"] /\ DOMAIN w.view = Queries
      BY <1>3, <1>5, <2>2, WorkerFields, Zenon
    <3>3. CASE p = q
      BY <1>6, <1>14, <3>1, <3>2, <3>3, Zenon
    <3>4. CASE p # q
      BY <1>6, <3>1, <3>2, <3>4, ZenonT(60) DEF RInv, Watched
    <3> QED
      BY <3>3, <3>4, Zenon
  <2>6. /\ w' \in Worker /\ GetsOK(w', phase, muted, Tail(work))
        /\ Registered(w', phase, Tail(work))
    BY <1>10, <2>2, <2>4, SMTT(30) DEF Follows, Registered
  <2> QED
    BY <1>1, <1>12, <2>4, <2>5, <2>6, WorkSteps, Zenon
<1> QED
  BY <1>13, <1>14, Zenon

\* Everything of the worker but the stream's queues and counters is as before.
Quiet(r, v) ==
  /\ r \in Worker /\ r.listeners = v.listeners /\ r.view = v.view /\ r.inbox = v.inbox
  /\ SameTracker(r, v) /\ r.targets = v.targets

\* What is left to show of a step on the stream alone.
LEMMA QuietSteps ==
  ASSUME RInv, UNCHANGED <<phase, of, answers, muted, work, listens>>,
         Quiet(w', w), on' \subseteq Watch, faults' \in 0 .. MaxFaults,
         IsStarted(w) => IsStarted(w'), Idle(w')
  PROVE  RInv'
<1>1. w \in Worker /\ listens' \in [Queries -> Nat]
  BY Zenon DEF RInv, TypeOK
<1>2. Follows(w', w)
  BY <1>1, FollowsQuietly, Zenon DEF Quiet
<1>3. Watched(w')
  BY <1>1, <1>2, FollowsWatched, Zenon DEF Quiet, RInv
<1>4. Timer(w')
  BY Zenon DEF Quiet, RInv, Timer, SameTracker
<1> QED
  BY <1>1, <1>2, <1>3, <1>4, WorkerSteps, Zenon

\* A list of T of length n that has all of T has none of it twice.
Lists(T, n) ==
  /\ n \in Nat
  /\ \A s \in [1 .. n -> T] :
       (\A q \in T : \E i \in 1 .. n : s[i] = q) => \A i, j \in 1 .. n : s[i] = s[j] => i = j

\* What is used of lists of queries.  It is proved as the lemma Listing at the
\* end, where the theorems about finite sets are brought in; here they would
\* burden every proof in between.
ListLaws == \A T \in SUBSET Queries : Lists(T, Cardinality(T))

\* A stream that opens watches every target anew.
LEMMA OpenKeeps ==
  ASSUME ListLaws, RInv, OnWatchStreamOpen
  PROVE  RInv'
<1>1. /\ w \in Worker /\ listens \in [Queries -> Nat] /\ on' \subseteq Watch
      /\ faults' \in 0 .. MaxFaults
  BY Zenon DEF RInv, TypeOK, OnWatchStreamOpen
<1>2. w.targets \in SUBSET Queries /\ w.pending \in [Queries -> Int]
  BY <1>1, WorkerFields, Zenon
<1>3. Cardinality(w.targets) \in Nat
  BY <1>2, Zenon DEF ListLaws, Lists
<1>4. PICK s \in [1 .. Cardinality(w.targets) -> w.targets] :
        w' = [w EXCEPT !.state = "Open",
                       !.up = [i \in DOMAIN s |->
                                 [q |-> s[i], add |-> TRUE, no |-> listens[s[i]]]],
                       !.pending = [q \in Queries |->
                                      IF q \in w.targets THEN w.pending[q] + 1 ELSE w.pending[q]]]
  BY <1>1, Zenon DEF OnWatchStreamOpen, Worker
<1> DEFINE up == [i \in DOMAIN s |-> [q |-> s[i], add |-> TRUE, no |-> listens[s[i]]]]
           pe == [q \in Queries |->
                    IF q \in w.targets THEN w.pending[q] + 1 ELSE w.pending[q]]
<1>5. up \in Seq(Request)
  <2>1. \A i \in 1 .. Cardinality(w.targets) :
          [q |-> s[i], add |-> TRUE, no |-> listens[s[i]]] \in Request
    BY <1>1, <1>2, Zenon DEF Request
  <2>2. up \in [1 .. Cardinality(w.targets) -> Request]
    BY <2>1, Zenon
  <2> HIDE DEF up
  <2> QED
    BY <1>3, <2>2
<1>6. pe \in [Queries -> Int]
  BY <1>2
<1>7. w' = [w EXCEPT !.state = "Open", !.up = up, !.pending = pe]
  BY <1>4, Zenon
<1> HIDE DEF up, pe
<1>8. Quiet(w', w) /\ w'.state = "Open" /\ w'.idle = w.idle /\ w'.targets = w.targets
  BY <1>1, <1>5, <1>6, <1>7, Zenon DEF Quiet, Worker, SameTracker
<1>9. IsStarted(w') /\ Idle(w')
  BY <1>8, Zenon DEF IsStarted, IsOpen, Idle, RInv
<1> QED
  BY <1>1, <1>8, <1>9, QuietSteps, Zenon DEF OnWatchStreamOpen

\* The end of the backoff starts the stream.
LEMMA BackoffKeeps ==
  ASSUME RInv, BackoffElapsed
  PROVE  RInv'
<1>1. w \in Worker /\ on' \subseteq Watch /\ faults' \in 0 .. MaxFaults
  BY Zenon DEF RInv, TypeOK, BackoffElapsed
<1>2. /\ Quiet(w', w) /\ w'.state = "Starting" /\ w'.idle = w.idle
      /\ w'.targets = w.targets
  BY <1>1, Zenon DEF BackoffElapsed, Quiet, Worker, SameTracker
<1>3. ~w.idle
  BY Zenon DEF BackoffElapsed, RInv, Idle, IsOpen
<1>4. IsStarted(w') /\ Idle(w')
  BY <1>2, <1>3, Zenon DEF IsStarted, Idle
<1> QED
  BY <1>1, <1>2, <1>4, QuietSteps, Zenon DEF BackoffElapsed

\* What a message does to the worker that has heard that the backend is there.
LEMMA ChangeCases ==
  ASSUME RInv, OnWatchStreamChange, NEW v \in Worker,
         v = UpdateState([w EXCEPT !.down = Tail(w.down)], "Online")
  PROVE  \/ Retargets(w', v)
         \/ \E q \in Queries : w' = ProcessTargetError(v, q)
         \/ \E qs \in SUBSET v.targets : \E news : w' = ApplyRemoteEvent(v, qs, news)
<1> DEFINE m == Head(w.down)
<1>1. w \in Worker /\ w.down \in Seq(Message) /\ w.down # <<>>
  BY WorkerFields, Zenon DEF RInv, TypeOK, OnWatchStreamChange
<1>2. m \in Message
  BY <1>1, HeadTailFacts, Zenon
<1>3. \/ m.kind = "added" /\ w' = TargetAdded(v, m.q)
      \/ m.kind = "removed" /\ w' = TargetRemoved(v, m.q)
      \/ m.kind = "current" /\ w' = MarkCurrent(v, m.q, m.no)
      \/ m.kind = "reset" /\ w' = ResetTarget(v, m.q)
      \/ m.kind = "refused" /\ w' = ProcessTargetError(v, m.q)
      \/ w' = v
      \/ \E qs \in CreateRemoteEvent(v) : \E news : w' = ApplyRemoteEvent(v, qs, news)
  BY Zenon DEF OnWatchStreamChange
<1> HIDE DEF m
<1>4. CASE m.kind = "added" /\ w' = TargetAdded(v, m.q)
  BY <1>2, <1>4, MessageKinds, AddedFields, Zenon
<1>5. CASE m.kind = "removed" /\ w' = TargetRemoved(v, m.q)
  BY <1>2, <1>5, MessageKinds, RemovedFields, Zenon
<1>6. CASE m.kind = "current" /\ w' = MarkCurrent(v, m.q, m.no)
  BY <1>2, <1>6, MessageKinds, MarkFields, Zenon
<1>7. CASE m.kind = "reset" /\ w' = ResetTarget(v, m.q)
  BY <1>2, <1>7, MessageKinds, ResetFields, Zenon
<1>8. CASE m.kind = "refused" /\ w' = ProcessTargetError(v, m.q)
  BY <1>2, <1>8, MessageKinds, Zenon
<1>9. CASE w' = v
  BY <1>9, Zenon DEF Retargets, SameTracker
<1>10. CASE \E qs \in CreateRemoteEvent(v) : \E news : w' = ApplyRemoteEvent(v, qs, news)
  <2>1. \A qs \in CreateRemoteEvent(v) : qs \in SUBSET v.targets
    BY Zenon DEF CreateRemoteEvent, IsActiveTarget
  <2> QED
    BY <1>10, <2>1, Zenon
<1> QED
  BY <1>3, <1>4, <1>5, <1>6, <1>7, <1>8, <1>9, <1>10, Zenon

\* A message of the backend: the tracker hears that it is there, then the
\* message is applied.
LEMMA ChangeKeeps ==
  ASSUME RInv, OnWatchStreamChange
  PROVE  RInv'
<1> DEFINE dn == Tail(w.down)
           u == [w EXCEPT !.down = dn]
           v == UpdateState(u, "Online")
<1>1. /\ w \in Worker /\ w.down \in Seq(Message) /\ w.down # <<>>
      /\ UNCHANGED <<phase, of, answers, muted, work, on, listens, faults>>
      /\ on' \subseteq Watch /\ listens' \in [Queries -> Nat] /\ faults' \in 0 .. MaxFaults
  BY WorkerFields, Zenon DEF RInv, TypeOK, OnWatchStreamChange
<1>2. dn \in Seq(Message)
  BY <1>1, HeadTailFacts, Zenon
<1>3. v \in Worker =>
        \/ Retargets(w', v)
        \/ \E q \in Queries : w' = ProcessTargetError(v, q)
        \/ \E qs \in SUBSET v.targets : \E news : w' = ApplyRemoteEvent(v, qs, news)
  BY ChangeCases, Zenon
<1> HIDE DEF dn
<1>5. /\ u \in Worker /\ u.listeners = w.listeners /\ u.view = w.view /\ u.inbox = w.inbox
      /\ u.state = w.state /\ u.idle = w.idle /\ u.targets = w.targets
  BY <1>1, <1>2, Zenon DEF Worker
<1> HIDE DEF u
<1>6. /\ Follows(v, u) /\ SameStream(v, u)
      /\ v.online = "Online" /\ v.failures = 0 /\ ~v.timer
  BY <1>5, UpdateFollows, Zenon
<1> HIDE DEF v
<1>7. /\ Follows(v, w) /\ v \in Worker /\ v.listeners = w.listeners
      /\ v.targets = w.targets /\ Timer(v) /\ Idle(v)
  <2>1. Follows(v, w)
    BY <1>1, <1>5, <1>6, FollowsQuietly, FollowsOn, Zenon
  <2>2. v.targets = w.targets /\ Timer(v) /\ Idle(v)
    BY <1>5, <1>6, Zenon DEF SameStream, Timer, Idle, IsOpen, RInv
  <2> QED
    BY <2>1, <2>2, Zenon DEF Follows
<1>8. Watched(v)
  BY <1>1, <1>7, FollowsWatched, Zenon DEF RInv
<1>9. CASE Retargets(w', v)
  <2>1. Follows(w', v)
    BY <1>7, <1>9, FollowsQuietly, Zenon DEF Retargets
  <2>2. Follows(w', w)
    BY <1>7, <2>1, FollowsOn, Zenon
  <2>3. Watched(w') /\ Timer(w') /\ Idle(w')
    BY <1>7, <1>8, <1>9, Zenon
    DEF Retargets, Watched, Timer, Idle, SameTracker, IsStarted, IsOpen
  <2> QED
    BY <1>1, <2>2, <2>3, WorkerSteps, Zenon
<1>10. ASSUME NEW qs \in SUBSET v.targets, NEW news, w' = ApplyRemoteEvent(v, qs, news)
       PROVE  RInv'
  <2>1. Follows(w', v) /\ SameStream(w', v) /\ SameTracker(w', v)
    BY <1>7, <1>8, <1>10, WatchSnapshotFollows, Zenon
  <2>2. Follows(w', w)
    BY <1>7, <2>1, FollowsOn, Zenon
  <2>3. Watched(w')
    BY <1>7, <1>8, <2>1, FollowsWatched, Zenon DEF SameStream
  <2>4. Timer(w') /\ Idle(w')
    BY <1>7, <2>1, Zenon DEF Timer, Idle, SameStream, SameTracker, IsStarted, IsOpen
  <2> QED
    BY <1>1, <2>2, <2>3, <2>4, WorkerSteps, Zenon
<1>11. ASSUME NEW q \in Queries, w' = ProcessTargetError(v, q)
       PROVE  RInv'
  <2>1. CASE q \notin v.targets
    <3>1. w' = v
      BY <1>11, <2>1, Zenon DEF ProcessTargetError
    <3> QED
      BY <1>1, <1>7, <1>8, <3>1, WorkerSteps, Zenon
  <2>2. CASE q \in v.targets
    <3>1. GetsOK(v, phase, muted, work)
      BY <1>7, Zenon DEF Follows, RInv
    <3>2. \A g \in v.listeners[q] :
            /\ phase[g] # "new"
            /\ \A p \in Queries : g \in v.listeners[p] => p = q
            /\ \A i \in 1 .. Len(work) : work[i].get = g => work[i].op # "listen"
      BY <1>7, SMTT(30) DEF RInv, Registered
    <3>3. Watched(w') /\ Timer(w') /\ Idle(w') /\ GetsOK(w', phase, muted, work)
      BY <1>7, <1>8, <1>11, <2>2, <3>1, <3>2, TargetErrorKeeps, Zenon
    <3>4. w' \in Worker /\ w'.listeners = [v.listeners EXCEPT ![q] = {}]
      BY <1>7, <1>11, <2>2, TargetErrorFields, Zenon
    <3>5. \A p \in Queries : w'.listeners[p] \subseteq w.listeners[p]
      BY <1>7, <3>4, WorkerFields
    <3>6. TypeOK'
      BY <1>1, <3>4, ZenonT(30) DEF RInv, TypeOK
    <3>7. Registered(w, phase, work)'
      <4> SUFFICES ASSUME NEW p \in Queries, NEW g \in w'.listeners[p]
                   PROVE  /\ of'[g] = p /\ phase'[g] # "new"
                          /\ \A i \in 1 .. Len(work') :
                               work'[i].get = g => work'[i].op # "listen"
        BY Zenon DEF Registered
      <4>1. g \in w.listeners[p]
        BY <3>5, Zenon
      <4>2. /\ of[g] = p /\ phase[g] # "new"
            /\ \A i \in 1 .. Len(work) : work[i].get = g => work[i].op # "listen"
        BY <4>1, Zenon DEF RInv, Registered
      <4> QED
        BY <1>1, <4>2, Zenon
    <3>8. GetsOK(w, phase, muted, work)' /\ QueuedOnce(phase, work)' /\ Counted'
      BY <1>1, <3>3, Zenon DEF RInv, QueuedOnce, Counted
    <3> QED
      BY <3>3, <3>6, <3>7, <3>8, Zenon DEF RInv
  <2> QED
    BY <2>1, <2>2, Zenon
<1> QED
  BY <1>3, <1>7, <1>9, <1>10, <1>11, Zenon

\* The two timers.
LEMMA TimersKeep ==
  ASSUME RInv, OnlineStateTimeout \/ IdleTimeout
  PROVE  RInv'
<1>1. w \in Worker /\ listens \in [Queries -> Nat] /\ faults \in 0 .. MaxFaults
  BY Zenon DEF RInv, TypeOK
<1>2. CASE OnlineStateTimeout
  <2> DEFINE a == [w EXCEPT !.timer = FALSE]
  <2>1. /\ a \in Worker /\ a.listeners = w.listeners /\ a.view = w.view /\ a.inbox = w.inbox
        /\ SameStream(a, w) /\ ~a.timer
    BY <1>1, ZenonT(30) DEF Worker, SameStream
  <2>2. w' = Broadcast(a, "Offline")
    BY <1>2, Zenon DEF OnlineStateTimeout
  <2> HIDE DEF a
  <2>3. Follows(w', a) /\ SameStream(w', a) /\ w'.online = "Offline" /\ w'.timer = a.timer
    BY <2>1, <2>2, BroadcastFollows, Zenon
  <2>4. Follows(w', w) /\ w'.targets = w.targets
    BY <1>1, <2>1, <2>3, FollowsQuietly, FollowsOn, Zenon DEF SameStream
  <2>5. Watched(w')
    BY <1>1, <2>4, FollowsWatched, Zenon DEF RInv
  <2>6. Timer(w') /\ Idle(w')
    BY <2>1, <2>3, Zenon DEF RInv, Timer, Idle, SameStream, IsOpen
  <2>7. on' \subseteq Watch
    BY <1>2, Zenon DEF OnlineStateTimeout, RInv, TypeOK
  <2> QED
    BY <1>1, <1>2, <2>4, <2>5, <2>6, <2>7, WorkerSteps, Zenon DEF OnlineStateTimeout
<1>3. CASE IdleTimeout
  <2> DEFINE a == Closed(w, "Initial")
  <2>1. Follows(a, w) /\ a \in Worker /\ ~a.idle /\ a.targets = w.targets
    BY <1>1, ClosedFollows, Zenon
  <2>2. w' = UpdateState(a, "Unknown") /\ on' \subseteq Watch
    BY <1>3, Zenon DEF IdleTimeout
  <2> HIDE DEF a
  <2>3. /\ Follows(w', a) /\ SameStream(w', a)
        /\ w'.online = "Unknown" /\ ~w'.timer
    BY <2>1, <2>2, UpdateFollows, Zenon
  <2>4. Follows(w', w) /\ w'.targets = w.targets /\ ~w'.idle
    BY <2>1, <2>3, FollowsOn, Zenon DEF SameStream
  <2>5. Watched(w')
    BY <1>1, <2>4, FollowsWatched, Zenon DEF RInv
  <2>6. Timer(w') /\ Idle(w')
    BY <2>3, <2>4, Zenon DEF Timer, Idle
  <2> QED
    BY <1>1, <1>3, <2>2, <2>4, <2>5, <2>6, WorkerSteps, Zenon DEF IdleTimeout
<1> QED
  BY <1>2, <1>3, Zenon

\* A stream that fails and a network that restarts.
LEMMA FaultsKeep ==
  ASSUME RInv, StreamFails \/ NetworkRestarts
  PROVE  RInv'
<1>1. w \in Worker /\ listens \in [Queries -> Nat] /\ faults \in 0 .. MaxFaults
  BY Zenon DEF RInv, TypeOK
<1>2. /\ UNCHANGED <<phase, of, answers, muted, work, listens>>
      /\ on' \subseteq Watch /\ faults' \in 0 .. MaxFaults
  BY <1>1, ReadsAssumption DEF StreamFails, NetworkRestarts, Fault
<1>3. Follows(w', w) /\ Timer(w') /\ ~w'.idle /\ w'.targets = w.targets
  <2>1. CASE StreamFails
    <3> DEFINE a == Closed(w, "Error")
    <3>1. /\ Follows(a, w) /\ a \in Worker /\ SameTracker(a, w)
          /\ ~a.idle /\ a.targets = w.targets
      BY <1>1, ClosedFollows, Zenon
    <3>2. w' = OnWatchStreamClose(a)
      BY <2>1, Zenon DEF StreamFails
    <3> HIDE DEF a
    <3>3. Calm(a)
      BY <3>1, Zenon DEF RInv, Timer, Calm, SameTracker
    <3>4. Follows(w', a) /\ Timer(w') /\ ~w'.idle /\ w'.targets = a.targets
      BY <3>1, <3>2, <3>3, CloseFollows, Zenon
    <3> QED
      BY <3>1, <3>4, FollowsOn, Zenon
  <2>2. CASE NetworkRestarts
    BY <1>1, <2>2, RestartFollows, Zenon DEF NetworkRestarts
  <2> QED
    BY <2>1, <2>2, Zenon
<1>4. Watched(w')
  BY <1>1, <1>3, FollowsWatched, Zenon DEF RInv
<1> QED
  BY <1>1, <1>2, <1>3, <1>4, WorkerSteps, Zenon DEF Idle

\* A message of the backend that is no answer to a request.
Telling ==
  \/ \E o \in on : SendCurrent(o) \/ SendReset(o)
  \/ \E fresh \in BOOLEAN : SendSnapshot(fresh)

Backend == Serve \/ Telling

\* It is CURRENT for a watch in force, a reset or a snapshot, and keeps the watches
\* but for what is due.
LEMMA TellingFields ==
  ASSUME w \in Worker, on \subseteq Watch, faults \in 0 .. MaxFaults, Telling
  PROVE  /\ on' \subseteq Watch /\ faults' \in 0 .. MaxFaults
         /\ UNCHANGED <<phase, of, answers, muted, work, listens>>
         /\ \A o \in on' : \E y \in on : y.q = o.q /\ y.no = o.no
         /\ \E m \in Message :
              /\ w' = [w EXCEPT !.down = Append(w.down, m)]
              /\ m.kind \in {"current", "reset", "snapshot"}
              /\ m.kind # "snapshot" => \E y \in on : y.q = m.q /\ y.no = m.no
<1>1. Fault => faults' \in 0 .. MaxFaults
  BY ReadsAssumption DEF Fault
<1>2. ASSUME NEW o \in on, SendCurrent(o) \/ SendReset(o)
      PROVE  /\ on' \subseteq Watch /\ faults' \in 0 .. MaxFaults
             /\ UNCHANGED <<phase, of, answers, muted, work, listens>>
             /\ \A z \in on' : \E y \in on : y.q = z.q /\ y.no = z.no
             /\ \E m \in Message :
                  /\ w' = [w EXCEPT !.down = Append(w.down, m)]
                  /\ m.kind \in {"current", "reset", "snapshot"}
                  /\ m.kind # "snapshot" => \E y \in on : y.q = m.q /\ y.no = m.no
  <2>1. o \in Watch
    BY Zenon
  <2>2. \A b \in BOOLEAN : /\ [o EXCEPT !.due = b] \in Watch
                           /\ [o EXCEPT !.due = b].q = o.q /\ [o EXCEPT !.due = b].no = o.no
    BY <2>1, Zenon DEF Watch
  <2>3. PICK b \in BOOLEAN : on' = (on \ {o}) \cup {[o EXCEPT !.due = b]}
    BY <1>2, Zenon DEF SendCurrent, SendReset
  <2>4. on' \subseteq Watch /\ \A z \in on' : \E y \in on : y.q = z.q /\ y.no = z.no
    BY <2>2, <2>3, Zenon
  <2>5. PICK k \in {"current", "reset"} :
          w' = [w EXCEPT !.down = Append(w.down, [kind |-> k, q |-> o.q, no |-> o.no])]
    BY <1>2, Zenon DEF SendCurrent, SendReset, Tell, Worker
  <2> DEFINE m == [kind |-> k, q |-> o.q, no |-> o.no]
  <2>6. m \in Message /\ m.kind = k /\ m.q = o.q /\ m.no = o.no
    BY <2>1, Zenon DEF Watch, Message, Change
  <2> HIDE DEF m
  <2>7. \E x \in Message :
          /\ w' = [w EXCEPT !.down = Append(w.down, x)]
          /\ x.kind \in {"current", "reset", "snapshot"}
          /\ x.kind # "snapshot" => \E y \in on : y.q = x.q /\ y.no = x.no
    BY <2>5, <2>6, Zenon DEF m
  <2>8. /\ faults' \in 0 .. MaxFaults
        /\ UNCHANGED <<phase, of, answers, muted, work, listens>>
    BY <1>1, <1>2, Zenon DEF SendCurrent, SendReset
  <2> QED
    BY <2>4, <2>7, <2>8, Zenon
<1>3. ASSUME NEW fresh \in BOOLEAN, SendSnapshot(fresh)
      PROVE  /\ on' = on /\ faults' \in 0 .. MaxFaults
             /\ UNCHANGED <<phase, of, answers, muted, work, listens>>
             /\ \E m \in Message :
                  w' = [w EXCEPT !.down = Append(w.down, m)] /\ m.kind = "snapshot"
  <2> DEFINE m == [kind |-> "snapshot", fresh |-> fresh]
  <2>1. m \in Message /\ m.kind = "snapshot"
    BY Zenon DEF Message
  <2>2. w' = [w EXCEPT !.down = Append(w.down, m)]
    BY <1>3, Zenon DEF SendSnapshot, Tell, Worker
  <2> HIDE DEF m
  <2>3. /\ on' = on /\ faults' \in 0 .. MaxFaults
        /\ UNCHANGED <<phase, of, answers, muted, work, listens>>
    BY <1>1, <1>3, Zenon DEF SendSnapshot
  <2> QED
    BY <2>1, <2>2, <2>3, Zenon
<1> QED
  BY <1>2, <1>3, Zenon DEF Telling

\* The backend only moves messages.
LEMMA BackendKeeps ==
  ASSUME RInv, Backend
  PROVE  RInv'
<1>1. /\ w \in Worker /\ w.up \in Seq(Request) /\ w.down \in Seq(Message)
      /\ on \subseteq Watch /\ faults \in 0 .. MaxFaults
  BY WorkerFields, Zenon DEF RInv, TypeOK
<1>2. ASSUME NEW up \in Seq(Request), NEW m \in Message,
             w' = [w EXCEPT !.up = up, !.down = Append(w.down, m)],
             on' \subseteq Watch,
             UNCHANGED <<phase, of, answers, muted, work, listens>>, faults' \in 0 .. MaxFaults
      PROVE  RInv'
  <2> DEFINE dn == Append(w.down, m)
  <2>1. dn \in Seq(Message)
    BY <1>1, AppendFacts, Zenon
  <2>2. w' = [w EXCEPT !.up = up, !.down = dn]
    BY <1>2, Zenon
  <2> HIDE DEF dn
  <2>3. Quiet(w', w) /\ w'.state = w.state /\ w'.idle = w.idle /\ w'.targets = w.targets
    BY <1>1, <2>1, <2>2, Zenon DEF Quiet, Worker, SameTracker
  <2>4. (IsStarted(w) => IsStarted(w')) /\ Idle(w')
    BY <2>3, Zenon DEF RInv, Idle, IsStarted, IsOpen
  <2> QED
    BY <1>2, <2>3, <2>4, QuietSteps, Zenon
<1>3. CASE Serve
  <2> DEFINE r == Head(w.up)
             up == Tail(w.up)
  <2>1. r \in Request /\ up \in Seq(Request)
    BY <1>1, <1>3, HeadTailFacts, Zenon DEF Serve
  <2>2. /\ on' \subseteq Watch
        /\ UNCHANGED <<phase, of, answers, muted, work, listens, faults>>
    <3>1. [q |-> r.q, no |-> r.no, due |-> TRUE] \in Watch
      BY <2>1, Zenon DEF Request, Watch
    <3> QED
      BY <1>1, <1>3, <3>1, Zenon DEF Serve
  <2>3. PICK k \in {"refused", "added", "removed"} :
          w' = [w EXCEPT !.up = up,
                         !.down = Append(w.down, [kind |-> k, q |-> r.q, no |-> r.no])]
    BY <1>1, <1>3, Zenon DEF Serve, Reply, Worker
  <2>4. [kind |-> k, q |-> r.q, no |-> r.no] \in Message
    BY <2>1, Zenon DEF Request, Message, Change
  <2> HIDE DEF r, up
  <2> QED
    BY <1>1, <1>2, <2>1, <2>2, <2>3, <2>4, Zenon
<1>4. ASSUME Telling
      PROVE  RInv'
  <2>1. /\ on' \subseteq Watch /\ faults' \in 0 .. MaxFaults
        /\ UNCHANGED <<phase, of, answers, muted, work, listens>>
        /\ \E m \in Message : w' = [w EXCEPT !.down = Append(w.down, m)]
    BY <1>1, <1>4, TellingFields, Zenon
  <2>2. PICK m \in Message : w' = [w EXCEPT !.down = Append(w.down, m)]
    BY <2>1, Zenon
  <2>3. w' = [w EXCEPT !.up = w.up, !.down = Append(w.down, m)]
    BY <1>1, <2>2, Zenon DEF Worker
  <2> QED
    BY <1>1, <1>2, <2>1, <2>3, Zenon
<1> QED
  BY <1>3, <1>4, Zenon DEF Backend

\* Every step, and every step that changes nothing, keeps the invariant.
LEMMA StepSound ==
  ASSUME ListLaws, RInv, [Next]_vars
  PROVE  RInv'
<1>1. ASSUME NEW g \in Gets, getDocuments(g) PROVE RInv'
  BY <1>1, GetKeeps, Zenon
<1>2. ASSUME NEW g \in Gets, OnEvent(g) PROVE RInv'
  BY <1>2, EventKeeps, Zenon
<1>3. CASE AddQueryListener
  BY <1>3, AddKeeps, Zenon
<1>4. CASE RemoveQueryListener
  BY <1>4, RemoveKeeps, Zenon
<1>5. CASE OnWatchStreamOpen
  BY <1>5, OpenKeeps, Zenon
<1>6. CASE OnWatchStreamChange
  BY <1>6, ChangeKeeps, Zenon
<1>7. CASE BackoffElapsed
  BY <1>7, BackoffKeeps, Zenon
<1>8. CASE OnlineStateTimeout \/ IdleTimeout
  BY <1>8, TimersKeep, Zenon
<1>9. CASE StreamFails \/ NetworkRestarts
  BY <1>9, FaultsKeep, Zenon
<1>10. CASE Backend
  BY <1>10, BackendKeeps, Zenon
<1>11. CASE UNCHANGED vars
  <2>1. UNCHANGED <<phase, of, answers, muted, work, w, on, listens, faults>>
    BY <1>11, Zenon DEF vars
  <2>2. /\ w \in Worker /\ Watched(w) /\ Timer(w) /\ Idle(w)
        /\ on \subseteq Watch /\ listens \in [Queries -> Nat] /\ faults \in 0 .. MaxFaults
    BY Zenon DEF RInv, TypeOK
  <2>3. Follows(w', w) /\ Watched(w') /\ Timer(w') /\ Idle(w')
    BY <2>1, <2>2, FollowsItself, Zenon
  <2> QED
    BY <2>1, <2>2, <2>3, WorkerSteps, Zenon
<1> QED
  BY <1>1, <1>2, <1>3, <1>4, <1>5, <1>6, <1>7, <1>8, <1>9, <1>10, <1>11, Zenon
  DEF Next, Backend, Telling

----------------------------------------------------------------------------
(***************************************************************************)
(* No get is forgotten.  Told says that whoever listens has had an initial *)
(* event if there was reason for one; the gets in S are about to be told.  *)
(***************************************************************************)
Told(v, S) ==
  \A q \in Queries : \A g \in v.listeners[q] \ S :
    g \in v.raised \/ ~ShouldRaiseInitialEvent(v, q)

\* Every query that somebody listens to has a view.
Seen(v) == \A q \in Queries : v.listeners[q] # {} => v.view[q] # "none"

\* The stream is started while something is watched.
Running(v) == v.targets # {} => IsStarted(v)

\* From v to r only listeners are told, and whoever was or is told has an event.
Kept(r, v) ==
  /\ r.listeners = v.listeners /\ v.raised \subseteq r.raised
  /\ \A g \in r.raised \ v.raised : Listening(v, g) /\ r.inbox[g] # <<>>
  /\ \A g \in Gets : v.inbox[g] # <<>> => r.inbox[g] # <<>>

Tells(r, v) == Kept(r, v) /\ \A S : Told(v, S) => Told(r, S)

\* One chain of handlers after another.
LEMMA KeptOn ==
  ASSUME NEW u \in Worker, NEW v \in Worker, NEW r \in Worker, Kept(v, u), Kept(r, v)
  PROVE  Kept(r, u)
<1>1. v.raised \subseteq Gets
  BY WorkerFields, Zenon
<1>2. \A g \in r.raised \ u.raised : Listening(u, g) /\ r.inbox[g] # <<>>
  <2> SUFFICES ASSUME NEW g \in r.raised \ u.raised
               PROVE  Listening(u, g) /\ r.inbox[g] # <<>>
    BY Zenon
  <2>1. CASE g \in v.raised
    BY <1>1, <2>1, Zenon DEF Kept
  <2>2. CASE g \notin v.raised
    BY <2>2, Zenon DEF Kept, Listening
  <2> QED
    BY <2>1, <2>2, Zenon
<1> QED
  BY <1>2, Zenon DEF Kept

LEMMA TellsOn ==
  ASSUME NEW u \in Worker, NEW v \in Worker, NEW r \in Worker, Tells(v, u), Tells(r, v)
  PROVE  Tells(r, u)
<1>1. Kept(r, u)
  BY KeptOn, Zenon DEF Tells
<1> QED
  BY <1>1, Zenon DEF Tells

\* A step that leaves listeners, events, views and the online state alone.
LEMMA TellsQuietly ==
  ASSUME NEW v, NEW r, r.listeners = v.listeners, r.view = v.view, r.inbox = v.inbox,
         r.raised = v.raised, r.online = v.online
  PROVE  Tells(r, v)
BY Zenon DEF Tells, Kept, Told, ShouldRaiseInitialEvent

\* Raise tells gets that listen.
LEMMA RaiseTells ==
  ASSUME NEW v \in Worker, NEW gs \in SUBSET Gets, NEW e \in Event,
         \A g \in gs : Listening(v, g)
  PROVE  LET r == Raise(v, gs, e)
         IN  r \in Worker /\ Tells(r, v) /\ r.raised = v.raised \cup gs
<1> DEFINE r == Raise(v, gs, e)
<1>1. /\ r \in Worker /\ r.online = v.online /\ r.listeners = v.listeners /\ r.view = v.view
      /\ \A g \in Gets \ gs : r.inbox[g] = v.inbox[g]
      /\ \A g \in gs : r.inbox[g] = Append(v.inbox[g], e)
  BY RaiseFields, Zenon
<1>2. r.raised = v.raised \cup gs
  BY Zenon DEF Raise, Worker
<1> HIDE DEF r
<1>3. \A g \in gs : r.inbox[g] # <<>>
  <2>1. \A g \in gs : v.inbox[g] \in Seq(Event)
    BY WorkerFields, Zenon
  <2>2. \A g \in gs : Append(v.inbox[g], e) # <<>>
    BY <2>1, AppendFacts
  <2> QED
    BY <1>1, <2>2, Zenon
<1>4. Kept(r, v)
  BY <1>1, <1>2, <1>3, Zenon DEF Kept
<1>5. \A S : Told(v, S) => Told(r, S)
  BY <1>1, <1>2, Zenon DEF Told, ShouldRaiseInitialEvent
<1> QED
  BY <1>1, <1>2, <1>4, <1>5, Zenon DEF Tells, r

\* OnViewSnapshot leaves nobody it is for without a reason to wait.
LEMMA SnapshotTells ==
  ASSUME NEW v \in Worker, NEW q \in Queries, NEW gs \in SUBSET v.listeners[q]
  PROVE  LET r == OnViewSnapshot(v, gs, q)
         IN  /\ r \in Worker /\ Tells(r, v)
             /\ \A g \in gs : g \in r.raised \/ ~ShouldRaiseInitialEvent(r, q)
<1> DEFINE told == {g \in gs : g \in v.raised \/ ShouldRaiseInitialEvent(v, q)}
           e == IF v.view[q] = "synced" THEN "synced" ELSE "cached"
           r == Raise(v, told, e)
<1>1. v.listeners[q] \in SUBSET Gets
  BY WorkerFields, Zenon
<1>2. told \in SUBSET Gets /\ (\A g \in told : Listening(v, g))
  BY <1>1, Zenon DEF Listening
<1>3. e \in Event
  BY Zenon DEF Event
<1>4. OnViewSnapshot(v, gs, q) = r
  BY Zenon DEF OnViewSnapshot
<1>5. \A g \in gs : g \in told \/ ~ShouldRaiseInitialEvent(v, q)
  BY Zenon
<1> HIDE DEF told, e
<1>6. r \in Worker /\ Tells(r, v) /\ r.raised = v.raised \cup told
  BY <1>2, <1>3, RaiseTells, Zenon
<1>7. r.view = v.view /\ r.online = v.online
  BY <1>2, <1>3, RaiseFields, Zenon
<1> HIDE DEF r
<1>8. \A g \in gs : g \in r.raised \/ ~ShouldRaiseInitialEvent(r, q)
  BY <1>5, <1>6, <1>7, Zenon DEF ShouldRaiseInitialEvent
<1> QED
  BY <1>4, <1>6, <1>8, Zenon

\* The views hear of a new state.
LEMMA ApplyTells ==
  ASSUME NEW v \in Worker, NEW state
  PROVE  LET r == ApplyOnlineStateChange(v, state)
         IN  r \in Worker /\ Tells(r, v) /\ r.online = v.online
<1> DEFINE lost == IF state = "Offline" THEN {q \in Queries : v.view[q] = "synced"} ELSE {}
           view == [q \in Queries |-> IF q \in lost THEN "local" ELSE v.view[q]]
           gs == (UNION {v.listeners[q] : q \in lost}) \cap v.raised
           u == [v EXCEPT !.view = view]
           r == Raise(u, gs, "cached")
<1>1. /\ v.view \in [Queries -> {"none", "local", "synced"}] /\ v.raised \in SUBSET Gets
      /\ v.listeners \in [Queries -> SUBSET Gets]
  BY WorkerFields, Zenon
<1>2. ApplyOnlineStateChange(v, state) = r
  BY Zenon DEF ApplyOnlineStateChange, Worker
<1>3. /\ view \in [Queries -> {"none", "local", "synced"}]
      /\ \A q \in Queries : view[q] = "synced" => v.view[q] = "synced"
  BY <1>1, Zenon
<1>4. gs \in SUBSET Gets /\ (\A g \in gs : Listening(v, g))
  <2>1. lost \subseteq Queries
    BY Zenon
  <2> HIDE DEF lost
  <2> QED
    BY <1>1, <2>1, Zenon DEF Listening
<1> HIDE DEF lost, view, gs
<1>5. /\ u \in Worker /\ u.view = view /\ u.listeners = v.listeners /\ u.inbox = v.inbox
      /\ u.raised = v.raised /\ u.online = v.online
  BY <1>3, Zenon DEF Worker
<1> HIDE DEF u
<1>6. Tells(u, v)
  BY <1>3, <1>5, Zenon DEF Tells, Kept, Told, ShouldRaiseInitialEvent
<1>7. "cached" \in Event /\ \A g \in gs : Listening(u, g)
  BY <1>4, <1>5, Zenon DEF Event, Listening
<1>8. r \in Worker /\ Tells(r, u)
  BY <1>4, <1>5, <1>7, RaiseTells, Zenon
<1>9. r.online = u.online
  BY <1>4, <1>5, <1>7, RaiseFields, Zenon
<1> HIDE DEF r
<1>10. Tells(r, v)
  BY <1>5, <1>6, <1>8, TellsOn, Zenon
<1> QED
  BY <1>2, <1>5, <1>8, <1>9, <1>10, Zenon

\* A broadcast of Offline tells everybody who waits, given that every query they
\* wait for has a view by then; no other broadcast gives a reason to be told.
LEMMA BroadcastTells ==
  ASSUME NEW v \in Worker, NEW state \in {"Unknown", "Online", "Offline"},
         state = "Offline" => Seen(v)
  PROVE  Tells(Broadcast(v, state), v)
<1>1. CASE v.online = state
  BY <1>1, TellsQuietly, Zenon DEF Broadcast
<1>2. CASE v.online # state
  <2> DEFINE a == ApplyOnlineStateChange(v, state)
             b == [a EXCEPT !.online = state]
             c == OnOnlineStateChanged(b)
  <2>1. Follows(a, v) /\ a \in Worker /\ Tells(a, v)
    BY ApplyFollows, ApplyTells, Zenon
  <2>2. Broadcast(v, state) = c
    BY <1>2, Zenon DEF Broadcast
  <2> HIDE DEF a
  <2>3. /\ b \in Worker /\ b.listeners = a.listeners /\ b.view = a.view
        /\ b.inbox = a.inbox /\ b.raised = a.raised /\ b.online = state
    BY <2>1, Zenon DEF Worker
  <2> HIDE DEF b
  <2>4. Kept(b, a) /\ Kept(a, v)
    BY <2>1, <2>3, Zenon DEF Kept, Tells
  <2>5. CASE state # "Offline"
    <3>1. c = b
      BY <2>3, <2>5, Zenon DEF OnOnlineStateChanged
    <3>2. \A S : Told(a, S) => Told(b, S)
      BY <2>3, <2>5, Zenon DEF Told, ShouldRaiseInitialEvent
    <3>3. Tells(b, v)
      BY <2>1, <2>3, <2>4, <3>2, TellsOn, Zenon DEF Tells
    <3> QED
      BY <2>2, <3>1, <3>3, Zenon
  <2>6. CASE state = "Offline"
    <3> DEFINE gs == {g \in UNION {b.listeners[q] : q \in {q \in Queries : b.view[q] # "none"}} :
                        g \notin b.raised}
    <3>1. b.listeners \in [Queries -> SUBSET Gets]
      BY <2>3, WorkerFields, Zenon
    <3>2. gs \in SUBSET Gets /\ (\A g \in gs : Listening(b, g))
      BY <3>1, Zenon DEF Listening
    <3>3. \A q \in Queries : b.listeners[q] # {} => b.view[q] # "none"
      BY <2>1, <2>3, <2>6, Zenon DEF Follows, Seen
    <3>4. \A q \in Queries : \A g \in b.listeners[q] : g \in b.raised \cup gs
      BY <3>3, Zenon
    <3>5. c = Raise(b, gs, "cached") /\ "cached" \in Event
      BY <2>3, <2>6, Zenon DEF OnOnlineStateChanged, Event
    <3> HIDE DEF gs, c
    <3>6. c \in Worker /\ Tells(c, b) /\ c.raised = b.raised \cup gs
      BY <2>3, <3>2, <3>5, RaiseTells, Zenon
    <3>7. Kept(c, v)
      BY <2>1, <2>3, <2>4, <3>6, KeptOn, Zenon DEF Tells
    <3>8. c.listeners = b.listeners
      BY <3>6, Zenon DEF Tells, Kept
    <3>9. \A S : Told(c, S)
      BY <3>4, <3>6, <3>8, Zenon DEF Told
    <3> QED
      BY <2>2, <3>7, <3>9, Zenon DEF Tells
  <2> QED
    BY <2>5, <2>6, Zenon
<1> QED
  BY <1>1, <1>2, Zenon

\* UpdateState, which is never called with Offline.
LEMMA UpdateTells ==
  ASSUME NEW v \in Worker, NEW state \in {"Unknown", "Online"}
  PROVE  Tells(UpdateState(v, state), v)
<1> DEFINE a == [v EXCEPT !.timer = FALSE, !.failures = 0]
           b == Broadcast(a, state)
<1>1. UpdateState(v, state) = b
  BY Zenon DEF UpdateState
<1>2. a \in Worker
  <2>1. 0 \in 0 .. 1
    OBVIOUS
  <2> QED
    BY <2>1, Zenon DEF Worker
<1>3. /\ a.listeners = v.listeners /\ a.view = v.view /\ a.inbox = v.inbox
      /\ a.raised = v.raised /\ a.online = v.online
  BY Zenon DEF Worker
<1> HIDE DEF a
<1>4. Tells(a, v)
  BY <1>3, TellsQuietly, Zenon
<1>5. Tells(b, a)
  BY <1>2, BroadcastTells, Zenon
<1>6. b \in Worker
  BY <1>2, BroadcastFollows, Zenon DEF Follows
<1> HIDE DEF b
<1> QED
  BY <1>1, <1>2, <1>4, <1>5, <1>6, TellsOn, Zenon

\* StartWatchStream leaves the stream started.
LEMMA StartTells ==
  ASSUME NEW v \in Worker
  PROVE  LET r == StartWatchStream(v)
         IN  r \in Worker /\ Tells(r, v) /\ IsStarted(r) /\ r.targets = v.targets
<1> DEFINE st == IF v.state = "Error" THEN "Backoff" ELSE "Starting"
           pe == [q \in Queries |-> 0]
           cu == [q \in Queries |-> 0]
           a == [v EXCEPT !.state = st, !.pending = pe, !.current = cu, !.changes = Queries]
           b == Broadcast(a, "Unknown")
           c == [b EXCEPT !.timer = TRUE]
<1>1. StartWatchStream(v) = HandleWatchStreamStart(a)
  BY Zenon DEF StartWatchStream, Worker
<1>2. st \in {"Starting", "Backoff"} /\ pe \in [Queries -> Int] /\ cu \in [Queries -> Nat]
  OBVIOUS
<1> HIDE DEF st, pe, cu
<1>3. /\ a \in Worker /\ a.listeners = v.listeners /\ a.view = v.view /\ a.inbox = v.inbox
      /\ a.raised = v.raised /\ a.online = v.online /\ a.state = st /\ a.targets = v.targets
  BY <1>2, Zenon DEF Worker
<1>4. HandleWatchStreamStart(a) = IF a.failures # 0 THEN a ELSE c
  BY Zenon DEF HandleWatchStreamStart
<1> HIDE DEF a
<1>5. IsStarted(a) /\ Tells(a, v)
  BY <1>2, <1>3, TellsQuietly, Zenon DEF IsStarted
<1>6. b \in Worker /\ SameStream(b, a)
  BY <1>3, BroadcastFollows, Zenon DEF Follows
<1>7. Tells(b, a)
  BY <1>3, BroadcastTells, Zenon
<1> HIDE DEF b
<1>8. /\ c \in Worker /\ c.listeners = b.listeners /\ c.view = b.view /\ c.inbox = b.inbox
      /\ c.raised = b.raised /\ c.online = b.online /\ c.state = b.state /\ c.targets = b.targets
  BY <1>6, Zenon DEF Worker
<1> HIDE DEF c
<1>9. Tells(b, v) /\ Tells(c, b)
  BY <1>3, <1>5, <1>6, <1>7, <1>8, TellsOn, TellsQuietly, Zenon
<1>10. Tells(c, v)
  BY <1>6, <1>8, <1>9, TellsOn, Zenon
<1>11. IsStarted(c) /\ c.targets = v.targets
  BY <1>3, <1>5, <1>6, <1>8, Zenon DEF SameStream, IsStarted, IsOpen
<1> QED
  BY <1>1, <1>3, <1>4, <1>5, <1>8, <1>10, <1>11, Zenon

\* A call that ends.
LEMMA ClosedTells ==
  ASSUME NEW v \in Worker, NEW state
  PROVE  LET r == Closed(v, state)
         IN  Tells(r, v) /\ r.view = v.view /\ r.listeners = v.listeners /\ r.targets = v.targets
<1> DEFINE r == Closed(v, state)
<1>1. /\ r.listeners = v.listeners /\ r.view = v.view /\ r.inbox = v.inbox
      /\ r.raised = v.raised /\ r.online = v.online /\ r.targets = v.targets
  BY Zenon DEF Closed, Worker
<1> HIDE DEF r
<1> QED
  BY <1>1, TellsQuietly, Zenon DEF r

\* HandleWatchStreamFailure may say Offline.
LEMMA FailureTells ==
  ASSUME NEW v \in Worker, Seen(v)
  PROVE  LET r == HandleWatchStreamFailure(v)
         IN  r \in Worker /\ Tells(r, v) /\ r.targets = v.targets
<1>1. CASE v.online = "Online"
  BY <1>1, BroadcastTells, BroadcastFollows, Zenon
  DEF HandleWatchStreamFailure, Follows, SameStream
<1>2. CASE v.online # "Online"
  <2> DEFINE a == [v EXCEPT !.failures = 1, !.timer = FALSE]
             r == Broadcast(a, "Offline")
  <2>1. HandleWatchStreamFailure(v) = r
    BY <1>2, Zenon DEF HandleWatchStreamFailure
  <2>2. a \in Worker
    <3>1. 1 \in 0 .. 1
      OBVIOUS
    <3> QED
      BY <3>1, Zenon DEF Worker
  <2>3. /\ a.listeners = v.listeners /\ a.view = v.view /\ a.inbox = v.inbox
        /\ a.raised = v.raised /\ a.online = v.online /\ a.targets = v.targets
    BY Zenon DEF Worker
  <2> HIDE DEF a
  <2>4. Tells(a, v) /\ Seen(a)
    BY <2>3, TellsQuietly, Zenon DEF Seen
  <2>5. r \in Worker /\ r.targets = a.targets
    BY <2>2, BroadcastFollows, Zenon DEF Follows, SameStream
  <2>6. Tells(r, a)
    BY <2>2, <2>4, BroadcastTells, Zenon
  <2> HIDE DEF r
  <2>7. Tells(r, v)
    BY <2>2, <2>4, <2>5, <2>6, TellsOn, Zenon
  <2> QED
    BY <2>1, <2>3, <2>5, <2>7, Zenon
<1> QED
  BY <1>1, <1>2, Zenon

\* A request that goes out.
LEMMA SendTells ==
  ASSUME NEW v \in Worker, NEW q \in Queries, NEW add \in BOOLEAN,
         listens' \in [Queries -> Nat]
  PROVE  LET r == Send(v, q, add)
         IN  r \in Worker /\ Tells(r, v) /\ r.state = v.state /\ r.targets = v.targets
<1> DEFINE r == Send(v, q, add)
<1>1. r \in Worker /\ r.state = v.state /\ r.targets = v.targets
  BY SendFollows, Zenon DEF Follows
<1>2. /\ r.listeners = v.listeners /\ r.view = v.view /\ r.inbox = v.inbox
      /\ r.raised = v.raised /\ r.online = v.online
  BY Zenon DEF Send, Worker
<1> HIDE DEF r
<1> QED
  BY <1>1, <1>2, TellsQuietly, Zenon DEF r

\* Another set of targets.
LEMMA TargetsTell ==
  ASSUME NEW v \in Worker, NEW ts \in SUBSET Queries
  PROVE  LET r == [v EXCEPT !.targets = ts]
         IN  r \in Worker /\ Tells(r, v) /\ r.state = v.state /\ r.targets = ts
<1> DEFINE r == [v EXCEPT !.targets = ts]
<1>1. /\ r \in Worker /\ r.listeners = v.listeners /\ r.view = v.view /\ r.inbox = v.inbox
      /\ r.raised = v.raised /\ r.online = v.online /\ r.state = v.state /\ r.targets = ts
  BY Zenon DEF Worker
<1> HIDE DEF r
<1> QED
  BY <1>1, TellsQuietly, Zenon DEF r

\* After RemoteStore::Listen the stream is started.
LEMMA ListenTells ==
  ASSUME NEW v \in Worker, NEW q \in Queries, listens' \in [Queries -> Nat]
  PROVE  LET r == Listen(v, q)
         IN  r \in Worker /\ Tells(r, v) /\ IsStarted(r)
<1> DEFINE ts == v.targets \cup {q}
           a == [v EXCEPT !.targets = ts]
<1>1. ts \in SUBSET Queries /\ ts # {}
  BY WorkerFields, Zenon
<1>2. Listen(v, q) = IF ShouldStartWatchStream(a) THEN StartWatchStream(a)
                     ELSE IF IsOpen(v) THEN Send(a, q, TRUE)
                     ELSE a
  BY Zenon DEF Listen, Worker
<1> HIDE DEF ts
<1>3. a \in Worker /\ Tells(a, v) /\ a.state = v.state /\ a.targets = ts
  BY <1>1, TargetsTell, Zenon
<1> HIDE DEF a
<1>4. CASE ShouldStartWatchStream(a)
  <2> DEFINE r == StartWatchStream(a)
  <2>1. r \in Worker /\ Tells(r, a) /\ IsStarted(r)
    BY <1>3, StartTells, Zenon
  <2> HIDE DEF r
  <2>2. Tells(r, v)
    BY <1>3, <2>1, TellsOn, Zenon
  <2> QED
    BY <1>2, <1>4, <2>1, <2>2, Zenon DEF r
<1>5. CASE ~ShouldStartWatchStream(a)
  <2> DEFINE r == Send(a, q, TRUE)
  <2>1. IsStarted(a)
    BY <1>1, <1>3, <1>5, Zenon DEF ShouldStartWatchStream
  <2>2. r \in Worker /\ Tells(r, a) /\ r.state = a.state
    BY <1>3, SendTells, Zenon
  <2> HIDE DEF r
  <2>3. Tells(r, v) /\ IsStarted(r)
    BY <1>3, <2>1, <2>2, TellsOn, Zenon DEF IsStarted, IsOpen
  <2> QED
    BY <1>2, <1>3, <1>5, <2>1, <2>2, <2>3, Zenon DEF r
<1> QED
  BY <1>4, <1>5, Zenon

\* RemoteStore::StopListening does not stop a stream that is needed.
LEMMA StopTells ==
  ASSUME NEW v \in Worker, NEW q \in Queries, Running(v), listens' \in [Queries -> Nat]
  PROVE  LET r == StopListening(v, q)
         IN  r \in Worker /\ Tells(r, v) /\ Running(r)
<1> DEFINE ts == v.targets \ {q}
           a == [v EXCEPT !.targets = ts]
           b == IF IsOpen(v) THEN Send(a, q, FALSE) ELSE a
<1>1. ts \in SUBSET Queries /\ (ts # {} => v.targets # {})
  BY WorkerFields, Zenon
<1>2. StopListening(v, q) = IF b.targets # {} THEN b
                            ELSE IF IsOpen(v) THEN [b EXCEPT !.idle = TRUE]
                            ELSE UpdateState(b, "Unknown")
  BY Zenon DEF StopListening, Worker
<1> HIDE DEF ts
<1>3. a \in Worker /\ Tells(a, v) /\ a.state = v.state /\ a.targets = ts
  BY <1>1, TargetsTell, Zenon
<1> HIDE DEF a
<1>4. b \in Worker /\ Tells(b, v) /\ b.state = v.state /\ b.targets = ts
  <2> DEFINE r == Send(a, q, FALSE)
  <2>1. r \in Worker /\ Tells(r, a) /\ r.state = a.state /\ r.targets = a.targets
    BY <1>3, SendTells, Zenon
  <2> HIDE DEF r
  <2>2. Tells(r, v)
    BY <1>3, <2>1, TellsOn, Zenon
  <2> QED
    BY <1>3, <2>1, <2>2, Zenon DEF r
<1> HIDE DEF b
<1>5. CASE b.targets # {}
  BY <1>1, <1>2, <1>4, <1>5, Zenon DEF Running, IsStarted, IsOpen
<1>6. CASE b.targets = {} /\ IsOpen(v)
  <2> DEFINE r == [b EXCEPT !.idle = TRUE]
  <2>1. /\ r \in Worker /\ r.listeners = b.listeners /\ r.view = b.view /\ r.inbox = b.inbox
        /\ r.raised = b.raised /\ r.online = b.online /\ r.targets = b.targets
    BY <1>4, Zenon DEF Worker
  <2> HIDE DEF r
  <2>2. Tells(r, b)
    BY <2>1, TellsQuietly, Zenon
  <2>3. Tells(r, v)
    BY <1>4, <2>1, <2>2, TellsOn, Zenon
  <2> QED
    BY <1>2, <1>6, <2>1, <2>3, Zenon DEF Running, r
<1>7. CASE b.targets = {} /\ ~IsOpen(v)
  <2> DEFINE r == UpdateState(b, "Unknown")
  <2>1. r \in Worker /\ r.targets = b.targets
    BY <1>4, UpdateFollows, Zenon DEF Follows, SameStream
  <2>2. Tells(r, b)
    BY <1>4, UpdateTells, Zenon
  <2> HIDE DEF r
  <2>3. Tells(r, v)
    BY <1>4, <2>1, <2>2, TellsOn, Zenon
  <2> QED
    BY <1>2, <1>7, <2>1, <2>3, Zenon DEF Running, r
<1> QED
  BY <1>5, <1>6, <1>7, Zenon

\* OnWatchStreamClose starts a stream that is needed again.
LEMMA CloseTells ==
  ASSUME NEW v \in Worker, Seen(v)
  PROVE  LET r == OnWatchStreamClose(v)
         IN  r \in Worker /\ Tells(r, v) /\ Running(r)
<1>1. CASE ShouldStartWatchStream(v)
  <2> DEFINE a == HandleWatchStreamFailure(v)
             r == StartWatchStream(a)
  <2>1. a \in Worker /\ Tells(a, v)
    BY FailureTells, Zenon
  <2> HIDE DEF a
  <2>2. r \in Worker /\ Tells(r, a) /\ IsStarted(r)
    BY <2>1, StartTells, Zenon
  <2> HIDE DEF r
  <2>3. Tells(r, v)
    BY <2>1, <2>2, TellsOn, Zenon
  <2> QED
    BY <1>1, <2>2, <2>3, Zenon DEF OnWatchStreamClose, Running, a, r
<1>2. CASE ~ShouldStartWatchStream(v)
  <2> DEFINE r == UpdateState(v, "Unknown")
  <2>1. r \in Worker /\ SameStream(r, v)
    BY UpdateFollows, Zenon DEF Follows
  <2>2. Tells(r, v)
    BY UpdateTells, Zenon
  <2> HIDE DEF r
  <2>3. Running(r)
    BY <1>2, <2>1, Zenon DEF ShouldStartWatchStream, Running, SameStream, IsStarted, IsOpen
  <2> QED
    BY <1>2, <2>1, <2>2, <2>3, Zenon DEF OnWatchStreamClose, r
<1> QED
  BY <1>1, <1>2, Zenon

\* So does RestartNetwork.
LEMMA RestartTells ==
  ASSUME NEW v \in Worker
  PROVE  LET r == RestartNetwork(v)
         IN  r \in Worker /\ Tells(r, v) /\ Running(r)
<1> DEFINE a == Closed(v, "Initial")
           b == UpdateState(a, "Unknown")
           c == StartWatchStream(b)
<1>1. RestartNetwork(v) = IF b.targets # {} THEN c ELSE b
  BY Zenon DEF RestartNetwork
<1>2. a \in Worker /\ Tells(a, v)
  BY ClosedFollows, ClosedTells, Zenon
<1> HIDE DEF a
<1>3. b \in Worker
  BY <1>2, UpdateFollows, Zenon DEF Follows
<1>4. Tells(b, a)
  BY <1>2, UpdateTells, Zenon
<1> HIDE DEF b
<1>5. Tells(b, v)
  BY <1>2, <1>3, <1>4, TellsOn, Zenon
<1>6. c \in Worker /\ Tells(c, b) /\ IsStarted(c)
  BY <1>3, StartTells, Zenon
<1> HIDE DEF c
<1>7. Tells(c, v)
  BY <1>3, <1>5, <1>6, TellsOn, Zenon
<1> QED
  BY <1>1, <1>3, <1>5, <1>6, <1>7, Zenon DEF Running

\* OnViewSnapshots leaves nobody it is for without a reason to wait.
LEMMA SnapshotsTell ==
  ASSUME NEW v \in Worker, NEW qs \in SUBSET Queries
  PROVE  LET r == OnViewSnapshots(v, qs)
         IN  /\ r \in Worker /\ Tells(r, v) /\ r.view = v.view /\ r.online = v.online
             /\ \A q \in qs : v.view[q] # "none" =>
                  \A g \in v.listeners[q] : g \in r.raised \/ ~ShouldRaiseInitialEvent(r, q)
<1> DEFINE Heard(x) ==
             UNION {{g \in v.listeners[q] : g \in v.raised \/ ShouldRaiseInitialEvent(v, q)} :
                      q \in {q \in qs : v.view[q] = x}}
           sy == Heard("synced")
           lo == Heard("local")
           a == Raise(v, sy, "synced")
           r == Raise(a, lo, "cached")
<1>1. OnViewSnapshots(v, qs) = r
  BY Zenon DEF OnViewSnapshots
<1>2. /\ v.listeners \in [Queries -> SUBSET Gets]
      /\ v.view \in [Queries -> {"none", "local", "synced"}]
  BY WorkerFields, Zenon
<1>3. /\ sy \in SUBSET Gets /\ \A g \in sy : Listening(v, g)
      /\ lo \in SUBSET Gets /\ \A g \in lo : Listening(v, g)
  BY <1>2, Zenon DEF Listening
<1>4. ASSUME NEW q \in qs, v.view[q] # "none", NEW g \in v.listeners[q]
      PROVE  g \in sy \cup lo \/ ~ShouldRaiseInitialEvent(v, q)
  <2>1. v.view[q] \in {"local", "synced"}
    BY <1>2, <1>4, Zenon
  <2> QED
    BY <2>1, Zenon
<1>5. "synced" \in Event /\ "cached" \in Event
  BY Zenon DEF Event
<1> HIDE DEF Heard, sy, lo
<1>6. a \in Worker /\ Tells(a, v) /\ a.raised = v.raised \cup sy
  BY <1>3, <1>5, RaiseTells, Zenon
<1>7. a.view = v.view /\ a.online = v.online
  BY <1>3, <1>5, RaiseFields, Zenon
<1> HIDE DEF a
<1>8. \A g \in lo : Listening(a, g)
  BY <1>3, <1>6, Zenon DEF Tells, Kept, Listening
<1>9. r \in Worker /\ Tells(r, a) /\ r.raised = a.raised \cup lo
  BY <1>3, <1>5, <1>6, <1>8, RaiseTells, Zenon
<1>10. r.view = a.view /\ r.online = a.online
  BY <1>3, <1>5, <1>6, RaiseFields, Zenon
<1> HIDE DEF r
<1>11. Tells(r, v)
  BY <1>6, <1>9, TellsOn, Zenon
<1>12. ASSUME NEW q \in qs, v.view[q] # "none", NEW g \in v.listeners[q]
       PROVE  g \in r.raised \/ ~ShouldRaiseInitialEvent(r, q)
  BY <1>4, <1>6, <1>7, <1>9, <1>10, <1>12, Zenon DEF ShouldRaiseInitialEvent
<1> QED
  BY <1>1, <1>7, <1>9, <1>10, <1>11, <1>12, Zenon

\* A snapshot tells the listeners of every query whose view changes, and leaves
\* the others with what they had.
LEMMA WatchSnapshotTells ==
  ASSUME NEW v \in Worker, NEW qs \in SUBSET v.targets, NEW news, Watched(v)
  PROVE  Tells(ApplyRemoteEvent(v, qs, news), v)
<1> DEFINE ch == {q \in v.changes : ~IsActiveTarget(v, q)}
           vi == [q \in Queries |-> IF q \notin qs THEN v.view[q]
                                    ELSE IF v.current[q] # 0 THEN "synced" ELSE "local"]
           a == [v EXCEPT !.changes = ch, !.view = vi]
           ps == {q \in Queries : q \in news \/ a.view[q] # v.view[q]}
           r == OnViewSnapshots(a, ps)
<1>1. ApplyRemoteEvent(v, qs, news) = r
  BY Zenon DEF ApplyRemoteEvent, Worker
<1>2. ch \in SUBSET Queries
  BY WorkerFields, Zenon
<1>3. /\ a \in Worker /\ a.listeners = v.listeners
      /\ a.inbox = v.inbox /\ a.raised = v.raised /\ a.online = v.online /\ Follows(a, v)
  <2>1. Applied(a, v, qs)
    BY <1>2, Zenon DEF Applied
  <2> HIDE DEF a
  <2> QED
    BY <2>1, AppliedFields, Zenon
<1> HIDE DEF a
<1>4. ps \in SUBSET Queries /\ (\A q \in Queries \ ps : a.view[q] = v.view[q])
  BY Zenon
<1> HIDE DEF ps
<1>5. /\ r \in Worker /\ Tells(r, a) /\ r.view = a.view /\ r.online = a.online
      /\ \A q \in ps : a.view[q] # "none" =>
           \A g \in a.listeners[q] : g \in r.raised \/ ~ShouldRaiseInitialEvent(r, q)
  BY <1>3, <1>4, SnapshotsTell, Zenon
<1> HIDE DEF r
<1>6. Kept(a, v)
  BY <1>3, Zenon DEF Kept
<1>7. Kept(r, v)
  BY <1>3, <1>5, <1>6, KeptOn, Zenon DEF Tells
<1>8. \A S : Told(v, S) => Told(r, S)
  <2> SUFFICES ASSUME NEW S, Told(v, S), NEW p \in Queries, NEW g \in r.listeners[p] \ S
               PROVE  g \in r.raised \/ ~ShouldRaiseInitialEvent(r, p)
    BY Zenon DEF Told
  <2>1. g \in v.listeners[p] \ S /\ v.raised \subseteq r.raised
    BY <1>7, Zenon DEF Kept
  <2>2. CASE p \in ps
    <3>1. a.view[p] # "none"
      BY <1>3, <2>1, Zenon DEF Watched, Follows
    <3> QED
      BY <1>3, <1>5, <2>1, <2>2, <3>1, Zenon
  <2>3. CASE p \notin ps
    <3>1. g \in v.raised \/ ~ShouldRaiseInitialEvent(v, p)
      BY <2>1, Zenon DEF Told
    <3>2. r.view[p] = v.view[p] /\ r.online = v.online
      BY <1>3, <1>4, <1>5, <2>3, Zenon
    <3> QED
      BY <2>1, <3>1, <3>2, Zenon DEF ShouldRaiseInitialEvent
  <2> QED
    BY <2>2, <2>3, Zenon
<1> QED
  BY <1>1, <1>7, <1>8, Zenon DEF Tells

\* A refusal tells all listeners of its query and leaves it without any.
LEMMA TargetErrorTells ==
  ASSUME NEW v \in Worker, NEW q \in Queries, q \in v.targets
  PROVE  LET r == ProcessTargetError(v, q)
         IN  /\ r.raised = v.raised \cup v.listeners[q]
             /\ \A g \in v.listeners[q] : r.inbox[g] # <<>>
             /\ \A S : Told(v, S) => Told(r, S)
             /\ Running(v) => Running(r)
<1> DEFINE r == ProcessTargetError(v, q)
<1>1. /\ r \in Worker /\ SameTracker(r, v) /\ r.state = v.state
      /\ r.targets = v.targets \ {q}
      /\ r.view = [v.view EXCEPT ![q] = "none"]
      /\ r.listeners = [v.listeners EXCEPT ![q] = {}]
      /\ \A g \in v.listeners[q] : r.inbox[g] = Append(v.inbox[g], "error")
  BY TargetErrorFields, Zenon
<1>2. /\ v.listeners \in [Queries -> SUBSET Gets] /\ v.inbox \in [Gets -> Seq(Event)]
      /\ v.view \in [Queries -> {"none", "local", "synced"}]
  BY WorkerFields, Zenon
<1>3. r.raised = v.raised \cup v.listeners[q]
  BY Zenon DEF ProcessTargetError, HandleRejectedListen, RemoveTarget, Raise, Worker
<1> HIDE DEF r
<1>4. \A g \in v.listeners[q] : r.inbox[g] # <<>>
  <2> SUFFICES ASSUME NEW g \in v.listeners[q] PROVE r.inbox[g] # <<>>
    BY Zenon
  <2>1. v.inbox[g] \in Seq(Event) /\ "error" \in Event
    BY <1>2, Zenon DEF Event
  <2>2. Append(v.inbox[g], "error") # <<>>
    BY <2>1, AppendFacts
  <2> QED
    BY <1>1, <2>2, Zenon
<1>5. \A S : Told(v, S) => Told(r, S)
  <2> SUFFICES ASSUME NEW S, Told(v, S), NEW p \in Queries, NEW g \in r.listeners[p] \ S
               PROVE  g \in r.raised \/ ~ShouldRaiseInitialEvent(r, p)
    BY Zenon DEF Told
  <2>1. p # q /\ r.listeners[p] = v.listeners[p] /\ r.view[p] = v.view[p]
    BY <1>1, <1>2, Zenon
  <2>2. g \in v.raised \/ ~ShouldRaiseInitialEvent(v, p)
    BY <2>1, Zenon DEF Told
  <2> QED
    BY <1>1, <1>3, <2>1, <2>2, Zenon DEF ShouldRaiseInitialEvent, SameTracker
<1>6. Running(v) => Running(r)
  BY <1>1, Zenon DEF Running, IsStarted, IsOpen
<1> QED
  BY <1>3, <1>4, <1>5, <1>6, Zenon DEF r

\* The get is queued for listening.
Queued(g, wk) == \E i \in 1 .. Len(wk) : wk[i].op = "listen" /\ wk[i].get = g

\* Where the gets are: with an event that waits for them, queued, or listening.
Asked(v, ph, mu, wk) ==
  /\ \A g \in Gets : ph[g] = "new" => g \notin v.raised
  /\ \A g \in mu : ph[g] = "answered"
  /\ \A i \in 1 .. Len(wk) : wk[i].op = "remove" => ph[wk[i].get] = "answered"
  /\ \A g \in Gets : ph[g] = "asked" =>
       IF g \in v.raised THEN v.inbox[g] # <<>>
       ELSE Queued(g, wk) \/ g \in v.listeners[of[g]]

WInv == Told(w, {}) /\ Running(w) /\ Asked(w, phase, muted, work)

\* A chain of handlers that tells listeners forgets nobody.
LEMMA TellsAsked ==
  ASSUME RInv, Asked(w, phase, muted, work), NEW v, Tells(v, w)
  PROVE  Asked(v, phase, muted, work)
<1>1. \A g \in Gets : Listening(w, g) => phase[g] # "new"
  BY Zenon DEF Listening, RInv, Registered
<1>2. \A g \in Gets : phase[g] = "new" => g \notin v.raised
  BY <1>1, Zenon DEF Asked, Tells, Kept
<1>3. ASSUME NEW g \in Gets, phase[g] = "asked"
      PROVE  IF g \in v.raised THEN v.inbox[g] # <<>>
             ELSE Queued(g, work) \/ g \in v.listeners[of[g]]
  <2>1. CASE g \in w.raised
    BY <1>3, <2>1, Zenon DEF Asked, Tells, Kept
  <2>2. CASE g \notin w.raised
    BY <1>3, <2>2, Zenon DEF Asked, Tells, Kept
  <2> QED
    BY <2>1, <2>2, Zenon
<1> QED
  BY <1>2, <1>3, Zenon DEF Asked

\* What is left to show of a step that only tells listeners.
LEMMA TellingSteps ==
  ASSUME RInv, WInv, UNCHANGED <<phase, of, muted, work>>, Tells(w', w), Running(w')
  PROVE  WInv'
<1>1. Told(w', {}) /\ Asked(w', phase, muted, work)
  BY TellsAsked, Zenon DEF WInv, Tells
<1>2. Asked(w, phase, muted, work)'
  BY <1>1 DEF Asked, Queued
<1> QED
  BY <1>1, <1>2, Zenon DEF WInv

\* Nobody has asked anything.
LEMMA InitWaits == Init => WInv
<1> SUFFICES ASSUME Init PROVE WInv
  BY Zenon
<1>1. /\ w.targets = {} /\ w.raised = {} /\ \A q \in Queries : w.listeners[q] = {}
      /\ \A g \in Gets : phase[g] = "new"
      /\ work = <<>> /\ muted = {}
  BY Zenon DEF Init
<1>2. \A i \in 1 .. Len(work) : FALSE
  BY <1>1
<1>3. Told(w, {}) /\ Running(w)
  BY <1>1, Zenon DEF Told, Running
<1>4. Asked(w, phase, muted, work)
  BY <1>1, <1>2, Zenon DEF Asked
<1> QED
  BY <1>3, <1>4, Zenon DEF WInv

\* One more entry of the worker queue.
LEMMA QueuedAppended ==
  ASSUME NEW wk \in Seq([op : {"listen", "remove"}, get : Gets]),
         NEW x \in [op : {"listen", "remove"}, get : Gets]
  PROVE  /\ \A g : Queued(g, wk) => Queued(g, Append(wk, x))
         /\ x.op = "listen" => Queued(x.get, Append(wk, x))
<1>1. \A i \in 1 .. Len(wk) : i \in 1 .. Len(Append(wk, x)) /\ Append(wk, x)[i] = wk[i]
  BY WorkAppended, Zenon
<1>2. \A g : Queued(g, wk) => Queued(g, Append(wk, x))
  BY <1>1, Zenon DEF Queued
<1>3. Len(wk) + 1 \in 1 .. Len(Append(wk, x)) /\ Append(wk, x)[Len(wk) + 1] = x
  BY AppendFacts, LenFacts
<1> QED
  BY <1>2, <1>3, Zenon DEF Queued

\* One entry less.
LEMMA QueuedTail ==
  ASSUME RInv, work # <<>>, NEW g, Queued(g, work)
  PROVE  Queued(g, Tail(work)) \/ (Head(work).op = "listen" /\ Head(work).get = g)
<1>1. PICK i \in 1 .. Len(work) : work[i].op = "listen" /\ work[i].get = g
  BY Zenon DEF Queued
<1>2. work[1] = Head(work)
  BY WorkTail, Zenon
<1>3. CASE i = 1
  BY <1>1, <1>2, <1>3, Zenon
<1>4. CASE i # 1
  <2> DEFINE S == [op : {"listen", "remove"}, get : Gets]
  <2>1. work \in Seq(S)
    BY Zenon DEF RInv, TypeOK
  <2> HIDE DEF S
  <2>2. /\ Len(Tail(work)) = Len(work) - 1
        /\ \A j \in 1 .. Len(Tail(work)) : Tail(work)[j] = work[j + 1]
    BY <2>1, HeadTailFacts, Zenon
  <2>3. Len(work) \in Nat
    BY <2>1, LenFacts
  <2>4. i - 1 \in 1 .. Len(Tail(work)) /\ (i - 1) + 1 = i
    BY <1>4, <2>2, <2>3
  <2>5. Tail(work)[i - 1] = work[i]
    BY <2>2, <2>4, Zenon
  <2> QED
    BY <1>1, <2>4, <2>5, Zenon DEF Queued
<1> QED
  BY <1>3, <1>4, Zenon

\* getDocuments queues the get.
LEMMA GetWaits ==
  ASSUME RInv, WInv, NEW g \in Gets, getDocuments(g)
  PROVE  WInv'
<1> DEFINE x == [op |-> "listen", get |-> g]
<1>1. /\ phase[g] = "new" /\ phase' = [phase EXCEPT ![g] = "asked"]
      /\ work' = Append(work, x) /\ UNCHANGED <<of, muted, w>>
  BY Zenon DEF getDocuments
<1>2. /\ phase \in [Gets -> {"new", "asked", "answered"}] /\ muted \subseteq Gets
      /\ work \in Seq([op : {"listen", "remove"}, get : Gets])
      /\ x \in [op : {"listen", "remove"}, get : Gets] /\ x.op = "listen" /\ x.get = g
  BY Zenon DEF RInv, TypeOK
<1>3. phase'[g] = "asked" /\ \A h \in Gets \ {g} : phase'[h] = phase[h]
  BY <1>1, <1>2, Zenon
<1> HIDE DEF x
<1>4. \A i \in 1 .. Len(work') :
        (i \in 1 .. Len(work) /\ work'[i] = work[i]) \/ (i = Len(work) + 1 /\ work'[i] = x)
  BY <1>1, <1>2, WorkAppended
<1>5. (\A h : Queued(h, work) => Queued(h, work')) /\ Queued(g, work')
  BY <1>1, <1>2, QueuedAppended, Zenon
<1>6. \A i \in 1 .. Len(work) : work[i].get \in Gets
  <2>1. \A i \in 1 .. Len(work) : work[i] \in [op : {"listen", "remove"}, get : Gets]
    BY <1>2, ElementFacts, Zenon
  <2> QED
    BY <2>1, Zenon
<1>7. \A h \in Gets : phase'[h] = "new" => h \notin w.raised
  BY <1>3, Zenon DEF WInv, Asked
<1>8. \A h \in muted : phase'[h] = "answered"
  BY <1>1, <1>2, <1>3, Zenon DEF WInv, Asked
<1>9. ASSUME NEW i \in 1 .. Len(work'), work'[i].op = "remove"
      PROVE  phase'[work'[i].get] = "answered"
  <2>1. i \in 1 .. Len(work) /\ work'[i] = work[i]
    BY <1>2, <1>4, <1>9, Zenon
  <2>2. phase[work[i].get] = "answered" /\ work[i].get \in Gets
    BY <1>6, <1>9, <2>1, Zenon DEF WInv, Asked
  <2> QED
    BY <1>1, <1>3, <2>1, <2>2, Zenon
<1>10. ASSUME NEW h \in Gets, phase'[h] = "asked"
       PROVE  IF h \in w.raised THEN w.inbox[h] # <<>>
              ELSE Queued(h, work') \/ h \in w.listeners[of[h]]
  <2>1. CASE h = g
    BY <1>1, <1>5, <2>1, Zenon DEF WInv, Asked
  <2>2. CASE h # g
    BY <1>3, <1>5, <1>10, <2>2, Zenon DEF WInv, Asked
  <2> QED
    BY <2>1, <2>2, Zenon
<1>11. Asked(w, phase, muted, work)'
  BY <1>1, <1>7, <1>8, <1>9, <1>10 DEF Asked
<1> QED
  BY <1>1, <1>11, Zenon DEF WInv

\* OnEvent answers the get, or finds it answered.
LEMMA EventWaits ==
  ASSUME RInv, WInv, NEW g \in Gets, OnEvent(g)
  PROVE  WInv'
<1> DEFINE nb == [w.inbox EXCEPT ![g] = Tail(w.inbox[g])]
           x == [op |-> "remove", get |-> g]
<1>1. /\ w \in Worker /\ w.inbox \in [Gets -> Seq(Event)]
      /\ phase \in [Gets -> {"new", "asked", "answered"}] /\ muted \subseteq Gets
      /\ work \in Seq([op : {"listen", "remove"}, get : Gets])
      /\ x \in [op : {"listen", "remove"}, get : Gets] /\ x.op = "remove" /\ x.get = g
  BY WorkerFields, Zenon DEF RInv, TypeOK
<1>2. w' = [w EXCEPT !.inbox = nb] /\ of' = of
  BY <1>1, Zenon DEF OnEvent, Worker
<1>3. \A h \in Gets \ {g} : nb[h] = w.inbox[h]
  BY <1>1, Zenon
<1>4. /\ w'.inbox = nb /\ w'.listeners = w.listeners /\ w'.raised = w.raised
      /\ w'.view = w.view /\ w'.online = w.online /\ w'.targets = w.targets
      /\ w'.state = w.state
  BY <1>1, <1>2, Zenon DEF Worker
<1>5. /\ (phase' = phase /\ phase[g] = "answered") \/ phase' = [phase EXCEPT ![g] = "answered"]
      /\ muted' \subseteq muted \cup {g}
      /\ work' = work \/ work' = Append(work, x)
  BY Zenon DEF OnEvent, WInv, Asked
<1> HIDE DEF x, nb
<1>6. phase'[g] = "answered" /\ \A h \in Gets \ {g} : phase'[h] = phase[h]
  BY <1>1, <1>5, Zenon
<1>7. \A h : Queued(h, work) => Queued(h, work')
  <2>1. CASE work' = work
    BY <2>1, Zenon
  <2>2. CASE work' = Append(work, x)
    <3>1. \A h : Queued(h, work) => Queued(h, Append(work, x))
      BY <1>1, QueuedAppended, Zenon
    <3> QED
      BY <2>2, <3>1, Zenon
  <2> QED
    BY <1>5, <2>1, <2>2, Zenon
<1>8. \A i \in 1 .. Len(work') :
        (i \in 1 .. Len(work) /\ work'[i] = work[i]) \/ work'[i] = x
  <2>1. CASE work' = work
    BY <2>1, Zenon
  <2>2. CASE work' = Append(work, x)
    BY <1>1, <2>2, WorkAppended
  <2> QED
    BY <1>5, <2>1, <2>2, Zenon
<1>9. \A i \in 1 .. Len(work) : work[i].get \in Gets
  <2>1. \A i \in 1 .. Len(work) : work[i] \in [op : {"listen", "remove"}, get : Gets]
    BY <1>1, ElementFacts, Zenon
  <2> QED
    BY <2>1, Zenon
<1>10. \A h \in Gets : phase[h] = "answered" => phase'[h] = "answered"
  BY <1>6, Zenon
<1>11. \A h \in Gets : phase'[h] = "new" => h \notin w'.raised
  BY <1>4, <1>6, Zenon DEF WInv, Asked
<1>12. \A h \in muted' : phase'[h] = "answered"
  BY <1>1, <1>5, <1>6, <1>10, Zenon DEF WInv, Asked
<1>13. ASSUME NEW i \in 1 .. Len(work'), work'[i].op = "remove"
       PROVE  phase'[work'[i].get] = "answered"
  BY <1>1, <1>6, <1>8, <1>9, <1>10, <1>13, Zenon DEF WInv, Asked
<1>14. ASSUME NEW h \in Gets, phase'[h] = "asked"
       PROVE  IF h \in w'.raised THEN w'.inbox[h] # <<>>
              ELSE Queued(h, work') \/ h \in w'.listeners[of'[h]]
  <2>1. h # g /\ phase[h] = "asked" /\ w'.inbox[h] = w.inbox[h]
    BY <1>3, <1>4, <1>6, <1>14, Zenon
  <2> QED
    BY <1>2, <1>4, <1>7, <2>1, Zenon DEF WInv, Asked
<1>15. Asked(w, phase, muted, work)'
  BY <1>11, <1>12, <1>13, <1>14 DEF Asked
<1>16. Told(w', {}) /\ Running(w')
  BY <1>4, Zenon DEF WInv, Told, ShouldRaiseInitialEvent, Running, IsStarted, IsOpen
<1> QED
  BY <1>15, <1>16, Zenon DEF WInv

\* What is left to show of a step that executes the first entry of the worker
\* queue: u is the worker once it has changed the listeners.
LEMMA ExecutedWaits ==
  ASSUME RInv, WInv, work # <<>>, work' = Tail(work), UNCHANGED <<phase, of, muted>>,
         NEW u \in Worker, u.raised = w.raised, u.inbox = w.inbox,
         \A h : Listening(u, h) => Listening(w, h) \/ h = Head(work).get,
         phase[Head(work).get] # "new",
         \A h \in Gets :
           /\ phase[h] = "asked" /\ h \in w.listeners[of[h]] => h \in u.listeners[of[h]]
           /\ Head(work).op = "listen" /\ Head(work).get = h => h \in u.listeners[of[h]],
         Kept(w', u), Told(w', {}), Running(w')
  PROVE  WInv'
<1>1. \A i \in 1 .. Len(Tail(work)) : i + 1 \in 1 .. Len(work) /\ Tail(work)[i] = work[i + 1]
  BY WorkTail, Zenon
<1>2. \A h \in Gets : Listening(u, h) => phase[h] # "new"
  BY Zenon DEF Listening, RInv, Registered
<1>3. \A h \in Gets : phase[h] = "new" => h \notin w'.raised
  BY <1>2, Zenon DEF WInv, Asked, Kept
<1>4. \A i \in 1 .. Len(Tail(work)) :
        Tail(work)[i].op = "remove" => phase[Tail(work)[i].get] = "answered"
  BY <1>1, Zenon DEF WInv, Asked
<1>5. ASSUME NEW h \in Gets, phase[h] = "asked"
      PROVE  IF h \in w'.raised THEN w'.inbox[h] # <<>>
             ELSE Queued(h, Tail(work)) \/ h \in w'.listeners[of[h]]
  <2>1. CASE h \in w.raised
    BY <1>5, <2>1, Zenon DEF WInv, Asked, Kept
  <2>2. CASE h \notin w.raised
    <3>1. Queued(h, work) \/ h \in w.listeners[of[h]]
      BY <1>5, <2>2, Zenon DEF WInv, Asked
    <3>2. Queued(h, Tail(work)) \/ h \in u.listeners[of[h]]
      BY <1>5, <3>1, QueuedTail, Zenon
    <3> QED
      BY <2>2, <3>2, Zenon DEF Kept
  <2> QED
    BY <2>1, <2>2, Zenon
<1>6. \A h \in muted : phase[h] = "answered"
  BY Zenon DEF WInv, Asked
<1>7. Asked(w, phase, muted, work)'
  BY <1>3, <1>4, <1>5, <1>6 DEF Asked
<1> QED
  BY <1>7, Zenon DEF WInv

\* AddQueryListener: the get listens, and is told if there is reason to.
LEMMA AddWaits ==
  ASSUME RInv, WInv, AddQueryListener
  PROVE  WInv'
<1> DEFINE g == Head(work).get
           q == of[g]
           gs == w.listeners[q] \cup {g}
           added == [w EXCEPT !.listeners[q] = gs]
<1>1. /\ work # <<>> /\ Head(work).op = "listen" /\ work' = Tail(work)
      /\ UNCHANGED <<phase, of, muted>>
      /\ w.listeners[q] # {} => w' = OnViewSnapshot(added, {g}, q)
      /\ w.listeners[q] = {} => w' = OnViewSnapshot(InitializeView(added, q), {g}, q)
  BY Zenon DEF AddQueryListener, RInv, TypeOK, Worker
<1>2. g \in Gets /\ work[1] = Head(work) /\ 1 \in 1 .. Len(work)
  BY <1>1, WorkTail, Zenon
<1>3. q \in Queries /\ w \in Worker /\ w.listeners \in [Queries -> SUBSET Gets]
  BY <1>2, WorkerFields, Zenon DEF RInv, TypeOK
<1>4. gs \in SUBSET Gets
  BY <1>2, <1>3, Zenon
<1>5. phase[g] # "new"
  BY <1>1, <1>2, Zenon DEF RInv, QueuedOnce
<1>6. listens' \in [Queries -> Nat]
  <2>1. RInv'
    BY AddKeeps, Zenon
  <2> QED
    BY <2>1, Zenon DEF RInv, TypeOK
<1> HIDE DEF gs
<1>7. /\ added \in Worker /\ added.listeners = [w.listeners EXCEPT ![q] = gs]
      /\ added.view = w.view /\ added.inbox = w.inbox
      /\ SameStream(added, w) /\ SameTracker(added, w)
  BY <1>3, <1>4, ListenersFields
<1>8. added.raised = w.raised
  BY <1>3, Zenon DEF Worker
<1> HIDE DEF added
<1>9. /\ g \in added.listeners[q]
      /\ \A p \in Queries : \A h \in added.listeners[p] :
           h \in w.listeners[p] \/ (h = g /\ p = q)
      /\ \A p \in Queries : w.listeners[p] \subseteq added.listeners[p]
  <2>1. /\ added.listeners[q] = gs
        /\ \A p \in Queries \ {q} : added.listeners[p] = w.listeners[p]
    BY <1>3, <1>7, Zenon
  <2>2. /\ g \in gs /\ w.listeners[q] \subseteq gs
        /\ \A h \in gs : h \in w.listeners[q] \/ h = g
    BY Zenon DEF gs
  <2> HIDE DEF q
  <2> QED
    BY <2>1, <2>2, Zenon
<1>10. \A h : Listening(added, h) => Listening(w, h) \/ h = g
  BY <1>9, Zenon DEF Listening
<1>11. \A h \in Gets : h \in w.listeners[of[h]] \/ h = g => h \in added.listeners[of[h]]
  <2>1. \A h \in Gets : of[h] \in Queries
    BY Zenon DEF RInv, TypeOK
  <2> QED
    BY <1>9, <2>1, Zenon
<1>12. \A p \in Queries : g \in added.listeners[p] => p = q
  BY <1>9, Zenon DEF RInv, Registered
<1>13. Told(added, {g}) /\ Running(added)
  BY <1>7, <1>8, <1>9, Zenon
  DEF WInv, Told, ShouldRaiseInitialEvent, SameTracker, SameStream, Running, IsStarted, IsOpen
<1>14. ASSUME NEW b \in Worker, Kept(b, added), Told(b, {g}), Running(b),
              w' = OnViewSnapshot(b, {g}, q)
       PROVE  WInv'
  <2> DEFINE s == {g}
  <2>1. s \in SUBSET b.listeners[q]
    BY <1>9, <1>14, Zenon DEF Kept
  <2> HIDE DEF s
  <2>2. LET r == OnViewSnapshot(b, s, q)
        IN  /\ r \in Worker /\ Tells(r, b)
            /\ \A h \in s : h \in r.raised \/ ~ShouldRaiseInitialEvent(r, q)
    BY <1>3, <2>1, SnapshotTells, Zenon
  <2>3. LET r == OnViewSnapshot(b, s, q)
        IN  SameStream(r, b)
    BY <1>3, <2>1, SnapshotFollows, Zenon
  <2>4. /\ w' \in Worker /\ Tells(w', b) /\ SameStream(w', b)
        /\ g \in w'.raised \/ ~ShouldRaiseInitialEvent(w', q)
    BY <1>14, <2>2, <2>3, Zenon DEF s
  <2>5. Kept(w', added)
    BY <1>7, <1>14, <2>4, KeptOn, Zenon DEF Tells
  <2>6. Told(w', {})
    <3> SUFFICES ASSUME NEW p \in Queries, NEW h \in w'.listeners[p]
                 PROVE  h \in w'.raised \/ ~ShouldRaiseInitialEvent(w', p)
      BY Zenon DEF Told
    <3>1. CASE h = g
      BY <1>12, <2>4, <2>5, <3>1, Zenon DEF Kept
    <3>2. CASE h # g
      BY <1>14, <2>4, <3>2, Zenon DEF Tells, Told
    <3> QED
      BY <3>1, <3>2, Zenon
  <2>7. Running(w')
    BY <1>14, <2>4, Zenon DEF Running, SameStream, IsStarted, IsOpen
  <2> HIDE DEF g, q
  <2> QED
    BY <1>1, <1>5, <1>7, <1>8, <1>10, <1>11, <2>5, <2>6, <2>7, ExecutedWaits, Zenon DEF g
<1>15. CASE w.listeners[q] # {}
  <2>1. Kept(added, added)
    BY Zenon DEF Kept
  <2> QED
    BY <1>1, <1>7, <1>13, <1>14, <1>15, <2>1, Zenon
<1>16. CASE w.listeners[q] = {}
  <2> DEFINE a == Listen(added, q)
             b == [a EXCEPT !.view[q] = "local"]
  <2>1. a \in Worker /\ Tells(a, added) /\ IsStarted(a)
    BY <1>3, <1>6, <1>7, ListenTells, Zenon
  <2>2. w' = OnViewSnapshot(b, {g}, q)
    BY <1>1, <1>16, Zenon DEF InitializeView
  <2> HIDE DEF a
  <2>3. /\ b \in Worker /\ b.view = [a.view EXCEPT ![q] = "local"]
        /\ b.listeners = a.listeners /\ b.inbox = a.inbox
        /\ SameStream(b, a) /\ SameTracker(b, a)
    BY <1>3, <2>1, ViewFields, Zenon
  <2>4. b.raised = a.raised
    BY <2>1, Zenon DEF Worker
  <2>5. \A p \in Queries : b.view[p] = "synced" => a.view[p] = "synced"
    <3>1. a.view \in [Queries -> {"none", "local", "synced"}]
      BY <2>1, WorkerFields, Zenon
    <3>2. /\ [a.view EXCEPT ![q] = "local"][q] = "local"
          /\ \A p \in Queries \ {q} : [a.view EXCEPT ![q] = "local"][p] = a.view[p]
      BY <1>3, <3>1, Zenon
    <3> HIDE DEF q, b
    <3> QED
      BY <2>3, <3>2, Zenon
  <2> HIDE DEF b
  <2>6. Kept(b, a)
    BY <2>3, <2>4, Zenon DEF Kept
  <2>7. Kept(b, added)
    BY <1>7, <2>1, <2>3, <2>6, KeptOn, Zenon DEF Tells
  <2>8. Told(a, {g})
    BY <1>13, <2>1, Zenon DEF Tells
  <2>9. Told(b, {g})
    BY <2>3, <2>4, <2>5, <2>8, Zenon DEF Told, ShouldRaiseInitialEvent, SameTracker
  <2>10. Running(b)
    BY <2>1, <2>3, Zenon DEF Running, SameStream, IsStarted, IsOpen
  <2> QED
    BY <1>14, <2>2, <2>3, <2>7, <2>9, <2>10, Zenon
<1> QED
  BY <1>15, <1>16, Zenon

\* RemoveQueryListener: whoever is removed has been answered.
LEMMA RemoveWaits ==
  ASSUME RInv, WInv, RemoveQueryListener
  PROVE  WInv'
<1> DEFINE g == Head(work).get
           q == of[g]
           gs == w.listeners[q] \ {g}
           removed == [w EXCEPT !.listeners[q] = gs]
           last == w.listeners[q] # {} /\ gs = {}
<1>1. /\ work # <<>> /\ Head(work).op = "remove" /\ work' = Tail(work) /\ listens' = listens
      /\ UNCHANGED <<phase, of, muted>>
  BY Zenon DEF RemoveQueryListener
<1>2. g \in Gets /\ work[1] = Head(work) /\ 1 \in 1 .. Len(work)
  BY <1>1, WorkTail, Zenon
<1>3. q \in Queries /\ w \in Worker /\ w.listeners \in [Queries -> SUBSET Gets]
  BY <1>2, WorkerFields, Zenon DEF RInv, TypeOK
<1>4. gs \in SUBSET Gets
  BY <1>3, Zenon
<1>5. phase[g] = "answered"
  BY <1>1, <1>2, Zenon DEF WInv, Asked
<1> HIDE DEF gs
<1>6. /\ removed \in Worker /\ removed.listeners = [w.listeners EXCEPT ![q] = gs]
      /\ removed.view = w.view /\ removed.inbox = w.inbox
      /\ SameStream(removed, w) /\ SameTracker(removed, w)
  BY <1>3, <1>4, ListenersFields
<1>7. removed.raised = w.raised
  BY <1>3, Zenon DEF Worker
<1>8. removed.listeners[q] = gs /\ \A p \in Queries \ {q} : removed.listeners[p] = w.listeners[p]
  BY <1>3, <1>6, Zenon
<1>9. w' = IF last THEN RemoveAndCleanupTarget(removed, q) ELSE removed
  <2>1. removed = [w EXCEPT !.listeners[q] = @ \ {g}]
    BY <1>3, Zenon DEF Worker, gs
  <2> HIDE DEF removed
  <2> QED
    BY <1>8, <2>1, Zenon DEF RemoveQueryListener
<1> HIDE DEF removed
<1>10. /\ \A p \in Queries : removed.listeners[p] \subseteq w.listeners[p]
       /\ \A p \in Queries : \A h \in w.listeners[p] : h # g => h \in removed.listeners[p]
  BY <1>8, Zenon DEF gs
<1>11. \A h : Listening(removed, h) => Listening(w, h)
  BY <1>10, Zenon DEF Listening
<1>12. \A h \in Gets : phase[h] = "asked" /\ h \in w.listeners[of[h]]
                         => h \in removed.listeners[of[h]]
  <2>1. \A h \in Gets : of[h] \in Queries
    BY Zenon DEF RInv, TypeOK
  <2> QED
    BY <1>5, <1>10, <2>1, Zenon
<1>13. Told(removed, {}) /\ Running(removed)
  BY <1>6, <1>7, <1>10, Zenon
  DEF WInv, Told, ShouldRaiseInitialEvent, SameTracker, SameStream, Running, IsStarted, IsOpen
<1>14. Kept(w', removed) /\ Told(w', {}) /\ Running(w')
  <2>1. CASE ~last
    <3>1. w' = removed
      BY <1>9, <2>1, Zenon
    <3> QED
      BY <1>13, <3>1, Zenon DEF Kept
  <2>2. CASE last
    <3> DEFINE b == [removed EXCEPT !.view[q] = "none"]
    <3>1. w' = StopListening(b, q) /\ listens' \in [Queries -> Nat]
      BY <1>1, <1>9, <2>2, Zenon DEF RemoveAndCleanupTarget, RInv, TypeOK
    <3>2. /\ b \in Worker /\ b.view = [removed.view EXCEPT ![q] = "none"]
          /\ b.listeners = removed.listeners /\ b.inbox = removed.inbox
          /\ SameStream(b, removed) /\ SameTracker(b, removed)
      BY <1>3, <1>6, ViewFields, Zenon
    <3>3. b.raised = removed.raised
      BY <1>6, Zenon DEF Worker
    <3>4. \A p \in Queries : b.view[p] = "synced" => removed.view[p] = "synced"
      <4>1. removed.view \in [Queries -> {"none", "local", "synced"}]
        BY <1>6, WorkerFields, Zenon
      <4>2. /\ [removed.view EXCEPT ![q] = "none"][q] = "none"
            /\ \A p \in Queries \ {q} : [removed.view EXCEPT ![q] = "none"][p] = removed.view[p]
        BY <1>3, <4>1, Zenon
      <4> HIDE DEF q, b
      <4> QED
        BY <3>2, <4>2, Zenon
    <3> HIDE DEF b
    <3>5. Kept(b, removed) /\ Told(b, {}) /\ Running(b)
      BY <1>13, <3>2, <3>3, <3>4, Zenon
      DEF Kept, Told, ShouldRaiseInitialEvent, SameTracker, SameStream, Running, IsStarted, IsOpen
    <3>6. w' \in Worker /\ Tells(w', b) /\ Running(w')
      BY <1>3, <3>1, <3>2, <3>5, StopTells, Zenon
    <3>7. Kept(w', removed)
      BY <1>6, <3>2, <3>5, <3>6, KeptOn, Zenon DEF Tells
    <3> QED
      BY <3>5, <3>6, <3>7, Zenon DEF Tells
  <2> QED
    BY <2>1, <2>2, Zenon
<1> HIDE DEF q
<1> QED
  BY <1>1, <1>5, <1>6, <1>7, <1>11, <1>12, <1>14, ExecutedWaits, Zenon

\* A message tells listeners; a refusal leaves them with an event.
LEMMA ChangeWaits ==
  ASSUME RInv, WInv, OnWatchStreamChange
  PROVE  WInv'
<1> DEFINE dn == Tail(w.down)
           u == [w EXCEPT !.down = dn]
           v == UpdateState(u, "Online")
<1>1. /\ w \in Worker /\ w.down \in Seq(Message) /\ w.down # <<>>
      /\ UNCHANGED <<phase, of, muted, work>>
  BY WorkerFields, Zenon DEF RInv, TypeOK, OnWatchStreamChange
<1>2. dn \in Seq(Message)
  BY <1>1, HeadTailFacts, Zenon
<1>3. v \in Worker =>
        \/ Retargets(w', v)
        \/ \E q \in Queries : w' = ProcessTargetError(v, q)
        \/ \E qs \in SUBSET v.targets : \E news : w' = ApplyRemoteEvent(v, qs, news)
  BY ChangeCases, Zenon
<1> HIDE DEF dn
<1>5. /\ u \in Worker /\ u.listeners = w.listeners /\ u.view = w.view /\ u.inbox = w.inbox
      /\ u.raised = w.raised /\ u.online = w.online
      /\ u.state = w.state /\ u.targets = w.targets
  BY <1>1, <1>2, Zenon DEF Worker
<1> HIDE DEF u
<1>6. v \in Worker /\ Follows(v, u) /\ SameStream(v, u)
  BY <1>5, UpdateFollows, Zenon DEF Follows
<1>7. Tells(v, u)
  BY <1>5, UpdateTells, Zenon
<1> HIDE DEF v
<1>8. Tells(v, w)
  <2>1. Tells(u, w)
    BY <1>5, TellsQuietly, Zenon
  <2> QED
    BY <1>1, <1>5, <1>6, <1>7, <2>1, TellsOn, Zenon
<1>9. Running(v) /\ Told(v, {}) /\ v.listeners = w.listeners
  BY <1>5, <1>6, <1>8, Zenon DEF WInv, Tells, Kept, Running, SameStream, IsStarted, IsOpen
<1>10. CASE Retargets(w', v)
  <2>1. /\ w'.listeners = v.listeners /\ w'.view = v.view /\ w'.inbox = v.inbox
        /\ w'.raised = v.raised /\ w'.online = v.online
        /\ w'.state = v.state /\ w'.targets = v.targets
    BY <1>10, Zenon DEF Retargets, SameTracker
  <2>2. Tells(w', w)
    BY <1>8, <2>1, Zenon DEF Tells, Kept, Told, ShouldRaiseInitialEvent
  <2>3. Running(w')
    BY <1>9, <2>1, Zenon DEF Running, IsStarted, IsOpen
  <2> QED
    BY <1>1, <2>2, <2>3, TellingSteps, Zenon
<1>11. ASSUME NEW qs \in SUBSET v.targets, NEW news, w' = ApplyRemoteEvent(v, qs, news)
       PROVE  WInv'
  <2>1. Watched(v)
    <3>1. Watched(u)
      BY <1>5, Zenon DEF RInv, Watched
    <3> QED
      BY <1>5, <1>6, <3>1, FollowsWatched, Zenon DEF SameStream
  <2>2. Tells(w', v)
    BY <1>6, <1>11, <2>1, WatchSnapshotTells, Zenon
  <2>3. w' \in Worker /\ SameStream(w', v)
    BY <1>6, <1>11, <2>1, WatchSnapshotFollows, Zenon DEF Follows
  <2>4. Tells(w', w)
    BY <1>1, <1>6, <1>8, <2>2, <2>3, TellsOn, Zenon
  <2>5. Running(w')
    BY <1>9, <2>3, Zenon DEF Running, SameStream, IsStarted, IsOpen
  <2> QED
    BY <1>1, <2>4, <2>5, TellingSteps, Zenon
<1>12. ASSUME NEW q \in Queries, w' = ProcessTargetError(v, q)
       PROVE  WInv'
  <2>1. CASE q \notin v.targets
    <3>1. w' = v
      BY <1>12, <2>1, Zenon DEF ProcessTargetError
    <3> QED
      BY <1>1, <1>8, <1>9, <3>1, TellingSteps, Zenon
  <2>2. CASE q \in v.targets
    <3>1. Asked(v, phase, muted, work)
      BY <1>8, TellsAsked, Zenon DEF WInv
    <3>2. /\ w'.raised = v.raised \cup v.listeners[q] /\ Told(w', {}) /\ Running(w')
          /\ \A g \in v.listeners[q] : w'.inbox[g] # <<>>
      BY <1>6, <1>9, <1>12, <2>2, TargetErrorTells, Zenon
    <3>3. /\ w'.listeners = [v.listeners EXCEPT ![q] = {}]
          /\ \A g \in Gets \ v.listeners[q] : w'.inbox[g] = v.inbox[g]
      <4> DEFINE r == ProcessTargetError(v, q)
      <4>1. r.listeners = [v.listeners EXCEPT ![q] = {}]
        BY <1>6, <2>2, TargetErrorFields, Zenon
      <4>2. \A g \in Gets \ v.listeners[q] : r.inbox[g] = v.inbox[g]
        BY <1>6, <2>2, TargetErrorFields, Zenon
      <4> HIDE DEF r
      <4> QED
        BY <1>12, <4>1, <4>2, Zenon DEF r
    <3>4. \A p \in Queries \ {q} : w'.listeners[p] = v.listeners[p]
      BY <1>6, <3>3, WorkerFields, Zenon
    <3>5. \A g \in Gets : of[g] \in Queries
      BY Zenon DEF RInv, TypeOK
    <3>6. \A g \in v.listeners[q] : phase[g] # "new"
      BY <1>9, Zenon DEF RInv, Registered
    <3>7. \A g \in Gets : phase[g] = "new" => g \notin w'.raised
      BY <3>1, <3>2, <3>6, Zenon DEF Asked
    <3>8. ASSUME NEW g \in Gets, phase[g] = "asked"
          PROVE  IF g \in w'.raised THEN w'.inbox[g] # <<>>
                 ELSE Queued(g, work) \/ g \in w'.listeners[of[g]]
      <4>1. CASE g \in v.listeners[q]
        BY <3>2, <4>1, Zenon
      <4>2. CASE g \notin v.listeners[q]
        BY <3>1, <3>2, <3>3, <3>4, <3>5, <3>8, <4>2, Zenon DEF Asked
      <4> QED
        BY <4>1, <4>2, Zenon
    <3>9. Asked(w', phase, muted, work)
      BY <3>1, <3>7, <3>8, Zenon DEF Asked
    <3>10. Asked(w, phase, muted, work)'
      BY <1>1, <3>9 DEF Asked, Queued
    <3> QED
      BY <3>2, <3>10, Zenon DEF WInv
  <2> QED
    BY <2>1, <2>2, Zenon
<1> QED
  BY <1>3, <1>6, <1>10, <1>11, <1>12, Zenon

\* Steps on the stream alone: it stays started.
LEMMA StreamWaits ==
  ASSUME RInv, WInv,
         OnWatchStreamOpen \/ BackoffElapsed \/ Backend
  PROVE  WInv'
<1>1. w \in Worker /\ on \subseteq Watch /\ faults \in 0 .. MaxFaults
  BY Zenon DEF RInv, TypeOK
<1>2. /\ UNCHANGED <<phase, of, muted, work>>
      /\ w'.listeners = w.listeners /\ w'.view = w.view /\ w'.inbox = w.inbox
      /\ w'.raised = w.raised /\ w'.online = w.online /\ w'.targets = w.targets
      /\ w'.state \in {w.state, "Open", "Starting"}
  <2>1. CASE OnWatchStreamOpen
    <3>1. UNCHANGED <<phase, of, muted, work>>
      BY <2>1, Zenon DEF OnWatchStreamOpen
    <3>2. PICK up, pe : w' = [w EXCEPT !.state = "Open", !.up = up, !.pending = pe]
      BY <2>1, Zenon DEF OnWatchStreamOpen
    <3> QED
      BY <1>1, <3>1, <3>2, Zenon DEF Worker
  <2>2. CASE BackoffElapsed
    BY <1>1, <2>2, Zenon DEF BackoffElapsed, Worker
  <2>3. CASE Serve
    <3>1. UNCHANGED <<phase, of, muted, work>>
      BY <2>3, Zenon DEF Serve
    <3>2. PICK up, down : w' = [w EXCEPT !.up = up, !.down = down]
      BY <2>3, Zenon DEF Serve, Reply
    <3> QED
      BY <1>1, <3>1, <3>2, Zenon DEF Worker
  <2>4. CASE Telling
    <3>1. /\ UNCHANGED <<phase, of, muted, work>>
          /\ \E m \in Message : w' = [w EXCEPT !.down = Append(w.down, m)]
      BY <1>1, <2>4, TellingFields, Zenon
    <3>2. PICK down : w' = [w EXCEPT !.down = down]
      BY <3>1, Zenon
    <3> QED
      BY <1>1, <3>1, <3>2, Zenon DEF Worker
  <2> QED
    BY <2>1, <2>2, <2>3, <2>4, Zenon DEF Backend
<1>3. Tells(w', w)
  BY <1>2, TellsQuietly, Zenon
<1>4. Running(w')
  BY <1>2, Zenon DEF WInv, Running, IsStarted, IsOpen
<1> QED
  BY <1>2, <1>3, <1>4, TellingSteps, Zenon

\* The timers: one tells everybody that the client is offline, the other stops a
\* stream that nobody needs.
LEMMA TimersWait ==
  ASSUME RInv, WInv, OnlineStateTimeout \/ IdleTimeout
  PROVE  WInv'
<1>1. w \in Worker /\ Seen(w)
  BY Zenon DEF RInv, TypeOK, Watched, Seen
<1>2. CASE OnlineStateTimeout
  <2> DEFINE a == [w EXCEPT !.timer = FALSE]
  <2>1. /\ a \in Worker /\ a.listeners = w.listeners /\ a.view = w.view /\ a.inbox = w.inbox
        /\ a.raised = w.raised /\ a.online = w.online /\ SameStream(a, w)
    BY <1>1, Zenon DEF Worker, SameStream
  <2>2. w' = Broadcast(a, "Offline") /\ UNCHANGED <<phase, of, muted, work>>
    BY <1>2, Zenon DEF OnlineStateTimeout
  <2> HIDE DEF a
  <2>3. Tells(a, w) /\ Seen(a)
    BY <1>1, <2>1, TellsQuietly, Zenon DEF Seen
  <2>4. w' \in Worker /\ SameStream(w', a)
    BY <2>1, <2>2, BroadcastFollows, Zenon DEF Follows
  <2>5. Tells(w', a)
    BY <2>1, <2>2, <2>3, BroadcastTells, Zenon
  <2>6. Tells(w', w)
    BY <1>1, <2>1, <2>3, <2>4, <2>5, TellsOn, Zenon
  <2>7. Running(w')
    BY <2>1, <2>4, Zenon DEF WInv, Running, SameStream, IsStarted, IsOpen
  <2> QED
    BY <2>2, <2>6, <2>7, TellingSteps, Zenon
<1>3. CASE IdleTimeout
  <2> DEFINE a == Closed(w, "Initial")
  <2>1. w' = UpdateState(a, "Unknown") /\ UNCHANGED <<phase, of, muted, work>> /\ w.targets = {}
    BY <1>3, Zenon DEF IdleTimeout, RInv, Idle
  <2>2. a \in Worker /\ Tells(a, w) /\ a.targets = {}
    BY <1>1, <2>1, ClosedFollows, ClosedTells, Zenon
  <2> HIDE DEF a
  <2>3. w' \in Worker /\ SameStream(w', a)
    BY <2>1, <2>2, UpdateFollows, Zenon DEF Follows
  <2>4. Tells(w', a)
    BY <2>1, <2>2, UpdateTells, Zenon
  <2>5. Tells(w', w)
    BY <1>1, <2>2, <2>3, <2>4, TellsOn, Zenon
  <2>6. Running(w')
    BY <2>2, <2>3, Zenon DEF Running, SameStream
  <2> QED
    BY <2>1, <2>5, <2>6, TellingSteps, Zenon
<1> QED
  BY <1>2, <1>3, Zenon

\* A stream that fails and a network that restarts: what is needed is started again.
LEMMA FaultsWait ==
  ASSUME RInv, WInv, StreamFails \/ NetworkRestarts
  PROVE  WInv'
<1>1. w \in Worker /\ Seen(w)
  BY Zenon DEF RInv, TypeOK, Watched, Seen
<1>2. UNCHANGED <<phase, of, muted, work>>
  BY Zenon DEF StreamFails, NetworkRestarts
<1>3. CASE StreamFails
  <2> DEFINE a == Closed(w, "Error")
  <2>1. w' = OnWatchStreamClose(a)
    BY <1>3, Zenon DEF StreamFails
  <2>2. a \in Worker /\ Tells(a, w) /\ a.view = w.view /\ a.listeners = w.listeners
    BY <1>1, ClosedFollows, ClosedTells, Zenon
  <2> HIDE DEF a
  <2>3. Seen(a)
    BY <1>1, <2>2, Zenon DEF Seen
  <2>4. w' \in Worker /\ Tells(w', a) /\ Running(w')
    BY <2>1, <2>2, <2>3, CloseTells, Zenon
  <2>5. Tells(w', w)
    BY <1>1, <2>2, <2>4, TellsOn, Zenon
  <2> QED
    BY <1>2, <2>4, <2>5, TellingSteps, Zenon
<1>4. CASE NetworkRestarts
  <2>1. Tells(w', w) /\ Running(w')
    BY <1>1, <1>4, RestartTells, Zenon DEF NetworkRestarts
  <2> QED
    BY <1>2, <2>1, TellingSteps, Zenon
<1> QED
  BY <1>3, <1>4, Zenon

\* Every step keeps every get in hand.
LEMMA StepWaits ==
  ASSUME RInv, WInv, [Next]_vars
  PROVE  WInv'
<1>1. ASSUME NEW g \in Gets, getDocuments(g) PROVE WInv'
  BY <1>1, GetWaits, Zenon
<1>2. ASSUME NEW g \in Gets, OnEvent(g) PROVE WInv'
  BY <1>2, EventWaits, Zenon
<1>3. CASE AddQueryListener
  BY <1>3, AddWaits, Zenon
<1>4. CASE RemoveQueryListener
  BY <1>4, RemoveWaits, Zenon
<1>5. CASE OnWatchStreamChange
  BY <1>5, ChangeWaits, Zenon
<1>6. CASE OnWatchStreamOpen \/ BackoffElapsed \/ Backend
  BY <1>6, StreamWaits, Zenon
<1>7. CASE OnlineStateTimeout \/ IdleTimeout
  BY <1>7, TimersWait, Zenon
<1>8. CASE StreamFails \/ NetworkRestarts
  BY <1>8, FaultsWait, Zenon
<1>9. CASE UNCHANGED vars
  <2>1. UNCHANGED <<phase, of, muted, work, w>>
    BY <1>9, Zenon DEF vars
  <2>2. Tells(w, w)
    BY TellsQuietly, Zenon
  <2>3. Tells(w', w) /\ Running(w')
    BY <2>1, <2>2, Zenon DEF WInv
  <2> QED
    BY <2>1, <2>3, TellingSteps, Zenon
<1> QED
  BY <1>1, <1>2, <1>3, <1>4, <1>5, <1>6, <1>7, <1>8, <1>9, Zenon
  DEF Next, Backend, Telling

----------------------------------------------------------------------------
(***************************************************************************)
(* How many elements of a sequence are in a set.                           *)
(***************************************************************************)
Count(s, P) == Cardinality({i \in 1 .. Len(s) : s[i] \in P})

\* What the lemmas below use of Count; proved as the lemma Counting at the end.
CountLaws ==
  \A S, P : \A s \in Seq(S) :
    /\ Count(s, P) \in Nat
    /\ Count(s, P) = 0 <=> \A i \in 1 .. Len(s) : s[i] \notin P
    /\ \A i \in 1 .. Len(s) :
         (\A j \in 1 .. Len(s) : s[j] \in P <=> j = i) => Count(s, P) = 1
    /\ \A x \in S : Count(Append(s, x), P) = Count(s, P) + IF x \in P THEN 1 ELSE 0
    /\ s # <<>> => Count(s, P) = Count(Tail(s), P) + IF Head(s) \in P THEN 1 ELSE 0

\* Nothing is counted where no element is in P.
LEMMA CountType ==
  ASSUME CountLaws, NEW S, NEW s \in Seq(S), NEW P
  PROVE  Count(s, P) \in Nat /\ (Count(s, P) = 0 <=> \A i \in 1 .. Len(s) : s[i] \notin P)
BY Zenon DEF CountLaws

\* One more element is counted if it is in P.
LEMMA CountAppend ==
  ASSUME CountLaws, NEW S, NEW s \in Seq(S), NEW x \in S, NEW P
  PROVE  Count(Append(s, x), P) = Count(s, P) + IF x \in P THEN 1 ELSE 0
<1>1. \A y \in S : Count(Append(s, y), P) = Count(s, P) + IF y \in P THEN 1 ELSE 0
  BY Zenon DEF CountLaws
<1> QED
  BY <1>1, Zenon

\* The first element is counted if it is in P.
LEMMA CountTail ==
  ASSUME CountLaws, NEW S, NEW s \in Seq(S), s # <<>>, NEW P
  PROVE  Count(s, P) = Count(Tail(s), P) + IF Head(s) \in P THEN 1 ELSE 0
BY Zenon DEF CountLaws

----------------------------------------------------------------------------
(***************************************************************************)
(* The stream and the answers under way on it.                             *)
(***************************************************************************)
\* A stream without a call carries nothing, and waits for nothing once started.
Shut(v) ==
  /\ v.state # "Open" /\ v.up = <<>> /\ v.down = <<>>
  /\ v.state \in {"Starting", "Backoff"} => \A q \in Queries : v.pending[q] = 0

\* The requests for q, and the answers to them that are counted.
Requests(q) == {r \in Request : r.q = q}
Replies(q) == {m \in Change : m.q = q /\ m.kind \in {"added", "removed"}}

\* The answers a target waits for are those to requests under way, or under way
\* themselves.  (A refusal is not counted: it forgets the target.)
Outstanding(v) ==
  \A q \in Queries \ Refusable :
    v.pending[q] = Count(v.up, Requests(q)) + Count(v.down, Replies(q))

\* Only refusable queries are refused, and they are never brought up to date.
Proper(v, o) ==
  /\ \A i \in 1 .. Len(v.down) : /\ v.down[i].kind = "refused" => v.down[i].q \in Refusable
                                 /\ v.down[i].kind = "current" => v.down[i].q \notin Refusable
  /\ \A r \in o : r.q \notin Refusable

\* x is for a listen that is over: ls is the value of listens.
Stale(v, ls, x) == x.q \notin v.targets \/ x.no # ls[x.q]

\* Behind place i there is the end of a watch, as a request or as its answer.
Unwatch(v, i, q) == \E j \in 1 .. Len(v.up) : j > i /\ v.up[j].q = q /\ ~v.up[j].add
Unwatched(v, i, q) ==
  \E j \in 1 .. Len(v.down) : j > i /\ v.down[j].q = q /\ v.down[j].kind = "removed"

\* Whatever is for a listen that is over has the end of its watch behind it.
Superseded(v, o, ls) ==
  /\ \A i \in 1 .. Len(v.up) :
       v.up[i].add /\ v.up[i].q \notin Refusable /\ Stale(v, ls, v.up[i]) =>
         Unwatch(v, i, v.up[i].q)
  /\ \A r \in o : Stale(v, ls, r) => Unwatch(v, 0, r.q)
  /\ \A i \in 1 .. Len(v.down) :
       v.down[i].kind = "current" /\ Stale(v, ls, v.down[i]) =>
         Unwatched(v, i, v.down[i].q) \/ Unwatch(v, 0, v.down[i].q)

\* A stream without a call, or with one on which all that is said above holds.
Stream(v, o, ls) ==
  \/ Shut(v) /\ o = {}
  \/ v.state = "Open" /\ Outstanding(v) /\ Proper(v, o) /\ Superseded(v, o, ls)

\* The places of a sequence with one more element.
LEMMA AppendPlaces ==
  ASSUME NEW S, NEW s \in Seq(S), NEW x \in S
  PROVE  LET t == Append(s, x)
         IN  /\ t \in Seq(S) /\ Len(s) \in Nat /\ Len(t) = Len(s) + 1
             /\ Len(t) \in 1 .. Len(t) /\ t[Len(t)] = x
             /\ \A i \in 1 .. Len(s) : i \in 1 .. Len(t) /\ i < Len(t) /\ t[i] = s[i]
             /\ \A i \in 1 .. Len(t) : i \in 1 .. Len(s) \/ i = Len(t)
<1> DEFINE t == Append(s, x)
<1>1. Len(s) \in Nat
  BY LenFacts, Zenon
<1>2. /\ t \in Seq(S) /\ Len(t) = Len(s) + 1 /\ t[Len(s) + 1] = x
      /\ \A i \in 1 .. Len(s) : t[i] = s[i]
  BY AppendFacts
<1> HIDE DEF t
<1>3. /\ Len(t) \in 1 .. Len(t) /\ t[Len(t)] = x
      /\ \A i \in 1 .. Len(s) : i \in 1 .. Len(t) /\ i < Len(t)
      /\ \A i \in 1 .. Len(t) : i \in 1 .. Len(s) \/ i = Len(t)
  BY <1>1, <1>2
<1> QED
  BY <1>1, <1>2, <1>3, Zenon DEF t

\* The places of a sequence without its first element.
LEMMA TailPlaces ==
  ASSUME NEW S, NEW s \in Seq(S), s # <<>>
  PROVE  LET t == Tail(s)
         IN  /\ t \in Seq(S) /\ Head(s) \in S /\ Head(s) = s[1] /\ 1 \in 1 .. Len(s)
             /\ \A i \in 1 .. Len(t) : i + 1 \in 1 .. Len(s) /\ t[i] = s[i + 1]
             /\ \A i \in 1 .. Len(s) : i # 1 => i - 1 \in 1 .. Len(t) /\ t[i - 1] = s[i]
<1> DEFINE t == Tail(s)
<1>1. /\ t \in Seq(S) /\ Head(s) \in S /\ Len(s) \in Nat /\ Len(t) \in Nat
      /\ Len(s) = Len(t) + 1 /\ Head(s) = s[1]
  BY LenFacts, HeadTailFacts
<1>2. \A i \in 1 .. Len(t) : t[i] = s[i + 1]
  BY HeadTailFacts, Zenon
<1> HIDE DEF t
<1>3. \A i \in 1 .. Len(t) : i + 1 \in 1 .. Len(s)
  BY <1>1
<1>4. \A i \in 1 .. Len(s) : i # 1 => i - 1 \in 1 .. Len(t) /\ (i - 1) + 1 = i
  BY <1>1
<1>5. \A i \in 1 .. Len(s) : i # 1 => t[i - 1] = s[i]
  BY <1>2, <1>4, Zenon
<1>6. 1 \in 1 .. Len(s)
  BY <1>1
<1> QED
  BY <1>1, <1>2, <1>3, <1>4, <1>5, <1>6, Zenon DEF t

\* A request is counted until it is answered.
LEMMA SendCounts ==
  ASSUME CountLaws, NEW v \in Worker, NEW r, NEW x \in Request, Outstanding(v),
         r.up = Append(v.up, x), r.down = v.down,
         r.pending = [v.pending EXCEPT ![x.q] = v.pending[x.q] + 1]
  PROVE  Outstanding(r)
<1> SUFFICES ASSUME NEW p \in Queries \ Refusable
             PROVE  r.pending[p] = Count(r.up, Requests(p)) + Count(r.down, Replies(p))
  BY Zenon DEF Outstanding
<1>1. /\ v.up \in Seq(Request) /\ v.down \in Seq(Message)
      /\ v.pending \in [Queries -> Int] /\ x.q \in Queries
  BY WorkerFields, Zenon DEF Request
<1>2. x \in Requests(p) <=> x.q = p
  BY Zenon DEF Requests
<1>3. Count(r.up, Requests(p)) = Count(v.up, Requests(p)) + IF x \in Requests(p) THEN 1 ELSE 0
  BY <1>1, CountAppend
<1>4. Count(v.up, Requests(p)) \in Nat /\ Count(v.down, Replies(p)) \in Nat
  BY <1>1, CountType, Zenon
<1>5. v.pending[p] = Count(v.up, Requests(p)) + Count(v.down, Replies(p))
  BY Zenon DEF Outstanding
<1>6. r.pending[p] = IF x.q = p THEN v.pending[p] + 1 ELSE v.pending[p]
  BY <1>1, Zenon
<1> QED
  BY <1>2, <1>3, <1>4, <1>5, <1>6

\* A request for the end of a watch comes behind all that is under way for it.
LEMMA StreamStops ==
  ASSUME CountLaws, NEW v \in Worker, NEW r, NEW x \in Request, NEW o, NEW ls, ~x.add,
         v.state = "Open", Stream(v, o, ls), r.state = "Open",
         r.up = Append(v.up, x), r.down = v.down,
         r.pending = [v.pending EXCEPT ![x.q] = v.pending[x.q] + 1],
         r.targets = v.targets \ {x.q}
  PROVE  Stream(r, o, ls)
<1>1. Outstanding(v) /\ Proper(v, o) /\ Superseded(v, o, ls)
  BY Zenon DEF Stream, Shut
<1>2. v.up \in Seq(Request)
  BY WorkerFields, Zenon
<1>3. /\ Len(v.up) \in Nat /\ Len(r.up) \in 1 .. Len(r.up) /\ r.up[Len(r.up)] = x
      /\ \A i \in 1 .. Len(v.up) : i \in 1 .. Len(r.up) /\ i < Len(r.up) /\ r.up[i] = v.up[i]
      /\ \A i \in 1 .. Len(r.up) : i \in 1 .. Len(v.up) \/ i = Len(r.up)
  BY <1>2, AppendPlaces
<1>4. Outstanding(r)
  BY <1>1, SendCounts, Zenon
<1>5. Proper(r, o)
  BY <1>1, Zenon DEF Proper
<1>6. \A i, p : Unwatch(v, i, p) => Unwatch(r, i, p)
  BY <1>3, Zenon DEF Unwatch
<1>7. \A i \in (1 .. Len(v.up)) \cup {0} : Unwatch(r, i, x.q)
  BY <1>3 DEF Unwatch
<1>8. \A i, p : Unwatched(v, i, p) => Unwatched(r, i, p)
  BY Zenon DEF Unwatched
<1>9. \A y : Stale(r, ls, y) => y.q = x.q \/ Stale(v, ls, y)
  BY Zenon DEF Stale
<1>10. Superseded(r, o, ls)
  <2>1. ASSUME NEW i \in 1 .. Len(r.up), r.up[i].add, r.up[i].q \notin Refusable,
               Stale(r, ls, r.up[i])
        PROVE  Unwatch(r, i, r.up[i].q)
    <3>1. i \in 1 .. Len(v.up) /\ r.up[i] = v.up[i]
      BY <1>3, <2>1, Zenon
    <3> QED
      BY <1>1, <1>6, <1>7, <1>9, <2>1, <3>1, Zenon DEF Superseded
  <2>2. ASSUME NEW y \in o, Stale(r, ls, y) PROVE Unwatch(r, 0, y.q)
    BY <1>1, <1>6, <1>7, <1>9, <2>2, Zenon DEF Superseded
  <2>3. ASSUME NEW i \in 1 .. Len(r.down), r.down[i].kind = "current",
               Stale(r, ls, r.down[i])
        PROVE  Unwatched(r, i, r.down[i].q) \/ Unwatch(r, 0, r.down[i].q)
    BY <1>1, <1>6, <1>7, <1>8, <1>9, <2>3, Zenon DEF Superseded
  <2> QED
    BY <2>1, <2>2, <2>3, Zenon DEF Superseded
<1> QED
  BY <1>4, <1>5, <1>10, Zenon DEF Stream

\* A request for a watch is for the listen that it begins.
LEMMA StreamListens ==
  ASSUME CountLaws, NEW v \in Worker, NEW r, NEW x \in Request, NEW o \in SUBSET Watch,
         NEW ls \in [Queries -> Nat], NEW new \in [Queries -> Nat],
         x.add, x.q \notin v.targets, x.no = new[x.q],
         \A p \in Queries \ {x.q} : new[p] = ls[p],
         v.state = "Open", Stream(v, o, ls), r.state = "Open",
         r.up = Append(v.up, x), r.down = v.down,
         r.pending = [v.pending EXCEPT ![x.q] = v.pending[x.q] + 1],
         r.targets = v.targets \cup {x.q}
  PROVE  Stream(r, o, new)
<1>1. Outstanding(v) /\ Proper(v, o) /\ Superseded(v, o, ls)
  BY Zenon DEF Stream, Shut
<1>2. v.up \in Seq(Request) /\ v.down \in Seq(Message)
  BY WorkerFields, Zenon
<1>3. /\ Len(v.up) \in Nat /\ Len(r.up) \in 1 .. Len(r.up) /\ r.up[Len(r.up)] = x
      /\ \A i \in 1 .. Len(v.up) : i \in 1 .. Len(r.up) /\ i < Len(r.up) /\ r.up[i] = v.up[i]
      /\ \A i \in 1 .. Len(r.up) : i \in 1 .. Len(v.up) \/ i = Len(r.up)
  BY <1>2, AppendPlaces
<1>4. Outstanding(r)
  BY <1>1, SendCounts, Zenon
<1>5. Proper(r, o)
  BY <1>1 DEF Proper
<1>6. \A i, p : Unwatch(v, i, p) => Unwatch(r, i, p)
  BY <1>3, Zenon DEF Unwatch
<1>7. \A i, p : Unwatched(v, i, p) => Unwatched(r, i, p)
  BY Zenon DEF Unwatched
<1>8. \A y \in Request \cup Watch \cup Change : Stale(r, new, y) => Stale(v, ls, y)
  <2>1. \A y \in Request \cup Watch \cup Change : y.q \in Queries
    BY Zenon DEF Request, Watch, Change
  <2> QED
    BY <2>1, Zenon DEF Stale
<1>9. ~Stale(r, new, x)
  BY Zenon DEF Stale
<1>10. Superseded(r, o, new)
  <2>1. ASSUME NEW i \in 1 .. Len(r.up), r.up[i].add, r.up[i].q \notin Refusable,
               Stale(r, new, r.up[i])
        PROVE  Unwatch(r, i, r.up[i].q)
    <3>1. i \in 1 .. Len(v.up) /\ r.up[i] = v.up[i]
      BY <1>3, <1>9, <2>1, Zenon
    <3>2. v.up[i] \in Request
      BY <1>2, <3>1, ElementFacts, Zenon
    <3> QED
      BY <1>1, <1>6, <1>8, <2>1, <3>1, <3>2, ZenonT(30) DEF Superseded
  <2>2. ASSUME NEW y \in o, Stale(r, new, y) PROVE Unwatch(r, 0, y.q)
    BY <1>1, <1>6, <1>8, <2>2, Zenon DEF Superseded
  <2>3. ASSUME NEW i \in 1 .. Len(r.down), r.down[i].kind = "current",
               Stale(r, new, r.down[i])
        PROVE  Unwatched(r, i, r.down[i].q) \/ Unwatch(r, 0, r.down[i].q)
    <3>1. r.down[i] \in Change
      BY <1>2, <2>3, ElementFacts, MessageKinds, Zenon
    <3> QED
      BY <1>1, <1>6, <1>7, <1>8, <2>3, <3>1, Zenon DEF Superseded
  <2> QED
    BY <2>1, <2>2, <2>3, Zenon DEF Superseded
<1> QED
  BY <1>4, <1>5, <1>10, Zenon DEF Stream

\* An answer is counted in place of its request.
LEMMA ServeCounts ==
  ASSUME CountLaws, NEW v \in Worker, NEW r, v.up # <<>>, NEW m \in Change, Outstanding(v),
         r.up = Tail(v.up), r.down = Append(v.down, m), r.pending = v.pending,
         m.q = Head(v.up).q,
         m.q \notin Refusable => m.kind \in {"added", "removed"}
  PROVE  Outstanding(r)
<1> SUFFICES ASSUME NEW p \in Queries \ Refusable
             PROVE  r.pending[p] = Count(r.up, Requests(p)) + Count(r.down, Replies(p))
  BY Zenon DEF Outstanding
<1> DEFINE x == Head(v.up)
<1>1. v.up \in Seq(Request) /\ v.down \in Seq(Message) /\ m \in Message
  BY WorkerFields, Zenon DEF Message
<1>2. r.up \in Seq(Request) /\ x \in Request
  BY <1>1, TailPlaces
<1>3. /\ x \in Requests(p) <=> m.q = p
      /\ m \in Replies(p) <=> m.q = p
  BY <1>2, Zenon DEF Requests, Replies
<1>4. Count(v.up, Requests(p)) = Count(r.up, Requests(p)) + IF x \in Requests(p) THEN 1 ELSE 0
  BY <1>1, CountTail
<1>5. Count(r.down, Replies(p)) = Count(v.down, Replies(p)) + IF m \in Replies(p) THEN 1 ELSE 0
  BY <1>1, CountAppend
<1>6. Count(r.up, Requests(p)) \in Nat /\ Count(v.down, Replies(p)) \in Nat
  BY <1>1, <1>2, CountType, Zenon
<1>7. v.pending[p] = Count(v.up, Requests(p)) + Count(v.down, Replies(p))
  BY Zenon DEF Outstanding
<1> HIDE DEF x
<1> QED
  BY <1>3, <1>4, <1>5, <1>6, <1>7

\* A watch is put in force, or ended, when its request is answered: what was
\* behind the request is behind the watch, and behind the answer.
LEMMA StreamServes ==
  ASSUME CountLaws, NEW v \in Worker, NEW r, NEW o, NEW new, NEW ls, NEW m \in Change,
         v.up # <<>>, v.state = "Open", Stream(v, o, ls),
         r.state = "Open", r.up = Tail(v.up), r.down = Append(v.down, m),
         r.pending = v.pending, r.targets = v.targets,
         m.q = Head(v.up).q,
         \/ Head(v.up).add /\ m.q \in Refusable /\ m.kind = "refused" /\ new = o
         \/ /\ Head(v.up).add /\ m.q \notin Refusable /\ m.kind = "added"
            /\ \E z : new = o \cup {z} /\ z.q = Head(v.up).q /\ z.no = Head(v.up).no
         \/ ~Head(v.up).add /\ m.kind = "removed" /\ new = {y \in o : y.q # m.q}
  PROVE  Stream(r, new, ls)
<1> DEFINE x == Head(v.up)
<1>1. Outstanding(v) /\ Proper(v, o) /\ Superseded(v, o, ls)
  BY Zenon DEF Stream, Shut
<1>2. v.up \in Seq(Request) /\ v.down \in Seq(Message) /\ m \in Message
  BY WorkerFields, Zenon DEF Message
<1>3. /\ x = v.up[1] /\ 1 \in 1 .. Len(v.up)
      /\ \A i \in 1 .. Len(r.up) : i + 1 \in 1 .. Len(v.up) /\ r.up[i] = v.up[i + 1]
      /\ \A i \in 1 .. Len(v.up) : i # 1 => i - 1 \in 1 .. Len(r.up) /\ r.up[i - 1] = v.up[i]
  BY <1>2, TailPlaces
<1>4. /\ Len(v.down) \in Nat /\ Len(r.down) \in 1 .. Len(r.down) /\ r.down[Len(r.down)] = m
      /\ \A i \in 1 .. Len(v.down) :
           i \in 1 .. Len(r.down) /\ i < Len(r.down) /\ r.down[i] = v.down[i]
      /\ \A i \in 1 .. Len(r.down) : i \in 1 .. Len(v.down) \/ i = Len(r.down)
  BY <1>2, AppendPlaces
<1>5. Outstanding(r)
  BY <1>1, ServeCounts, Zenon
<1> HIDE DEF x
<1>6. Proper(r, new)
  <2>1. \A i \in 1 .. Len(r.down) :
          /\ r.down[i].kind = "refused" => r.down[i].q \in Refusable
          /\ r.down[i].kind = "current" => r.down[i].q \notin Refusable
    BY <1>1, <1>4, Zenon DEF Proper
  <2>2. \A y \in new : y.q \notin Refusable
    BY <1>1, Zenon DEF Proper, x
  <2> QED
    BY <2>1, <2>2, Zenon DEF Proper
<1>7. ASSUME NEW i \in Nat, NEW p, Unwatch(v, i + 1, p) PROVE Unwatch(r, i, p)
  <2>1. PICK j \in 1 .. Len(v.up) : j > i + 1 /\ v.up[j].q = p /\ ~v.up[j].add
    BY <1>7, Zenon DEF Unwatch
  <2>2. j # 1 /\ j - 1 > i
    BY <2>1
  <2>3. j - 1 \in 1 .. Len(r.up) /\ r.up[j - 1] = v.up[j]
    BY <1>3, <2>2, Zenon
  <2> QED
    BY <2>1, <2>2, <2>3, Zenon DEF Unwatch
<1>8. ASSUME NEW p, Unwatch(v, 0, p) PROVE Unwatch(r, 0, p) \/ (~x.add /\ x.q = p)
  <2>1. PICK j \in 1 .. Len(v.up) : v.up[j].q = p /\ ~v.up[j].add
    BY <1>8, Zenon DEF Unwatch
  <2>2. CASE j = 1
    BY <1>3, <2>1, <2>2, Zenon
  <2>3. CASE j # 1
    <3>1. j > 1
      BY <2>3
    <3>2. Unwatch(v, 0 + 1, p)
      BY <2>1, <3>1 DEF Unwatch
    <3> QED
      BY <1>7, <3>2, Zenon
  <2> QED
    BY <2>2, <2>3, Zenon
<1>9. \A i, p : Unwatched(v, i, p) => Unwatched(r, i, p)
  BY <1>4, Zenon DEF Unwatched
<1>10. \A y : Stale(r, ls, y) <=> Stale(v, ls, y)
  BY Zenon DEF Stale
<1>11. Superseded(r, new, ls)
  <2>1. ASSUME NEW i \in 1 .. Len(r.up), r.up[i].add, r.up[i].q \notin Refusable,
               Stale(r, ls, r.up[i])
        PROVE  Unwatch(r, i, r.up[i].q)
    <3>1. i + 1 \in 1 .. Len(v.up) /\ r.up[i] = v.up[i + 1]
      BY <1>3, Zenon
    <3>2. Unwatch(v, i + 1, r.up[i].q)
      BY <1>1, <1>10, <2>1, <3>1, ZenonT(30) DEF Superseded
    <3> QED
      BY <1>7, <3>2
  <2>2. ASSUME NEW y \in new, Stale(r, ls, y) PROVE Unwatch(r, 0, y.q)
    <3>1. CASE y \in o
      <4>1. Unwatch(v, 0, y.q)
        BY <1>1, <1>10, <2>2, <3>1, Zenon DEF Superseded
      <4>2. ~(~x.add /\ x.q = y.q)
        BY <2>2, ZenonT(30) DEF x
      <4> QED
        BY <1>8, <4>1, <4>2, Zenon
    <3>2. CASE y \notin o
      <4>1. y.q = x.q /\ y.no = x.no /\ x.add /\ x.q \notin Refusable
        BY <2>2, <3>2, Zenon DEF x
      <4>2. Unwatch(v, 0 + 1, y.q)
        <5>1. v.up[1] = x /\ 1 \in 1 .. Len(v.up) /\ 0 + 1 = 1
          BY <1>3
        <5>2. Stale(v, ls, v.up[1]) /\ v.up[1].add /\ v.up[1].q \notin Refusable
          BY <1>10, <2>2, <4>1, <5>1, Zenon DEF Stale
        <5>3. Unwatch(v, 1, v.up[1].q)
          BY <1>1, <5>1, <5>2, Zenon DEF Superseded
        <5> QED
          BY <4>1, <5>1, <5>3, Zenon
      <4> QED
        BY <1>7, <4>2, Zenon
    <3> QED
      BY <3>1, <3>2, Zenon
  <2>3. ASSUME NEW i \in 1 .. Len(r.down), r.down[i].kind = "current",
               Stale(r, ls, r.down[i])
        PROVE  Unwatched(r, i, r.down[i].q) \/ Unwatch(r, 0, r.down[i].q)
    <3>1. i \in 1 .. Len(v.down) /\ r.down[i] = v.down[i] /\ i < Len(r.down)
      BY <1>4, <2>3, Zenon
    <3>2. Unwatched(v, i, r.down[i].q) \/ Unwatch(v, 0, r.down[i].q)
      BY <1>1, <1>10, <2>3, <3>1, Zenon DEF Superseded
    <3>3. CASE ~x.add /\ x.q = r.down[i].q
      <4>1. m.kind = "removed" /\ m.q = r.down[i].q
        BY <3>3, Zenon DEF x
      <4> QED
        BY <1>4, <3>1, <4>1, Zenon DEF Unwatched
    <3> QED
      BY <1>8, <1>9, <3>2, <3>3, Zenon
  <2> QED
    BY <2>1, <2>2, <2>3, Zenon DEF Superseded
<1> QED
  BY <1>5, <1>6, <1>11, Zenon DEF Stream

\* The message m, and the watches in new, are about watches of o.
About(m, new, o) ==
  /\ m.kind \in {"current", "reset", "snapshot"}
  /\ m.kind # "snapshot" => \E y \in o : y.q = m.q /\ y.no = m.no
  /\ \A z \in new : \E y \in o : y.q = z.q /\ y.no = z.no

\* What is told of a watch goes before the end of that watch.
LEMMA StreamBrings ==
  ASSUME CountLaws, NEW v \in Worker, NEW r, NEW o, NEW new, NEW ls, NEW m \in Message,
         v.state = "Open", Stream(v, o, ls),
         r.state = "Open", r.up = v.up, r.down = Append(v.down, m),
         r.pending = v.pending, r.targets = v.targets,
         About(m, new, o)
  PROVE  Stream(r, new, ls)
<1> USE DEF About
<1>1. Outstanding(v) /\ Proper(v, o) /\ Superseded(v, o, ls)
  BY Zenon DEF Stream, Shut
<1>2. v.up \in Seq(Request) /\ v.down \in Seq(Message)
  BY WorkerFields, Zenon
<1>3. /\ Len(r.down) \in 1 .. Len(r.down) /\ r.down[Len(r.down)] = m
      /\ \A i \in 1 .. Len(v.down) :
           i \in 1 .. Len(r.down) /\ i < Len(r.down) /\ r.down[i] = v.down[i]
      /\ \A i \in 1 .. Len(r.down) : i \in 1 .. Len(v.down) \/ i = Len(r.down)
  BY <1>2, AppendPlaces
<1>4. Outstanding(r)
  <2> SUFFICES ASSUME NEW p \in Queries \ Refusable
               PROVE  r.pending[p] = Count(r.up, Requests(p)) + Count(r.down, Replies(p))
    BY Zenon DEF Outstanding
  <2>1. m \notin Replies(p)
    BY Zenon DEF Replies
  <2>2. Count(r.down, Replies(p)) = Count(v.down, Replies(p)) + 0
    BY <1>2, <2>1, CountAppend
  <2>3. Count(v.down, Replies(p)) \in Nat
    BY <1>2, CountType, Zenon
  <2> QED
    BY <1>1, <2>2, <2>3 DEF Outstanding
<1>5. Proper(r, new)
  <2>1. \A i \in 1 .. Len(r.down) :
          /\ r.down[i].kind = "refused" => r.down[i].q \in Refusable
          /\ r.down[i].kind = "current" => r.down[i].q \notin Refusable
    BY <1>1, <1>3, Zenon DEF Proper
  <2>2. \A z \in new : z.q \notin Refusable
    BY <1>1, Zenon DEF Proper
  <2> QED
    BY <2>1, <2>2, Zenon DEF Proper
<1>6. \A i, p : Unwatch(v, i, p) <=> Unwatch(r, i, p)
  BY Zenon DEF Unwatch
<1>7. \A i, p : Unwatched(v, i, p) => Unwatched(r, i, p)
  BY <1>3, Zenon DEF Unwatched
<1>8. \A z : Stale(r, ls, z) <=> Stale(v, ls, z)
  BY Zenon DEF Stale
<1>9. Superseded(r, new, ls)
  <2>1. ASSUME NEW i \in 1 .. Len(r.down), r.down[i].kind = "current",
               Stale(r, ls, r.down[i])
        PROVE  Unwatched(r, i, r.down[i].q) \/ Unwatch(r, 0, r.down[i].q)
    <3>1. CASE i \in 1 .. Len(v.down)
      BY <1>1, <1>3, <1>6, <1>7, <1>8, <2>1, <3>1, Zenon DEF Superseded
    <3>2. CASE i = Len(r.down)
      <4>1. PICK y \in o : y.q = m.q /\ y.no = m.no
        BY <1>3, <2>1, <3>2, Zenon
      <4>2. Stale(v, ls, y)
        BY <1>3, <2>1, <3>2, <4>1, Zenon DEF Stale
      <4> QED
        BY <1>1, <1>3, <1>6, <3>2, <4>1, <4>2, ZenonT(30) DEF Superseded
    <3> QED
      BY <1>3, <3>1, <3>2, Zenon
  <2>2. ASSUME NEW i \in 1 .. Len(r.up), r.up[i].add, r.up[i].q \notin Refusable,
               Stale(r, ls, r.up[i])
        PROVE  Unwatch(r, i, r.up[i].q)
    BY <1>1, <1>6, <1>8, <2>2, ZenonT(30) DEF Superseded
  <2>3. ASSUME NEW z \in new, Stale(r, ls, z) PROVE Unwatch(r, 0, z.q)
    <3>1. PICK y \in o : y.q = z.q /\ y.no = z.no
      BY Zenon
    <3>2. Stale(v, ls, y)
      BY <2>3, <3>1, Zenon DEF Stale
    <3> QED
      BY <1>1, <1>6, <3>1, <3>2, Zenon DEF Superseded
  <2> QED
    BY <2>1, <2>2, <2>3, Zenon DEF Superseded
<1> QED
  BY <1>4, <1>5, <1>9, Zenon DEF Stream

\* A message that arrives was the first; an answer is no longer waited for.
LEMMA StreamReceives ==
  ASSUME CountLaws, NEW v \in Worker, NEW r, NEW o \in SUBSET Watch, NEW ls,
         v.down # <<>>, v.state = "Open", Stream(v, o, ls),
         r.state = "Open", r.up = v.up, r.down = Tail(v.down),
         \A p \in Queries \ Refusable :
           /\ p \in r.targets <=> p \in v.targets
           /\ r.pending[p] = v.pending[p] - IF Head(v.down) \in Replies(p) THEN 1 ELSE 0
  PROVE  Stream(r, o, ls)
<1> DEFINE m == Head(v.down)
<1>1. Outstanding(v) /\ Proper(v, o) /\ Superseded(v, o, ls)
  BY Zenon DEF Stream, Shut
<1>2. v.up \in Seq(Request) /\ v.down \in Seq(Message)
  BY WorkerFields, Zenon
<1>3. /\ r.down \in Seq(Message)
      /\ \A i \in 1 .. Len(r.down) : i + 1 \in 1 .. Len(v.down) /\ r.down[i] = v.down[i + 1]
      /\ \A i \in 1 .. Len(v.down) :
           i # 1 => i - 1 \in 1 .. Len(r.down) /\ r.down[i - 1] = v.down[i]
  BY <1>2, TailPlaces
<1>4. Outstanding(r)
  <2> SUFFICES ASSUME NEW p \in Queries \ Refusable
               PROVE  r.pending[p] = Count(r.up, Requests(p)) + Count(r.down, Replies(p))
    BY Zenon DEF Outstanding
  <2>1. Count(v.down, Replies(p)) = Count(r.down, Replies(p)) + IF m \in Replies(p) THEN 1 ELSE 0
    BY <1>2, CountTail
  <2>2. Count(v.up, Requests(p)) \in Nat /\ Count(r.down, Replies(p)) \in Nat
    BY <1>2, <1>3, CountType, Zenon
  <2>3. v.pending[p] = Count(v.up, Requests(p)) + Count(v.down, Replies(p))
    BY <1>1, Zenon DEF Outstanding
  <2>4. r.pending[p] = v.pending[p] - IF m \in Replies(p) THEN 1 ELSE 0
    BY Zenon
  <2> HIDE DEF m
  <2> QED
    BY <2>1, <2>2, <2>3, <2>4
<1> HIDE DEF m
<1>5. Proper(r, o)
  BY <1>1, <1>3 DEF Proper
<1>6. \A i, p : Unwatch(v, i, p) <=> Unwatch(r, i, p)
  BY Zenon DEF Unwatch
<1>7. ASSUME NEW i \in Nat, NEW p, Unwatched(v, i + 1, p) PROVE Unwatched(r, i, p)
  <2>1. PICK j \in 1 .. Len(v.down) :
          j > i + 1 /\ v.down[j].q = p /\ v.down[j].kind = "removed"
    BY <1>7, Zenon DEF Unwatched
  <2>2. j # 1 /\ j - 1 > i
    BY <2>1
  <2>3. j - 1 \in 1 .. Len(r.down) /\ r.down[j - 1] = v.down[j]
    BY <1>3, <2>2, Zenon
  <2> QED
    BY <2>1, <2>2, <2>3, Zenon DEF Unwatched
<1>8. ASSUME NEW y \in Request \cup Watch \cup Change, y.q \notin Refusable, Stale(r, ls, y)
      PROVE  Stale(v, ls, y)
  <2>1. y.q \in Queries \ Refusable
    BY <1>8, Zenon DEF Request, Watch, Change
  <2> QED
    BY <1>8, <2>1, Zenon DEF Stale
<1>9. Superseded(r, o, ls)
  <2>1. ASSUME NEW i \in 1 .. Len(r.up), r.up[i].add, r.up[i].q \notin Refusable,
               Stale(r, ls, r.up[i])
        PROVE  Unwatch(r, i, r.up[i].q)
    <3>1. r.up[i] \in Request
      BY <1>2, ElementFacts, Zenon
    <3> QED
      BY <1>1, <1>6, <1>8, <2>1, <3>1, Zenon DEF Superseded
  <2>2. ASSUME NEW y \in o, Stale(r, ls, y) PROVE Unwatch(r, 0, y.q)
    BY <1>1, <1>6, <1>8, <2>2, ZenonT(30) DEF Superseded, Proper
  <2>3. ASSUME NEW i \in 1 .. Len(r.down), r.down[i].kind = "current",
               Stale(r, ls, r.down[i])
        PROVE  Unwatched(r, i, r.down[i].q) \/ Unwatch(r, 0, r.down[i].q)
    <3>1. r.down[i] \in Change
      BY <1>3, <2>3, ElementFacts, MessageKinds, Zenon
    <3>2. Stale(v, ls, r.down[i])
      BY <1>5, <1>8, <2>3, <3>1, Zenon DEF Proper
    <3>3. i + 1 \in 1 .. Len(v.down) /\ r.down[i] = v.down[i + 1]
      BY <1>3, Zenon
    <3>4. Unwatched(v, i + 1, r.down[i].q) \/ Unwatch(v, 0, r.down[i].q)
      BY <1>1, <2>3, <3>2, <3>3, Zenon DEF Superseded
    <3> QED
      BY <1>6, <1>7, <3>4
  <2> QED
    BY <2>1, <2>2, <2>3, Zenon DEF Superseded
<1> QED
  BY <1>4, <1>5, <1>9, Zenon DEF Stream

\* A target that waits for no answer is brought up to date by its own listen:
\* had that listen ended, the end of the watch would still be under way.
LEMMA ActiveIsCurrent ==
  ASSUME CountLaws, NEW v \in Worker, NEW o, NEW ls, NEW m \in Message, v.down # <<>>,
         m = Head(v.down), v.state = "Open", Stream(v, o, ls),
         m.kind = "current", IsActiveTarget(v, m.q)
  PROVE  m.no = ls[m.q]
<1>1. Outstanding(v) /\ Proper(v, o) /\ Superseded(v, o, ls)
  BY Zenon DEF Stream, Shut
<1>2. v.up \in Seq(Request) /\ v.down \in Seq(Message)
  BY WorkerFields, Zenon
<1>3. m = v.down[1] /\ 1 \in 1 .. Len(v.down)
  BY <1>2, TailPlaces, Zenon
<1>4. m.q \in Queries \ Refusable
  BY <1>1, <1>3, MessageKinds, Zenon DEF Proper
<1>5. Count(v.up, Requests(m.q)) \in Nat /\ Count(v.down, Replies(m.q)) \in Nat
  BY <1>2, CountType, Zenon
<1>6. Count(v.up, Requests(m.q)) = 0 /\ Count(v.down, Replies(m.q)) = 0
  <2>1. v.pending[m.q] = 0
    BY Zenon DEF IsActiveTarget
  <2>2. v.pending[m.q] = Count(v.up, Requests(m.q)) + Count(v.down, Replies(m.q))
    BY <1>1, <1>4, Zenon DEF Outstanding
  <2> QED
    BY <1>5, <2>1, <2>2
<1>7. \A i \in 1 .. Len(v.up) : v.up[i] \notin Requests(m.q)
  BY <1>2, <1>6, CountType, Zenon
<1>8. \A i \in 1 .. Len(v.down) : v.down[i] \notin Replies(m.q)
  BY <1>2, <1>6, CountType, Zenon
<1>9. ~Unwatch(v, 0, m.q)
  BY <1>2, <1>7, ElementFacts, Zenon DEF Unwatch, Requests
<1>10. ~Unwatched(v, 1, m.q)
  BY <1>2, <1>8, ElementFacts, MessageKinds, Zenon DEF Unwatched, Replies
<1>11. ~Stale(v, ls, m)
  BY <1>1, <1>3, <1>9, <1>10, Zenon DEF Superseded
<1> QED
  BY <1>11, Zenon DEF Stale

\* The requests up ask once for each query of T, for its latest listen.
AsksEach(up, T, ls) ==
  /\ up \in Seq(Request)
  /\ \A i \in 1 .. Len(up) : up[i].q \in T /\ up[i].no = ls[up[i].q]
  /\ \A p \in T : Count(up, Requests(p)) = 1
  /\ \A p \in Queries \ T : Count(up, Requests(p)) = 0

\* One request for each target, in any order.
LEMMA AsksOnce ==
  ASSUME CountLaws, NEW T \in SUBSET Queries, NEW ls \in [Queries -> Nat],
         NEW n \in Nat, Lists(T, n), NEW s \in [1 .. n -> T],
         \A q \in T : \E i \in 1 .. n : s[i] = q, NEW up \in [1 .. n -> Request],
         \A i \in 1 .. n : up[i].q = s[i] /\ up[i].no = ls[s[i]]
  PROVE  AsksEach(up, T, ls)
<1>1. up \in Seq(Request) /\ Len(up) = n
  <2>1. up \in Seq(Request) /\ DOMAIN up = 1 .. n
    OBVIOUS
  <2> QED
    BY <2>1, LenFacts
<1>2. \A i, j \in 1 .. n : s[i] = s[j] => i = j
  BY Zenon DEF Lists
<1>3. ASSUME NEW p PROVE \A i \in 1 .. n : up[i] \in Requests(p) <=> s[i] = p
  BY Zenon DEF Requests
<1>4. ASSUME NEW p \in T PROVE Count(up, Requests(p)) = 1
  <2>1. PICK i \in 1 .. n : s[i] = p
    BY Zenon
  <2>2. i \in 1 .. Len(up) /\ \A j \in 1 .. Len(up) : up[j] \in Requests(p) <=> j = i
    BY <1>1, <1>2, <1>3, <2>1
  <2>3. \A k \in 1 .. Len(up) :
          (\A j \in 1 .. Len(up) : up[j] \in Requests(p) <=> j = k) => Count(up, Requests(p)) = 1
    BY <1>1, Zenon DEF CountLaws
  <2> QED
    BY <2>2, <2>3, Zenon
<1>5. ASSUME NEW p \in Queries \ T PROVE Count(up, Requests(p)) = 0
  <2>1. \A j \in 1 .. n : up[j] \notin Requests(p)
    BY <1>3
  <2> QED
    BY <1>1, <2>1, CountType, Zenon
<1> QED
  BY <1>1, <1>4, <1>5 DEF AsksEach

\* A stream that opens asks once for every target.
LEMMA StreamOpens ==
  ASSUME CountLaws, NEW v \in Worker, NEW r, NEW ls, v.state = "Starting", Shut(v),
         r.state = "Open", r.down = v.down, r.targets = v.targets, AsksEach(r.up, v.targets, ls),
         r.pending = [q \in Queries |->
                        IF q \in v.targets THEN v.pending[q] + 1 ELSE v.pending[q]]
  PROVE  Stream(r, {}, ls)
<1>1. r.down = <<>> /\ \A q \in Queries : v.pending[q] = 0
  BY Zenon DEF Shut
<1>2. r.down \in Seq(Message) /\ 1 .. Len(r.down) = {}
  <2>1. <<>> \in Seq(Message) /\ Len(<<>>) = 0 /\ 1 .. 0 = {}
    BY EmptyFacts
  <2> QED
    BY <1>1, <2>1, Zenon
<1>3. ASSUME NEW p \in Queries \ Refusable
      PROVE  r.pending[p] = Count(r.up, Requests(p)) + Count(r.down, Replies(p))
  <2>1. Count(r.down, Replies(p)) = 0
    BY <1>2, CountType
  <2>2. r.pending[p] = IF p \in v.targets THEN 1 ELSE 0
    BY <1>1
  <2>3. Count(r.up, Requests(p)) = IF p \in v.targets THEN 1 ELSE 0
    BY Zenon DEF AsksEach
  <2> QED
    BY <2>1, <2>2, <2>3
<1>4. Proper(r, {})
  BY <1>2, Zenon DEF Proper
<1>5. Superseded(r, {}, ls)
  BY <1>2, Zenon DEF Superseded, Stale, AsksEach
<1> QED
  BY <1>3, <1>4, <1>5, Zenon DEF Stream, Outstanding

----------------------------------------------------------------------------
(***************************************************************************)
(* The worker's functions: which targets they leave current, and what they *)
(* do to a stream without a call and to one with a call.                   *)
(***************************************************************************)
\* A change of the views, their listeners and events leaves them current.
LEMMA FadesQuietly ==
  ASSUME NEW v, NEW r \in Worker, r.current = v.current
  PROVE  Fades(r, v)
BY Zenon DEF Fades

\* One change after another.
LEMMA FadesOn ==
  ASSUME NEW u, NEW v, NEW r, Fades(v, u), Fades(r, v)
  PROVE  Fades(r, u)
BY Zenon DEF Fades

\* Broadcast leaves the stream and the targets alone.
LEMMA BroadcastFades ==
  ASSUME NEW v \in Worker, NEW state \in {"Unknown", "Online", "Offline"}
  PROVE  LET r == Broadcast(v, state) IN Fades(r, v) /\ SameStream(r, v)
<1>1. LET r == Broadcast(v, state) IN Follows(r, v) /\ SameStream(r, v)
  BY BroadcastFollows, Zenon
<1>2. LET r == Broadcast(v, state) IN r \in Worker /\ r.current = v.current
  BY <1>1, Zenon DEF Follows, SameStream
<1> QED
  BY <1>1, <1>2, FadesQuietly, Zenon

\* So does UpdateState.
LEMMA UpdateFades ==
  ASSUME NEW v \in Worker, NEW state \in {"Unknown", "Online", "Offline"}
  PROVE  LET r == UpdateState(v, state) IN Fades(r, v) /\ SameStream(r, v)
<1>1. LET r == UpdateState(v, state) IN Follows(r, v) /\ SameStream(r, v)
  BY UpdateFollows, Zenon
<1>2. LET r == UpdateState(v, state) IN r \in Worker /\ r.current = v.current
  BY <1>1, Zenon DEF Follows, SameStream
<1> QED
  BY <1>1, <1>2, FadesQuietly, Zenon

\* So does HandleWatchStreamFailure.
LEMMA FailureFades ==
  ASSUME NEW v \in Worker
  PROVE  LET r == HandleWatchStreamFailure(v) IN Fades(r, v) /\ SameStream(r, v)
<1> DEFINE a == [v EXCEPT !.failures = 1, !.timer = FALSE]
<1>1. a \in Worker
  <2>1. 1 \in 0 .. 1
    OBVIOUS
  <2> QED
    BY <2>1, Zenon DEF Worker
<1>2. SameStream(a, v)
  BY Zenon DEF Worker, SameStream
<1>3. HandleWatchStreamFailure(v) =
        IF v.online = "Online" THEN Broadcast(v, "Unknown") ELSE Broadcast(a, "Offline")
  BY Zenon DEF HandleWatchStreamFailure
<1> HIDE DEF a
<1>4. Fades(Broadcast(v, "Unknown"), v) /\ SameStream(Broadcast(v, "Unknown"), v)
  BY BroadcastFades, Zenon
<1>5. Fades(Broadcast(a, "Offline"), a) /\ SameStream(Broadcast(a, "Offline"), a)
  BY <1>1, BroadcastFades, Zenon
<1> QED
  BY <1>2, <1>3, <1>4, <1>5, Zenon DEF Fades, SameStream

\* A stream that starts carries nothing yet.
LEMMA StartShut ==
  ASSUME NEW v \in Worker, v.up = <<>>, v.down = <<>>
  PROVE  LET r == StartWatchStream(v) IN Fades(r, v) /\ Shut(r)
<1> DEFINE st == IF v.state = "Error" THEN "Backoff" ELSE "Starting"
           pe == [q \in Queries |-> 0]
           cu == [q \in Queries |-> 0]
           a == [v EXCEPT !.state = st, !.pending = pe, !.current = cu, !.changes = Queries]
           b == Broadcast(a, "Unknown")
           c == [b EXCEPT !.timer = TRUE]
<1>1. StartWatchStream(v) = IF a.failures # 0 THEN a ELSE c
  BY Zenon DEF StartWatchStream, HandleWatchStreamStart, Worker
<1>2. /\ st \in {"Starting", "Backoff"}
      /\ pe \in [Queries -> Int] /\ \A q \in Queries : pe[q] = 0
      /\ cu \in [Queries -> Nat] /\ \A q \in Queries : cu[q] = 0
  OBVIOUS
<1> HIDE DEF st, pe, cu
<1>3. a \in Worker /\ a.current = cu
  BY <1>2, Zenon DEF Worker
<1>4. a.state = st /\ a.pending = pe /\ a.up = <<>> /\ a.down = <<>>
  BY Zenon DEF Worker
<1> HIDE DEF a
<1>5. Fades(a, v) /\ Shut(a)
  BY <1>2, <1>3, <1>4, Zenon DEF Fades, Shut
<1>6. Fades(b, a) /\ SameStream(b, a) /\ b \in Worker
  BY <1>3, BroadcastFades, Zenon DEF Fades
<1> HIDE DEF b
<1>7. c \in Worker /\ c.current = b.current /\ SameStream(c, b)
  BY <1>6, Zenon DEF Worker, SameStream
<1> HIDE DEF c
<1>8. Fades(c, v)
  BY <1>5, <1>6, <1>7, Zenon DEF Fades
<1>9. Shut(c)
  BY <1>5, <1>6, <1>7, Zenon DEF Shut, SameStream
<1> QED
  BY <1>1, <1>5, <1>8, <1>9, Zenon

\* Closing a stream takes all messages with it.
LEMMA ClosedShut ==
  ASSUME NEW v \in Worker, NEW state \in {"Initial", "Error"}
  PROVE  LET r == Closed(v, state) IN Fades(r, v) /\ Shut(r) /\ r.state = state
<1> DEFINE r == Closed(v, state)
<1>1. r \in Worker
  BY ClosedFollows, Zenon
<1>2. /\ r.current = v.current /\ r.state = state
      /\ r.up = <<>> /\ r.down = <<>>
  BY Zenon DEF Closed, Worker
<1> HIDE DEF r
<1> QED
  BY <1>1, <1>2, Zenon DEF Fades, Shut, r

\* RemoteStore::Listen without a call: the stream may start.
LEMMA ListenShut ==
  ASSUME NEW v \in Worker, NEW q \in Queries, Shut(v)
  PROVE  LET r == Listen(v, q) IN Fades(r, v) /\ Shut(r)
<1> DEFINE a == [v EXCEPT !.targets = v.targets \cup {q}]
<1>1. v.targets \in SUBSET Queries
  BY WorkerFields, Zenon
<1>2. a \in Worker /\ a.current = v.current
  BY <1>1, Zenon DEF Worker
<1>3. a.state = v.state /\ a.pending = v.pending /\ a.up = v.up /\ a.down = v.down
  BY Zenon DEF Worker
<1>4. Listen(v, q) = IF ShouldStartWatchStream(a) THEN StartWatchStream(a) ELSE a
  BY Zenon DEF Listen, Worker, Shut, IsOpen
<1> HIDE DEF a
<1>5. Fades(a, v) /\ Shut(a)
  BY <1>2, <1>3, Zenon DEF Fades, Shut
<1>6. Fades(StartWatchStream(a), a) /\ Shut(StartWatchStream(a))
  BY <1>2, <1>5, StartShut, Zenon DEF Shut
<1> QED
  BY <1>4, <1>5, <1>6, FadesOn, Zenon

\* With a call it sends the request.
LEMMA ListenOpen ==
  ASSUME NEW v \in Worker, NEW q \in Queries, v.state = "Open",
         listens' \in [Queries -> Nat]
  PROVE  LET r == Listen(v, q)
         IN  /\ Fades(r, v) /\ r.state = "Open" /\ r.down = v.down
             /\ r.up = Append(v.up, [q |-> q, add |-> TRUE, no |-> listens'[q]])
             /\ r.pending = [v.pending EXCEPT ![q] = v.pending[q] + 1]
             /\ r.targets = v.targets \cup {q}
<1> DEFINE ts == v.targets \cup {q}
           pe == [v.pending EXCEPT ![q] = v.pending[q] + 1]
           up == Append(v.up, [q |-> q, add |-> TRUE, no |-> listens'[q]])
           r == [v EXCEPT !.targets = ts, !.pending = pe, !.up = up, !.idle = FALSE]
<1>1. Listen(v, q) = r
  BY Zenon DEF Listen, Send, ShouldStartWatchStream, IsStarted, IsOpen, Worker
<1>2. v.pending \in [Queries -> Int] /\ v.up \in Seq(Request) /\ v.targets \in SUBSET Queries
  BY WorkerFields, Zenon
<1>3. [q |-> q, add |-> TRUE, no |-> listens'[q]] \in Request
  BY Zenon DEF Request
<1>4. pe \in [Queries -> Int] /\ up \in Seq(Request) /\ ts \in SUBSET Queries
  BY <1>2, <1>3, AppendFacts
<1> HIDE DEF pe, up, ts
<1>5. r \in Worker
  BY <1>4, Zenon DEF Worker
<1>6. /\ r.current = v.current /\ r.state = v.state /\ r.down = v.down
      /\ r.up = up /\ r.pending = pe /\ r.targets = ts
  BY Zenon DEF Worker
<1> HIDE DEF r
<1> QED
  BY <1>1, <1>5, <1>6, Zenon DEF Fades, up, pe, ts

\* RemoteStore::StopListening without a call: the tracker may hear of it.
LEMMA StopShut ==
  ASSUME NEW v \in Worker, NEW q \in Queries, Shut(v)
  PROVE  LET r == StopListening(v, q) IN Fades(r, v) /\ Shut(r)
<1> DEFINE a == [v EXCEPT !.targets = v.targets \ {q}]
<1>1. v.targets \in SUBSET Queries
  BY WorkerFields, Zenon
<1>2. a \in Worker /\ a.current = v.current
  BY <1>1, Zenon DEF Worker
<1>3. a.state = v.state /\ a.pending = v.pending /\ a.up = v.up /\ a.down = v.down
  BY Zenon DEF Worker
<1>4. StopListening(v, q) = IF a.targets # {} THEN a ELSE UpdateState(a, "Unknown")
  BY Zenon DEF StopListening, Worker, Shut, IsOpen
<1> HIDE DEF a
<1>5. Fades(a, v) /\ Shut(a)
  BY <1>2, <1>3, Zenon DEF Fades, Shut
<1>6. Fades(UpdateState(a, "Unknown"), a) /\ SameStream(UpdateState(a, "Unknown"), a)
  BY <1>2, UpdateFades, Zenon
<1>7. Shut(UpdateState(a, "Unknown"))
  BY <1>5, <1>6, Zenon DEF Shut, SameStream
<1> QED
  BY <1>4, <1>5, <1>6, <1>7, FadesOn, Zenon

\* With a call it sends the request, and may start the idle timer.
LEMMA StopOpen ==
  ASSUME NEW v \in Worker, NEW q \in Queries, v.state = "Open",
         listens' \in [Queries -> Nat]
  PROVE  LET r == StopListening(v, q)
         IN  /\ Fades(r, v) /\ r.state = "Open" /\ r.down = v.down
             /\ r.up = Append(v.up, [q |-> q, add |-> FALSE, no |-> listens'[q]])
             /\ r.pending = [v.pending EXCEPT ![q] = v.pending[q] + 1]
             /\ r.targets = v.targets \ {q}
<1> DEFINE ts == v.targets \ {q}
           pe == [v.pending EXCEPT ![q] = v.pending[q] + 1]
           up == Append(v.up, [q |-> q, add |-> FALSE, no |-> listens'[q]])
           id == ts = {}
           r == [v EXCEPT !.targets = ts, !.pending = pe, !.up = up, !.idle = id]
<1>1. StopListening(v, q) = r
  BY Zenon DEF StopListening, Send, IsOpen, Worker
<1>2. v.pending \in [Queries -> Int] /\ v.up \in Seq(Request) /\ v.targets \in SUBSET Queries
  BY WorkerFields, Zenon
<1>3. [q |-> q, add |-> FALSE, no |-> listens'[q]] \in Request
  BY Zenon DEF Request
<1>4. pe \in [Queries -> Int] /\ up \in Seq(Request) /\ ts \in SUBSET Queries /\ id \in BOOLEAN
  BY <1>2, <1>3, AppendFacts
<1> HIDE DEF pe, up, ts, id
<1>5. r \in Worker
  BY <1>4, Zenon DEF Worker
<1>6. /\ r.current = v.current /\ r.state = v.state /\ r.down = v.down
      /\ r.up = up /\ r.pending = pe /\ r.targets = ts
  BY Zenon DEF Worker
<1> HIDE DEF r
<1> QED
  BY <1>1, <1>5, <1>6, Zenon DEF Fades, up, pe, ts

\* A call that failed, and a network that restarts, leave a stream without one.
LEMMA CloseShut ==
  ASSUME NEW v \in Worker, Shut(v)
  PROVE  LET r == OnWatchStreamClose(v) IN Fades(r, v) /\ Shut(r)
<1> DEFINE a == HandleWatchStreamFailure(v)
           b == UpdateState(v, "Unknown")
<1>1. OnWatchStreamClose(v) = IF ShouldStartWatchStream(v) THEN StartWatchStream(a) ELSE b
  BY Zenon DEF OnWatchStreamClose
<1>2. Fades(a, v) /\ SameStream(a, v) /\ Fades(b, v) /\ SameStream(b, v)
  BY FailureFades, UpdateFades, Zenon
<1> HIDE DEF a, b
<1>3. a \in Worker /\ a.up = <<>> /\ a.down = <<>>
  BY <1>2, Zenon DEF Fades, SameStream, Shut
<1>4. Fades(StartWatchStream(a), a) /\ Shut(StartWatchStream(a))
  BY <1>3, StartShut, Zenon
<1>5. Shut(b)
  BY <1>2, Zenon DEF Shut, SameStream
<1> QED
  BY <1>1, <1>2, <1>4, <1>5, FadesOn, Zenon

\* A restart closes the stream, and starts it again if something is watched.
LEMMA RestartShut ==
  ASSUME NEW v \in Worker
  PROVE  LET r == RestartNetwork(v) IN Fades(r, v) /\ Shut(r)
<1> DEFINE a == Closed(v, "Initial")
           b == UpdateState(a, "Unknown")
<1>1. RestartNetwork(v) = IF b.targets # {} THEN StartWatchStream(b) ELSE b
  BY Zenon DEF RestartNetwork
<1>2. Fades(a, v) /\ Shut(a) /\ a \in Worker
  BY ClosedShut, Zenon DEF Fades
<1> HIDE DEF a
<1>3. Fades(b, a) /\ SameStream(b, a)
  BY <1>2, UpdateFades, Zenon
<1> HIDE DEF b
<1>4. b \in Worker /\ Shut(b) /\ b.up = <<>> /\ b.down = <<>>
  BY <1>2, <1>3, Zenon DEF Fades, SameStream, Shut
<1>5. Fades(StartWatchStream(b), b) /\ Shut(StartWatchStream(b))
  BY <1>4, StartShut, Zenon
<1> QED
  BY <1>1, <1>2, <1>3, <1>4, <1>5, FadesOn, Zenon

----------------------------------------------------------------------------
(***************************************************************************)
(* Targets become current by their own listen.                             *)
(***************************************************************************)
\* What a step needs to mark no target by the answer to an earlier listen.
SInv == Stream(w, on, listens)

\* A target that a step marks current is listened to, and by its latest listen.
Marks ==
  \A q \in Queries : w'.current[q] \notin {w.current[q], 0} =>
    q \in w.targets /\ w'.current[q] = listens[q]

\* The invariant of the stream is about the stream and its targets only.
LEMMA StreamSame ==
  ASSUME NEW v, NEW r, NEW o, NEW ls, SameStream(r, v), Stream(v, o, ls)
  PROVE  Stream(r, o, ls)
<1>1. /\ r.state = v.state /\ r.up = v.up /\ r.down = v.down
      /\ r.pending = v.pending /\ r.targets = v.targets
  BY Zenon DEF SameStream
<1>2. Shut(v) => Shut(r)
  BY <1>1, Zenon DEF Shut
<1>3. Outstanding(v) => Outstanding(r)
  BY <1>1, Zenon DEF Outstanding
<1>4. Proper(v, o) => Proper(r, o)
  BY <1>1, Zenon DEF Proper
<1>5. Superseded(v, o, ls) => Superseded(r, o, ls)
  <2>1. \A x : Stale(r, ls, x) <=> Stale(v, ls, x)
    BY <1>1, Zenon DEF Stale
  <2>2. \A i, q : Unwatch(r, i, q) <=> Unwatch(v, i, q)
    BY <1>1, Zenon DEF Unwatch
  <2>3. \A i, q : Unwatched(r, i, q) <=> Unwatched(v, i, q)
    BY <1>1, Zenon DEF Unwatched
  <2> QED
    BY <1>1, <2>1, <2>2, <2>3, Zenon DEF Superseded
<1> QED
  BY <1>1, <1>2, <1>3, <1>4, <1>5, Zenon DEF Stream

\* A step that keeps the stream marks nothing.
LEMMA SteadySteps ==
  ASSUME SInv, SameStream(w', w), UNCHANGED <<on, listens>>
  PROVE  SInv' /\ Marks
<1>1. Stream(w', on', listens')
  BY StreamSame, Zenon DEF SInv
<1>2. Marks
  BY Zenon DEF Marks, SameStream
<1> QED
  BY <1>1, <1>2, Zenon DEF SInv

\* Nor does one that ends the call.
LEMMA ShutSteps ==
  ASSUME Shut(w'), Fades(w', w), on' = {}
  PROVE  SInv' /\ Marks
<1>1. Stream(w', on', listens')
  BY Zenon DEF Stream
<1>2. Marks
  BY Zenon DEF Marks, Fades
<1> QED
  BY <1>1, <1>2, Zenon DEF SInv

\* A stream that carries something is open.
LEMMA CarriesOpen ==
  ASSUME NEW v, NEW o, NEW ls, Stream(v, o, ls)
  PROVE  /\ v.state = "Open" \/ (Shut(v) /\ o = {})
         /\ v.up # <<>> => v.state = "Open"
         /\ v.down # <<>> => v.state = "Open"
         /\ o # {} => v.state = "Open"
BY Zenon DEF Stream, Shut

\* The main queue changes no more than inboxes; the end of the backoff keeps
\* the stream shut.
LEMMA MainOwn ==
  ASSUME RInv, SInv, NEW g \in Gets, getDocuments(g) \/ OnEvent(g)
  PROVE  SInv' /\ Marks
<1>1. w \in Worker /\ w.inbox \in [Gets -> Seq(Event)] /\ UNCHANGED <<on, listens>>
  BY WorkerFields, Zenon DEF RInv, TypeOK, getDocuments, OnEvent
<1>2. CASE getDocuments(g)
  <2>1. w' = w
    BY <1>2, Zenon DEF getDocuments
  <2> QED
    BY <1>1, <2>1, SteadySteps, Zenon DEF SameStream
<1>3. CASE OnEvent(g)
  <2> DEFINE box == [w.inbox EXCEPT ![g] = Tail(w.inbox[g])]
  <2>1. w.inbox[g] # <<>> /\ w' = [w EXCEPT !.inbox = box]
    BY <1>1, <1>3, Zenon DEF OnEvent, Worker
  <2>2. Tail(w.inbox[g]) \in Seq(Event)
    BY <1>1, <2>1, HeadTailFacts, Zenon
  <2>3. box \in [Gets -> Seq(Event)]
    BY <1>1, <2>2, Zenon
  <2> HIDE DEF box
  <2>4. SameStream(w', w)
    BY <1>1, <2>1, <2>3, Zenon DEF Worker, SameStream
  <2> QED
    BY <1>1, <2>4, SteadySteps, Zenon
<1> QED
  BY <1>2, <1>3, Zenon

\* A backoff that ends, and the timers, mark no target.
LEMMA TimersOwn ==
  ASSUME RInv, SInv, BackoffElapsed \/ OnlineStateTimeout \/ IdleTimeout
  PROVE  SInv' /\ Marks
<1>1. w \in Worker /\ Stream(w, on, listens)
  BY Zenon DEF RInv, TypeOK, SInv
<1>2. CASE BackoffElapsed
  <2>1. /\ w' \in Worker /\ w'.current = w.current /\ w'.state = "Starting"
        /\ w'.up = w.up /\ w'.down = w.down /\ w'.pending = w.pending
        /\ w.state = "Backoff" /\ UNCHANGED <<on, listens>>
    BY <1>1, <1>2, Zenon DEF BackoffElapsed, Worker
  <2>2. Shut(w) /\ on = {}
    BY <1>1, <2>1, CarriesOpen, Zenon
  <2>3. Shut(w')
    BY <2>1, <2>2, Zenon DEF Shut
  <2> QED
    BY <2>1, <2>2, <2>3, FadesQuietly, ShutSteps, Zenon
<1>3. CASE OnlineStateTimeout
  <2> DEFINE a == [w EXCEPT !.timer = FALSE]
  <2>1. w' = Broadcast(a, "Offline") /\ UNCHANGED <<on, listens>>
    BY <1>3, Zenon DEF OnlineStateTimeout
  <2>2. a \in Worker /\ SameStream(a, w)
    BY <1>1, Zenon DEF Worker, SameStream
  <2> HIDE DEF a
  <2>3. SameStream(w', a)
    BY <2>1, <2>2, BroadcastFades, Zenon
  <2>4. SameStream(w', w)
    BY <2>2, <2>3, Zenon DEF SameStream
  <2> QED
    BY <2>1, <2>4, SteadySteps, Zenon
<1>4. CASE IdleTimeout
  <2> DEFINE a == Closed(w, "Initial")
  <2>1. w' = UpdateState(a, "Unknown") /\ on' = {} /\ UNCHANGED listens
    BY <1>4, Zenon DEF IdleTimeout
  <2>2. Fades(a, w) /\ Shut(a) /\ a \in Worker
    BY <1>1, ClosedShut, Zenon DEF Fades
  <2> HIDE DEF a
  <2>3. Fades(w', a) /\ SameStream(w', a)
    BY <2>1, <2>2, UpdateFades, Zenon
  <2>4. Fades(w', w) /\ Shut(w')
    BY <2>2, <2>3, FadesOn, Zenon DEF SameStream, Shut
  <2> QED
    BY <2>1, <2>4, ShutSteps, Zenon
<1> QED
  BY <1>2, <1>3, <1>4, Zenon

\* A call that fails and a network that restarts leave nothing under way.
LEMMA FaultsOwn ==
  ASSUME RInv, SInv, StreamFails \/ NetworkRestarts
  PROVE  SInv' /\ Marks
<1>1. w \in Worker /\ on' = {} /\ UNCHANGED listens
  BY Zenon DEF RInv, TypeOK, StreamFails, NetworkRestarts, Fault
<1>2. CASE StreamFails
  <2> DEFINE a == Closed(w, "Error")
  <2>1. w' = OnWatchStreamClose(a)
    BY <1>2, Zenon DEF StreamFails
  <2>2. Fades(a, w) /\ Shut(a) /\ a \in Worker
    BY <1>1, ClosedShut, Zenon DEF Fades
  <2> HIDE DEF a
  <2>3. Fades(w', a) /\ Shut(w')
    BY <2>1, <2>2, CloseShut, Zenon
  <2> QED
    BY <1>1, <2>2, <2>3, FadesOn, ShutSteps, Zenon
<1>3. CASE NetworkRestarts
  <2>1. Fades(w', w) /\ Shut(w')
    BY <1>1, <1>3, RestartShut, Zenon DEF NetworkRestarts
  <2> QED
    BY <1>1, <2>1, ShutSteps, Zenon
<1> QED
  BY <1>2, <1>3, Zenon

\* The backend: each request is answered in its turn, and what is told is about
\* a watch in force.
LEMMA BackendOwn ==
  ASSUME CountLaws, RInv, SInv, Backend
  PROVE  SInv' /\ Marks
<1>1. /\ w \in Worker /\ on \subseteq Watch /\ faults \in 0 .. MaxFaults
      /\ Stream(w, on, listens) /\ w.up \in Seq(Request) /\ w.down \in Seq(Message)
  BY WorkerFields, Zenon DEF RInv, TypeOK, SInv
<1>2. ASSUME w'.current = w.current, Stream(w', on', listens), UNCHANGED listens
      PROVE  SInv' /\ Marks
  <2>1. Stream(w', on', listens')
    BY <1>2, Zenon
  <2> QED
    BY <1>2, <2>1, Zenon DEF SInv, Marks
<1>3. CASE Serve
  <2> DEFINE r == Head(w.up)
             kind == IF r.add /\ r.q \in Refusable THEN "refused"
                     ELSE IF r.add THEN "added" ELSE "removed"
             m == [kind |-> kind, q |-> r.q, no |-> r.no]
             z == [q |-> r.q, no |-> r.no, due |-> TRUE]
  <2>1. w.up # <<>> /\ w.state = "Open" /\ UNCHANGED listens
    BY <1>1, <1>3, CarriesOpen, ZenonT(30) DEF Serve
  <2>2. r \in Request /\ Tail(w.up) \in Seq(Request)
    BY <1>1, <2>1, HeadTailFacts, Zenon
  <2>3. /\ w' = [w EXCEPT !.up = Tail(w.up), !.down = Append(w.down, m)]
        /\ \/ r.add /\ r.q \in Refusable /\ kind = "refused" /\ on' = on
           \/ r.add /\ r.q \notin Refusable /\ kind = "added" /\ on' = on \cup {z}
           \/ ~r.add /\ kind = "removed" /\ on' = {y \in on : y.q # r.q}
    BY <1>1, <1>3, Zenon DEF Serve, Reply, Worker
  <2>4. kind \in {"added", "removed", "current", "reset", "refused"}
    BY Zenon
  <2>5. z.q = r.q /\ z.no = r.no
    BY Zenon
  <2> HIDE DEF r, kind, z
  <2>6. m \in Change /\ m.q = r.q /\ m.kind = kind
    BY <2>2, <2>4, Zenon DEF Change, Request
  <2> HIDE DEF m
  <2>7. Append(w.down, m) \in Seq(Message)
    BY <1>1, <2>6, AppendFacts, Zenon DEF Message
  <2>8. /\ w'.current = w.current /\ w'.state = w.state
        /\ w'.up = Tail(w.up) /\ w'.down = Append(w.down, m)
        /\ w'.pending = w.pending /\ w'.targets = w.targets
    BY <1>1, <2>3, ZenonT(30) DEF Worker
  <2>9. m.q = Head(w.up).q
    BY <2>6, Zenon DEF r
  <2>10. \/ Head(w.up).add /\ m.q \in Refusable /\ m.kind = "refused" /\ on' = on
         \/ /\ Head(w.up).add /\ m.q \notin Refusable /\ m.kind = "added"
            /\ \E y : on' = on \cup {y} /\ y.q = Head(w.up).q /\ y.no = Head(w.up).no
         \/ ~Head(w.up).add /\ m.kind = "removed" /\ on' = {y \in on : y.q # m.q}
    BY <2>3, <2>5, <2>6, Zenon DEF r
  <2>11. Stream(w', on', listens)
    BY <1>1, <2>1, <2>6, <2>8, <2>9, <2>10, StreamServes, Zenon
  <2> QED
    BY <1>2, <2>1, <2>8, <2>11, Zenon
<1>4. CASE Telling
  <2>1. /\ UNCHANGED listens
        /\ \A o \in on' : \E y \in on : y.q = o.q /\ y.no = o.no
    BY <1>1, <1>4, TellingFields, Zenon
  <2>2. PICK m \in Message :
          /\ w' = [w EXCEPT !.down = Append(w.down, m)]
          /\ m.kind \in {"current", "reset", "snapshot"}
          /\ m.kind # "snapshot" => \E y \in on : y.q = m.q /\ y.no = m.no
    BY <1>1, <1>4, TellingFields, Zenon
  <2>3. /\ w'.current = w.current /\ w'.state = w.state
        /\ w'.up = w.up /\ w'.down = Append(w.down, m)
        /\ w'.pending = w.pending /\ w'.targets = w.targets
    BY <1>1, <2>2, Zenon DEF Worker
  <2>4. on # {}
    BY <1>4, Zenon DEF Telling, SendCurrent, SendReset, SendSnapshot
  <2>5. w.state = "Open"
    BY <1>1, <2>4, CarriesOpen, Zenon
  <2>6. Stream(w', on', listens)
    <3>1. About(m, on', on)
      BY <2>1, <2>2, Zenon DEF About
    <3>2. /\ w'.state = "Open" /\ w'.up = w.up /\ w'.down = Append(w.down, m)
          /\ w'.pending = w.pending /\ w'.targets = w.targets
      BY <2>3, <2>5, Zenon
    <3> QED
      BY <1>1, <2>5, <3>1, <3>2, StreamBrings, Zenon
  <2> QED
    BY <1>2, <2>1, <2>3, <2>6, Zenon
<1> QED
  BY <1>3, <1>4, Zenon DEF Backend

\* A message: an answer is counted off, a target marked current has its last
\* listen answered, and a refused query was refusable.
LEMMA ChangeOwn ==
  ASSUME CountLaws, RInv, SInv, OnWatchStreamChange
  PROVE  SInv' /\ Marks
<1> DEFINE m == Head(w.down)
           dn == Tail(w.down)
           u == [w EXCEPT !.down = dn]
           v == UpdateState(u, "Online")
<1>1. /\ w \in Worker /\ w.down \in Seq(Message) /\ w.down # <<>> /\ Watched(w)
      /\ on \in SUBSET Watch /\ Stream(w, on, listens)
      /\ UNCHANGED <<on, listens>>
  BY WorkerFields, Zenon DEF RInv, TypeOK, SInv, OnWatchStreamChange
<1>2. m \in Message /\ dn \in Seq(Message)
  BY <1>1, HeadTailFacts, Zenon
<1>3. w.state = "Open" /\ (m.kind # "snapshot" => m.q \in Queries /\ m.no \in Nat)
  BY <1>1, <1>2, CarriesOpen, MessageKinds, Zenon
<1>4. u = [w EXCEPT !.down = Tail(w.down)]
  BY Zenon
<1>5. \/ m.kind \in {"added", "removed"} /\ w' \in {TargetAdded(v, m.q), TargetRemoved(v, m.q)}
      \/ m.kind = "current" /\ w' = MarkCurrent(v, m.q, m.no)
      \/ m.kind = "reset" /\ w' = ResetTarget(v, m.q)
      \/ m.kind = "refused" /\ w' = ProcessTargetError(v, m.q)
      \/ m.kind = "snapshot" /\ w' = v
      \/ /\ m.kind = "snapshot"
         /\ \E qs \in CreateRemoteEvent(v) : \E news : w' = ApplyRemoteEvent(v, qs, news)
  BY <1>1, <1>4, ZenonT(30) DEF OnWatchStreamChange
<1>6. m = Head(w.down) /\ dn = Tail(w.down)
  BY Zenon
<1> HIDE DEF m, dn
<1>7. /\ u \in Worker /\ u.listeners = w.listeners /\ u.view = w.view
      /\ u.state = "Open" /\ u.up = w.up /\ u.down = dn
      /\ u.pending = w.pending /\ u.targets = w.targets /\ u.current = w.current
  BY <1>1, <1>2, <1>3, Zenon DEF Worker
<1> HIDE DEF u
<1>8. SameStream(v, u) /\ Follows(v, u)
  BY <1>7, UpdateFollows, Zenon
<1> HIDE DEF v
<1>9. /\ v \in Worker /\ v.state = "Open" /\ v.up = w.up /\ v.down = dn
      /\ v.pending = w.pending /\ v.targets = w.targets /\ v.current = w.current
  BY <1>7, <1>8, Zenon DEF Follows, SameStream
<1>10. Watched(v)
  <2>1. Watched(u)
    BY <1>1, <1>7, Zenon DEF Watched
  <2> QED
    BY <1>7, <1>8, <1>9, <2>1, FollowsWatched, Zenon
<1>11. v.pending \in [Queries -> Int] /\ v.current \in [Queries -> Nat]
  BY <1>9, WorkerFields, Zenon
<1>12. ASSUME w' \in Worker, w'.state = "Open", w'.up = v.up, w'.down = v.down, Marks,
              \A p \in Queries \ Refusable :
                /\ p \in w'.targets <=> p \in v.targets
                /\ w'.pending[p] = v.pending[p] - IF m \in Replies(p) THEN 1 ELSE 0
       PROVE  SInv' /\ Marks
  <2>1. \A p \in Queries \ Refusable :
          /\ p \in w'.targets <=> p \in w.targets
          /\ w'.pending[p] = w.pending[p] - IF Head(w.down) \in Replies(p) THEN 1 ELSE 0
    BY <1>6, <1>9, <1>12, Zenon
  <2>2. w'.up = w.up /\ w'.down = Tail(w.down)
    BY <1>6, <1>9, <1>12, Zenon
  <2>3. Stream(w', on, listens)
    BY <1>1, <1>3, <1>12, <2>1, <2>2, StreamReceives, Zenon
  <2>4. Stream(w', on', listens')
    BY <1>1, <2>3, Zenon
  <2> QED
    BY <1>12, <2>4, Zenon DEF SInv
<1>13. Fades(w', v) => Marks
  BY <1>9, Zenon DEF Fades, Marks
<1>14. \A p \in Queries : v.pending[p] = v.pending[p] - 0
  BY <1>11
<1>15. ASSUME m.kind \notin {"added", "removed"}, Retargets(w', v), w'.pending = v.pending, Marks
       PROVE  SInv' /\ Marks
  <2>1. \A p \in Queries : m \notin Replies(p)
    BY <1>15, Zenon DEF Replies
  <2> QED
    BY <1>9, <1>12, <1>14, <1>15, <2>1, Zenon DEF Retargets
<1>16. CASE m.kind \in {"added", "removed"} /\ w' \in {TargetAdded(v, m.q), TargetRemoved(v, m.q)}
  <2> DEFINE pe == [v.pending EXCEPT ![m.q] = v.pending[m.q] - 1]
  <2>1. Retargets(w', v) /\ Fades(w', v) /\ w'.pending = pe /\ m \in Change
    <3>1. m.q \in Queries /\ m \in Change
      BY <1>2, <1>16, MessageKinds, Zenon
    <3>2. LET r == TargetAdded(v, m.q) IN Retargets(r, v) /\ Fades(r, v) /\ r.pending = pe
      BY <1>9, <3>1, AddedFields, Zenon
    <3>3. LET r == TargetRemoved(v, m.q) IN Retargets(r, v) /\ Fades(r, v) /\ r.pending = pe
      BY <1>9, <3>1, RemovedFields, Zenon
    <3> QED
      BY <1>16, <3>1, <3>2, <3>3, Zenon
  <2>2. \A p \in Queries : pe[p] = v.pending[p] - IF m.q = p THEN 1 ELSE 0
    BY <1>11
  <2> HIDE DEF pe
  <2>3. \A p \in Queries : m \in Replies(p) <=> m.q = p
    BY <1>16, <2>1, Zenon DEF Replies
  <2> QED
    BY <1>9, <1>12, <1>13, <2>1, <2>2, <2>3, Zenon DEF Retargets
<1>17. CASE m.kind = "current" /\ w' = MarkCurrent(v, m.q, m.no)
  <2>1. /\ Retargets(w', v) /\ w'.pending = v.pending
        /\ \A p \in Queries : w'.current[p] # v.current[p] =>
             p = m.q /\ IsActiveTarget(v, m.q) /\ w'.current[p] = m.no
    BY <1>3, <1>9, <1>17, MarkFields, Zenon
  <2>2. IsActiveTarget(v, m.q) => IsActiveTarget(w, m.q) /\ m.q \in w.targets
    BY <1>9, Zenon DEF IsActiveTarget
  <2>3. IsActiveTarget(w, m.q) => m.no = listens[m.q]
    BY <1>1, <1>2, <1>3, <1>6, <1>17, ActiveIsCurrent, Zenon
  <2>4. Marks
    BY <1>9, <2>1, <2>2, <2>3, Zenon DEF Marks
  <2> QED
    BY <1>15, <1>17, <2>1, <2>4, Zenon
<1>18. CASE m.kind = "reset" /\ w' = ResetTarget(v, m.q)
  BY <1>3, <1>9, <1>13, <1>15, <1>18, ResetFields, Zenon
<1>19. CASE m.kind = "snapshot" /\ w' = v
  <2>1. SameTracker(v, v) /\ Fades(v, v)
    BY <1>9, Zenon DEF SameTracker, Fades
  <2> QED
    BY <1>9, <1>13, <1>15, <1>19, <2>1, Zenon DEF Retargets
<1>20. ASSUME m.kind = "snapshot", NEW qs \in CreateRemoteEvent(v), NEW news,
              w' = ApplyRemoteEvent(v, qs, news)
       PROVE  SInv' /\ Marks
  <2>1. qs \in SUBSET v.targets
    BY Zenon DEF CreateRemoteEvent, IsActiveTarget
  <2>2. Follows(w', v) /\ SameStream(w', v)
    BY <1>9, <1>10, <1>20, <2>1, WatchSnapshotFollows, Zenon
  <2>3. /\ w' \in Worker /\ w'.state = "Open" /\ w'.up = v.up /\ w'.down = v.down
        /\ w'.pending = v.pending /\ w'.targets = v.targets /\ w'.current = v.current
    BY <1>9, <2>2, Zenon DEF Follows, SameStream
  <2>4. \A p \in Queries : m \notin Replies(p)
    BY <1>20, Zenon DEF Replies
  <2>5. Marks
    BY <1>13, <2>3, FadesQuietly, Zenon
  <2> QED
    BY <1>12, <1>14, <2>3, <2>4, <2>5, Zenon
<1>21. CASE m.kind = "refused" /\ w' = ProcessTargetError(v, m.q)
  <2>1. m.q \in Refusable
    <3>1. Proper(w, on)
      BY <1>1, <1>3, Zenon DEF Stream, Shut
    <3>2. m = w.down[1] /\ 1 \in 1 .. Len(w.down)
      BY <1>1, <1>6, TailPlaces, Zenon
    <3> QED
      BY <1>21, <3>1, <3>2, Zenon DEF Proper
  <2>2. \A p \in Queries : m \notin Replies(p)
    BY <1>21, Zenon DEF Replies
  <2>3. CASE m.q \notin v.targets
    <3>1. w' = v /\ SameTracker(v, v) /\ Fades(v, v)
      BY <1>9, <1>21, <2>3, Zenon DEF ProcessTargetError, SameTracker, Fades
    <3> QED
      BY <1>9, <1>13, <1>15, <1>21, <3>1, Zenon DEF Retargets
  <2>4. CASE m.q \in v.targets
    <3>1. /\ w' \in Worker /\ w'.state = v.state /\ w'.up = v.up /\ w'.down = v.down
          /\ w'.pending = [v.pending EXCEPT ![m.q] = 0]
          /\ w'.current = [v.current EXCEPT ![m.q] = 0]
          /\ w'.targets = v.targets \ {m.q}
      BY <1>3, <1>9, <1>21, <2>4, TargetErrorFields, Zenon
    <3>2. \A p \in Queries \ Refusable :
            /\ p \in w'.targets <=> p \in v.targets
            /\ w'.pending[p] = v.pending[p]
      BY <1>11, <2>1, <3>1, Zenon
    <3>3. Fades(w', v)
      BY <1>11, <3>1, Zenon DEF Fades
    <3> QED
      BY <1>9, <1>12, <1>13, <1>14, <2>2, <3>1, <3>2, <3>3, Zenon
  <2> QED
    BY <2>3, <2>4, Zenon
<1> QED
  BY <1>5, <1>16, <1>17, <1>18, <1>19, <1>20, <1>21, Zenon

\* A listen: a query that was not watched has its view on the cache, and the
\* request for it, if the stream is open, is for the new listen.
LEMMA AddOwn ==
  ASSUME CountLaws, RInv, SInv, AddQueryListener
  PROVE  SInv' /\ Marks
<1> DEFINE g == Head(work).get
           q == of[g]
           gs == w.listeners[q] \cup {g}
           added == [w EXCEPT !.listeners[q] = gs]
<1>1. /\ work # <<>> /\ on' = on
      /\ w.listeners[q] # {} => w' = OnViewSnapshot(added, {g}, q) /\ listens' = listens
      /\ w.listeners[q] = {} =>
           /\ w' = OnViewSnapshot(InitializeView(added, q), {g}, q)
           /\ listens' = [listens EXCEPT ![q] = listens[q] + 1]
  BY ZenonT(30) DEF AddQueryListener, RInv, TypeOK, Worker
<1>2. g \in Gets
  BY <1>1, WorkTail, Zenon
<1>3. /\ q \in Queries /\ w \in Worker /\ w.listeners \in [Queries -> SUBSET Gets]
      /\ on \in SUBSET Watch /\ listens \in [Queries -> Nat] /\ Watched(w)
      /\ Stream(w, on, listens)
  BY <1>2, WorkerFields, Zenon DEF RInv, TypeOK, SInv
<1>4. gs \in SUBSET Gets /\ {g} \in SUBSET Gets /\ g \in gs
  BY <1>2, <1>3, Zenon
<1> HIDE DEF gs, g, q
<1>5. /\ added \in Worker /\ added.listeners = [w.listeners EXCEPT ![q] = gs]
      /\ SameStream(added, w) /\ SameTracker(added, w)
  BY <1>3, <1>4, ListenersFields
<1>6. {g} \in SUBSET added.listeners[q]
  BY <1>3, <1>4, <1>5
<1> HIDE DEF added
<1>7. CASE w.listeners[q] # {}
  <2>1. w' = OnViewSnapshot(added, {g}, q) /\ UNCHANGED <<on, listens>>
    BY <1>1, <1>7, Zenon
  <2>2. SameStream(w', added)
    BY <1>3, <1>5, <1>6, <2>1, SnapshotFollows, Zenon
  <2>3. SameStream(w', w)
    BY <1>5, <2>2, Zenon DEF SameStream
  <2> QED
    BY <2>1, <2>3, SteadySteps, Zenon
<1>8. CASE w.listeners[q] = {}
  <2> DEFINE a == Listen(added, q)
             b == [a EXCEPT !.view[q] = "local"]
             n == listens[q] + 1
  <2>1. /\ w' = OnViewSnapshot(b, {g}, q) /\ on' = on
        /\ listens' = [listens EXCEPT ![q] = n]
    BY <1>1, <1>8, Zenon DEF InitializeView
  <2>2. q \notin w.targets
    BY <1>3, <1>8, Zenon DEF Watched
  <2>3. n \in Nat
    BY <1>3
  <2> HIDE DEF n
  <2>4. /\ listens' \in [Queries -> Nat] /\ listens'[q] = n
        /\ \A p \in Queries \ {q} : listens'[p] = listens[p]
    BY <1>3, <2>1, <2>3, Zenon
  <2>5. added.targets = w.targets /\ added.state = w.state /\ Stream(added, on, listens)
    BY <1>3, <1>5, StreamSame, Zenon DEF SameStream
  <2>6. Fades(a, added) /\ Stream(a, on, listens')
    <3>1. CASE added.state = "Open"
      <4> DEFINE x == [q |-> q, add |-> TRUE, no |-> listens'[q]]
      <4>1. /\ Fades(a, added) /\ a.state = "Open" /\ a.down = added.down
            /\ a.up = Append(added.up, x)
            /\ a.pending = [added.pending EXCEPT ![q] = added.pending[q] + 1]
            /\ a.targets = added.targets \cup {q}
        BY <1>3, <1>5, <2>4, <3>1, ListenOpen, Zenon
      <4>2. x \in Request /\ x.add /\ x.q = q /\ x.no = listens'[q]
        BY <1>3, <2>4, Zenon DEF Request
      <4> HIDE DEF x, a
      <4>3. Stream(a, on, listens')
        BY <1>3, <1>5, <2>2, <2>4, <2>5, <3>1, <4>1, <4>2, StreamListens, Zenon
      <4> QED
        BY <4>1, <4>3, Zenon
    <3>2. CASE added.state # "Open"
      <4>1. Shut(added) /\ on = {}
        BY <2>5, <3>2, CarriesOpen, Zenon
      <4>2. Fades(a, added) /\ Shut(a)
        BY <1>3, <1>5, <4>1, ListenShut, Zenon
      <4> HIDE DEF a
      <4> QED
        BY <4>1, <4>2, Zenon DEF Stream
    <3> QED
      BY <3>1, <3>2, Zenon
  <2>7. a.listeners = added.listeners
    <3>1. Timer(added) /\ Idle(added)
      BY <1>5, Zenon DEF RInv, Timer, Idle, SameStream, SameTracker, IsStarted, IsOpen
    <3> QED
      BY <1>3, <1>5, <2>4, <3>1, ListenFollows, ZenonT(30) DEF Follows
  <2>8. a \in Worker /\ "local" \in {"none", "local", "synced"}
    BY <2>6, Zenon DEF Fades
  <2> HIDE DEF a
  <2>9. b \in Worker /\ b.listeners = a.listeners /\ SameStream(b, a)
    BY <1>3, <2>8, ViewFields, ZenonT(30)
  <2> HIDE DEF b
  <2>10. SameStream(w', b)
    BY <1>3, <1>6, <2>1, <2>7, <2>9, SnapshotFollows, Zenon
  <2>11. Stream(w', on', listens')
    BY <2>1, <2>6, <2>9, <2>10, StreamSame, Zenon
  <2>12. Marks
    BY <1>5, <2>6, <2>9, <2>10, Zenon DEF Fades, SameStream, Marks
  <2> QED
    BY <2>11, <2>12, Zenon DEF SInv
<1> QED
  BY <1>7, <1>8, Zenon

\* The last removal: the view goes, and the request that ends the watch goes
\* out behind all that is under way.
LEMMA RemoveOwn ==
  ASSUME CountLaws, RInv, SInv, RemoveQueryListener
  PROVE  SInv' /\ Marks
<1> DEFINE g == Head(work).get
           q == of[g]
           gs == w.listeners[q] \ {g}
           removed == [w EXCEPT !.listeners[q] = gs]
<1>1. /\ work # <<>> /\ UNCHANGED <<on, listens>>
      /\ w' = removed \/ w' = RemoveAndCleanupTarget(removed, q)
  BY Zenon DEF RemoveQueryListener, RInv, TypeOK, Worker
<1>2. g \in Gets
  BY <1>1, WorkTail, Zenon
<1>3. /\ q \in Queries /\ w \in Worker /\ w.listeners \in [Queries -> SUBSET Gets]
      /\ listens \in [Queries -> Nat] /\ Stream(w, on, listens)
  BY <1>2, WorkerFields, Zenon DEF RInv, TypeOK, SInv
<1>4. gs \in SUBSET Gets
  BY <1>3, Zenon
<1> HIDE DEF gs, g, q
<1>5. removed \in Worker /\ SameStream(removed, w)
  BY <1>3, <1>4, ListenersFields
<1> HIDE DEF removed
<1>6. CASE w' = removed
  BY <1>1, <1>5, <1>6, SteadySteps, Zenon
<1>7. CASE w' = RemoveAndCleanupTarget(removed, q)
  <2> DEFINE a == [removed EXCEPT !.view[q] = "none"]
  <2>1. w' = StopListening(a, q)
    BY <1>7, Zenon DEF RemoveAndCleanupTarget
  <2>2. "none" \in {"none", "local", "synced"}
    BY Zenon
  <2>3. a \in Worker /\ SameStream(a, removed)
    BY <1>3, <1>5, <2>2, ViewFields, Zenon
  <2> HIDE DEF a
  <2>4. a.current = w.current
    BY <1>5, <2>3, Zenon DEF SameStream
  <2>5. Stream(a, on, listens)
    BY <1>3, <1>5, <2>3, StreamSame, Zenon
  <2>6. listens' \in [Queries -> Nat]
    BY <1>1, <1>3, Zenon
  <2>7. Fades(w', a) /\ Stream(w', on, listens)
    <3>1. CASE a.state = "Open"
      <4> DEFINE x == [q |-> q, add |-> FALSE, no |-> listens'[q]]
      <4>1. /\ Fades(w', a) /\ w'.state = "Open" /\ w'.down = a.down
            /\ w'.up = Append(a.up, x)
            /\ w'.pending = [a.pending EXCEPT ![q] = a.pending[q] + 1]
            /\ w'.targets = a.targets \ {q}
        BY <1>3, <2>1, <2>3, <2>6, <3>1, StopOpen, ZenonT(30)
      <4>2. x \in Request /\ ~x.add /\ x.q = q
        BY <1>3, <2>6, Zenon DEF Request
      <4> HIDE DEF x
      <4>3. Stream(w', on, listens)
        BY <2>3, <2>5, <3>1, <4>1, <4>2, StreamStops, ZenonT(30)
      <4> QED
        BY <4>1, <4>3, Zenon
    <3>2. CASE a.state # "Open"
      <4>1. Shut(a) /\ on = {}
        BY <2>5, <3>2, CarriesOpen, Zenon
      <4>2. Fades(w', a) /\ Shut(w')
        BY <1>3, <2>1, <2>3, <4>1, StopShut, Zenon
      <4> QED
        BY <4>1, <4>2, Zenon DEF Stream
    <3> QED
      BY <3>1, <3>2, Zenon
  <2>8. Stream(w', on', listens')
    BY <1>1, <2>7, Zenon
  <2>9. Marks
    BY <2>4, <2>7, Zenon DEF Fades, Marks
  <2> QED
    BY <2>8, <2>9, Zenon DEF SInv
<1> QED
  BY <1>1, <1>6, <1>7, Zenon

\* A stream that opens asks for every target once, for its latest listen.
LEMMA OpenOwn ==
  ASSUME ListLaws, CountLaws, RInv, SInv, OnWatchStreamOpen
  PROVE  SInv' /\ Marks
<1>1. /\ w \in Worker /\ listens \in [Queries -> Nat] /\ w.state = "Starting"
      /\ Stream(w, on, listens) /\ UNCHANGED <<on, listens>>
  BY Zenon DEF RInv, TypeOK, SInv, OnWatchStreamOpen
<1>2. w.targets \in SUBSET Queries /\ w.pending \in [Queries -> Int]
  BY <1>1, WorkerFields, Zenon
<1> DEFINE n == Cardinality(w.targets)
<1>3. n \in Nat
  BY <1>2, Zenon DEF ListLaws, Lists
<1>4. PICK s \in [1 .. n -> w.targets] :
        /\ {s[i] : i \in DOMAIN s} = w.targets
        /\ w' = [w EXCEPT !.state = "Open",
                          !.up = [i \in DOMAIN s |->
                                    [q |-> s[i], add |-> TRUE, no |-> listens[s[i]]]],
                          !.pending = [q \in Queries |->
                                         IF q \in w.targets THEN w.pending[q] + 1
                                         ELSE w.pending[q]]]
  BY Zenon DEF OnWatchStreamOpen
<1> DEFINE up == [i \in 1 .. n |-> [q |-> s[i], add |-> TRUE, no |-> listens[s[i]]]]
           pe == [q \in Queries |->
                    IF q \in w.targets THEN w.pending[q] + 1 ELSE w.pending[q]]
<1>5. DOMAIN s = 1 .. n /\ \A q \in w.targets : \E i \in 1 .. n : s[i] = q
  BY <1>4, Zenon
<1>6. w' = [w EXCEPT !.state = "Open", !.up = up, !.pending = pe]
  BY <1>4, <1>5, Zenon
<1>7. AsksEach(up, w.targets, listens)
  <2> DEFINE T == w.targets
             ls == listens
  <2>1. n \in Nat /\ Lists(T, n)
    BY <1>2, <1>3, Zenon DEF ListLaws
  <2> HIDE DEF n
  <2>2. T \in SUBSET Queries /\ ls \in [Queries -> Nat]
    BY <1>1, <1>2, Zenon
  <2>3. s \in [1 .. n -> T] /\ \A q \in T : \E i \in 1 .. n : s[i] = q
    BY <1>5, Zenon
  <2>4. up \in [1 .. n -> Request] /\ \A i \in 1 .. n : up[i].q = s[i] /\ up[i].no = ls[s[i]]
    <3>1. ASSUME NEW i \in 1 .. n PROVE up[i] \in Request /\ up[i].q = s[i] /\ up[i].no = ls[s[i]]
      <4> DEFINE x == [q |-> s[i], add |-> TRUE, no |-> ls[s[i]]]
      <4>1. x.q = s[i] /\ x.no = ls[s[i]] /\ x \in Request
        BY <1>1, <1>2, Zenon DEF Request
      <4>2. up[i] = x
        BY Zenon
      <4> HIDE DEF x, up
      <4> QED
        BY <4>1, <4>2, Zenon
    <3> QED
      BY <3>1, Zenon
  <2> HIDE DEF up, T, ls
  <2>5. AsksEach(up, T, ls)
    BY <2>1, <2>2, <2>3, <2>4, AsksOnce, Zenon
  <2> QED
    BY <2>5, Zenon DEF T, ls
<1>8. pe \in [Queries -> Int]
  BY <1>2
<1>9. pe = [q \in Queries |-> IF q \in w.targets THEN w.pending[q] + 1 ELSE w.pending[q]]
  BY Zenon
<1> HIDE DEF up, pe, n
<1>10. /\ w' \in Worker /\ w'.state = "Open" /\ w'.up = up /\ w'.pending = pe
       /\ w'.down = w.down /\ w'.targets = w.targets
       /\ w'.current = w.current
  BY <1>1, <1>6, <1>7, <1>8, Zenon DEF Worker, AsksEach
<1>11. Shut(w) /\ on = {}
  BY <1>1, CarriesOpen, Zenon
<1>12. Stream(w', {}, listens)
  BY <1>1, <1>7, <1>9, <1>10, <1>11, StreamOpens, Zenon
<1>13. Stream(w', on', listens')
  BY <1>1, <1>11, <1>12, Zenon
<1> QED
  BY <1>10, <1>13, Zenon DEF SInv, Marks

\* A client that nobody has asked anything has no call.
LEMMA InitOwn == Init => SInv
<1> SUFFICES ASSUME Init PROVE SInv
  BY Zenon
<1>1. w.state = "Initial" /\ w.up = <<>> /\ w.down = <<>> /\ on = {}
  BY Zenon DEF Init
<1> QED
  BY <1>1, Zenon DEF SInv, Stream, Shut

\* Every step marks targets by their own listen only.
LEMMA StepOwn ==
  ASSUME ListLaws, CountLaws, RInv, SInv, [Next]_vars
  PROVE  SInv' /\ Marks
<1>1. ASSUME NEW g \in Gets, getDocuments(g) \/ OnEvent(g) PROVE SInv' /\ Marks
  BY <1>1, MainOwn, Zenon
<1>2. CASE AddQueryListener
  BY <1>2, AddOwn, Zenon
<1>3. CASE RemoveQueryListener
  BY <1>3, RemoveOwn, Zenon
<1>4. CASE OnWatchStreamOpen
  BY <1>4, OpenOwn, Zenon
<1>5. CASE OnWatchStreamChange
  BY <1>5, ChangeOwn, Zenon
<1>6. CASE BackoffElapsed \/ OnlineStateTimeout \/ IdleTimeout
  BY <1>6, TimersOwn, Zenon
<1>7. CASE StreamFails \/ NetworkRestarts
  BY <1>7, FaultsOwn, Zenon
<1>8. CASE Backend
  BY <1>8, BackendOwn, Zenon
<1>9. CASE UNCHANGED vars
  <2>1. UNCHANGED <<w, on, listens>>
    BY <1>9, Zenon DEF vars
  <2>2. SameStream(w', w)
    BY <2>1, Zenon DEF SameStream
  <2> QED
    BY <2>1, <2>2, SteadySteps, Zenon
<1> QED
  BY <1>1, <1>2, <1>3, <1>4, <1>5, <1>6, <1>7, <1>8, <1>9, Zenon DEF Next, Backend, Telling

----------------------------------------------------------------------------
(***************************************************************************)
(* What is taken from the theorems about finite sets.                      *)
(***************************************************************************)
INSTANCE FiniteSetTheorems

\* The positions counted are finitely many; none is counted in <<>>, or where
\* no element is in P.
LEMMA CountsFinite ==
  ASSUME NEW S, NEW s \in Seq(S), NEW P
  PROVE  /\ IsFiniteSet({i \in 1 .. Len(s) : s[i] \in P})
         /\ Count(s, P) \in Nat
         /\ Count(s, P) = 0 <=> \A i \in 1 .. Len(s) : s[i] \notin P
<1> DEFINE A == {i \in 1 .. Len(s) : s[i] \in P}
<1>1. Len(s) \in Nat
  BY LenFacts, Zenon
<1>2. IsFiniteSet(1 .. Len(s))
  BY <1>1, FS_Interval
<1>3. IsFiniteSet(A)
  BY <1>2, FS_Subset, Zenon
<1>4. A = {} <=> \A i \in 1 .. Len(s) : s[i] \notin P
  BY Zenon
<1> HIDE DEF A
<1>5. Cardinality(A) \in Nat /\ (Cardinality(A) = 0 <=> A = {})
  BY <1>3, FS_CardinalityType, FS_EmptySet, Zenon
<1> QED
  BY <1>3, <1>4, <1>5, Zenon DEF Count, A

\* One more element is counted if it is in P.
LEMMA CountsAppend ==
  ASSUME NEW S, NEW s \in Seq(S), NEW x \in S, NEW P
  PROVE  Count(Append(s, x), P) = Count(s, P) + IF x \in P THEN 1 ELSE 0
<1> DEFINE A == {i \in 1 .. Len(s) : s[i] \in P}
           t == Append(s, x)
           B == {i \in 1 .. Len(t) : t[i] \in P}
           n == Len(s) + 1
<1>1. Len(s) \in Nat /\ IsFiniteSet(A) /\ Cardinality(A) \in Nat
  BY LenFacts, CountsFinite, Zenon DEF Count
<1>2. /\ Len(t) = n /\ t[n] = x
      /\ \A i \in 1 .. Len(s) : t[i] = s[i]
  BY AppendFacts
<1> HIDE DEF t
<1>3. \A i \in 1 .. n : i \in 1 .. Len(s) \/ i = n
  BY <1>1
<1>4. n \in 1 .. n /\ n \notin 1 .. Len(s) /\ \A i \in 1 .. Len(s) : i \in 1 .. n
  BY <1>1
<1> HIDE DEF n
<1>5. CASE x \in P
  <2>1. B = A \cup {n}
    BY <1>2, <1>3, <1>4, <1>5, Zenon
  <2>2. n \notin A
    BY <1>4, Zenon
  <2> HIDE DEF A, B
  <2>3. Cardinality(B) = Cardinality(A) + 1
    BY <1>1, <2>1, <2>2, FS_AddElement, Zenon
  <2> QED
    BY <1>5, <2>3, Zenon DEF Count, A, B, t
<1>6. CASE x \notin P
  <2>1. B = A
    BY <1>2, <1>3, <1>4, <1>6, Zenon
  <2> HIDE DEF A, B
  <2>2. Cardinality(B) = Cardinality(A) + 0
    BY <1>1, <2>1
  <2> QED
    BY <1>6, <2>2, Zenon DEF Count, A, B, t
<1> QED
  BY <1>5, <1>6, Zenon

\* The first element is counted if it is in P.
LEMMA CountsTail ==
  ASSUME NEW S, NEW s \in Seq(S), s # <<>>, NEW P
  PROVE  Count(s, P) = Count(Tail(s), P) + IF Head(s) \in P THEN 1 ELSE 0
<1> DEFINE t == Tail(s)
           A == {i \in 1 .. Len(s) : s[i] \in P}
           B == {i \in 1 .. Len(t) : t[i] \in P}
           C == A \ {1}
           f == [i \in B |-> i + 1]
<1>1. /\ t \in Seq(S) /\ Len(s) \in Nat /\ Len(t) \in Nat /\ Len(s) = Len(t) + 1
      /\ Head(s) = s[1]
  BY LenFacts, HeadTailFacts
<1>2. \A i \in 1 .. Len(t) : t[i] = s[i + 1]
  BY HeadTailFacts, Zenon
<1>3. IsFiniteSet(A) /\ IsFiniteSet(B) /\ Cardinality(A) \in Nat
  BY <1>1, CountsFinite, Zenon DEF Count
<1> HIDE DEF t
<1>4. \A i \in B : i + 1 \in C
  BY <1>1, <1>2
<1>5. ASSUME NEW j \in C PROVE \E i \in B : f[i] = j
  <2>1. j \in 1 .. Len(s) /\ j # 1 /\ s[j] \in P
    BY Zenon
  <2>2. j - 1 \in 1 .. Len(t) /\ (j - 1) + 1 = j
    BY <1>1, <2>1
  <2>3. j - 1 \in B
    BY <1>2, <2>1, <2>2, Zenon
  <2> QED
    BY <2>2, <2>3, Zenon
<1>6. f \in Bijection(B, C)
  <2>1. f \in [B -> C]
    BY <1>4, Zenon
  <2>2. \A i, j \in B : f[i] = f[j] => i = j
    OBVIOUS
  <2> HIDE DEF f, B, C
  <2> QED
    BY <1>5, <2>1, <2>2, Zenon DEF Bijection, Injection, Surjection, IsInjective
<1> HIDE DEF f, A, B
<1>7. Cardinality(C) = Cardinality(B)
  BY <1>3, <1>6, FS_Bijection, Zenon DEF ExistsBijection
<1>8. Cardinality(C) = IF 1 \in A THEN Cardinality(A) - 1 ELSE Cardinality(A)
  BY <1>3, FS_RemoveElement, Zenon
<1>9. 1 \in A <=> Head(s) \in P
  BY <1>1 DEF A
<1>10. Count(s, P) = Cardinality(A) /\ Count(Tail(s), P) = Cardinality(B)
  BY Zenon DEF Count, A, B, t
<1> HIDE DEF C
<1> QED
  BY <1>3, <1>7, <1>8, <1>9, <1>10

\* The laws of Count.
LEMMA Counting == CountLaws
<1> SUFFICES ASSUME NEW S, NEW P, NEW s \in Seq(S)
             PROVE  /\ Count(s, P) \in Nat
                    /\ Count(s, P) = 0 <=> \A i \in 1 .. Len(s) : s[i] \notin P
                    /\ \A i \in 1 .. Len(s) :
                         (\A j \in 1 .. Len(s) : s[j] \in P <=> j = i) => Count(s, P) = 1
                    /\ \A x \in S : Count(Append(s, x), P) = Count(s, P) + IF x \in P THEN 1 ELSE 0
                    /\ s # <<>> => Count(s, P) = Count(Tail(s), P) + IF Head(s) \in P THEN 1 ELSE 0
  BY Zenon DEF CountLaws
<1>1. Count(s, P) \in Nat /\ (Count(s, P) = 0 <=> \A i \in 1 .. Len(s) : s[i] \notin P)
  BY CountsFinite, Zenon
<1>2. ASSUME NEW i \in 1 .. Len(s), \A j \in 1 .. Len(s) : s[j] \in P <=> j = i
      PROVE  Count(s, P) = 1
  <2>1. {j \in 1 .. Len(s) : s[j] \in P} = {i}
    BY <1>2, Zenon
  <2> QED
    BY <2>1, FS_Singleton, Zenon DEF Count
<1>3. ASSUME NEW x \in S
      PROVE  Count(Append(s, x), P) = Count(s, P) + IF x \in P THEN 1 ELSE 0
  BY CountsAppend, Zenon
<1>4. ASSUME s # <<>>
      PROVE  Count(s, P) = Count(Tail(s), P) + IF Head(s) \in P THEN 1 ELSE 0
  BY <1>4, CountsTail, Zenon
<1> QED
  BY <1>1, <1>2, <1>3, <1>4, Zenon

\* The laws of lists: a surjection between finite sets of one size is injective.
LEMMA Listing == ListLaws
<1> SUFFICES ASSUME NEW T \in SUBSET Queries, NEW n, n = Cardinality(T)
             PROVE  Lists(T, n)
  BY Zenon DEF ListLaws
<1>1. IsFiniteSet(T) /\ n \in Nat
  BY ReadsAssumption, FS_Subset, FS_CardinalityType, Zenon
<1>2. IsFiniteSet(1 .. n) /\ Cardinality(1 .. n) = Cardinality(T)
  BY <1>1, FS_Interval
<1>3. ASSUME NEW s \in [1 .. n -> T], \A q \in T : \E i \in 1 .. n : s[i] = q
      PROVE  \A i, j \in 1 .. n : s[i] = s[j] => i = j
  <2>1. s \in Surjection(1 .. n, T)
    BY <1>3, Zenon DEF Surjection
  <2>2. s \in Injection(1 .. n, T)
    BY <1>1, <1>2, <2>1, FS_SurjSameCardinalityImpliesInj, Zenon
  <2> QED
    BY <2>2, Zenon DEF Injection, IsInjective
<1> QED
  BY <1>1, <1>3, Zenon DEF Lists

----------------------------------------------------------------------------
(***************************************************************************)
(* The theorems.                                                           *)
(***************************************************************************)
\* The inductive invariant holds in every reachable state.
LEMMA ReadsSound == Spec => []RInv
<1>1. RInv /\ [Next]_vars => RInv'
  BY Listing, StepSound, Zenon
<1> QED
  BY <1>1, InitSound, PTL DEF Spec

\* Every field of the worker queue's state, and every variable, keeps its type.
THEOREM TypeCorrect == Spec => []TypeOK
<1>1. RInv => TypeOK
  BY Zenon DEF RInv
<1> QED
  BY <1>1, ReadsSound, PTL

\* ListenOnce::OnEvent answers a get at most once, however many events were
\* raised for it before its removal was executed.
THEOREM GetsAnsweredOnce == Spec => []AnsweredOnce
<1>1. RInv => AnsweredOnce
  BY DEF RInv, Counted, AnsweredOnce
<1> QED
  BY <1>1, ReadsSound, PTL

\* EventManager's listeners, SyncEngine's views and RemoteStore's targets name
\* the same queries: the assertion of RemoteStore::StopListening never fails.
THEOREM ListenersWatched == Spec => []ListenersAreWatched
<1>1. RInv => ListenersAreWatched
  BY Zenon DEF RInv, Watched, ListenersAreWatched
<1> QED
  BY <1>1, ReadsSound, PTL

\* The assertions of OnlineStateTracker hold.
THEOREM TrackerSound == Spec => []TimerOnlyWhileUnknown
<1>1. RInv => TimerOnlyWhileUnknown
  BY Zenon DEF RInv, Timer, TimerOnlyWhileUnknown
<1> QED
  BY <1>1, ReadsSound, PTL

\* The watch stream is closed for idleness only while nothing is watched.
THEOREM IdleSound == Spec => []IdleOnlyWhenDone
<1>1. RInv => IdleOnlyWhenDone
  BY Zenon DEF RInv, Idle, IdleOnlyWhenDone
<1> QED
  BY <1>1, ReadsSound, PTL

\* WatchChangeAggregator marks a target current only by the answer to the latest
\* listen for it: a target whose requests are all answered has no message of an
\* earlier listen before it, whatever was unwatched and watched again.
THEOREM CurrentSound == Spec => CurrentByOwnListen
<1>1. RInv /\ SInv /\ [Next]_vars => SInv' /\ [Marks]_vars
  BY Listing, Counting, StepOwn, Zenon
<1>2. [Marks]_vars <=> [\A q \in Queries : w'.current[q] \notin {w.current[q], 0} =>
                          q \in w.targets /\ w'.current[q] = listens[q]]_vars
  BY Zenon DEF Marks
<1> QED
  BY <1>1, <1>2, ReadsSound, InitOwn, PTL DEF Spec, CurrentByOwnListen

\* Where every get is, besides the rest of the state, is an invariant.
LEMMA WaitsSound == Spec => []WInv
<1>1. RInv /\ WInv /\ [Next]_vars => WInv'
  BY StepWaits, Zenon
<1> QED
  BY <1>1, InitWaits, ReadsSound, PTL DEF Spec

\* No get is forgotten: one that is not answered is queued, has an event under
\* way that its callback will take, or listens on a started stream without a
\* reason to have been answered already.
THEOREM GetsKept == Spec => []GetsInHand
<1>1. ASSUME RInv, WInv PROVE GetsInHand
  <2> SUFFICES ASSUME NEW g \in Gets, phase[g] = "asked"
               PROVE  \/ \E i \in 1 .. Len(work) : work[i].op = "listen" /\ work[i].get = g
                      \/ w.inbox[g] # <<>> /\ g \notin muted
                      \/ /\ g \in w.listeners[of[g]] /\ of[g] \in w.targets /\ IsStarted(w)
                         /\ w.view[of[g]] = "local" /\ w.online # "Offline"
    BY Zenon DEF GetsInHand
  <2>1. of[g] \in Queries /\ w.view \in [Queries -> {"none", "local", "synced"}]
    BY <1>1, WorkerFields, Zenon DEF RInv, TypeOK
  <2>2. CASE g \in w.raised
    BY <1>1, <2>2, Zenon DEF WInv, Asked
  <2>3. CASE g \notin w.raised /\ g \in w.listeners[of[g]]
    <3>1. of[g] \in w.targets /\ w.view[of[g]] # "none"
      BY <1>1, <2>1, <2>3, Zenon DEF RInv, Watched
    <3>2. ~ShouldRaiseInitialEvent(w, of[g])
      BY <1>1, <2>1, <2>3, Zenon DEF WInv, Told
    <3>3. IsStarted(w)
      BY <1>1, <3>1, Zenon DEF WInv, Running
    <3> QED
      BY <2>1, <2>3, <3>1, <3>2, <3>3, Zenon DEF ShouldRaiseInitialEvent
  <2>4. CASE g \notin w.raised /\ g \notin w.listeners[of[g]]
    BY <1>1, <2>4, Zenon DEF WInv, Asked, Queued
  <2> QED
    BY <2>2, <2>3, <2>4, Zenon
<1> QED
  BY <1>1, ReadsSound, WaitsSound, PTL

==============================================================================
