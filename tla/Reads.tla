-------------------------------- MODULE Reads --------------------------------
(***************************************************************************)
(* How getDocuments of the Firestore client gets its one answer.  A get is *)
(* a listener that waits for a snapshot in sync with the backend, or takes *)
(* the cache once the client knows it is offline, and removes itself when  *)
(* its first event runs on the main queue.  Three parties interleave:      *)
(*                                                                         *)
(*   the main queue     getDocuments, ListenOnce and its Remove            *)
(*   the worker queue   EventManager, SyncEngine, RemoteStore with its     *)
(*                      watch stream, OnlineStateTracker and timers        *)
(*   the backend        answers watch and unwatch requests                 *)
(*                                                                         *)
(* What the documents are does not matter here; whether a view is in sync  *)
(* does.  A stream is open as soon as its call is made: nothing says that  *)
(* anybody is at the other end.                                            *)
(***************************************************************************)
EXTENDS Integers, Sequences, FiniteSets

CONSTANTS
  Gets,        \* calls of getDocuments
  Queries,     \* the queries they are for
  Refusable,   \* the queries the backend always refuses
  MaxInbox,    \* bound: events waiting for one get on the main queue
  MaxFaults    \* bound: stream failures, network restarts, resets of a target
               \* and snapshots older than the last

ASSUME ReadsAssumption ==
  /\ IsFiniteSet(Queries)
  /\ Refusable \subseteq Queries
  /\ MaxInbox \in Nat \ {0}
  /\ MaxFaults \in Nat

VARIABLES
  phase,    \* of a get: "new", "asked", "answered" (its callback has run)
  of,       \* the query of a get
  answers,  \* how often its callback has run
  muted,    \* gets whose AsyncEventListener is muted
  work,     \* worker queue: listens and removals not yet executed
  w,        \* everything the worker queue owns
  on,       \* backend: the watches in force on the current call
  listens,  \* per query, how often SyncEngine::Listen was called for it
  faults

vars == <<phase, of, answers, muted, work, w, on, listens, faults>>

(***************************************************************************)
(* The fields of w:                                                        *)
(*   online, failures, timer     OnlineStateTracker; failures beyond one   *)
(*                               are not told apart                        *)
(*   state, idle                 the watch stream and its idle timer       *)
(*   up, down                    requests and messages under way           *)
(*   targets                     listen_targets_                           *)
(*   pending, current, changes   TargetState of each target: its           *)
(*                               outstanding_responses_, current_ (the     *)
(*                               listen whose CURRENT set it, or 0) and    *)
(*                               has_pending_changes_ (true at first)      *)
(*   listeners, raised           listeners of each query, and those that   *)
(*                               had their initial event                   *)
(*   view                        "none", "local" or "synced"               *)
(*   inbox                       events queued on the main queue           *)
(*                                                                         *)
(* A message is about one target, or is a snapshot, which is about all: it *)
(* is fresh when its version is not below the last the local store has.    *)
(* A watch is due while the backend has not said that it is CURRENT.       *)
(***************************************************************************)
Request == [q : Queries, add : BOOLEAN, no : Nat]
Change  == [kind : {"added", "removed", "current", "reset", "refused"},
            q : Queries, no : Nat]
Message == Change \cup [kind : {"snapshot"}, fresh : BOOLEAN]
Watch   == [q : Queries, no : Nat, due : BOOLEAN]
Event   == {"synced", "cached", "error"}
Worker  == [online : {"Unknown", "Online", "Offline"}, failures : 0 .. 1,
            timer : BOOLEAN,
            state : {"Initial", "Starting", "Open", "Backoff", "Error"},
            idle : BOOLEAN, up : Seq(Request), down : Seq(Message),
            targets : SUBSET Queries, pending : [Queries -> Int],
            current : [Queries -> Nat], changes : SUBSET Queries,
            listeners : [Queries -> SUBSET Gets], raised : SUBSET Gets,
            view : [Queries -> {"none", "local", "synced"}],
            inbox : [Gets -> Seq(Event)]]

----------------------------------------------------------------------------
(***************************************************************************)
(* Events.                                                                 *)
(***************************************************************************)
Raise(v, gs, e) ==
  [v EXCEPT !.raised = @ \cup gs,
            !.inbox = [g \in Gets |-> IF g \in gs THEN Append(@[g], e) ELSE @[g]]]

\* The initial event waits for a snapshot in sync unless the client is offline.
ShouldRaiseInitialEvent(v, q) == v.view[q] = "synced" \/ v.online = "Offline"

\* QueryListener::OnViewSnapshot for listeners gs; after the initial event all
\* are raised.
OnViewSnapshot(v, gs, q) ==
  Raise(v, {g \in gs : g \in v.raised \/ ShouldRaiseInitialEvent(v, q)},
        IF v.view[q] = "synced" THEN "synced" ELSE "cached")

\* EventManager::OnViewSnapshots for the queries qs.
OnViewSnapshots(v, qs) ==
  LET Told(state) ==
        UNION {{g \in v.listeners[q] : g \in v.raised \/ ShouldRaiseInitialEvent(v, q)} :
                 q \in {q \in qs : v.view[q] = state}}
  IN  Raise(Raise(v, Told("synced"), "synced"), Told("local"), "cached")

\* Mutation: going offline is no news to those who wait.
OnOnlineStateChanged_Silent(v) == v

\* EventManager::HandleOnlineStateChange: going offline raises what waited.
OnOnlineStateChanged(v) ==
  IF v.online # "Offline" THEN v
  ELSE Raise(v, {g \in UNION {v.listeners[q] : q \in {q \in Queries : v.view[q] # "none"}} :
                   g \notin v.raised}, "cached")

\* View::ApplyOnlineStateChange: offline, no view is in sync any longer, which is
\* news for the listeners that had their initial event.
ApplyOnlineStateChange(v, state) ==
  LET lost == IF state = "Offline" THEN {q \in Queries : v.view[q] = "synced"} ELSE {}
  IN  Raise([v EXCEPT !.view = [q \in Queries |-> IF q \in lost THEN "local" ELSE @[q]]],
            (UNION {v.listeners[q] : q \in lost}) \cap v.raised, "cached")

\* SetAndBroadcast: the views hear of a new state before the listeners do.
Broadcast(v, state) ==
  IF v.online = state THEN v
  ELSE OnOnlineStateChanged([ApplyOnlineStateChange(v, state) EXCEPT !.online = state])

----------------------------------------------------------------------------
(***************************************************************************)
(* OnlineStateTracker.                                                     *)
(***************************************************************************)
\* Mutation: the timer is left running.
UpdateState_KeepsTimer(v, state) == Broadcast([v EXCEPT !.failures = 0], state)

UpdateState(v, state) ==
  Broadcast([v EXCEPT !.timer = FALSE, !.failures = 0], state)

HandleWatchStreamStart(v) ==
  IF v.failures # 0 THEN v
  ELSE [Broadcast(v, "Unknown") EXCEPT !.timer = TRUE]

HandleWatchStreamFailure(v) ==
  IF v.online = "Online" THEN Broadcast(v, "Unknown")
  ELSE Broadcast([v EXCEPT !.failures = 1, !.timer = FALSE], "Offline")

----------------------------------------------------------------------------
(***************************************************************************)
(* RemoteStore and its watch stream.                                       *)
(***************************************************************************)
IsOpen(v) == v.state = "Open"

IsStarted(v) == v.state \in {"Starting", "Backoff"} \/ IsOpen(v)

ShouldStartWatchStream(v) == ~IsStarted(v) /\ v.targets # {}

\* A new stream has a new WatchChangeAggregator, without any TargetState.
StartWatchStream(v) ==
  HandleWatchStreamStart(
    [v EXCEPT !.state = IF @ = "Error" THEN "Backoff" ELSE "Starting",
              !.pending = [q \in Queries |-> 0],
              !.current = [q \in Queries |-> 0],
              !.changes = Queries])

Closed(v, state) ==
  [v EXCEPT !.state = state, !.idle = FALSE, !.up = <<>>, !.down = <<>>]

\* Mutation: the idle timer is left running.
Send_KeepsIdle(v, q, add) ==
  [v EXCEPT !.pending[q] = @ + 1,
            !.up = Append(@, [q |-> q, add |-> add, no |-> listens'[q]])]

\* A request counts as outstanding until it is answered; it stops the idle timer.
Send(v, q, add) ==
  [v EXCEPT !.pending[q] = @ + 1,
            !.up = Append(@, [q |-> q, add |-> add, no |-> listens'[q]]),
            !.idle = FALSE]

Listen(v, q) ==
  LET watched == [v EXCEPT !.targets = @ \cup {q}]
  IN  IF ShouldStartWatchStream(watched) THEN StartWatchStream(watched)
      ELSE IF IsOpen(v) THEN Send(watched, q, TRUE)
      ELSE watched

StopListening(v, q) ==
  LET unwatched == [v EXCEPT !.targets = @ \ {q}]
      sent      == IF IsOpen(v) THEN Send(unwatched, q, FALSE) ELSE unwatched
  IN  IF sent.targets # {} THEN sent
      ELSE IF IsOpen(v) THEN [sent EXCEPT !.idle = TRUE]
      ELSE UpdateState(sent, "Unknown")

\* Mutation: a stream that is still needed is not started again.
OnWatchStreamClose_StaysClosed(v) == UpdateState(v, "Unknown")

\* OnWatchStreamClose after an error.
OnWatchStreamClose(v) ==
  IF ShouldStartWatchStream(v) THEN StartWatchStream(HandleWatchStreamFailure(v))
  ELSE UpdateState(v, "Unknown")

RestartNetwork(v) ==
  LET stopped == UpdateState(Closed(v, "Initial"), "Unknown")
  IN  IF stopped.targets # {} THEN StartWatchStream(stopped) ELSE stopped

\* Mutation: outstanding answers are not considered.
IsActiveTarget_AnyAnswer(v, q) == q \in v.targets

\* Messages for a target that is not listened to, or that waits for the answer
\* to a request, are for an earlier listen.
IsActiveTarget(v, q) == q \in v.targets /\ v.pending[q] = 0

\* A new listen starts from a TargetState without pending changes; current_ stays.
TargetAdded(v, q) ==
  LET counted == [v EXCEPT !.pending[q] = @ - 1]
  IN  IF counted.pending[q] # 0 THEN counted
      ELSE [counted EXCEPT !.changes = @ \ {q}]

\* WatchChangeAggregator::RemoveTarget: the TargetState goes, the next is a new one.
RemoveTarget(v, q) ==
  [v EXCEPT !.pending[q] = 0, !.current[q] = 0, !.changes = @ \cup {q}]

TargetRemoved(v, q) ==
  LET counted == [v EXCEPT !.pending[q] = @ - 1]
  IN  IF counted.pending[q] # 0 THEN counted ELSE RemoveTarget(counted, q)

MarkCurrent(v, q, no) ==
  IF ~IsActiveTarget(v, q) THEN v
  ELSE [v EXCEPT !.current[q] = no, !.changes = @ \cup {q}]

ResetTarget(v, q) ==
  IF ~IsActiveTarget(v, q) THEN v
  ELSE [v EXCEPT !.current[q] = 0, !.changes = @ \cup {q}]

\* The targets a snapshot has a TargetChange for: the active ones with pending
\* changes, among them any that got documents or a resume token meanwhile.
CreateRemoteEvent(v) ==
  LET active == {q \in Queries : IsActiveTarget(v, q)}
  IN  {qs \in SUBSET active : v.changes \cap active \subseteq qs}

\* A snapshot with TargetChanges for qs and new documents in the views of news.
\* A view with a TargetChange is in sync exactly if the target is current.
ApplyRemoteEvent(v, qs, news) ==
  LET applied == [v EXCEPT
        !.changes = {q \in @ : ~IsActiveTarget(v, q)},
        !.view    = [q \in Queries |-> IF q \notin qs THEN @[q]
                                       ELSE IF v.current[q] # 0 THEN "synced" ELSE "local"]]
  IN  OnViewSnapshots(applied,
        {q \in Queries : q \in news \/ applied.view[q] # v.view[q]})

\* Mutation: the listeners are told and stay.
ProcessTargetError_KeepsListeners(v, q) ==
  IF q \notin v.targets THEN v
  ELSE [Raise(RemoveTarget(v, q), v.listeners[q], "error") EXCEPT !.targets = @ \ {q}]

\* SyncEngine::HandleRejectedListen: the view goes, the listeners are told and
\* forgotten.
HandleRejectedListen(v, q) ==
  [Raise(v, v.listeners[q], "error") EXCEPT !.view[q] = "none", !.listeners[q] = {}]

\* RemoteStore forgets a refused target before it tells the sync engine.
ProcessTargetError(v, q) ==
  IF q \notin v.targets THEN v
  ELSE HandleRejectedListen(RemoveTarget([v EXCEPT !.targets = @ \ {q}], q), q)

----------------------------------------------------------------------------
Init ==
  /\ phase = [g \in Gets |-> "new"]
  /\ of \in [Gets -> Queries]
  /\ answers = [g \in Gets |-> 0]
  /\ muted = {}
  /\ work = <<>>
  /\ w = [online |-> "Unknown", failures |-> 0, timer |-> FALSE,
          state |-> "Initial", idle |-> FALSE, up |-> <<>>, down |-> <<>>,
          targets |-> {}, pending |-> [q \in Queries |-> 0],
          current |-> [q \in Queries |-> 0], changes |-> Queries,
          listeners |-> [q \in Queries |-> {}], raised |-> {},
          view |-> [q \in Queries |-> "none"], inbox |-> [g \in Gets |-> <<>>]]
  /\ on = {}
  /\ listens = [q \in Queries |-> 0]
  /\ faults = 0

(***************************************************************************)
(* The main queue.                                                         *)
(***************************************************************************)
getDocuments(g) ==
  /\ phase[g] = "new"
  /\ phase' = [phase EXCEPT ![g] = "asked"]
  /\ work' = Append(work, [op |-> "listen", get |-> g])
  /\ UNCHANGED <<of, answers, muted, w, on, listens, faults>>

\* Mutation: the listener is removed but not muted.
OnEvent_NotMuted(g) ==
  LET e == Head(w.inbox[g]) IN
  /\ w.inbox[g] # <<>>
  /\ w' = [w EXCEPT !.inbox[g] = Tail(@)]
  /\ phase' = [phase EXCEPT ![g] = "answered"]
  /\ answers' = [answers EXCEPT ![g] = @ + 1]
  /\ work' = IF e = "error" THEN work ELSE Append(work, [op |-> "remove", get |-> g])
  /\ UNCHANGED <<of, muted, on, listens, faults>>

\* ListenOnce::OnEvent behind AsyncEventListener: a snapshot removes the
\* listener, which mutes it, before the callback runs.
OnEvent(g) ==
  LET e == Head(w.inbox[g]) IN
  /\ w.inbox[g] # <<>>
  /\ w' = [w EXCEPT !.inbox[g] = Tail(@)]
  /\ IF g \in muted THEN UNCHANGED <<phase, answers, muted, work>>
     ELSE /\ phase' = [phase EXCEPT ![g] = "answered"]
          /\ answers' = [answers EXCEPT ![g] = @ + 1]
          /\ IF e = "error" THEN UNCHANGED <<muted, work>>
             ELSE /\ muted' = muted \cup {g}
                  /\ work' = Append(work, [op |-> "remove", get |-> g])
  /\ UNCHANGED <<of, on, listens, faults>>

(***************************************************************************)
(* The worker queue.                                                       *)
(***************************************************************************)
\* SyncEngine::Listen: the target is watched, then there is a view on the cache.
InitializeView(v, q) == [Listen(v, q) EXCEPT !.view[q] = "local"]

\* EventManager::AddQueryListener and, for the first listener of a query,
\* SyncEngine::Listen.
AddQueryListener ==
  LET g == Head(work).get
      q == of[g]
      added == [w EXCEPT !.listeners[q] = @ \cup {g}]
  IN  /\ work # <<>> /\ Head(work).op = "listen"
      /\ work' = Tail(work)
      /\ IF w.listeners[q] # {}
         THEN /\ w' = OnViewSnapshot(added, {g}, q)
              /\ UNCHANGED listens
         ELSE /\ listens' = [listens EXCEPT ![q] = @ + 1]
              /\ w' = OnViewSnapshot(InitializeView(added, q), {g}, q)
      /\ UNCHANGED <<phase, of, answers, muted, on, faults>>

\* SyncEngine::StopListening: the target and the view go.
RemoveAndCleanupTarget(v, q) == StopListening([v EXCEPT !.view[q] = "none"], q)

RemoveQueryListener ==
  LET g == Head(work).get
      q == of[g]
      removed == [w EXCEPT !.listeners[q] = @ \ {g}]
  IN  /\ work # <<>> /\ Head(work).op = "remove"
      /\ work' = Tail(work)
      /\ UNCHANGED listens
      /\ w' = IF w.listeners[q] # {} /\ removed.listeners[q] = {}
              THEN RemoveAndCleanupTarget(removed, q)
              ELSE removed
      /\ UNCHANGED <<phase, of, answers, muted, on, faults>>

\* The credentials arrive and the call is made; every target is watched anew.
\* In which order does not matter: each is answered for itself.
OnWatchStreamOpen ==
  /\ w.state = "Starting"
  /\ \E s \in [1 .. Cardinality(w.targets) -> w.targets] :
       /\ {s[i] : i \in DOMAIN s} = w.targets
       /\ w' = [w EXCEPT !.state = "Open",
                         !.up = [i \in DOMAIN s |->
                                   [q |-> s[i], add |-> TRUE, no |-> listens[s[i]]]],
                         !.pending = [q \in Queries |->
                                        IF q \in w.targets THEN @[q] + 1 ELSE @[q]]]
  /\ UNCHANGED <<phase, of, answers, muted, work, on, listens, faults>>

\* Any message shows that the backend is there; an outdated snapshot shows no more.
OnWatchStreamChange ==
  LET m == Head(w.down)
      v == UpdateState([w EXCEPT !.down = Tail(@)], "Online")
  IN  /\ w.down # <<>>
      /\ \/ m.kind = "added" /\ w' = TargetAdded(v, m.q)
         \/ m.kind = "removed" /\ w' = TargetRemoved(v, m.q)
         \/ m.kind = "current" /\ w' = MarkCurrent(v, m.q, m.no)
         \/ m.kind = "reset" /\ w' = ResetTarget(v, m.q)
         \/ m.kind = "refused" /\ w' = ProcessTargetError(v, m.q)
         \/ m.kind = "snapshot" /\ ~m.fresh /\ w' = v
         \/ /\ m.kind = "snapshot" /\ m.fresh
            /\ \E qs \in CreateRemoteEvent(v), news \in SUBSET w.targets :
                 /\ \A q \in news : \A g \in w.listeners[q] : Len(w.inbox[g]) < MaxInbox
                 /\ w' = ApplyRemoteEvent(v, qs, news)
      /\ UNCHANGED <<phase, of, answers, muted, work, on, listens, faults>>

BackoffElapsed ==
  /\ w.state = "Backoff"
  /\ w' = [w EXCEPT !.state = "Starting"]
  /\ UNCHANGED <<phase, of, answers, muted, work, on, listens, faults>>

OnlineStateTimeout ==
  /\ w.timer
  /\ w' = Broadcast([w EXCEPT !.timer = FALSE], "Offline")
  /\ UNCHANGED <<phase, of, answers, muted, work, on, listens, faults>>

IdleTimeout ==
  /\ w.idle
  /\ w' = UpdateState(Closed(w, "Initial"), "Unknown")
  /\ on' = {}
  /\ UNCHANGED <<phase, of, answers, muted, work, listens, faults>>

Fault == faults < MaxFaults /\ faults' = faults + 1

\* The credentials or the call fail.
StreamFails ==
  /\ Fault
  /\ w.state \in {"Starting", "Open"}
  /\ w' = OnWatchStreamClose(Closed(w, "Error"))
  /\ on' = {}
  /\ UNCHANGED <<phase, of, answers, muted, work, listens>>

\* The connectivity, the token or the user changes.
NetworkRestarts ==
  /\ Fault
  /\ w' = RestartNetwork(w)
  /\ on' = {}
  /\ UNCHANGED <<phase, of, answers, muted, work, listens>>

(***************************************************************************)
(* The backend.                                                            *)
(***************************************************************************)
Reply(m) == w' = [w EXCEPT !.up = Tail(@), !.down = Append(@, m)]

\* A request is answered once; a refused one with the refusal.
Serve ==
  LET r == Head(w.up) IN
  /\ w.up # <<>>
  /\ IF r.add /\ r.q \in Refusable
       THEN Reply([kind |-> "refused", q |-> r.q, no |-> r.no]) /\ UNCHANGED on
     ELSE IF r.add
       THEN /\ Reply([kind |-> "added", q |-> r.q, no |-> r.no])
            /\ on' = on \cup {[q |-> r.q, no |-> r.no, due |-> TRUE]}
     ELSE /\ Reply([kind |-> "removed", q |-> r.q, no |-> r.no])
          /\ on' = {o \in on : o.q # r.q}
  /\ UNCHANGED <<phase, of, answers, muted, work, listens, faults>>

Tell(m) == w' = [w EXCEPT !.down = Append(@, m)]

\* A watch is in force and everything up to then was sent.
SendCurrent(o) ==
  /\ o.due
  /\ Tell([kind |-> "current", q |-> o.q, no |-> o.no])
  /\ on' = (on \ {o}) \cup {[o EXCEPT !.due = FALSE]}
  /\ UNCHANGED <<phase, of, answers, muted, work, listens, faults>>

\* The backend starts a target over.
SendReset(o) ==
  /\ ~o.due /\ Fault
  /\ Tell([kind |-> "reset", q |-> o.q, no |-> o.no])
  /\ on' = (on \ {o}) \cup {[o EXCEPT !.due = TRUE]}
  /\ UNCHANGED <<phase, of, answers, muted, work, listens>>

\* The stream has a new version, whether or not all its watches are CURRENT.
\* Bound: one snapshot under way at a time.
SendSnapshot(fresh) ==
  /\ on # {}
  /\ \A i \in DOMAIN w.down : w.down[i].kind # "snapshot"
  /\ Tell([kind |-> "snapshot", fresh |-> fresh])
  /\ IF fresh THEN UNCHANGED faults ELSE Fault
  /\ UNCHANGED <<phase, of, answers, muted, work, on, listens>>

Next ==
  \/ \E g \in Gets : getDocuments(g) \/ OnEvent(g)
  \/ AddQueryListener \/ RemoveQueryListener
  \/ OnWatchStreamOpen \/ OnWatchStreamChange
  \/ BackoffElapsed \/ OnlineStateTimeout \/ IdleTimeout
  \/ StreamFails \/ NetworkRestarts
  \/ Serve
  \/ \E o \in on : SendCurrent(o) \/ SendReset(o)
  \/ \E fresh \in BOOLEAN : SendSnapshot(fresh)

Spec == Init /\ [][Next]_vars

\* Both queues run what is queued, timers fire and tokens arrive.
ClientFair ==
  /\ \A g \in Gets : WF_vars(OnEvent(g))
  /\ WF_vars(AddQueryListener \/ RemoveQueryListener)
  /\ WF_vars(OnWatchStreamOpen)
  /\ WF_vars(OnWatchStreamChange)
  /\ WF_vars(BackoffElapsed)
  /\ WF_vars(OnlineStateTimeout)

\* The backend answers as well.
FairSpec ==
  /\ Spec /\ ClientFair
  /\ WF_vars(Serve)
  /\ \A q \in Queries : WF_vars(\E o \in on : o.q = q /\ SendCurrent(o))
  /\ WF_vars(SendSnapshot(TRUE))

\* Nothing is known of the backend.
ClientFairSpec == Spec /\ ClientFair

----------------------------------------------------------------------------
(***************************************************************************)
(* Properties.                                                             *)
(***************************************************************************)
\* Type invariant.
TypeOK ==
  /\ phase \in [Gets -> {"new", "asked", "answered"}]
  /\ of \in [Gets -> Queries]
  /\ answers \in [Gets -> Nat]
  /\ muted \subseteq Gets
  /\ work \in Seq([op : {"listen", "remove"}, get : Gets])
  /\ w \in Worker
  /\ on \subseteq Watch
  /\ listens \in [Queries -> Nat]
  /\ faults \in 0 .. MaxFaults

\* The callback of a get runs at most once: events raised between its first
\* event and the execution of its removal find it muted, and a refusal forgets
\* it.  (A second run would ask a promise for its future a second time.)
AnsweredOnce == \A g \in Gets : answers[g] <= 1

\* A query has listeners exactly while its target is watched, so that the last
\* removal never hits "StopListening: target not currently watched", although a
\* refusal drops both while removals and new listens are queued.
ListenersAreWatched ==
  \A q \in Queries : /\ w.listeners[q] # {} <=> q \in w.targets
                     /\ w.view[q] # "none" <=> q \in w.targets

\* A get stopped and issued again watches the same target id on the same
\* stream.  No message of the first listen marks the target of the second
\* CURRENT: the step that sets the flag is taken for a target that is watched,
\* and by the answer to its own listen.
CurrentByOwnListen ==
  [][\A q \in Queries :
       w'.current[q] \notin {w.current[q], 0} =>
         q \in w.targets /\ w'.current[q] = listens[q]]_vars

\* TargetState: current means that the backend "has sent us all changes up to the
\* point at which the target was added": a view is put in sync by the CURRENT of
\* its own listen.
SyncedByOwnListen ==
  [][\A q \in Queries :
       w.view[q] # "synced" /\ w'.view[q] = "synced" => w.current[q] = listens[q]]_vars

\* The assertions of OnlineStateTracker: the timer runs only while the state is
\* Unknown, and never when a stream is about to start.
TimerOnlyWhileUnknown ==
  /\ w.timer => w.online = "Unknown" /\ w.failures = 0 /\ IsStarted(w)
  /\ w.online = "Online" => w.failures = 0 /\ ~w.timer

\* The idle timer that closes the stream runs only while nothing is watched
\* (the assertion "stopped gracefully while still needed").
IdleOnlyWhenDone == w.idle => w.targets = {} /\ IsOpen(w)

\* No get is forgotten: one that waits for its answer is queued for listening,
\* has an event under way that its callback will take, or listens to a watched
\* target of a started stream, with a view that is not in sync while the client
\* does not know that it is offline, so that an event is still to come.
GetsInHand ==
  \A g \in Gets : phase[g] = "asked" =>
    \/ \E i \in 1 .. Len(work) : work[i].op = "listen" /\ work[i].get = g
    \/ w.inbox[g] # <<>> /\ g \notin muted
    \/ /\ g \in w.listeners[of[g]] /\ of[g] \in w.targets /\ IsStarted(w)
       /\ w.view[of[g]] = "local" /\ w.online # "Offline"

\* Every get is answered when the backend answers.
GetsAnswered == \A g \in Gets : phase[g] = "asked" ~> phase[g] = "answered"

\* OnlineStateTracker: "we have a timeout for OnlineState to reach Online or
\* Offline": while something is watched the state does not stay Unknown,
\* whatever the backend does.
OnlineStateDecided ==
  (w.online = "Unknown" /\ w.targets # {}) ~> (w.online # "Unknown" \/ w.targets = {})
==============================================================================
