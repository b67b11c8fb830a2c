---------------------------- MODULE WritePipeline ----------------------------
(***************************************************************************)
(* How the Firestore client gets a write to the backend.  A write becomes  *)
(* a batch in the persistent mutation queue of the user who is signed in;  *)
(* RemoteStore keeps the oldest batches of that queue in a pipeline and    *)
(* sends them over a gRPC stream, whose answers carry no batch number; the *)
(* sync engine calls the writer back.  Everything but the backend runs on  *)
(* one serial worker queue, so a handler is one action.                    *)
(*                                                                         *)
(* The stream fails and comes back, the user and the token change, the     *)
(* connectivity changes and the process dies at any moment.                *)
(***************************************************************************)
EXTENDS Naturals, Sequences, FiniteSets

CONSTANTS
  Users,              \* uids, the signed-out user included
  MaxPendingWrites,   \* kMaxPendingWrites, 10 in the code
  MaxWrites,          \* bound: writes of all processes together
  MaxFaults           \* bound: failures, changes and crashes together

ASSUME WriteAssumption ==
  /\ MaxPendingWrites \in Nat \ {0}
  /\ MaxWrites \in Nat
  /\ MaxFaults \in Nat

VARIABLES
  queue,      \* mutation queue of each user, on disk, in the order of the ids
  nextId,     \* next_batch_id_
  user,       \* current_user_ of the sync engine
  callbacks,  \* mutation_callbacks_: who waits for which batch of which user
  remote,     \* the write half of RemoteStore and its stream
  applied,    \* the backend: tags of the writes it has committed
  refused,    \* the backend: tags of the writes it has turned down
  told,       \* what the writers were told so far
  written,    \* writes issued so far; a write's number is its tag
  faults      \* faults so far

vars == <<queue, nextId, user, callbacks, remote, applied, refused, told,
          written, faults>>

\* A batch: its id in the queue, its tag, and whether the backend accepts it.
Batch == [id : Nat, tag : Nat, ok : BOOLEAN]

\* The handshake is the request with tag 0; the backend accepts it.
Handshake == [id |-> 0, tag |-> 0, ok |-> TRUE]

States == {"Initial", "Starting", "Open", "Backoff", "Error"}

\* sent: the requests of the current call whose answer the client has not
\* read; the backend has answered the first `served' of them and, if `denied',
\* has ended the call with a permanent error at the one after those.
Remote == [state : States, handshake : BOOLEAN, idle : BOOLEAN,
           pipeline : Seq(Batch), sent : Seq(Batch), served : Nat,
           denied : BOOLEAN]

\* What the client sees of a stream that no call stands behind.
Closed(state, pipeline) ==
  [state |-> state, handshake |-> FALSE, idle |-> FALSE,
   pipeline |-> pipeline, sent |-> <<>>, served |-> 0, denied |-> FALSE]

IsOpen(r) == r.state = "Open"

IsStarted(r) == r.state \in {"Starting", "Backoff"} \/ IsOpen(r)

\* After an error the stream waits before it starts again.
Start(r) == [r EXCEPT !.state = IF @ = "Error" THEN "Backoff" ELSE "Starting"]

StartWriteStream(r) ==
  IF ~IsStarted(r) /\ r.pipeline # <<>> THEN Start(r) ELSE r

\* The place in queue q of the first batch with an id above id.
NextBatchAfter(q, id) ==
  CHOOSE i \in 1 .. Len(q) + 1 :
    /\ \A j \in 1 .. i - 1 : q[j].id <= id
    /\ i <= Len(q) => q[i].id > id

\* The batches of q that FillWritePipeline adds behind pipeline p.
Retrieved(p, q) ==
  LET first == NextBatchAfter(q, IF p = <<>> THEN 0 ELSE p[Len(p)].id)
      room  == first + MaxPendingWrites - Len(p) - 1
  IN  SubSeq(q, first, IF room < Len(q) THEN room ELSE Len(q))

\* Mutation: sending a batch leaves the idle timer running.
FillWritePipeline_KeepsIdle(r, q) ==
  LET new   == Retrieved(r.pipeline, q)
      sends == IsOpen(r) /\ r.handshake
  IN  StartWriteStream(
        [r EXCEPT !.pipeline = @ \o new,
                  !.sent = IF sends THEN @ \o new ELSE @,
                  !.idle = @ \/ (IsOpen(r) /\ r.pipeline \o new = <<>>)])

\* Batches go out at once when the handshake is complete; sending one stops
\* the idle timer, and an empty pipeline on an open stream starts it.
FillWritePipeline(r, q) ==
  LET new   == Retrieved(r.pipeline, q)
      sends == IsOpen(r) /\ r.handshake
      empty == r.pipeline \o new = <<>>
  IN  StartWriteStream(
        [r EXCEPT !.pipeline = @ \o new,
                  !.sent = IF sends THEN @ \o new ELSE @,
                  !.idle = IF empty THEN @ \/ IsOpen(r)
                           ELSE @ /\ ~(sends /\ new # <<>>)])

\* Mutation: the pipeline outlives the restart.
RestartNetwork_KeepsPipeline(q) ==
  FillWritePipeline(Closed("Initial", remote.pipeline), q)

\* RestartNetwork: the stream stops gracefully, the pipeline is emptied and
\* filled again from the queue of the user.
RestartNetwork(q) == FillWritePipeline(Closed("Initial", <<>>), q)

\* One above the highest id of any user's queue.
LoadNextBatchIdFromDb ==
  LET ids == UNION {{queue[u][i].id : i \in DOMAIN queue[u]} : u \in Users}
  IN  \E highest \in {0} \cup ids :
        /\ \A id \in ids : id <= highest
        /\ nextId' = highest + 1

Init ==
  /\ queue = [u \in Users |-> <<>>]
  /\ nextId = 1
  /\ user \in Users
  /\ callbacks = {}
  /\ remote = Closed("Initial", <<>>)
  /\ applied = {}
  /\ refused = {}
  /\ told = {}
  /\ written = 0
  /\ faults = 0

Waiting(u, id) == {c \in callbacks : c.user = u /\ c.id = id}

\* Mutation: the callback stays registered.
NotifyUser_KeepsCallback(id, verdict) ==
  /\ told' = told \cup {[tag |-> c.tag, verdict |-> verdict] : c \in Waiting(user, id)}
  /\ UNCHANGED callbacks

\* NotifyUser: the callback of that batch of the current user, if there is one.
NotifyUser(id, verdict) ==
  /\ told' = told \cup {[tag |-> c.tag, verdict |-> verdict] : c \in Waiting(user, id)}
  /\ callbacks' = callbacks \ Waiting(user, id)

\* Queue q without the batch that has that id.
Without(q, id) ==
  LET i == CHOOSE i \in DOMAIN q : q[i].id = id
  IN  SubSeq(q, 1, i - 1) \o SubSeq(q, i + 1, Len(q))

RemoveMutationBatch(id) == queue' = [queue EXCEPT ![user] = Without(@, id)]

AddMutationBatch(batch) ==
  /\ queue' = [queue EXCEPT ![user] = Append(@, batch)]
  /\ nextId' = nextId + 1

HandleSuccessfulWrite(id) ==
  /\ NotifyUser(id, "acknowledged")
  /\ RemoveMutationBatch(id)

HandleRejectedWrite(id) ==
  /\ RemoveMutationBatch(id)
  /\ NotifyUser(id, "rejected")

\* The app writes; the backend will accept the write or not.
WriteMutations(ok) ==
  LET batch == [id |-> nextId, tag |-> written + 1, ok |-> ok]
  IN  /\ written < MaxWrites
      /\ written' = written + 1
      /\ AddMutationBatch(batch)
      /\ callbacks' = IF Waiting(user, nextId) # {} THEN callbacks
                      ELSE callbacks \cup {[user |-> user, id |-> nextId, tag |-> batch.tag]}
      /\ remote' = FillWritePipeline(remote, queue'[user])
      /\ UNCHANGED <<user, applied, refused, told, faults>>

\* The credentials arrive: the call starts and the handshake goes out.
OnWriteStreamOpen ==
  /\ remote.state = "Starting"
  /\ remote' = [remote EXCEPT !.state = "Open", !.sent = <<Handshake>>]
  /\ UNCHANGED <<queue, nextId, user, callbacks, applied, refused, told,
                 written, faults>>

\* The backend commits the next request, or ends the call with an error that
\* says the request is at fault.
Serve ==
  /\ IsOpen(remote) /\ ~remote.denied
  /\ remote.served < Len(remote.sent)
  /\ LET request == remote.sent[remote.served + 1]
     IN  IF request.ok
         THEN /\ remote' = [remote EXCEPT !.served = @ + 1]
              /\ applied' = applied \cup ({request.tag} \ {0})
              /\ UNCHANGED refused
         ELSE /\ remote' = [remote EXCEPT !.denied = TRUE]
              /\ refused' = refused \cup {request.tag}
              /\ UNCHANGED applied
  /\ UNCHANGED <<queue, nextId, user, callbacks, told, written, faults>>

Answered == IsOpen(remote) /\ remote.served > 0

\* Mutation: the answer to the handshake is taken for a batch's as well.
OnWriteStreamHandshakeComplete_CountsTwice ==
  /\ Answered /\ ~remote.handshake
  /\ remote' = [remote EXCEPT !.handshake = TRUE,
                              !.sent = Tail(@) \o remote.pipeline,
                              !.idle = @ /\ remote.pipeline = <<>>]
  /\ UNCHANGED <<queue, nextId, user, callbacks, applied, refused, told,
                 written, faults>>

\* Mutation: what an earlier call left in the pipeline is not sent again.
OnWriteStreamHandshakeComplete_NoResend ==
  /\ Answered /\ ~remote.handshake
  /\ remote' = [remote EXCEPT !.handshake = TRUE, !.sent = Tail(@), !.served = @ - 1]
  /\ UNCHANGED <<queue, nextId, user, callbacks, applied, refused, told,
                 written, faults>>

\* The first response on a stream is the answer to the handshake.
OnWriteStreamHandshakeComplete ==
  /\ Answered /\ ~remote.handshake
  /\ remote' = [remote EXCEPT !.handshake = TRUE,
                              !.sent = Tail(@) \o remote.pipeline,
                              !.served = @ - 1,
                              !.idle = @ /\ remote.pipeline = <<>>]
  /\ UNCHANGED <<queue, nextId, user, callbacks, applied, refused, told,
                 written, faults>>

\* Every later response settles the batch at the front of the pipeline.
OnWriteStreamMutationResult ==
  /\ Answered /\ remote.handshake /\ remote.pipeline # <<>>
  /\ HandleSuccessfulWrite(Head(remote.pipeline).id)
  /\ remote' = FillWritePipeline(
                 [remote EXCEPT !.pipeline = Tail(@), !.sent = Tail(@), !.served = @ - 1],
                 queue'[user])
  /\ UNCHANGED <<nextId, user, applied, refused, written, faults>>

\* The permanent error reaches the client: after the responses before it, or
\* ahead of them when a later request fails to go out, in which case the
\* responses that have arrived are cancelled.
Denial ==
  /\ IsOpen(remote) /\ remote.denied
  /\ remote.served = 0 \/ remote.served + 1 < Len(remote.sent)

HandleWriteError ==
  /\ Denial /\ remote.handshake /\ remote.pipeline # <<>>
  /\ HandleRejectedWrite(Head(remote.pipeline).id)
  /\ remote' = FillWritePipeline(Closed("Initial", Tail(remote.pipeline)), queue'[user])
  /\ UNCHANGED <<nextId, user, applied, refused, written, faults>>

BackoffElapsed ==
  /\ remote.state = "Backoff"
  /\ remote' = [remote EXCEPT !.state = "Starting"]
  /\ UNCHANGED <<queue, nextId, user, callbacks, applied, refused, told,
                 written, faults>>

IdleTimeout ==
  /\ remote.idle
  /\ remote' = Closed("Initial", remote.pipeline)
  /\ UNCHANGED <<queue, nextId, user, callbacks, applied, refused, told,
                 written, faults>>

Fault ==
  /\ faults < MaxFaults
  /\ faults' = faults + 1

\* A call that ends leaves requests behind; the backend commits as many of
\* them, in order, as it got.
Leftover ==
  LET open == remote.served .. (IF remote.denied THEN remote.served ELSE Len(remote.sent))
  IN  {{remote.sent[i].tag : i \in remote.served + 1 .. n} \ {0} :
         n \in {n \in open : \A i \in remote.served + 1 .. n : remote.sent[i].ok}}

CommitsLeftover == \E tags \in Leftover : applied' = applied \cup tags

\* Mutation: every error is taken for a permanent one.
TransientFailure_DropsBatch ==
  /\ Fault
  /\ remote.state = "Open" /\ remote.handshake /\ remote.pipeline # <<>>
  /\ HandleRejectedWrite(Head(remote.pipeline).id)
  /\ remote' = FillWritePipeline(Closed("Initial", Tail(remote.pipeline)), queue'[user])
  /\ CommitsLeftover
  /\ UNCHANGED <<nextId, user, refused, written>>

\* Mutation: the stream does not start again.
TransientFailure_StaysClosed ==
  /\ Fault
  /\ remote.state \in {"Starting", "Open"}
  /\ remote' = Closed("Error", remote.pipeline)
  /\ CommitsLeftover
  /\ UNCHANGED <<queue, nextId, user, callbacks, refused, told, written>>

\* The credentials or the call fail for a reason that is not the request.
TransientFailure ==
  /\ Fault
  /\ remote.state \in {"Starting", "Open"}
  /\ remote' = StartWriteStream(Closed("Error", remote.pipeline))
  /\ CommitsLeftover
  /\ UNCHANGED <<queue, nextId, user, callbacks, refused, told, written>>

ConnectivityChange ==
  /\ Fault
  /\ remote' = RestartNetwork(queue[user])
  /\ CommitsLeftover
  /\ UNCHANGED <<queue, nextId, user, callbacks, refused, told, written>>

\* A new token, or a new user: the queue of that user is opened, which sets
\* the id of the next batch, before the network restarts.
HandleCredentialChange(u) ==
  /\ Fault
  /\ user' = u
  /\ IF u = user THEN UNCHANGED nextId ELSE LoadNextBatchIdFromDb
  /\ remote' = RestartNetwork(queue[u])
  /\ CommitsLeftover
  /\ UNCHANGED <<queue, callbacks, refused, told, written>>

\* The process dies and is started again with user u.  NotifyUser runs before
\* AcknowledgeBatch, so the writer may have been told of a result that the
\* queue does not know of yet.
Relaunch(u) ==
  /\ Fault
  /\ \/ UNCHANGED told
     \/ /\ Answered /\ remote.handshake /\ remote.pipeline # <<>>
        /\ told' = told \cup {[tag |-> c.tag, verdict |-> "acknowledged"] :
                                c \in Waiting(user, Head(remote.pipeline).id)}
  /\ user' = u
  /\ LoadNextBatchIdFromDb
  /\ callbacks' = {}
  /\ remote' = RestartNetwork(queue[u])
  /\ CommitsLeftover
  /\ UNCHANGED <<queue, refused, written>>

Progress ==
  \/ OnWriteStreamOpen
  \/ Serve
  \/ OnWriteStreamHandshakeComplete
  \/ OnWriteStreamMutationResult
  \/ HandleWriteError
  \/ BackoffElapsed
  \/ IdleTimeout

Next ==
  \/ \E ok \in BOOLEAN : WriteMutations(ok)
  \/ Progress
  \/ TransientFailure
  \/ ConnectivityChange
  \/ \E u \in Users : HandleCredentialChange(u) \/ Relaunch(u)

Spec == Init /\ [][Next]_vars

\* The worker queue runs what is enqueued, timers fire and the backend answers
\* an open call; nothing makes faults happen or stop, but they are bounded.
FairSpec ==
  /\ Spec
  /\ WF_vars(OnWriteStreamOpen)
  /\ WF_vars(Serve)
  /\ WF_vars(OnWriteStreamHandshakeComplete)
  /\ WF_vars(OnWriteStreamMutationResult)
  /\ WF_vars(HandleWriteError)
  /\ WF_vars(BackoffElapsed)

------------------------------------------------------------------------------
Tags(q) == {q[i].tag : i \in DOMAIN q}

Callback == [user : Users, id : Nat, tag : Nat]

\* Type invariant.
TypeOK ==
  /\ queue \in [Users -> Seq(Batch)]
  /\ nextId \in Nat
  /\ user \in Users
  /\ callbacks \subseteq Callback
  /\ remote \in Remote
  /\ applied \subseteq Nat
  /\ refused \subseteq Nat
  /\ told \subseteq [tag : Nat, verdict : {"acknowledged", "rejected"}]
  /\ written \in Nat
  /\ faults \in Nat

\* A response carries no batch number, so the client takes it for the answer
\* to the front of the pipeline: whenever one is there to be read, it is.
ResultMatchesFront ==
  Answered /\ remote.handshake =>
    /\ remote.pipeline # <<>>
    /\ Head(remote.sent) = Head(remote.pipeline)

\* As many of the oldest batches of q as fit the pipeline.
Oldest(q) == SubSeq(q, 1, IF Len(q) < MaxPendingWrites THEN Len(q) ELSE MaxPendingWrites)

\* The pipeline holds the oldest batches of the queue of the current user, and
\* all of them unless it is full, whatever was refilled, restarted or reloaded
\* in between: no batch is skipped, sent ahead of an older one, left behind or
\* sent for another user.
PipelineIsQueueFront == remote.pipeline = Oldest(queue[user])

\* The idle timer that closes the stream runs only while there is nothing to
\* send (the assertion "stopped gracefully while still needed").
IdleOnlyWhenDone == remote.idle => IsOpen(remote) /\ queue[user] = <<>>

\* Ids are handed out again after a restart or a change of user; still, a
\* callback waits for the batch of the write it was registered for.
CallbackFindsItsWrite ==
  \A c \in callbacks :
    \E i \in DOMAIN queue[c.user] :
      queue[c.user][i].id = c.id /\ queue[c.user][i].tag = c.tag

\* A writer who is told of success has a committed write, and none is told
\* two things.
VerdictsHold ==
  \A t \in told :
    /\ t.verdict = "acknowledged" => t.tag \in applied
    /\ \A s \in told : s.tag = t.tag => s = t

\* HandleWriteError: "If this was a permanent error, the request itself was the
\* problem": a writer who is told of failure has a write the backend refused.
RejectedWasRefused ==
  \A t \in told : t.verdict = "rejected" => t.tag \in refused

\* The outbox of a user: what the mutation queue holds, by tags.
Out == INSTANCE Outbox
  WITH outbox <- [u \in Users |-> [i \in 1 .. Len(queue[u]) |-> queue[u][i].tag]]

\* The write path implements the outbox.
ImplementsOutbox == Out!Spec

\* The queue of whoever stays signed in is drained.
QueueDrains ==
  \A u \in Users :
    (user = u /\ queue[u] # <<>>) ~> (queue[u] = <<>> \/ user # u)

==============================================================================
