----------------------------- MODULE Credentials -----------------------------
(***************************************************************************)
(* Who a stream of the Firestore client speaks for.  The user changes on   *)
(* the queue of Firebase Auth; the news and the callbacks travel through   *)
(* the main queue to the credentials provider, and from there through the  *)
(* worker queue to the sync engine, which closes its stream and starts it  *)
(* again.  A stream that starts asks for a token, which takes the same way *)
(* back and may meet any number of such changes.                           *)
(*                                                                         *)
(*   Auth queue   SignIn, SignOut, FetchToken, TokenArrives                *)
(*   main queue   MainStep, and the app's first use of Firestore           *)
(*   worker queue WorkerStep, and what the stream does by itself           *)
(*                                                                         *)
(* One stream stands for each of the two the client has.  AppCheck is not  *)
(* installed in the app, so its token is there at once.                    *)
(***************************************************************************)
EXTENDS Integers, Sequences

CONSTANTS
  Users,
  NoUser,       \* nobody is signed in, or a token that authenticates nobody
  Failed,       \* a token that could not be had
  MaxChanges,   \* bound: sign-ins, sign-outs and new tokens
  MaxTurns      \* bound: tokens that fail, calls that end and new starts

ASSUME CredentialsAssumption ==
  /\ NoUser \notin Users
  /\ Failed \notin Users \cup {NoUser}
  /\ MaxChanges \in Nat
  /\ MaxTurns \in Nat

VARIABLES
  current,   \* Auth: _currentUser
  asks,      \* Auth: token requests, with the user they were begun for
  main,      \* main queue
  provider,  \* the credentials provider: created, current_user, token_counter
  work,      \* worker queue
  engine,    \* SyncEngine: current_user_
  stream,    \* state, close_count_ and the token of its call
  changes, turns

vars == <<current, asks, main, provider, work, engine, stream, changes, turns>>

Anyone == Users \cup {NoUser}
Token  == Anyone \cup {Failed}

\* A token request: what the stream and the provider remember of the moment it
\* was made, and where it stands.
Ask(closes, counter) == [closes |-> closes, counter |-> counter, at |-> "queued",
                         user |-> NoUser]

Changed(u)   == [op |-> "changed", user |-> u]
SignedIn(u)  == [op |-> "signedIn", user |-> u]
Answer(a, t) == [op |-> "token", token |-> t, closes |-> a.closes, counter |-> a.counter]

Init ==
  /\ current \in Anyone
  /\ asks = {}
  /\ main = <<>>
  /\ provider = [created |-> FALSE, user |-> NoUser, counter |-> 0]
  /\ work = <<>>
  /\ engine = NoUser
  /\ stream = [state |-> "Initial", closes |-> 0, token |-> NoUser]
  /\ changes = 0 /\ turns = 0

----------------------------------------------------------------------------
(***************************************************************************)
(* Firebase Auth.  A change of the user or of the token is announced on    *)
(* the main queue before the callback of the sign-in is put there.         *)
(***************************************************************************)
Change ==
  /\ changes < MaxChanges
  /\ changes' = changes + 1

Turn ==
  /\ turns < MaxTurns
  /\ turns' = turns + 1

\* Mutation: the callback is put on the main queue before the announcement.
SignInFlow_CallbackFirst(u) == <<SignedIn(u), Changed(u)>>

\* What signInFlowAuthDataResultCallback… leaves on the main queue.
SignInFlow(u) == <<Changed(u), SignedIn(u)>>

SignIn(u) ==
  /\ Change
  /\ current' = u
  /\ main' = main \o SignInFlow(u)
  /\ UNCHANGED <<asks, provider, work, engine, stream, turns>>

SignOut ==
  /\ Change
  /\ current # NoUser
  /\ current' = NoUser
  /\ main' = Append(main, Changed(NoUser))
  /\ UNCHANGED <<asks, provider, work, engine, stream, turns>>

\* getTokenForcingRefresh: nobody's token is there at once.
FetchToken(a) ==
  /\ a.at = "queued"
  /\ IF current = NoUser
     THEN /\ asks' = asks \ {a}
          /\ main' = Append(main, Answer(a, NoUser))
     ELSE /\ asks' = (asks \ {a}) \cup {[a EXCEPT !.at = "fetching", !.user = current]}
          /\ UNCHANGED main
  /\ UNCHANGED <<current, provider, work, engine, stream, changes, turns>>

\* The token of the user the request was begun for, who need not be signed in
\* any longer.  A token that had to be renewed is announced first, if the user
\* still is.
TokenArrives(a) ==
  /\ a.at = "fetching"
  /\ asks' = asks \ {a}
  /\ \/ main' = Append(main, Answer(a, a.user)) /\ UNCHANGED <<changes, turns>>
     \/ Turn /\ main' = Append(main, Answer(a, Failed)) /\ UNCHANGED changes
     \/ /\ Change
        /\ a.user = current
        /\ main' = main \o <<Changed(a.user), Answer(a, a.user)>>
        /\ UNCHANGED turns
  /\ UNCHANGED <<current, provider, work, engine, stream>>

----------------------------------------------------------------------------
(***************************************************************************)
(* The main queue and the provider.                                        *)
(***************************************************************************)
\* The provider starts from the user of the moment, which Auth may have set
\* before its announcement, or the callback of an earlier sign-in, has run.
Created == [provider EXCEPT !.created = TRUE, !.user = current]

\* FirestoreClient::Create and Initialize, by a query outside a sign-in callback.
CreateClient ==
  /\ ~provider.created
  /\ provider' = Created
  /\ work' = Append(work, [op |-> "user", user |-> current])
  /\ UNCHANGED <<current, asks, main, engine, stream, changes, turns>>

\* The observer of the announcement, once the provider exists.
CredentialChanged(u) ==
  /\ IF provider.created
     THEN /\ provider' = [provider EXCEPT !.user = u, !.counter = @ + 1]
          /\ work' = Append(work, [op |-> "user", user |-> u])
     ELSE UNCHANGED <<provider, work>>
  /\ UNCHANGED <<asks>>

\* The callback of a sign-in writes a document; it may be the first to use the
\* client, or run in one that was created after the announcement of the sign-in
\* and so has heard of none.
SignInCallback(u) ==
  LET write == [op |-> "write", user |-> u, heard |-> provider.counter > 0] IN
  /\ IF provider.created
     THEN /\ work' = Append(work, write)
          /\ UNCHANGED provider
     ELSE /\ work' = work \o <<[op |-> "user", user |-> current], write>>
          /\ provider' = Created
  /\ UNCHANGED <<asks>>

Resume(m) == [op |-> "resume", token |-> m.token, user |-> provider.user,
              closes |-> m.closes]

\* Mutation: the token is passed on whatever happened meanwhile.
TokenCallback_Trusts(m) ==
  /\ work' = Append(work, Resume(m))
  /\ UNCHANGED <<asks, provider>>

\* Mutation: an overtaken request is dropped.
TokenCallback_GivesUp(m) ==
  /\ work' = IF m.counter = provider.counter THEN Append(work, Resume(m)) ELSE work
  /\ UNCHANGED <<asks, provider>>

\* The callback of GetToken: a change since the request was made means that the
\* token may be somebody else's, and it is asked for again.
TokenCallback(m) ==
  /\ IF m.counter # provider.counter
     THEN /\ asks' = asks \cup {Ask(m.closes, provider.counter)}
          /\ UNCHANGED work
     ELSE /\ work' = Append(work, Resume(m))
          /\ UNCHANGED asks
  /\ UNCHANGED <<provider>>

MainStep ==
  LET m == Head(main) IN
  /\ main # <<>>
  /\ main' = Tail(main)
  /\ \/ m.op = "changed" /\ CredentialChanged(m.user)
     \/ m.op = "signedIn" /\ SignInCallback(m.user)
     \/ m.op = "token" /\ TokenCallback(m)
  /\ UNCHANGED <<current, engine, stream, changes, turns>>

----------------------------------------------------------------------------
(***************************************************************************)
(* The worker queue: the sync engine and the stream.                       *)
(***************************************************************************)
IsStarted(s) == s.state \in {"Starting", "Open", "Backoff"}

\* Mutation: the close count stays when a stream still waits for its token.
Close_KeepsCount(s, state) ==
  [s EXCEPT !.state = state, !.closes = IF s.state = "Open" THEN @ + 1 ELSE @,
            !.token = NoUser]

Close(s, state) == [s EXCEPT !.state = state, !.closes = @ + 1, !.token = NoUser]

Stopped(s) == IF IsStarted(s) THEN Close(s, "Initial") ELSE s

\* Stream::Start and RequestCredentials.  The counter is read on the worker
\* queue without the lock that guards it: the value may be the one before.
Start(s) ==
  /\ stream' = [s EXCEPT !.state = "Starting"]
  /\ \E c \in {provider.counter, provider.counter - 1} \cap Nat :
       asks' = asks \cup {Ask(s.closes, c)}

\* Mutation: signing out leaves the stream as it is.
HandleCredentialChange_SignInOnly(u) ==
  /\ engine' = u
  /\ IF u = NoUser THEN UNCHANGED <<stream, asks>> ELSE Start(Stopped(stream))

\* The network is restarted; the stream starts if there is something for it.
HandleCredentialChange(u) ==
  /\ engine' = u
  /\ \/ Start(Stopped(stream))
     \/ stream' = Stopped(stream) /\ UNCHANGED asks

\* SyncEngine::WriteMutations: the batch joins the queue of the engine's user
\* (WritePipeline says what becomes of it).
WriteMutations == UNCHANGED <<engine, stream, asks>>

\* Only for the stream that asked: any close since makes the answer void.
ResumeStartWithCredentials(r) ==
  /\ stream' = IF r.closes # stream.closes THEN stream
               ELSE IF r.token = Failed THEN Close(stream, "Backoff")
               ELSE [stream EXCEPT !.state = "Open", !.token = r.token]
  /\ UNCHANGED <<engine, asks>>

WorkerStep ==
  LET j == Head(work) IN
  /\ work # <<>>
  /\ work' = Tail(work)
  /\ \/ j.op = "user" /\ HandleCredentialChange(j.user)
     \/ j.op = "write" /\ WriteMutations
     \/ j.op = "resume" /\ ResumeStartWithCredentials(j)
  /\ UNCHANGED <<current, main, provider, changes, turns>>

\* Something is to be sent or watched.
StreamNeeded ==
  /\ provider.created /\ stream.state = "Initial"
  /\ Turn
  /\ Start(stream)
  /\ UNCHANGED <<current, main, provider, work, engine, changes>>

\* The call fails, or is given up when there is nothing left to do.
StreamEnds ==
  /\ stream.state = "Open"
  /\ Turn
  /\ \E state \in {"Backoff", "Initial"} : stream' = Close(stream, state)
  /\ UNCHANGED <<current, asks, main, provider, work, engine, changes>>

BackoffElapsed ==
  /\ stream.state = "Backoff"
  /\ Start(stream)
  /\ UNCHANGED <<current, main, provider, work, engine, changes, turns>>

Next ==
  \/ \E u \in Users : SignIn(u)
  \/ SignOut
  \/ \E a \in asks : FetchToken(a) \/ TokenArrives(a)
  \/ CreateClient
  \/ MainStep
  \/ WorkerStep
  \/ StreamNeeded \/ StreamEnds \/ BackoffElapsed

Spec == Init /\ [][Next]_vars

\* The queues run what is queued, and Auth answers what it is asked.
FairSpec ==
  /\ Spec
  /\ WF_vars(MainStep)
  /\ WF_vars(WorkerStep)
  /\ WF_vars(\E a \in asks : FetchToken(a) \/ TokenArrives(a))

----------------------------------------------------------------------------
(***************************************************************************)
(* Properties.                                                             *)
(***************************************************************************)
\* Type invariant.
TypeOK ==
  /\ current \in Anyone
  /\ asks \subseteq [closes : Nat, counter : Nat, at : {"queued", "fetching"}, user : Anyone]
  /\ main \in Seq([op : {"changed", "signedIn"}, user : Anyone]
                  \cup [op : {"token"}, token : Token, closes : Nat, counter : Nat])
  /\ provider \in [created : BOOLEAN, user : Anyone, counter : Nat]
  /\ work \in Seq([op : {"user"}, user : Anyone]
                  \cup [op : {"write"}, user : Users, heard : BOOLEAN]
                  \cup [op : {"resume"}, token : Token, user : Anyone, closes : Nat])
  /\ engine \in Anyone
  /\ stream \in [state : {"Initial", "Starting", "Open", "Backoff"}, closes : Nat, token : Anyone]
  /\ changes \in 0 .. MaxChanges
  /\ turns \in 0 .. MaxTurns

\* A token is handed on together with the user it belongs to, although the
\* provider only knows the user of the last announcement and Auth is ahead of it.
TokenIsOfItsUser ==
  \A i \in DOMAIN work :
    work[i].op = "resume" /\ work[i].token # Failed => work[i].token = work[i].user

\* A call that is open carries the token of the user whose writes and queries it
\* serves, at every interleaving of sign-ins, sign-outs, renewals and restarts.
OpenStreamSpeaksForUser == stream.state = "Open" => stream.token = engine

\* "State should still be 'Starting'": a token whose close count is the stream's
\* finds the stream waiting for it.
ResumeFindsStarting ==
  \A i \in DOMAIN work :
    work[i].op = "resume" /\ work[i].closes = stream.closes => stream.state = "Starting"

\* What the callback of a sign-in writes joins the queue of the user who signed
\* in, whoever has signed in since; the one exception is a client that is created
\* so late that it never heard of that sign-in.
WritesOwnedBySignedIn ==
  work # <<>> /\ Head(work).op = "write" /\ Head(work).heard => engine = Head(work).user

\* A stream that asks for a token gets one, or is stopped: no request is lost
\* when changes overtake it.
StartingEnds == stream.state = "Starting" ~> stream.state # "Starting"
==============================================================================
