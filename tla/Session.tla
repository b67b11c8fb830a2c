------------------------------- MODULE Session -------------------------------
(***************************************************************************)
(* Who is signed in.  Firebase Auth has a current user, UserManager.shared *)
(* holds the profile the screens read, and a chain of three callbacks      *)
(* keeps the second in step with the first:                                *)
(*                                                                         *)
(*   getDocuments of users  ->  getData of the avatar  ->  main-queue      *)
(*   block that calls setUserInfo                                          *)
(*                                                                         *)
(* LoginViewController starts a chain when it appears and after a sign-in; *)
(* UserDetailVC starts one when it disappears.  AccountViewController      *)
(* signs out and deletes the account.  Every login screen stays alive      *)
(* below what it presents, so chains started by an old one still end.      *)
(***************************************************************************)
EXTENDS Naturals, FiniteSets

CONSTANTS
  Users,          \* uids
  None,           \* no user
  Environments    \* the surroundings considered

(***************************************************************************)
(* An environment says what the component cannot: which users have a       *)
(* complete document in the users collection, whether the users query may  *)
(* fail, and whether the user also acts while a request is in flight.  The *)
(* last two fields are bounds: chains started and login screens created by *)
(* one process.                                                            *)
(***************************************************************************)
Environment == [complete : SUBSET Users, queryMayFail : BOOLEAN, overlap : BOOLEAN,
                maxChains : Nat \ {0}, maxScreens : Nat \ {0}]

ASSUME SessionAssumption ==
  /\ None \notin Users
  /\ Environments \subseteq Environment

VARIABLES
  env,        \* the environment, which does not change
  auth,       \* Auth.auth().currentUser
  user,       \* UserManager.shared.user, by its uid
  screen,     \* "login", "tabs" or "profile" (UserDetailVC)
  login,      \* number of the newest LoginViewController
  overlay,    \* its loadingView is presented
  signingIn,  \* signIn requests without an answer
  deleting,   \* the login screen whose tabs asked to delete the account, or 0;
              \* bound: one such request at a time
  buried,     \* a login screen was pushed on the account tab out of sight
  chains,     \* callback chains in flight
  started     \* chains started by this process

vars == <<env, auth, user, screen, login, overlay, signingIn, deleting, buried,
          chains, started>>

Maybe == Users \cup {None}

Chain == [no : Nat, id : Users, from : {"login", "profile"},
          login : Nat, stage : {"users", "avatar", "main"}]

\* The user waits for what is in flight, unless they overlap.
Free == env.overlap \/ (chains = {} /\ signingIn = {} /\ deleting = 0)

\* A chain captures the current user when it starts; with nobody signed in
\* nothing it does can match a document.
StartChain(id, from, n) ==
  IF id = None
    THEN UNCHANGED <<chains, started>>
    ELSE /\ started < env.maxChains
         /\ started' = started + 1
         /\ chains' = chains \cup
              {[no |-> started + 1, id |-> id, from |-> from, login |-> n,
                stage |-> "users"]}

\* A new login screen appears: viewDidAppear checks for a signed-in user u.
LoginAppears(u) ==
  /\ login < env.maxScreens
  /\ login' = login + 1
  /\ screen' = "login"
  /\ overlay' = FALSE
  /\ buried' = FALSE
  /\ StartChain(u, "login", login + 1)

Init ==
  /\ env \in Environments
  /\ auth \in Maybe
  /\ user = None
  /\ screen = "login" /\ login = 1 /\ overlay = FALSE
  /\ signingIn = {} /\ deleting = 0 /\ buried = FALSE
  /\ started = IF auth = None THEN 0 ELSE 1
  /\ chains = IF auth = None THEN {}
              ELSE {[no |-> 1, id |-> auth, from |-> "login", login |-> 1,
                     stage |-> "users"]}

----------------------------------------------------------------------------
(***************************************************************************)
(* Signing in.                                                             *)
(***************************************************************************)
didTapLogin(u) ==
  /\ screen = "login" /\ ~overlay /\ Free
  /\ overlay' = TRUE
  /\ signingIn' = signingIn \cup {[id |-> u, login |-> login]}
  /\ UNCHANGED <<env, auth, user, screen, login, deleting, buried, chains, started>>

SignInSucceeds(r) ==
  /\ signingIn' = signingIn \ {r}
  /\ auth' = r.id
  /\ StartChain(r.id, "login", r.login)
  /\ UNCHANGED <<env, user, screen, login, overlay, deleting, buried>>

\* Wrong password or any other error: a message, and the overlay goes.
SignInFails(r) ==
  /\ signingIn' = signingIn \ {r}
  /\ overlay' = (overlay /\ r.login # login)
  /\ UNCHANGED <<env, auth, user, screen, login, deleting, buried, chains, started>>

\* Registering signs the new user in and leads to a new login screen.
SignUpThenLogin(u) ==
  /\ screen = "login" /\ ~overlay /\ Free
  /\ auth' = u
  /\ LoginAppears(u)
  /\ UNCHANGED <<env, user, signingIn, deleting>>

\* The sign-up form is left without registering: again a new login screen.
BackToLogin ==
  /\ screen = "login" /\ ~overlay /\ Free
  /\ LoginAppears(auth)
  /\ UNCHANGED <<env, auth, user, signingIn, deleting>>

----------------------------------------------------------------------------
(***************************************************************************)
(* The chain.                                                              *)
(***************************************************************************)
Advance(c, stage) == chains' = (chains \ {c}) \cup {[c EXCEPT !.stage = stage]}

\* Mutation: missing fields do not stop the chain.
UsersQueryAnswered_Unchecked(c) ==
  /\ c.stage = "users"
  /\ Advance(c, "avatar")
  /\ UNCHANGED <<env, auth, user, screen, login, overlay, signingIn, deleting, buried, started>>

\* A document with every field leads on to the avatar.
UsersQueryAnswered(c) ==
  /\ c.stage = "users"
  /\ c.id \in env.complete
  /\ Advance(c, "avatar")
  /\ UNCHANGED <<env, auth, user, screen, login, overlay, signingIn, deleting, buried, started>>

\* An error is printed, a missing or incomplete document passed over: the chain
\* ends and nothing dismisses the overlay.
UsersQueryEnds(c) ==
  /\ c.stage = "users"
  /\ env.queryMayFail \/ c.id \notin env.complete
  /\ chains' = chains \ {c}
  /\ UNCHANGED <<env, auth, user, screen, login, overlay, signingIn, deleting, buried, started>>

\* For the login screen, with or without an avatar.  The tab bar is presented
\* from it.  UIKit refuses when the screen already presents something: for good
\* if it is no longer the newest, possibly if its overlay is up or if the user
\* went on meanwhile to the sign-up form or to the alert of a failed sign-in.
AvatarAnswered(c) ==
  /\ c.from = "login"
  /\ c.stage = "avatar"
  /\ Advance(c, "main")
  /\ IF c.login = login /\ screen = "login"
       THEN screen' = "tabs" \/ ((overlay \/ env.overlap) /\ screen' = "login")
       ELSE UNCHANGED screen
  /\ UNCHANGED <<env, auth, user, login, overlay, signingIn, deleting, buried, started>>

\* For UserDetailVC the profile is only renewed when the avatar was loaded.
ProfileAvatarAnswered(c) ==
  /\ c.from = "profile"
  /\ c.stage = "avatar"
  /\ Advance(c, "main") \/ chains' = chains \ {c}
  /\ UNCHANGED <<env, auth, user, screen, login, overlay, signingIn, deleting, buried, started>>

\* Mutation: the overlay is left up.
DismissOverlay_Forgotten(c) == UNCHANGED overlay

DismissOverlay(c) == overlay' = (overlay /\ c.login # login)

\* Mutation: the profile is set once and never replaced.
MainBlock_SetsOnce(c) ==
  /\ c.from = "login"
  /\ c.stage = "main"
  /\ chains' = chains \ {c}
  /\ user' = IF user = None THEN c.id ELSE user
  /\ DismissOverlay(c)
  /\ UNCHANGED <<env, auth, screen, login, signingIn, deleting, buried, started>>

MainBlock(c) ==
  /\ c.from = "login"
  /\ c.stage = "main"
  /\ chains' = chains \ {c}
  /\ user' = c.id
  /\ DismissOverlay(c)
  /\ UNCHANGED <<env, auth, screen, login, signingIn, deleting, buried, started>>

\* UserDetailVC is held weakly: once it is deallocated nothing is set.
ProfileMainBlock(c) ==
  /\ c.from = "profile"
  /\ c.stage = "main"
  /\ chains' = chains \ {c}
  /\ user' \in {c.id, user}
  /\ UNCHANGED <<env, auth, screen, login, overlay, signingIn, deleting, buried, started>>

----------------------------------------------------------------------------
(***************************************************************************)
(* The tabs.                                                               *)
(***************************************************************************)
OpenProfile ==
  /\ screen = "tabs" /\ Free /\ ~buried
  /\ screen' = "profile"
  /\ UNCHANGED <<env, auth, user, login, overlay, signingIn, deleting, buried, chains, started>>

\* viewWillDisappear of UserDetailVC.
LeaveProfile ==
  /\ screen = "profile"
  /\ screen' = "tabs"
  /\ StartChain(auth, "profile", login)
  /\ UNCHANGED <<env, auth, user, login, overlay, signingIn, deleting, buried>>

LogOut ==
  /\ screen = "tabs" /\ Free /\ ~buried
  /\ auth' = None
  /\ LoginAppears(None)
  /\ UNCHANGED <<env, user, signingIn, deleting>>

didTapDeleteAccount ==
  /\ screen = "tabs" /\ Free /\ ~buried
  /\ auth # None
  /\ deleting = 0
  /\ deleting' = login
  /\ UNCHANGED <<env, auth, user, screen, login, overlay, signingIn, buried, chains, started>>

\* The answer signs out whoever is signed in by then.  The login screen it
\* pushes is seen at once when the account tab that asked is still in front.
DeleteSucceeds ==
  /\ deleting # 0
  /\ deleting' = 0
  /\ auth' = None
  /\ \/ /\ deleting = login
        /\ LoginAppears(None)
     \/ /\ deleting # login \/ (env.overlap /\ screen = "tabs")
        /\ buried' = (buried \/ deleting = login)
        /\ UNCHANGED <<screen, login, overlay, chains, started>>
  /\ UNCHANGED <<env, user, signingIn>>

DeleteFails ==
  /\ deleting # 0
  /\ deleting' = 0
  /\ UNCHANGED <<env, auth, user, screen, login, overlay, signingIn, buried, chains, started>>

\* The account tab is selected again and shows the login screen pushed there.
ShowBuriedLogin ==
  /\ buried /\ screen = "tabs"
  /\ LoginAppears(auth)
  /\ UNCHANGED <<env, auth, user, signingIn, deleting>>

\* A new process; Firebase Auth remembers the current user.
Relaunch ==
  /\ user' = None
  /\ screen' = "login" /\ login' = 1 /\ overlay' = FALSE
  /\ signingIn' = {} /\ deleting' = 0 /\ buried' = FALSE
  /\ started' = IF auth = None THEN 0 ELSE 1
  /\ chains' = IF auth = None THEN {}
               ELSE {[no |-> 1, id |-> auth, from |-> "login", login |-> 1,
                      stage |-> "users"]}
  /\ UNCHANGED <<env, auth>>

ChainStep(c) ==
  \/ UsersQueryAnswered(c) \/ UsersQueryEnds(c)
  \/ AvatarAnswered(c) \/ ProfileAvatarAnswered(c)
  \/ MainBlock(c) \/ ProfileMainBlock(c)

Next ==
  \/ \E u \in Users : didTapLogin(u) \/ SignUpThenLogin(u)
  \/ \E r \in signingIn : SignInSucceeds(r) \/ SignInFails(r)
  \/ \E c \in chains : ChainStep(c)
  \/ BackToLogin \/ OpenProfile \/ LeaveProfile \/ LogOut
  \/ didTapDeleteAccount \/ DeleteSucceeds \/ DeleteFails
  \/ ShowBuriedLogin
  \/ Relaunch

Spec == Init /\ [][Next]_vars

Requests ==
  \/ \E r \in signingIn : SignInSucceeds(r) \/ SignInFails(r)
  \/ \E c \in chains : ChainStep(c)

\* Firebase answers every request, with a result or with an error.
FairSpec == Spec /\ WF_vars(Requests)

----------------------------------------------------------------------------
(***************************************************************************)
(* Properties.                                                             *)
(***************************************************************************)
\* Every variable has its type, within the bounds.
TypeOK ==
  /\ env \in Environments
  /\ auth \in Maybe /\ user \in Maybe
  /\ screen \in {"login", "tabs", "profile"}
  /\ login \in 1 .. env.maxScreens
  /\ overlay \in BOOLEAN /\ buried \in BOOLEAN
  /\ signingIn \subseteq [id : Users, login : 1 .. env.maxScreens]
  /\ deleting \in 0 .. env.maxScreens
  /\ chains \subseteq Chain
  /\ started \in 0 .. env.maxChains

\* Screens behind the login read a profile.  Presenting the tab bar comes before
\* the block that sets the profile, so until that block ran there may be none;
\* afterwards there is one, with a complete document, whatever overlapped.
TabsHaveUser ==
  screen # "login" /\ (\A c \in chains : c.stage # "main") => user \in env.complete

\* For a user who waits for answers, the profile the screens use to stamp and to
\* filter records is the signed-in user's, through logins, log-outs, account
\* deletions, sign-ups and profile refreshes that succeed or fail.
ProfileIsSignedInUser ==
  ~env.overlap /\ screen # "login" /\ chains = {} => user = auth /\ auth # None

\* When every profile is complete and the query does not fail, the overlay of
\* the login screen does not stay up for ever.
OverlayClears ==
  (overlay /\ env.complete = Users /\ ~env.queryMayFail /\ ~env.overlap) ~> ~overlay
==============================================================================
