---------------------------- MODULE SessionProofs ----------------------------
(***************************************************************************)
(* Proofs about Session, for any users, environments and bounds.           *)
(***************************************************************************)
EXTENDS Session, TLAPS

----------------------------------------------------------------------------
(***************************************************************************)
(* The inductive invariant.                                                *)
(***************************************************************************)
\* A chain gets past the users query with a complete document only.
Checked == \A c \in chains : c.stage # "users" => c.id \in env.complete

\* Behind the login there is a profile, or the block that sets it is queued.
Promised ==
  screen # "login" =>
    user \in env.complete \/ \E c \in chains : c.from = "login" /\ c.stage = "main"

\* For a user who waits one thing at a time is in flight,
OneAtATime ==
  /\ \A c, d \in chains : c = d
  /\ \A r, q \in signingIn : r = q
  /\ chains # {} => signingIn = {} /\ deleting = 0
  /\ signingIn # {} => deleting = 0 /\ screen = "login"
  /\ deleting # 0 => screen = "tabs" /\ deleting = login
  /\ screen = "profile" => chains = {} /\ deleting = 0
  /\ ~buried

\* it is for the user who is signed in, and found where it was started.
InStep ==
  /\ \A c \in chains :
       /\ c.id = auth
       /\ c.from = "login" /\ c.stage # "main" => screen = "login"
       /\ c.from = "profile" => screen = "tabs" /\ user = auth
  /\ screen # "login" /\ chains = {} => user = auth /\ auth # None

SInv ==
  /\ TypeOK /\ Checked /\ Promised
  /\ ~env.overlap => OneAtATime /\ InStep

\* The fields of an environment and of a chain.
LEMMA Fields ==
  ASSUME TypeOK
  PROVE  /\ env.complete \in SUBSET Users /\ env.queryMayFail \in BOOLEAN
         /\ env.overlap \in BOOLEAN
         /\ env.maxChains \in Nat \ {0} /\ env.maxScreens \in Nat \ {0}
         /\ login \in Nat \ {0} /\ started \in Nat
         /\ \A c \in chains : /\ c \in Chain /\ c.id \in Users
                              /\ c.from \in {"login", "profile"}
                              /\ c.stage \in {"users", "avatar", "main"}
         /\ \A r \in signingIn : r.id \in Users /\ r.login \in 1 .. env.maxScreens
<1>1. env \in Environment
  BY SessionAssumption DEF TypeOK
<1>2. /\ env.complete \in SUBSET Users /\ env.queryMayFail \in BOOLEAN
      /\ env.overlap \in BOOLEAN
      /\ env.maxChains \in Nat \ {0} /\ env.maxScreens \in Nat \ {0}
  BY <1>1 DEF Environment
<1>3. login \in Nat \ {0} /\ started \in Nat
  BY <1>2 DEF TypeOK
<1>4. \A c \in chains : /\ c \in Chain /\ c.id \in Users
                        /\ c.from \in {"login", "profile"}
                        /\ c.stage \in {"users", "avatar", "main"}
  BY DEF TypeOK, Chain
<1>5. \A r \in signingIn : r.id \in Users /\ r.login \in 1 .. env.maxScreens
  BY DEF TypeOK
<1> QED
  BY <1>2, <1>3, <1>4, <1>5

\* A process starts at the login screen, with a chain if Auth has a user.
LEMMA LaunchSound ==
  ASSUME NEW e \in Environments, NEW a \in Maybe, NEW cs, NEW n,
         n = IF a = None THEN 0 ELSE 1,
         cs = IF a = None THEN {}
              ELSE {[no |-> 1, id |-> a, from |-> "login", login |-> 1, stage |-> "users"]}
  PROVE  /\ 1 \in 1 .. e.maxScreens /\ 0 \in 0 .. e.maxScreens /\ n \in 0 .. e.maxChains
         /\ cs \subseteq Chain
         /\ \A c, d \in cs : c = d
         /\ \A c \in cs : c.stage = "users" /\ c.id = a /\ c.from = "login"
<1>1. e.maxChains \in Nat \ {0} /\ e.maxScreens \in Nat \ {0}
  BY SessionAssumption DEF Environment
<1>2. /\ 1 \in 1 .. e.maxScreens /\ 0 \in 0 .. e.maxScreens /\ n \in 0 .. e.maxChains
  BY <1>1
<1>3. a # None => [no |-> 1, id |-> a, from |-> "login", login |-> 1, stage |-> "users"] \in Chain
  BY DEF Chain, Maybe
<1> QED
  BY <1>2, <1>3

\* So it does initially,
LEMMA InitSound == Init => SInv
<1> SUFFICES ASSUME Init PROVE SInv
  OBVIOUS
<1>1. /\ 1 \in 1 .. env.maxScreens /\ 0 \in 0 .. env.maxScreens
      /\ started \in 0 .. env.maxChains /\ chains \subseteq Chain
      /\ \A c, d \in chains : c = d
      /\ \A c \in chains : c.stage = "users" /\ c.id = auth /\ c.from = "login"
  BY LaunchSound, SMTT(30) DEF Init
<1>2. TypeOK
  BY <1>1 DEF Init, TypeOK, Maybe
<1>3. Checked /\ Promised /\ OneAtATime /\ InStep
  BY <1>1 DEF Init, Checked, Promised, OneAtATime, InStep
<1> QED
  BY <1>2, <1>3 DEF SInv

\* and after a relaunch.
LEMMA RelaunchKeeps ==
  ASSUME SInv, Relaunch
  PROVE  SInv'
<1>1. env \in Environments /\ auth \in Maybe /\ env' = env /\ auth' = auth
  BY DEF SInv, TypeOK, Relaunch
<1>2. /\ 1 \in 1 .. env.maxScreens /\ 0 \in 0 .. env.maxScreens
      /\ started' \in 0 .. env.maxChains /\ chains' \subseteq Chain
      /\ \A c, d \in chains' : c = d
      /\ \A c \in chains' : c.stage = "users" /\ c.id = auth /\ c.from = "login"
  BY <1>1, LaunchSound DEF Relaunch
<1>3. TypeOK'
  BY <1>1, <1>2 DEF Relaunch, TypeOK, Maybe
<1>4. Checked' /\ Promised' /\ OneAtATime' /\ InStep'
  BY <1>1, <1>2 DEF Relaunch, Checked, Promised, OneAtATime, InStep
<1> QED
  BY <1>3, <1>4 DEF SInv

----------------------------------------------------------------------------
(***************************************************************************)
(* Chains that start.                                                      *)
(***************************************************************************)
\* StartChain adds at most one chain, for the user it is given.
LEMMA ChainStarts ==
  ASSUME TypeOK, NEW id \in Maybe, NEW from \in {"login", "profile"}, NEW n \in Nat,
         StartChain(id, from, n)
  PROVE  /\ chains' \subseteq Chain /\ started' \in 0 .. env.maxChains
         /\ chains \subseteq chains'
         /\ \A c \in chains' \ chains : c.stage = "users" /\ c.id = id /\ c.from = from
         /\ \A c, d \in chains' \ chains : c = d
         /\ id = None => chains' = chains
         /\ id # None => chains' # {}
<1>1. CASE id = None
  BY <1>1 DEF StartChain, TypeOK
<1>2. CASE id # None
  <2> DEFINE x == [no |-> started + 1, id |-> id, from |-> from, login |-> n,
                   stage |-> "users"]
  <2>1. /\ started < env.maxChains /\ started' = started + 1 /\ chains' = chains \cup {x}
    BY <1>2 DEF StartChain
  <2>2. started + 1 \in Nat /\ id \in Users
    BY <1>2, Fields DEF Maybe
  <2>3. x \in Chain /\ x.stage = "users" /\ x.id = id /\ x.from = from
    BY <2>2 DEF Chain
  <2>4. started' \in 0 .. env.maxChains
    BY <2>1, Fields
  <2> HIDE DEF x
  <2> QED
    BY <1>2, <2>1, <2>3, <2>4 DEF TypeOK
<1> QED
  BY <1>1, <1>2

\* A new login screen appears: nothing is behind it.
LEMMA AppearanceKeeps ==
  ASSUME SInv, NEW u \in Maybe, LoginAppears(u), auth' = u,
         UNCHANGED <<env, user, signingIn>>,
         deleting' \in {0, deleting}, ~env.overlap => chains = {} /\ signingIn = {} /\ deleting' = 0
  PROVE  SInv'
<1>1. login + 1 \in Nat /\ TypeOK
  BY Fields DEF SInv
<1>2. StartChain(u, "login", login + 1)
  BY DEF LoginAppears
<1>3. /\ chains' \subseteq Chain /\ started' \in 0 .. env.maxChains
      /\ chains \subseteq chains'
      /\ \A c \in chains' \ chains : c.stage = "users" /\ c.id = u /\ c.from = "login"
      /\ \A c, d \in chains' \ chains : c = d
  BY <1>1, <1>2, ChainStarts
<1>4. login' \in 1 .. env.maxScreens /\ deleting' \in 0 .. env.maxScreens
  BY <1>1, Fields DEF LoginAppears, TypeOK
<1>5. TypeOK'
  BY <1>1, <1>3, <1>4 DEF TypeOK, LoginAppears
<1>6. Checked' /\ Promised'
  BY <1>3 DEF SInv, Checked, Promised, LoginAppears
<1>7. ~env'.overlap => OneAtATime' /\ InStep'
  BY <1>3 DEF SInv, OneAtATime, InStep, LoginAppears
<1> QED
  BY <1>5, <1>6, <1>7 DEF SInv

\* A login, or the sign-up form and back, by a user who is not held up.
LEMMA LoginKeeps ==
  ASSUME SInv,
         BackToLogin \/ LogOut \/ ShowBuriedLogin \/ \E u \in Users : SignUpThenLogin(u)
  PROVE  SInv'
<1>1. auth \in Maybe /\ None \in Maybe /\ Users \subseteq Maybe
  BY DEF SInv, TypeOK, Maybe
<1>2. CASE BackToLogin
  BY <1>1, <1>2, AppearanceKeeps DEF BackToLogin, Free
<1>3. CASE LogOut
  BY <1>1, <1>3, AppearanceKeeps DEF LogOut, Free
<1>4. CASE ShowBuriedLogin
  <2>1. env.overlap
    BY <1>4 DEF ShowBuriedLogin, SInv, OneAtATime
  <2> QED
    BY <1>1, <1>4, <2>1, AppearanceKeeps DEF ShowBuriedLogin
<1>5. ASSUME NEW u \in Users, SignUpThenLogin(u) PROVE SInv'
  BY <1>1, <1>5, AppearanceKeeps DEF SignUpThenLogin, Free
<1> QED
  BY <1>2, <1>3, <1>4, <1>5

\* The sign-in request and its answers.
LEMMA SignInKeeps ==
  ASSUME SInv,
         \/ \E u \in Users : didTapLogin(u)
         \/ \E r \in signingIn : SignInSucceeds(r) \/ SignInFails(r)
  PROVE  SInv'
<1>1. TypeOK /\ login \in 1 .. env.maxScreens
  BY DEF SInv, TypeOK
<1>2. ASSUME NEW u \in Users, didTapLogin(u) PROVE SInv'
  <2> DEFINE x == [id |-> u, login |-> login]
  <2>1. signingIn' = signingIn \cup {x}
    BY <1>2 DEF didTapLogin
  <2>2. x \in [id : Users, login : 1 .. env.maxScreens]
    BY <1>1
  <2> HIDE DEF x
  <2>3. TypeOK'
    BY <1>1, <1>2, <2>1, <2>2 DEF TypeOK, didTapLogin
  <2>4. Checked' /\ Promised'
    BY <1>2 DEF didTapLogin, SInv, Checked, Promised
  <2>5. ~env'.overlap => OneAtATime' /\ InStep'
    BY <1>2, <2>1 DEF didTapLogin, Free, SInv, OneAtATime, InStep
  <2> QED
    BY <2>3, <2>4, <2>5 DEF SInv
<1>3. ASSUME NEW r \in signingIn, SignInSucceeds(r) PROVE SInv'
  <2>1. r.id \in Users /\ r.id \in Maybe /\ r.login \in Nat
    BY <1>1, Fields DEF Maybe
  <2>2. StartChain(r.id, "login", r.login)
    BY <1>3 DEF SignInSucceeds
  <2>3. /\ chains' \subseteq Chain /\ started' \in 0 .. env.maxChains
        /\ chains \subseteq chains'
        /\ \A c \in chains' \ chains : c.stage = "users" /\ c.id = r.id /\ c.from = "login"
        /\ \A c, d \in chains' \ chains : c = d
    BY <1>1, <2>1, <2>2, ChainStarts
  <2>4. TypeOK'
    BY <1>1, <1>3, <2>1, <2>3 DEF TypeOK, SignInSucceeds
  <2>5. Checked' /\ Promised'
    BY <1>3, <2>3 DEF SignInSucceeds, SInv, Checked, Promised
  <2>6. ~env'.overlap => OneAtATime' /\ InStep'
    BY <1>3, <2>3 DEF SignInSucceeds, SInv, OneAtATime, InStep
  <2> QED
    BY <2>4, <2>5, <2>6 DEF SInv
<1>4. ASSUME NEW r \in signingIn, SignInFails(r) PROVE SInv'
  <2>1. TypeOK'
    BY <1>1, <1>4 DEF TypeOK, SignInFails
  <2>2. Checked' /\ Promised'
    BY <1>4 DEF SignInFails, SInv, Checked, Promised
  <2>3. ~env'.overlap => OneAtATime' /\ InStep'
    BY <1>4 DEF SignInFails, SInv, OneAtATime, InStep
  <2> QED
    BY <2>1, <2>2, <2>3 DEF SInv
<1> QED
  BY <1>2, <1>3, <1>4

----------------------------------------------------------------------------
(***************************************************************************)
(* The chain.                                                              *)
(***************************************************************************)
\* Advance replaces a chain by the same one at its next stage.
LEMMA ChainAdvances ==
  ASSUME TypeOK, NEW c \in chains, NEW stage \in {"users", "avatar", "main"},
         Advance(c, stage)
  PROVE  \E d \in Chain : /\ chains' = (chains \ {c}) \cup {d}
                          /\ d.id = c.id /\ d.from = c.from /\ d.stage = stage
<1> DEFINE d == [c EXCEPT !.stage = stage]
<1>1. c \in Chain
  BY Fields
<1>2. d \in Chain /\ d.id = c.id /\ d.from = c.from /\ d.stage = stage
  BY <1>1 DEF Chain
<1> QED
  BY <1>2 DEF Advance

\* Every answer to a chain.
LEMMA ChainKeeps ==
  ASSUME SInv, NEW c \in chains, ChainStep(c)
  PROVE  SInv'
<1>1. /\ TypeOK /\ c.id \in Users /\ c.from \in {"login", "profile"} /\ None \notin Users
  BY Fields, SessionAssumption DEF SInv
<1>2. CASE UsersQueryAnswered(c)
  <2>1. PICK d \in Chain : /\ chains' = (chains \ {c}) \cup {d}
                           /\ d.id = c.id /\ d.from = c.from /\ d.stage = "avatar"
    BY <1>1, <1>2, ChainAdvances DEF UsersQueryAnswered
  <2>2. TypeOK'
    BY <1>1, <1>2, <2>1 DEF TypeOK, UsersQueryAnswered
  <2>3. Checked' /\ Promised'
    BY <1>2, <2>1 DEF UsersQueryAnswered, SInv, Checked, Promised
  <2>4. ~env'.overlap => OneAtATime' /\ InStep'
    BY <1>2, <2>1 DEF UsersQueryAnswered, SInv, OneAtATime, InStep
  <2> QED
    BY <2>2, <2>3, <2>4 DEF SInv
<1>3. CASE UsersQueryEnds(c)
  <2>1. TypeOK'
    BY <1>1, <1>3 DEF TypeOK, UsersQueryEnds
  <2>2. Checked' /\ Promised'
    BY <1>3 DEF UsersQueryEnds, SInv, Checked, Promised
  <2>3. ~env'.overlap => OneAtATime' /\ InStep'
    BY <1>1, <1>3 DEF UsersQueryEnds, SInv, OneAtATime, InStep
  <2> QED
    BY <2>1, <2>2, <2>3 DEF SInv
<1>4. CASE AvatarAnswered(c)
  <2>1. PICK d \in Chain : /\ chains' = (chains \ {c}) \cup {d}
                           /\ d.id = c.id /\ d.from = c.from /\ d.stage = "main"
    BY <1>1, <1>4, ChainAdvances DEF AvatarAnswered
  <2>2. TypeOK'
    BY <1>1, <1>4, <2>1 DEF TypeOK, AvatarAnswered
  <2>3. Checked' /\ Promised'
    BY <1>4, <2>1 DEF AvatarAnswered, SInv, Checked, Promised
  <2>4. ~env'.overlap => OneAtATime' /\ InStep'
    BY <1>4, <2>1 DEF AvatarAnswered, SInv, OneAtATime, InStep
  <2> QED
    BY <2>2, <2>3, <2>4 DEF SInv
<1>5. CASE ProfileAvatarAnswered(c) /\ Advance(c, "main")
  <2>1. PICK d \in Chain : /\ chains' = (chains \ {c}) \cup {d}
                           /\ d.id = c.id /\ d.from = c.from /\ d.stage = "main"
    BY <1>1, <1>5, ChainAdvances
  <2>2. TypeOK'
    BY <1>1, <1>5, <2>1 DEF TypeOK, ProfileAvatarAnswered
  <2>3. Checked' /\ Promised'
    BY <1>5, <2>1 DEF ProfileAvatarAnswered, SInv, Checked, Promised
  <2>4. ~env'.overlap => OneAtATime' /\ InStep'
    BY <1>5, <2>1 DEF ProfileAvatarAnswered, SInv, OneAtATime, InStep
  <2> QED
    BY <2>2, <2>3, <2>4 DEF SInv
<1>6. CASE ProfileAvatarAnswered(c) /\ chains' = chains \ {c}
  <2>1. TypeOK'
    BY <1>1, <1>6 DEF TypeOK, ProfileAvatarAnswered
  <2>2. Checked' /\ Promised'
    BY <1>6 DEF ProfileAvatarAnswered, SInv, Checked, Promised
  <2>3. ~env'.overlap => OneAtATime' /\ InStep'
    BY <1>1, <1>6 DEF ProfileAvatarAnswered, SInv, OneAtATime, InStep
  <2> QED
    BY <2>1, <2>2, <2>3 DEF SInv
<1>7. CASE MainBlock(c)
  <2>1. TypeOK'
    BY <1>1, <1>7 DEF TypeOK, MainBlock, DismissOverlay, Maybe
  <2>2. Checked' /\ Promised'
    BY <1>7 DEF MainBlock, SInv, Checked, Promised
  <2>3. ~env'.overlap => OneAtATime' /\ InStep'
    BY <1>1, <1>7 DEF MainBlock, SInv, OneAtATime, InStep
  <2> QED
    BY <2>1, <2>2, <2>3 DEF SInv
<1>8. CASE ProfileMainBlock(c)
  <2>1. TypeOK'
    BY <1>1, <1>8 DEF TypeOK, ProfileMainBlock, Maybe
  <2>2. Checked' /\ Promised'
    BY <1>8 DEF ProfileMainBlock, SInv, Checked, Promised
  <2>3. ~env'.overlap => OneAtATime' /\ InStep'
    BY <1>1, <1>8 DEF ProfileMainBlock, SInv, OneAtATime, InStep
  <2> QED
    BY <2>1, <2>2, <2>3 DEF SInv
<1> QED
  BY <1>2, <1>3, <1>4, <1>5, <1>6, <1>7, <1>8 DEF ChainStep, ProfileAvatarAnswered

----------------------------------------------------------------------------
(***************************************************************************)
(* The tabs.                                                               *)
(***************************************************************************)
\* The profile screen.
LEMMA ProfileKeeps ==
  ASSUME SInv, OpenProfile \/ LeaveProfile
  PROVE  SInv'
<1>1. TypeOK /\ auth \in Maybe /\ login \in Nat
  BY Fields DEF SInv, TypeOK
<1>2. CASE OpenProfile
  <2>1. TypeOK' /\ Checked' /\ Promised'
    BY <1>1, <1>2 DEF OpenProfile, SInv, TypeOK, Checked, Promised
  <2>2. ~env'.overlap => OneAtATime' /\ InStep'
    BY <1>2 DEF OpenProfile, Free, SInv, OneAtATime, InStep
  <2> QED
    BY <2>1, <2>2 DEF SInv
<1>3. CASE LeaveProfile
  <2>1. /\ chains' \subseteq Chain /\ started' \in 0 .. env.maxChains
        /\ chains \subseteq chains'
        /\ \A c \in chains' \ chains : c.stage = "users" /\ c.id = auth /\ c.from = "profile"
        /\ \A c, d \in chains' \ chains : c = d
    BY <1>1, <1>3, ChainStarts DEF LeaveProfile
  <2>2. TypeOK' /\ Checked'
    BY <1>1, <1>3, <2>1 DEF LeaveProfile, SInv, TypeOK, Checked
  <2>3. Promised'
    BY <1>3, <2>1 DEF LeaveProfile, SInv, Promised
  <2>4. ~env'.overlap => OneAtATime' /\ InStep'
    BY <1>3, <2>1 DEF LeaveProfile, SInv, OneAtATime, InStep
  <2> QED
    BY <2>2, <2>3, <2>4 DEF SInv
<1> QED
  BY <1>2, <1>3

\* Deleting the account.
LEMMA DeletionKeeps ==
  ASSUME SInv, didTapDeleteAccount \/ DeleteSucceeds \/ DeleteFails
  PROVE  SInv'
<1>1. /\ TypeOK /\ None \in Maybe /\ login \in 1 .. env.maxScreens
      /\ 0 \in 0 .. env.maxScreens /\ login \in 0 .. env.maxScreens
  BY Fields DEF SInv, TypeOK, Maybe
<1>2. CASE didTapDeleteAccount
  <2>1. TypeOK' /\ Checked' /\ Promised'
    BY <1>1, <1>2 DEF didTapDeleteAccount, SInv, TypeOK, Checked, Promised
  <2>2. ~env'.overlap => OneAtATime' /\ InStep'
    BY <1>2 DEF didTapDeleteAccount, Free, SInv, OneAtATime, InStep
  <2> QED
    BY <2>1, <2>2 DEF SInv
<1>3. CASE DeleteFails
  <2>1. TypeOK' /\ Checked' /\ Promised'
    BY <1>1, <1>3 DEF DeleteFails, SInv, TypeOK, Checked, Promised
  <2>2. ~env'.overlap => OneAtATime' /\ InStep'
    BY <1>3 DEF DeleteFails, SInv, OneAtATime, InStep
  <2> QED
    BY <2>1, <2>2 DEF SInv
<1>4. CASE DeleteSucceeds /\ LoginAppears(None)
  <2>1. ~env.overlap => chains = {} /\ signingIn = {}
    BY <1>4 DEF DeleteSucceeds, SInv, OneAtATime
  <2> QED
    BY <1>1, <1>4, <2>1, AppearanceKeeps DEF DeleteSucceeds
<1>5. CASE /\ DeleteSucceeds
           /\ deleting # login \/ (env.overlap /\ screen = "tabs")
           /\ buried' = (buried \/ deleting = login)
           /\ UNCHANGED <<screen, login, overlay, chains, started>>
  <2>1. env.overlap
    BY <1>5 DEF DeleteSucceeds, SInv, OneAtATime
  <2>2. TypeOK' /\ Checked' /\ Promised'
    BY <1>1, <1>5 DEF DeleteSucceeds, SInv, TypeOK, Checked, Promised
  <2> QED
    BY <1>5, <2>1, <2>2 DEF SInv, DeleteSucceeds
<1> QED
  BY <1>2, <1>3, <1>4, <1>5 DEF DeleteSucceeds

----------------------------------------------------------------------------
(***************************************************************************)
(* The theorems.                                                           *)
(***************************************************************************)
\* Every step, and every step that changes nothing, keeps the invariant.
LEMMA StepSound == SInv /\ [Next]_vars => SInv'
<1> SUFFICES ASSUME SInv, [Next]_vars PROVE SInv'
  OBVIOUS
<1>1. CASE UNCHANGED vars
  BY <1>1 DEF vars, SInv, TypeOK, Checked, Promised, OneAtATime, InStep
<1>2. ASSUME NEW c \in chains, ChainStep(c) PROVE SInv'
  BY <1>2, ChainKeeps
<1> QED
  BY <1>1, <1>2, RelaunchKeeps, LoginKeeps, SignInKeeps, ProfileKeeps, DeletionKeeps DEF Next

\* The inductive invariant holds in every reachable state.
LEMMA SessionSound == Spec => []SInv
BY InitSound, StepSound, PTL DEF Spec

\* Every variable keeps its type, within the bounds.
THEOREM TypeCorrect == Spec => []TypeOK
<1>1. SInv => TypeOK
  BY DEF SInv
<1> QED
  BY <1>1, SessionSound, PTL

\* Behind the login screen UserManager.shared has a complete profile once the
\* block that sets it has run, whatever the user does meanwhile.
THEOREM TabsSound == Spec => []TabsHaveUser
<1>1. SInv => TabsHaveUser
  BY DEF SInv, Promised, TabsHaveUser
<1> QED
  BY <1>1, SessionSound, PTL

\* For a user who waits for answers the profile is the one of the user who is
\* signed in.
THEOREM ProfileSound == Spec => []ProfileIsSignedInUser
<1>1. SInv => ProfileIsSignedInUser
  BY DEF SInv, InStep, ProfileIsSignedInUser
<1> QED
  BY <1>1, SessionSound, PTL
==============================================================================
