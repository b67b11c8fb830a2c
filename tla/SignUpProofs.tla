---------------------------- MODULE SignUpProofs ----------------------------
(***************************************************************************)
(* Proofs about SignUp, for any texts, any accounts that exist beforehand  *)
(* and any number of submissions.                                          *)
(***************************************************************************)
EXTENDS SignUp, TLAPS

----------------------------------------------------------------------------
(***************************************************************************)
(* Type correctness.                                                       *)
(***************************************************************************)
\* An edit of one field keeps the form, and all the rest, well typed.
LEMMA EditType ==
  ASSUME TypeOK, NEW f \in Field, NEW v \in Text, NEW invalid \in BOOLEAN,
         Edit(f, v, invalid)
  PROVE  TypeOK'
BY DEF TypeOK, Edit, checkValidForm, cloud

\* No handler or callback of the form leaves the types of the variables.
THEOREM TypeCorrect == Spec => []TypeOK
<1>1. Init => TypeOK
  <2> SUFFICES ASSUME Init PROVE TypeOK
    OBVIOUS
  <2>1. text \in [Field -> Text] /\ hidden \in [Field -> BOOLEAN]
    BY SignUpAssumption DEF SignUpAssumption, Init, AllHidden
  <2>2. taps \in 0 .. MaxSubmits /\ accounts \subseteq Account
    BY SignUpAssumption DEF SignUpAssumption, Init
  <2> QED
    BY <2>1, <2>2 DEF Init, TypeOK
<1>2. TypeOK /\ [Next]_vars => TypeOK'
  <2> SUFFICES ASSUME TypeOK, [Next]_vars PROVE TypeOK'
    OBVIOUS
  <2> USE SignUpAssumption DEF SignUpAssumption
  <2>1. ASSUME NEW v \in Typed["fullName"], fullNameChanged(v) PROVE TypeOK'
    BY <2>1, EditType DEF fullNameChanged, invalidFullName, Field
  <2>2. ASSUME NEW v \in Typed["phone"], phoneChanged(v) PROVE TypeOK'
    BY <2>2, EditType DEF phoneChanged, invalidPhoneNumber, Field
  <2>3. ASSUME NEW v \in Typed["email"], emailChanged(v) PROVE TypeOK'
    BY <2>3, EditType DEF emailChanged, invalidEmail, Field
  <2>4. ASSUME NEW v \in Typed["password"], passwordChanged(v) PROVE TypeOK'
    BY <2>4, EditType DEF passwordChanged, invalidPassword, Field
  <2>5. ASSUME NEW v \in Typed["confirm"], confirmPasswordChanged(v) PROVE TypeOK'
    BY <2>5, EditType DEF confirmPasswordChanged, invalidConfirmPassword, Field
  <2>6. CASE signUp
    BY <2>6 DEF signUp, TypeOK, Request, AllHidden, checkValidForm, Field
  <2>7. ASSUME NEW r \in creating, CreateSucceeds(r) PROVE TypeOK'
    BY <2>7 DEF CreateSucceeds, ProfileOf, TypeOK, Request, Account, form
  <2>8. ASSUME NEW r \in creating, CreateFindsEmailInUse(r) PROVE TypeOK'
    BY <2>8 DEF CreateFindsEmailInUse, TypeOK, Field
  <2>9. ASSUME NEW r \in creating, CreateFails(r) PROVE TypeOK'
    BY <2>9 DEF CreateFails, TypeOK, form
  <2>10. ASSUME NEW p \in writing, ProfileWritten(p) \/ ProfileNotSaved(p)
         PROVE  TypeOK'
    BY <2>10 DEF ProfileWritten, ProfileNotSaved, TypeOK, form
  <2>11. CASE CloseAlert \/ ToLogin
    BY <2>11 DEF CloseAlert, ToLogin, TypeOK, form, cloud
  <2>12. CASE UNCHANGED vars
    BY <2>12 DEF vars, form, cloud, TypeOK
  <2> QED
    BY <2>1, <2>2, <2>3, <2>4, <2>5, <2>6, <2>7, <2>8, <2>9, <2>10, <2>11,
       <2>12 DEF Next
<1> QED
  BY <1>1, <1>2, PTL DEF Spec

----------------------------------------------------------------------------
(***************************************************************************)
(* What a submission carries.  That the button is enabled does not mean    *)
(* that every label is hidden (CreateFindsEmailInUse shows one), and that  *)
(* a label is hidden does not mean that its field is valid (signUp hides   *)
(* them all), so the invariant speaks of both: a field is blank or valid   *)
(* as long as its label is hidden or the button is enabled.                *)
(***************************************************************************)
PhoneFits == text["phone"] = Empty \/ ~invalidPhoneNumber(text["phone"])
EmailFits == text["email"] = Empty \/ ~invalidEmail(text["email"])
PasswordFits == text["password"] = Empty \/ ~invalidPassword(text["password"])

FieldsFit ==
  /\ hidden["phone"] \/ enabled => PhoneFits
  /\ hidden["email"] \/ enabled => EmailFits
  /\ hidden["password"] \/ enabled => PasswordFits

\* A confirmation that was accepted was equal to a password that was not blank,
\* and blanking the password shows its label.
PasswordGiven ==
  /\ hidden["password"] /\ hidden["confirm"] /\ text["confirm"] # Empty
       => text["password"] # Empty
  /\ enabled => text["password"] # Empty /\ text["confirm"] # Empty

FormInv == TypeOK /\ FieldsFit /\ PasswordGiven /\ SubmissionsAreSound

\* Whatever the order of edits, submissions and answers, a request that left the
\* form carries a valid password and no ill-formed phone number or address,
\* whichever texts the validators accept.
THEOREM SubmissionsSound == Spec => []SubmissionsAreSound
<1>1. Init => FieldsFit /\ PasswordGiven /\ SubmissionsAreSound
  BY DEF Init, AllHidden, Field, FieldsFit, PhoneFits, EmailFits, PasswordFits,
         PasswordGiven, SubmissionsAreSound
<1>2. FormInv /\ [Next]_vars => (FieldsFit /\ PasswordGiven /\ SubmissionsAreSound)'
  <2> SUFFICES ASSUME FormInv, [Next]_vars
               PROVE  (FieldsFit /\ PasswordGiven /\ SubmissionsAreSound)'
    OBVIOUS
  <2> USE DEF FormInv, TypeOK, Field, FieldsFit, PasswordGiven, PhoneFits,
              EmailFits, PasswordFits
  <2>1. ASSUME NEW v \in Typed["fullName"], fullNameChanged(v)
        PROVE  (FieldsFit /\ PasswordGiven /\ SubmissionsAreSound)'
    BY <2>1 DEF fullNameChanged, Edit, checkValidForm, cloud, SubmissionsAreSound
  <2>2. ASSUME NEW v \in Typed["phone"], phoneChanged(v)
        PROVE  (FieldsFit /\ PasswordGiven /\ SubmissionsAreSound)'
    BY <2>2 DEF phoneChanged, Edit, checkValidForm, cloud, SubmissionsAreSound
  <2>3. ASSUME NEW v \in Typed["email"], emailChanged(v)
        PROVE  (FieldsFit /\ PasswordGiven /\ SubmissionsAreSound)'
    BY <2>3 DEF emailChanged, Edit, checkValidForm, cloud, SubmissionsAreSound
  <2>4. ASSUME NEW v \in Typed["password"], passwordChanged(v)
        PROVE  (FieldsFit /\ PasswordGiven /\ SubmissionsAreSound)'
    BY <2>4 DEF passwordChanged, invalidPassword, Edit, checkValidForm, cloud,
                SubmissionsAreSound
  <2>5. ASSUME NEW v \in Typed["confirm"], confirmPasswordChanged(v)
        PROVE  (FieldsFit /\ PasswordGiven /\ SubmissionsAreSound)'
    BY <2>5 DEF confirmPasswordChanged, invalidConfirmPassword, Edit,
                checkValidForm, cloud, SubmissionsAreSound
  <2>6. CASE signUp
    <3>1. (FieldsFit /\ PasswordGiven)'
      BY <2>6 DEF signUp, AllHidden, checkValidForm
    <3>2. SubmissionsAreSound'
      BY <2>6 DEF signUp, SubmissionsAreSound
    <3> QED
      BY <3>1, <3>2
  <2>7. ASSUME NEW r \in creating,
               CreateSucceeds(r) \/ CreateFindsEmailInUse(r) \/ CreateFails(r)
        PROVE  (FieldsFit /\ PasswordGiven /\ SubmissionsAreSound)'
    BY <2>7 DEF CreateSucceeds, CreateFindsEmailInUse, CreateFails, form,
                SubmissionsAreSound
  <2>8. ASSUME NEW p \in writing, ProfileWritten(p) \/ ProfileNotSaved(p)
        PROVE  (FieldsFit /\ PasswordGiven /\ SubmissionsAreSound)'
    BY <2>8 DEF ProfileWritten, ProfileNotSaved, form, SubmissionsAreSound
  <2>9. CASE CloseAlert \/ ToLogin \/ UNCHANGED vars
    BY <2>9 DEF CloseAlert, ToLogin, vars, form, cloud, SubmissionsAreSound
  <2> QED
    BY <2>1, <2>2, <2>3, <2>4, <2>5, <2>6, <2>7, <2>8, <2>9 DEF Next
<1> QED
  BY <1>1, <1>2, TypeCorrect, PTL DEF Spec, FormInv

----------------------------------------------------------------------------
(***************************************************************************)
(* Accounts and their documents.  A document is only sent for an address   *)
(* that had no account, and every document already sent has one.           *)
(***************************************************************************)
\* The document of an account holds the address and the password the account
\* was created with, and no account gets two, however the taps, the edits and
\* the answers of Firebase interleave.
THEOREM ProfilesSound == Spec => [](ProfileMatchesAccount /\ OneProfilePerAccount)
<1> DEFINE PInv == ProfileMatchesAccount /\ OneProfilePerAccount
<1>1. Init => PInv
  BY DEF Init, ProfileMatchesAccount, OneProfilePerAccount
<1>2. PInv /\ [Next]_vars => PInv'
  <2> SUFFICES ASSUME PInv, [Next]_vars PROVE PInv'
    OBVIOUS
  <2>1. ASSUME NEW r \in creating, CreateSucceeds(r) PROVE PInv'
    <3>1. writing' \cup profiles' = (writing \cup profiles) \cup {r}
      BY <2>1 DEF CreateSucceeds, ProfileOf
    <3>2. accounts' = accounts \cup {[email |-> r.email, password |-> r.password]}
      BY <2>1 DEF CreateSucceeds
    <3>3. ProfileMatchesAccount'
      BY <3>1, <3>2 DEF ProfileMatchesAccount
    <3>4. \A p \in writing \cup profiles : p.email # r.email
      BY <2>1 DEF CreateSucceeds, Registered, ProfileMatchesAccount
    <3>5. OneProfilePerAccount'
      BY <3>1, <3>4 DEF OneProfilePerAccount
    <3> QED
      BY <3>3, <3>5
  <2>2. ASSUME NEW p \in writing, ProfileWritten(p) \/ ProfileNotSaved(p)
        PROVE  PInv'
    <3>1. /\ writing' \cup profiles' \subseteq writing \cup profiles
          /\ accounts' = accounts
      BY <2>2 DEF ProfileWritten, ProfileNotSaved
    <3> QED
      BY <3>1 DEF ProfileMatchesAccount, OneProfilePerAccount
  <2>3. CASE UNCHANGED <<accounts, writing, profiles>>
    BY <2>3 DEF ProfileMatchesAccount, OneProfilePerAccount
  <2> QED
    BY <2>1, <2>2, <2>3
    DEF Next, fullNameChanged, phoneChanged, emailChanged, passwordChanged,
        confirmPasswordChanged, Edit, signUp, CreateFindsEmailInUse, CreateFails,
        CloseAlert, ToLogin, cloud, vars
<1> QED
  BY <1>1, <1>2, PTL DEF Spec

\* The first half of ProfilesSound on its own: a document never belongs to
\* another account than the one it was written for.
THEOREM ProfilesMatch == Spec => []ProfileMatchesAccount
BY ProfilesSound, PTL
==============================================================================
