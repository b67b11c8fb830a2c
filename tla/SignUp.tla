------------------------------- MODULE SignUp -------------------------------
(***************************************************************************)
(* SignUpViewController: the registration form, whose fields are validated *)
(* one by one as they are edited, and the creation of the account and of   *)
(* its document in the users collection once the form is submitted.        *)
(*                                                                         *)
(* A text is an opaque value; the sets below say which of the validators'  *)
(* tests it passes.  The callbacks of Firebase run on the main thread, in  *)
(* any order and at any time after the request.                            *)
(***************************************************************************)
EXTENDS Naturals, FiniteSets

CONSTANTS
  Text,         \* what a field can hold
  Empty,        \* the empty text
  DigitsOnly,   \* texts made of decimal digits
  TenLong,      \* texts of ten characters
  EmailShaped,  \* texts that match the e-mail expression
  EightLong,    \* texts of eight characters or more
  WithDigit,    \* texts with a digit
  WithUpper,    \* texts with an upper-case letter
  Existing,     \* accounts other people registered before
  Typed,        \* per field, the texts the user may leave in it
  MaxSubmits    \* bound: taps on the submit button

Field == {"fullName", "phone", "email", "password", "confirm"}

Account == [email : Text, password : Text]

ASSUME SignUpAssumption ==
  /\ Empty \in Text
  /\ Existing \subseteq Account
  /\ Typed \in [Field -> SUBSET Text]
  /\ MaxSubmits \in Nat

VARIABLES
  text,      \* contents of the text fields
  hidden,    \* per field, its validation label is hidden
  enabled,   \* submitFormButton.isEnabled
  screen,    \* "form", "alert" (over the form), "success"
             \* (SuccessViewController) or "login"
  taps,      \* taps on the button so far
  creating,  \* createUser requests without an answer
  accounts,  \* accounts of Firebase Auth
  writing,   \* addDocument requests without an answer
  profiles   \* documents of the users collection

form  == <<text, hidden, enabled>>
cloud == <<creating, accounts, writing, profiles>>
vars  == <<form, screen, taps, cloud>>

\* What a submission carries: the values the closure captured at the tap.
Request == [no : 1 .. MaxSubmits, fullName : Text, phone : Text,
            email : Text, password : Text]

----------------------------------------------------------------------------
(***************************************************************************)
(* The validators: TRUE when the code returns an error message.            *)
(***************************************************************************)
invalidFullName(v) == v = Empty

invalidPhoneNumber(v) == v = Empty \/ v \notin DigitsOnly \/ v \notin TenLong

invalidEmail(v) == v = Empty \/ v \notin EmailShaped

invalidPassword(v) ==
  v = Empty \/ v \notin EightLong \/ v \notin WithDigit \/ v \notin WithUpper

invalidConfirmPassword(v) == v = Empty \/ v # text["password"]

\* Mutation: the password's label is not consulted.
checkValidForm_SkipsPassword(h, t) ==
  (\A f \in Field \ {"password"} : h[f]) /\ t["confirm"] # Empty

\* checkValidForm, on the labels h and the texts t it finds.
checkValidForm(h, t) == (\A f \in Field : h[f]) /\ t["confirm"] # Empty

AllHidden == [f \in Field |-> TRUE]

Init ==
  /\ text = [f \in Field |-> Empty]
  /\ hidden = AllHidden
  /\ enabled = FALSE
  /\ screen = "form"
  /\ taps = 0
  /\ creating = {} /\ accounts = Existing /\ writing = {} /\ profiles = {}

----------------------------------------------------------------------------
(***************************************************************************)
(* Editing.  Each handler judges its own field and then the whole form.    *)
(***************************************************************************)
Edit(f, v, invalid) ==
  /\ screen = "form"
  /\ text' = [text EXCEPT ![f] = v]
  /\ hidden' = [hidden EXCEPT ![f] = ~invalid]
  /\ enabled' = checkValidForm(hidden', text')
  /\ UNCHANGED <<screen, taps, cloud>>

fullNameChanged(v) == Edit("fullName", v, invalidFullName(v))

phoneChanged(v) == Edit("phone", v, invalidPhoneNumber(v))

emailChanged(v) == Edit("email", v, invalidEmail(v))

passwordChanged(v) == Edit("password", v, invalidPassword(v))

confirmPasswordChanged(v) == Edit("confirm", v, invalidConfirmPassword(v))

(***************************************************************************)
(* Submitting.  resetForm disables the button and hides every label, and   *)
(* the checkValidForm after it enables the button again, so a second tap   *)
(* may come before the first is answered.                                  *)
(***************************************************************************)
signUp ==
  /\ screen = "form"
  /\ enabled
  /\ taps < MaxSubmits
  /\ taps' = taps + 1
  /\ hidden' = AllHidden
  /\ enabled' = checkValidForm(hidden', text)
  /\ creating' = creating \cup
       {[no |-> taps + 1, fullName |-> text["fullName"], phone |-> text["phone"],
         email |-> text["email"], password |-> text["password"]]}
  /\ UNCHANGED <<text, screen, accounts, writing, profiles>>

\* Firebase Auth holds one account per address.
Registered(e) == \E a \in accounts : a.email = e

\* Mutation: the callback reads the fields instead of the captured values.
ProfileOf_ReadsForm(r) ==
  [r EXCEPT !.email = text["email"], !.password = text["password"]]

\* What the callback sends to addDocument for the request r.
ProfileOf(r) == r

\* The success screen is presented over the form, unless that is already
\* covered: then UIKit ignores the request.
CreateSucceeds(r) ==
  /\ r \in creating
  /\ r.email # Empty
  /\ ~Registered(r.email)
  /\ creating' = creating \ {r}
  /\ accounts' = accounts \cup {[email |-> r.email, password |-> r.password]}
  /\ writing' = writing \cup {ProfileOf(r)}
  /\ screen' = IF screen = "form" THEN "success" ELSE screen
  /\ UNCHANGED <<form, taps, profiles>>

\* Mutation: the document is written although the address was taken.
CreateFindsEmailInUse_Writes(r) ==
  /\ r \in creating
  /\ Registered(r.email)
  /\ creating' = creating \ {r}
  /\ writing' = writing \cup {ProfileOf(r)}
  /\ hidden' = [hidden EXCEPT !["email"] = FALSE]
  /\ UNCHANGED <<text, enabled, screen, taps, accounts, profiles>>

\* emailAlreadyInUse shows a message and leaves the button as it is.
CreateFindsEmailInUse(r) ==
  /\ r \in creating
  /\ Registered(r.email)
  /\ creating' = creating \ {r}
  /\ hidden' = [hidden EXCEPT !["email"] = FALSE]
  /\ UNCHANGED <<text, enabled, screen, taps, accounts, writing, profiles>>

\* Any other error is printed or shown in an alert.
CreateFails(r) ==
  /\ r \in creating
  /\ creating' = creating \ {r}
  /\ UNCHANGED screen \/ (screen = "form" /\ screen' = "alert")
  /\ UNCHANGED <<form, taps, accounts, writing, profiles>>

CloseAlert ==
  /\ screen = "alert"
  /\ screen' = "form"
  /\ UNCHANGED <<form, taps, cloud>>

ProfileWritten(p) ==
  /\ p \in writing
  /\ writing' = writing \ {p}
  /\ profiles' = profiles \cup {p}
  /\ UNCHANGED <<form, screen, taps, creating, accounts>>

\* "User not save" is printed; the account stays without a document.
ProfileNotSaved(p) ==
  /\ p \in writing
  /\ writing' = writing \ {p}
  /\ UNCHANGED <<form, screen, taps, creating, accounts, profiles>>

\* didTapLogin here, didTapLoginView on the success screen.
ToLogin ==
  /\ screen \in {"form", "success"}
  /\ screen' = "login"
  /\ UNCHANGED <<form, taps, cloud>>

Next ==
  \/ \E v \in Typed["fullName"] : fullNameChanged(v)
  \/ \E v \in Typed["phone"] : phoneChanged(v)
  \/ \E v \in Typed["email"] : emailChanged(v)
  \/ \E v \in Typed["password"] : passwordChanged(v)
  \/ \E v \in Typed["confirm"] : confirmPasswordChanged(v)
  \/ signUp
  \/ \E r \in creating :
       CreateSucceeds(r) \/ CreateFindsEmailInUse(r) \/ CreateFails(r)
  \/ \E p \in writing : ProfileWritten(p) \/ ProfileNotSaved(p)
  \/ CloseAlert
  \/ ToLogin

Spec == Init /\ [][Next]_vars

----------------------------------------------------------------------------
(***************************************************************************)
(* Properties.                                                             *)
(***************************************************************************)
\* Every variable has its type.
TypeOK ==
  /\ text \in [Field -> Text]
  /\ hidden \in [Field -> BOOLEAN]
  /\ enabled \in BOOLEAN
  /\ screen \in {"form", "alert", "success", "login"}
  /\ taps \in 0 .. MaxSubmits
  /\ creating \subseteq Request
  /\ accounts \subseteq Account
  /\ writing \subseteq Request
  /\ profiles \subseteq Request

\* Whatever the order of edits and submissions, a request that leaves the form
\* carries a password that passed invalidPassword and no ill-formed phone or
\* e-mail: these are at worst empty, in a field that was never edited.
SubmissionsAreSound ==
  \A r \in creating :
    /\ ~invalidPassword(r.password)
    /\ r.phone = Empty \/ ~invalidPhoneNumber(r.phone)
    /\ r.email = Empty \/ ~invalidEmail(r.email)

\* The document written for an account holds the address and the password the
\* account was created with, even when the fields were edited, or submitted
\* again, before createUser answered.
ProfileMatchesAccount ==
  \A p \in writing \cup profiles :
    [email |-> p.email, password |-> p.password] \in accounts

\* However often the button is tapped, no account gets two documents.
OneProfilePerAccount ==
  \A p, q \in writing \cup profiles : p.email = q.email => p = q

\* What the messages of the validators demand ("Không được để trống thông tin
\* này", "Mật khẩu không chính xác"): a form that can be submitted holds nothing
\* that any of them objects to.
SubmittableFormIsValid ==
  enabled => /\ ~invalidFullName(text["fullName"])
             /\ ~invalidPhoneNumber(text["phone"])
             /\ ~invalidEmail(text["email"])
             /\ ~invalidPassword(text["password"])
             /\ ~invalidConfirmPassword(text["confirm"])
==============================================================================
