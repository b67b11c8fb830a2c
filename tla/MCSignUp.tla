------------------------------ MODULE MCSignUp ------------------------------
(***************************************************************************)
(* Model-checking instance of SignUp: per field the empty text, an invalid *)
(* one and one or two valid ones; for the password one text per rule.      *)
(***************************************************************************)
EXTENDS SignUp

MCTyped ==
  [fullName |-> {"", "An"},
   phone    |-> {"", "12", "0123456789"},
   email    |-> {"", "x", "a@b.vn", "c@d.vn", "e@f.vn"},
   password |-> {"", "Aa1", "lowercase1", "Passw0rd", "Passw1rd"},
   confirm  |-> {"", "Passw0rd", "Passw1rd"}]

MCText == UNION {MCTyped[f] : f \in DOMAIN MCTyped}

MCExisting == {[email |-> "e@f.vn", password |-> "Passw1rd"]}

MCDigitsOnly  == {"12", "0123456789"}
MCTenLong     == {"0123456789", "lowercase1"}
MCEmailShaped == {"a@b.vn", "c@d.vn", "e@f.vn"}
MCEightLong   == {"0123456789", "lowercase1", "Passw0rd", "Passw1rd"}
MCWithDigit   == {"12", "0123456789", "Aa1", "lowercase1", "Passw0rd", "Passw1rd"}
MCWithUpper   == {"An", "Aa1", "Passw0rd", "Passw1rd"}
==============================================================================
