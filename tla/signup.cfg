SPECIFICATION Spec
CONSTANTS
  Text <- MCText
  Empty = ""
  DigitsOnly <- MCDigitsOnly
  TenLong <- MCTenLong
  EmailShaped <- MCEmailShaped
  EightLong <- MCEightLong
  WithDigit <- MCWithDigit
  WithUpper <- MCWithUpper
  Existing <- MCExisting
  Typed <- MCTyped
  MaxSubmits = 2
INVARIANTS
  SubmissionsAreSound
  ProfileMatchesAccount
  OneProfilePerAccount
CHECK_DEADLOCK FALSE
