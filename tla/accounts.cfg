\* Three registrations at a time of two people, one of whom types capitals.
CONSTANTS
  r1 = r1
  r2 = r2
  r3 = r3
  p1 = p1
  p2 = p2
  None = None
  Reqs = {r1, r2, r3}
  Spellings <- TypedEmails
  Lower <- LowerCase
  Passwords = {p1, p2}
  Ids = {1, 2}
SPECIFICATION FairSpec
INVARIANTS
  TypeOK
  OneUserPerEmail
  CreatedCanLogin
  ConflictsAreReal
PROPERTY
  RegistrationsEnd
