SPECIFICATION Spec
CONSTANTS
  s1 = s1
  s2 = s2
  e1 = e1
  e2 = e2
  NoKey = NoKey
  Emails = {e1, e2}
  Passwords = {p1, p2}
  Identities <- MCIdentities
  Requests = {r1, r2, r3}
  MaxEdits = 2
SYMMETRY RequestSymmetry
CHECK_DEADLOCK FALSE
INVARIANTS
  TypeOK
  AnsweredAsIfAlone
  SameAccount
PROPERTIES
  LinkedHasNoPassword
