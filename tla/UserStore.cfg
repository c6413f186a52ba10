SPECIFICATION MCSpec
CONSTANTS
  alice = alice
  bob = bob
  c1 = c1
  c2 = c2
  c3 = c3
  admin = admin
  readonly = readonly
  Names = {alice, bob}
  Roles = {admin, readonly}
  Tokens = {t1}
  Codes = {c1, c2, c3}
  Requests = {r1, r2}
  Savers = {g1, g2}
  NoToken = NoToken
  NoName = NoName
  Accounts <- MCAccounts
  MaxEdits = 3
  MaxFaults = 1
  MaxCrashes = 1
SYMMETRY Symmetry
INVARIANTS NamesUnique OwnerKept LoginsOwn 
PROPERTY NoResurrection
CHECK_DEADLOCK FALSE
