SPECIFICATION StoreSpec
CONSTANTS
  alice = alice
  bob = bob
  c1 = c1
  c2 = c2
  c3 = c3
  admin = admin
  readonly = readonly
  Names = {alice, bob}
  Roles = {admin, readonly}
  Tokens = {t1}
  Codes = {c1, c2, c3}
  Requests = {r1}
  Savers = {g1, g2}
  NoToken = NoToken
  NoName = NoName
  Accounts <- MCAccounts
  MaxEdits = 0
  MaxFaults = 0
  MaxCrashes = 1
SYMMETRY Symmetry
INVARIANT RevokedStaysRevoked
CHECK_DEADLOCK FALSE
