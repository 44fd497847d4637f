SPECIFICATION FairSpec
CONSTANTS
  p1 = p1  p2 = p2  r1 = r1  r2 = r2  pw1 = pw1  pw2 = pw2
  Procs = {p1, p2}
  Free = Free
  Rows = {r1, r2}
  Passwords = {pw1, pw2}
  NoPassword = NoPassword
  TooShort = TooShort
  MaxStops = 2
  MaxWrites = 2
  MaxDamage = 1
INVARIANTS TypeOK NothingLost OneKey
PROPERTIES Reopens
