SPECIFICATION ServerSpec
CONSTANTS
  t1 = t1  t2 = t2  t3 = t3
  r1 = r1  r2 = r2
  c1 = c1  c2 = c2  c3 = c3 
  Token = {t1, t2, t3}
  Slot = {r1, r2}
  Uri = {u1, u2}
  Stream = {c1, c2, c3}
  None = None
  NoStream = NoStream
SYMMETRY Alike
INVARIANT SessionCoherent
PROPERTIES TokenKeptUntilRefused SubscribedMeansLive
CHECK_DEADLOCK FALSE
