CONSTANTS
  s1 = s1
  s2 = s2
  m1 = m1
  m2 = m2
  Sessions = {s1, s2}
  WebMembers = {m1, m2}
  Owner <- MCOwner
  None = None
  NoWs = NoWs
  MaxKeys = 2
  MaxSocks = 2
SPECIFICATION WebSpec
INVARIANTS
  RecordConsistent
  ListenersCurrent
  SessionCoherent
  InstalledKeyIsStored
SYMMETRY MCSymmetry
VIEW MCView
