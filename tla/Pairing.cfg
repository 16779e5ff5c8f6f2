SPECIFICATION Spec
CONSTANTS
  Submission = {p1, p2}
  Readable = {p1}
  MaxSessions = 2
  MaxAttempts = 2
  None = None
INVARIANTS
  TakenIsWhole
PROPERTIES
  NoSecondAcceptance
  PayloadErased
  PairingEnds
  HandedIsTaken
