SPECIFICATION Spec
CONSTANTS
  ann = ann
  likes = likes
  lives = lives
  rumour = rumour
  m1 = m1
  m2 = m2
  None = None
  Other = Other
  Users = {ann}
  Facts = {likes, lives, rumour}
  SubjectOf <- MCSubjectOf
  Messages = {m1, m2}
  AuthorOf <- MCAuthorOf
  Confidences <- MCConfidences
  ShownLimit = 1
  ItemLimit = 2
  KillLimit = 1
INVARIANTS
  AuditTrail
  LastWordCounts
PROPERTIES
  FadesOnly
SYMMETRY MCSymmetry
CHECK_DEADLOCK FALSE
