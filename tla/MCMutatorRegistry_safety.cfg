SPECIFICATION FairSpec
CONSTANTS
  Threads = {t1, t2}
  Visitors = {v1, v2}
  Boxes = {b1, b2, b3}
  NoBox = NoBox
  NoThread = NoThread
INVARIANTS
  TypeOK
  VisitedMutatorsAreAlive
  VisitsAreComplete
  OneBoxPerMutator
  RegisteredWhileBound
PROPERTIES
  ThreadsComeAndGo
