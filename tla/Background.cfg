SPECIFICATION FairSpec
CONSTANTS
  Opener = opener
  Idle = none
  Writers = {w1, w2, w3}
  Compactors = {k1}
  Concurrent = TRUE
  Fails = TRUE
  Throws = TRUE
  Last = 2
  Trigger = 2
  Slowdown = 3
  Stop = 4
  Room = 2
  MaxFiles = 0
INVARIANTS
  TypeOK
  OneWorker
  InputsLive
  NothingForgotten
  RequestsOwned
  SpinsForOthers
PROPERTY Settles
CHECK_DEADLOCK FALSE
