SPECIFICATION FairSpec
CONSTANTS
  a = a
  b = b
  c = c
  d = d
  r = r
  g = g
  local = local
  sync = sync
  Threads = {local, sync}
  Syncers = {sync}
  Blocks = {a, b, c, d}
  Genesis = g
  Parents <- MCParents
  Height <- MCHeight
  Insane = {}
  Refused = {c, d}
  MaxOrphans = 1
INVARIANT TypeOK
INVARIANT OrphansOutsideDag
INVARIANT SweepTakesReady
INVARIANT NoDuplicatesInTurn
INVARIANT AcceptedAnnounced
INVARIANT AnnouncedOnce
INVARIANT ReadyLeftOvertaken
PROPERTY CallsReturn
