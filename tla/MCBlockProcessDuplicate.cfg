SPECIFICATION Spec
CONSTANTS
  a = a
  b = b
  c = c
  d = d
  r = r
  g = g
  local = local
  sync = sync
  Threads = {local,sync}
  Syncers = {sync}
  Blocks = {a, b, c, r}
  Genesis = g
  Parents <- MCParents
  Height <- MCHeight
  Insane = {}
  Refused = {r}
  MaxOrphans = 2
INVARIANT NoDuplicateBlocks
