CONSTANTS
  watch = watch  embed = embed
  h1 = h1  h2 = h2  k1 = k1  k2 = k2  c1 = c1  c2 = c2
  Docs = {1, 2}
  Contents = {c1, c2}
  Heads = {h1, h2}
  TipOf <- Tips
  Starts <- Start
  Indexers = {watch}
  Watchers = {watch}
  Embedders = {embed}
  MaxAttempts = 2
  MaxChanges = 2
  MaxFaults = 1
  None = None
SPECIFICATION FairSpec
CHECK_DEADLOCK FALSE
INVARIANTS OneGitState GenerationExact
PROPERTIES PublicationKeepsSearch CatchesUp
