CONSTANTS
  d1 = d1  d2 = d2  agent = agent  watch = watch  cli = cli
  Docs = {d1, d2}
  Agents = {agent}
  Embedders = {watch, cli}
  Watchers = {watch}
  MaxArtifacts = 3
  MaxFaults = 1
  None = None
SPECIFICATION SemanticFairSpec
CHECK_DEADLOCK FALSE
INVARIANTS PlaneSound
PROPERTIES ActiveIsServed EventuallyServed
