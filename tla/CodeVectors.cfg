CONSTANTS
  Files = {1, 2}
  h1 = h1  h2 = h2
  watch = watch  cli = cli
  Hashes = {h1, h2}
  Profiles = {1, 2}
  Passes = {watch, cli}
  ProfileOf <- Configured
  WatchPasses = {watch}
  Selections <- Limited
  MaxPublications = 2
  MaxFaults = 1
  None = None
SPECIFICATION FairSpec
CHECK_DEADLOCK FALSE
INVARIANTS SearchExact
PROPERTIES PublicationKeepsSearch SearchRecovers
