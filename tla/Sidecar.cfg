SPECIFICATION FairSpec
CONSTANTS
  Controllers = {interrupt, watch}
  Requests = 2
  Cancels = 2
  Chunks = 1
  Pages = 2
  Failures = 1
  IdleFailure = FALSE
INVARIANTS CancelSound NothingLeftBehind
PROPERTIES ImplementsCall RequestsEnd
