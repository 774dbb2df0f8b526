\* Two of Apache's threads and two abort handlers.
CONSTANTS
  Threads = {t1, t2}
  Config <- MCConfig
  Urls <- MCUrls
  Outcomes = {"NO_ERROR", "INVALID_QUERY"}
  None = None
  MaxIds = 2
SPECIFICATION Spec
INVARIANTS
  ThreadDataIsOwn
  AbortHandlersOfLiveRequests
