\* Two runs, two versions, three update requests.
CONSTANTS
  Models <- MCModels
  Providers <- MCProviders
  RefTimes = {1, 2}
  Recent = {2}
  Versions = {0, 1}
  Requests <- MCRequests
  MaxUpdates = 3
  MaxDbChanges = 2
SPECIFICATION Spec
PROPERTIES
  StatusOnlyOnRequest
  ServedSince
  RequestTakesEffect
CHECK_DEADLOCK FALSE
