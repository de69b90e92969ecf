CONSTANTS
  MaxRequests = 5
  MaxRetries = 1
  MaxRedirects = 1
  MaxConsecutive = 2
  MinIntervals = {2, 5}
  MaxInterval = 4
  Jitter = 1
  Patience = {3, 9}
  MaxFetches = 3
SPECIFICATION FetchSpec
PROPERTIES
  RequestsSpaced
  RetryAfterHonoured
  EveryStepCounts
  EveryFetchEnds
CHECK_DEADLOCK FALSE
