SPECIFICATION Spec
CONSTANTS
  Stops = {s}
  MinSamples = 3
  Dwell = 2
  MaxGap = 2
  MaxEvidence = 5
  MaxBuffered = 6
  MaxAge = 5
  MaxIdentities = 2
  MaxTime = 7
  MaxOdd = 1
INVARIANTS CandidateIsAVisit
PROPERTIES ReplayFindsTheSame RecentVisitIsFound
CHECK_DEADLOCK FALSE
