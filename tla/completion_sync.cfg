SPECIFICATION SyncSpec
CONSTANTS
  Stops = {s}
  MinSamples = 3
  Dwell = 2
  MaxGap = 1
  MaxEvidence = 8
  MaxBuffered = 8
  MaxAge = 8
  MaxIdentities = 2
  MaxVisits = 1
  MaxAnswers = 2
  Replies = {"completed", "not_completed"}
  MaxTrouble = 1
INVARIANTS NoAnswerLost NewestAnswerShown
PROPERTIES EventuallySettled
CHECK_DEADLOCK FALSE
