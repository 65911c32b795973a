SPECIFICATION Spec
CONSTANTS
  Jobs = {j1, j2}
  Requests = {r1, r2}
  Streams = {s1}
  NoJob = NoJob
  MaxWrites = 4
INVARIANTS ServerKnowsWhatItSent
PROPERTIES PollClosesTheGap StreamCatchesUp
CHECK_DEADLOCK FALSE
