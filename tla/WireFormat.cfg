SPECIFICATION WireSpec
CONSTANTS
  Checkpoints <- MCCheckpoints
  Replays <- MCReplays
  Requests <- MCRequests
  Replies <- MCReplies
INVARIANTS
  JsonRoundTrip
  CutRejected
  CutReplayForeseen
  HeadersRoundTrip
CHECK_DEADLOCK FALSE
