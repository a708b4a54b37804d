CONSTANTS
  Token = {1, 2}
  StopToken = {2}
  Prompt <- MCPrompt
  MaxNewTokens = 3
  NLayers = 2
  MaxSeqLen = 3
  ModelRoot = "root"
  Sampler = "greedy"
SPECIFICATION FairSpec
INVARIANTS
  TypeOK
  StepAlignment
  PublishedReplays
  PublishedBound
  TraceAnswersTranscript
PROPERTIES
  ImplementsDecode
  FittingRunEnds
