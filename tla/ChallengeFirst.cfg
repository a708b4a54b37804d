CONSTANTS
  Shape <- MCShape
  MaxK = 4
  MaxSize = 7
  Modulus = 8
SPECIFICATION ChallengeSpec
INVARIANTS PromptIndexesTrace
