CONSTANTS
  Content <- MCContent
  PromptIds <- MCPromptIds
  PromptHashes <- MCPromptHashes
  MaxSteps = 2
  MaxEdits = 2
SPECIFICATION Spec
INVARIANTS
  TypeOK
  LoopVerdict
  AcceptedIsCommitted
  NoFalseBlame
