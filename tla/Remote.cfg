SPECIFICATION FairSpec
CONSTANTS
  Validators = {1, 2, 3}
  Pairs <- MCPairs
  Requests <- MCRequests
  Lookahead = 3
  Retries <- MCRetries
  BaseChain <- MCBaseChain
  FakeStates <- MCFakeStates
  MaxSlot = 5
  MaxReorgs = 1
  MaxLies = 2
INVARIANTS
  ProofsOfOneState
  StableAnswersVerify
PROPERTIES
  AnswersCome
