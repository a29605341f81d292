SPECIFICATION RetryLoopsSpec

CONSTANTS
  r1 = r1
  r2 = r2
  c1 = c1
  c2 = c2
  Request = {r1, r2}
  Conversation = {c1, c2}
  MessagesOf <- Payloads
  MaxRequests = 1
  Window = 2
  MaxRetries = 1
  Horizon = 2
  MaxResends = 3
  BaseDelay = 8
  RetryAfters = {0, 90}

INVARIANTS
  TypeOK
  WindowRespected
  CallsPaidFor
  LimitsInv
  LoopInv
  CopiesAreDoubtful
  RetriesSpent
  HeldUpBriefly
PROPERTIES
  RefusalsDeserved
  RetriesJustified
  RefusalsAreFinal
  ImplementsReplySend
