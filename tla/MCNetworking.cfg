SPECIFICATION NetSpec
CONSTANTS
  Request = {r1}
  MaxChunks = 2
  Messages <- MCMessages
  MaxReceived = 1
INVARIANTS StoresAreMessagesInOrder CloseWaitsForSends CompletionIsLast CancelledIsNotAnswered
PROPERTIES SendsSettle RequestCompletes
CHECK_DEADLOCK FALSE
