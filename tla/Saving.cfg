CONSTANTS
  Chunks = 3
  Threads = 3
  MaxSpurious = 2
SPECIFICATION MCSpec
INVARIANTS HandedOver SetSound DocumentSound ReadBack WalksAgree
PROPERTIES ImplementsReplay Finishes PollKeepsOrder
CHECK_DEADLOCK FALSE
