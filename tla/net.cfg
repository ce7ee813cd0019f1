CONSTANTS
  t1 = t1
  intr = intr
  NoThread = NoThread
  Threads <- OneAndIntr
  Intr = intr
  NUM = 2
  RxNUM = 4
  IdxMod = 4
  Pages = 4
  MaxSends = 3
  MaxRx = 3
  MaxUsedIdx = 3
  Requests <- SomeAsk
SPECIFICATION NetFairSpec
INVARIANTS DescriptorsOwned AloneIsSentOnce HandledInOrder
PROPERTIES PollEndsIfPending DeliveredIsHandled
CHECK_DEADLOCK FALSE
