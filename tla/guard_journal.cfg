CONSTANTS
  t1 = t1
  t2 = t2
  t3 = t3
  opA = opA
  opB = opB
  Task <- MCTask
  Operation <- MCOperation
  operation <- MCOperationOf
  cost <- MCCost
  limit <- MCLimit
  NoReceipt = NoReceipt
SPECIFICATION Spec
PROPERTY JournalKeepsFacts
