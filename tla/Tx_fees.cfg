SPECIFICATION Spec
CONSTANTS
  MsgTypes <- AllTypes
  Accounts <- AllAccounts
  Body <- AllBodies
  None = None
  Content <- AllContents
  Depth <- AllDepths
  Users <- AllUsers
  Proposer = "proposer"
  Txs <- SomeTxs
  Funds = 10
  Prices <- SomePrices
  MaxUtil = 3
  MaxGas = 3
  MaxHeight = 3
INVARIANTS
  TypeOK
  UsersExact
  FeesExact
  SequencesExact
  FilterSound
CHECK_DEADLOCK FALSE
