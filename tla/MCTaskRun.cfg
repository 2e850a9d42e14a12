SPECIFICATION Spec
CONSTANTS
  t1 = t1
  plan = plan
  desk = desk
  Rpc = Rpc
  NoReq = NoReq
  Plain = Plain
  Question = Question
  Tasks <- MCTasks
  Requests <- MCRequests
  PlanRequests <- MCPlan
  OtherRequests <- MCOther
INVARIANTS
  TypeOK
  OneExecutor
  GatedToolApproved
PROPERTIES
  SettledStays
