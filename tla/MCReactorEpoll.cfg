CONSTANTS
  FDs = {1, 2}
  NumThreads = 2
  s1 = s1  s2 = s2  s3 = s3  s4 = s4
  r1 = r1  r2 = r2  r3 = r3
  Stamps <- MCStamps
  InitStamp = InitStamp
  ReqIds <- MCReqIds
  NoReq = NoReq
  Requests <- MCRequests
  TaskLens = {1, 3}
  SynthLen = 1
  InCap = 3
  OutCap = 3
  LimitLocalTasks = 0
  MaxPending = 1
  SpuriousReadiness = FALSE
  EpollCanFail = TRUE

SPECIFICATION Spec
SYMMETRY Symm
INVARIANT NoCrash
