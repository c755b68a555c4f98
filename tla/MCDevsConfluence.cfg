CONSTANTS
  a = a  b = b  e = e  n = n  tv = tv  ev = ev  fv = fv  NoSim = NoSim
  Sims = {a, b, e, n}
  InitSims = {a, b, e}
  Exec = {e}
  Conn <- MCConn
  TimedViews = {tv}
  EventViews = {ev}
  FinishViews = {}
  Period <- MCPeriod
  InitObs <- MCInitObs
  TaSet = {0, 1}
  MaxTime = 1
  AllowSelfDelete = FALSE
  MaxCalls = 0
SPECIFICATION Spec
INVARIANT ConfluenceExclusive


