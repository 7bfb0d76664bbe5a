\* A reset after a query leaves the worker with a session it has freed.
SPECIFICATION Spec
CONSTANTS
  demo = demo
  own = own
  Flows = {f1, f2}
  Boot = Boot
  Names = {demo, own}
  Demo = demo
  Clicks <- MCClicks
  Refusable <- MCRefusable
  Chunks = 1
  MaxClicks <- MCMaxClicks
  NoTable = NoTable
  NoSession = NoSession
  Patience = {TRUE}
INVARIANT
  ResetBuildsFresh
\* The user may stop clicking.
CHECK_DEADLOCK FALSE
