\* The page's flows over one worker, with patient and impatient users.
SPECIFICATION FairSpec
CONSTANTS
  demo = demo
  own = own
  Flows = {f1, f2}
  Boot = Boot
  Names = {demo, own}
  Demo = demo
  Clicks <- MCClicks
  Refusable <- MCRefusable
  Chunks = 2
  MaxClicks <- MCMaxClicks
  NoTable = NoTable
  NoSession = NoSession
  Patience = {TRUE, FALSE}
INVARIANTS
  TypeOK
  EveryRequestOnce
  SessionIsAcknowledged
PROPERTY
  EveryFlowEnds
\* The user may stop clicking.
CHECK_DEADLOCK FALSE
