\* Two threads continue and inspect the suspended one, so that two Continues
\* can be in progress at once; the thread may be two Continues ahead, and is
\* joined and created again.
CONSTANTS
  Controllers = {owner, helper1, helper2}
  Owner = owner
  Target = target
  ExitValues = {v1, v2}
  NoValue = null
  Nobody = nobody
  MaxCredit = 2
SPECIFICATION FairSpec
INVARIANTS TypeOK NoLostWakeup ObjectsAlive
PROPERTY ImplementsSuspension
