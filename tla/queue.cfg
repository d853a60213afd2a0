\* Fair behaviours of two runners, of which one may crash: a polling batch task that
\* may time out and be tried twice, its child that no runner can handle, one slot for
\* both, exact clock readings.
SPECIFICATION FairSpec
CONSTANTS
  t1 = t1  t2 = t2  r1 = r1  r2 = r2  g1 = g1
  NoTask = NoTask
  Tasks = {t1, t2}
  Runners = {r1, r2}
  Groups = {g1}
  GroupOf <- OneGroup
  ParentOf <- PairParent
  Pollers = {t1}
  Unsupported = {t2}
  ConcurrencyLimit <- One
  MaxAttempts <- ParentTwice
  Timeout <- OneTick
  BeatLease = 2
  Grace = 0
  Delay = 0
  MaxLag = 0
  MaxPolls = 1
  MaxCrashes = 1
INVARIANTS ConcurrencyRespected RetryBudgetRespected
PROPERTIES LifecycleSpec CancelStopsEffects EveryTaskSettles SlotsComeBack
