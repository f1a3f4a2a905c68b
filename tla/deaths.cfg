SPECIFICATION FairSpec
CONSTANTS
  Pid = {p1, p2, p3}
  NoPid = NoPid
  Ptype = {t1, t2}
  MAXPIDS = 3
  Backlog = 2
INVARIANTS TypeOK OnlyMergedUnheard LaunchFailureKnown
PROPERTIES KeepsEveryDeath HeardWhileServing
