SPECIFICATION RSpec
CONSTANTS
  t1 = t1
  t2 = t2
  p1 = p1
  p2 = p2
  p3 = p3
  Tasks = {t1, t2}
  Procs = {p1, p2, p3}
  Addresses = {20, 21, 22}
  NodeNum <- TwoPods
  MaxRuns <- FirstTwice
  NoTask = NoTask
  Behaviours = {"ends"}
  MaxRestarts = 1
  Unreliable = {}
SYMMETRY GoroutineSymmetry
\* every user may stop, and bounds end every run
CHECK_DEADLOCK FALSE
INVARIANTS
  CompletedExclusive
