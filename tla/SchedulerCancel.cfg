SPECIFICATION Spec
CONSTANTS
  t1 = t1
  t2 = t2
  t3 = t3
  p1 = p1
  p2 = p2
  p3 = p3
  p4 = p4
  Tasks = {t1, t2}
  Procs = {p1, p2, p3}
  Addresses = {20, 21, 22}
  NodeNum <- TwoTasks
  MaxRuns <- Once
  NoTask = NoTask
  Behaviours = {"cancel"}
SYMMETRY GoroutineSymmetry
\* the process may crash, every user may stop, and bounds end every run
CHECK_DEADLOCK FALSE
INVARIANTS
  NoCrash
