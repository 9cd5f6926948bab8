SPECIFICATION Spec
CONSTANTS
  a = a
  b = b
  c = c
  nobody = nobody
  Job <- MCJob
  Entry <- MCEntry
  Graphs <- MCGraphs
INVARIANTS
  Complete
  Sound
PROPERTY
  Terminates
CHECK_DEADLOCK FALSE
