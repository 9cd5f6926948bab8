SPECIFICATION Spec
CONSTANTS
  File = {"ci", "lib", "deep"}
  Job = {"a", "b", "c", "d", "e"}
  Name = {"A", "B", "C", "D", "t2"}
  Tool = {"t1", "t2"}
  Full = {"t1"}
  Worlds <- MCWorlds
INVARIANT
  DeepSastPassIsTrue
CHECK_DEADLOCK FALSE
