SPECIFICATION Spec
CONSTANTS
  Job = {"build", "docs", "gate"}
  App = {"dco"}
  Word = {"build", "docs", "gate", "linux", "dco", " ", "(", "/ "}
  Worlds <- MCWorlds
INVARIANT
  DeletionPassIsTrue
CHECK_DEADLOCK FALSE
