SPECIFICATION Spec
CONSTANTS
  Job = {"build", "docs", "gate"}
  App = {"dco"}
  Word = {"build", "docs", "gate", "linux", "dco", " ", "(", "/ "}
  Worlds <- MCWorlds
INVARIANTS
  PassesAreTrue
  FailsAreTrue
  UnseenIsNotAbsent
CHECK_DEADLOCK FALSE
