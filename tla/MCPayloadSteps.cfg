SPECIFICATION Spec
CONSTANTS
  Page = {"guide", "quickstart", "report", "audit"}
  MaxDeclaredDocuments = 2
  MaxAIWorkflowFiles = 1
  Doc = {"readme", "guide", "deep", "last", "hidden", "buried", "SECURITY.md"}
  Dir = {"docs", ".github", "src", "sub", "subsub"}
  Conventional = {"docs", ".github"}
  Github = ".github"
  DocsDir = "docs"
  SecurityPolicy = "SECURITY.md"
  MaxDocumentationFiles = 3
  MaxDocumentationDepth = 2
  Worlds <- MCWorlds
INVARIANTS
  WorkflowPassesAreTrue
  ViolationsAreNotMasked
  LicenceVerdictsAreTrue
  FailuresStand
  GradedAlike
  DocumentsAreComplete
  DocVerdictsAreTrue
  FilesAreNotMissed
  ChannelsAreNotDenied
PROPERTY
  ScanEnds
CHECK_DEADLOCK FALSE
