SPECIFICATION MCSpec
CONSTANTS
  Harnesses <- Table Sources = {"tools"} LayerOrder <- BothLayers
  Absent = Absent Link = Link Torn = Torn
  Skills = {"lint", "plan", "own"} Sha = Sha
  Company = "company" Editions <- AllEditions
  RcFiles <- RcOf Shell = "shell" Hook = "hook" Edits <- HomeEdits
  MaxRuns <- RunsOf Relevant <- StagesOf MaxDisturbances = 1
  Targets = {"AGENTS.md", "CLAUDE.md"} Imports = {"CLAUDE.md"} Limit = 4
  EnsuredFiles = {"memory.md"} Missing = Missing
  ProjectEdits <- ProjectDocs SourceTexts = {"", "s1", "s2"} MaxProjectEdits = 3
  Subjects = {"agents", "skills", "files", "project"}
INVARIANTS MachineTypeOK BackupHoldsTheOriginal CredentialCarried ProjectAllOrNothing
PROPERTIES ListedAgentsStay ForeignContentStays OwnedUntilGone
CHECK_DEADLOCK FALSE
