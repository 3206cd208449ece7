\* Every small workspace of Site files, templates and overlays, edited between two reads,
\* and typed answers for contracts that differ from a real one in one respect or two.
SPECIFICATION CommandSpec
CONSTANTS
  Trusted <- TwoDirectories
  Contents <- Workspace
  Workspaces <- EveryWorkspace
  Identifiers <- SomeIdentifiers
  Required <- key
  InheritedNames = FALSE
  MaxNames = 2
  Label <- beside
  Labelled <- CommittedAndLocal
  MaxEdits = 1
  Parts <- CaseParts
  Fold <- CaseFold
  DnsLabels <- CaseDnsLabels
  MapEntries = 1
  MaxRoles = 4
  Contracts <- CaseContracts
  AnswerSets <- CaseAnswers
  Options <- CaseOptions
  Worlds <- CaseWorlds
  MaxChanges = 1
INVARIANTS
  SitesAreAsWritten
  IdentifierMeansOneSite
  SelectionIsWhole
  SiteIsAsAnswered
  PrerequisitesHeld
  KnownIsFinal
  ReadsStayNear
CHECK_DEADLOCK FALSE
