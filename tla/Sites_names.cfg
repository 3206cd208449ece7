SPECIFICATION SiteSpec
CONSTANTS
  Trusted <- TwoDirectories
  Contents <- Workspace
  Workspaces <- EveryWorkspace
  Identifiers <- SomeIdentifiers
  Required <- key
  InheritedNames = TRUE
  MaxNames = 2
  Label <- beside
  Labelled <- CommittedAndLocal
  MaxEdits = 0
INVARIANT IdentifierMeansOneSite
CHECK_DEADLOCK FALSE
