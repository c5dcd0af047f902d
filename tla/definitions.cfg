SPECIFICATION FairSpec
CONSTANTS
  Hosts = {"h1", "h2"}
  Names = {"web", "ops"}
  Managed = {"web", "ops"}
  Ignored <- MCIgnored
  Declares <- MCDeclares
  Tags <- MCTags
  Comments <- MCComments
  Manual = "manual"
  None = "none"
  MaxChanges = 1
  MaxFaults = 1
INVARIANTS TypeOK
PROPERTIES RegisteredKept UnusedGoes LabelsWin
