SPECIFICATION Spec

CONSTANTS
  Name = {"a", "b", "opt"}
  Roots <- DeepRoots
  MaxDepth = 4

INVARIANTS
  WalksThePath

PROPERTIES
  ReportedPathsLeadBack
  UploadsLandInTheirDirectory
