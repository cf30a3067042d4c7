SPECIFICATION Spec
CONSTANTS
  Files = {1, 2}
  Contents <- MCContents
  Invalid <- MCInvalid
  Configs <- MCConfigs
  Directories <- MCDirectories
  Missing = Missing
  Broken = Broken
  None = None
  MaxEdits = 2
INVARIANTS
  BuildTypeOK
  QuietMeansCurrent
  UpToDateKeepsSelection
PROPERTIES
  LastChangeCompiled
