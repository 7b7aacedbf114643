SPECIFICATION SettingsSpec
CONSTANTS
  Callers = {c1, c2}
  NoOne = NoOne
  Ids = {"a", "b"}
  ListProfiles <- FewProfiles
  Values = {v1, v2}
  BootPaths = {"models.yml", "other"}
  MaxCrash = 1
  Blank = "-"
  Bodies <- FewBodies
  Written <- FewWritten
SYMMETRY CallerSymmetry
INVARIANTS
  UniqueIds
  BootWouldLoadMemory
  NothingInvented
  NoneMissing
  FileMatchesMemory
PROPERTIES
  Implements
