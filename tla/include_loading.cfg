CONSTANTS
  Names = {"x", "y", "z", "w"}
  Files <- MCFiles
  Bare <- MCBare
  Paths <- MCPaths
  Packages <- MCPackages
  Dirs <- MCDirs
  Root = "text"
  Joined <- MCJoined
  WithExtension <- MCWithExtension
  DirOf <- MCDirOf
  PackageFile <- MCPackageFile
  PropertiesFiles <- MCPropertiesFiles
  Cwd = "/d"
  BaseDir = "/d"
  ResolveFrom <- MCResolveFrom
  Texts <- MCTexts
  Disks <- MCDisks
  MaxDepth = 3
SPECIFICATION FairSpec
CHECK_DEADLOCK FALSE
INVARIANTS
  ChainsKnown
  TooDeepNeedsFiles
  LoadsAsInlined
  CircularMeansEndless
PROPERTIES
  Terminates
