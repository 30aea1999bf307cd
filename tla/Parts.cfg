\* Three threads that call main(); three objects of a class, used as rx uses them;
\* every input of the bounded sets in MCCodecs.
SPECIFICATION PartsSpec
CONSTANTS
  Thread = {t1, t2, t3}
  Obj = {a, b, c}
  MaxEntries = 2
  MaxBlocks = 4
  MaxFiles = 4
  MaxStates = 4
  AnyUse = FALSE
  kCharCategoryMap <- Categories
  Texts <- MCTexts
  Strings <- MCStrings
  Shown <- MCShown
  Hashes <- MCHashes
  Unions <- MCUnions
  Files <- MCFiles
PROPERTY OneMainThread
INVARIANTS
  Owned
  Kept
  UnionIDsDistinct
  IdentifierExact
  TextRoundTrip
  BuildsAgree
  CutsNoticed
  ReprUnambiguous
  FilesAgree
CHECK_DEADLOCK FALSE
