SPECIFICATION Spec
CONSTANTS
  Kinds <- AllKinds
  Scripts <- Handlers
  Tasks <- CeleryTasks
  Periodic <- BeatTasks
  Unserved <- NoTasks
  Names <- MCNames
  Given <- GivenTables
  Singles <- SingleTables
  Columns <- TableColumns
  Files <- SharedFiles
  Web = {p1}
  Workers = {p1}
  Answers = {a1, a2}
  Limit = 1
  Most <- OneFailure
  k1 = k1
  k2 = k2
  k3 = k3
  p1 = p1
  p2 = p2
  p3 = p3
  a1 = a1
  a2 = a2
INVARIANT TypeOK
 
 
INVARIANT ReferencesAreWrittenLast
INVARIANT ServedAsWritten
INVARIANT ModeIsApplied
INVARIANT UsersAreCounted
INVARIANT SshdIsTested
INVARIANT ScansAreClosed
SYMMETRY Symm
