SPECIFICATION FairSpec
CONSTANTS
  Kinds <- OneScanner
  Scripts <- Handlers
  Tasks <- CeleryTasks
  Periodic <- BeatTasks
  Unserved <- UnreadTasks
  Names <- MCNames
  Given <- GivenTables
  Singles <- SingleTables
  Columns <- TableColumns
  Files <- SharedFiles
  Web = {p1}
  Workers = {p2}
  Answers = {a1}
  Limit = 1
  Most <- OneOverlap
  k1 = k1
  k2 = k2
  k3 = k3
  p1 = p1
  p2 = p2
  p3 = p3
  a1 = a1
  a2 = a2
PROPERTY ScansAreRun
