CONSTANTS
  d1 = d1
  d2 = d2
  r1 = r1
  r2 = r2
  r3 = r3
  Dir = {r1, r2, r3}
  Database = {d1, d2}
  NoDb = NoDb
  DirDb <- Directories
  GlobalDb = d1
  Name <- Names
  Defined <- Tables
  Existing <- AtServer
  Column = {1}
  Backend = "mssql"
  Handle = {h1, h2}
  Closed = Closed
  MaxKeys = 2
  MaxNumber = 3
SPECIFICATION CatalogSpec
SYMMETRY Symmetry
INVARIANTS CatalogTypeOK NeverCrossesDatabases SamePathSameTable OwnNameWins NumbersDistinct
