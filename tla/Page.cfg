\* Two legacy sources; two protected sessions, a plain one and a raw consumer; two
\* processes and one record; an edit of an earlier session and two of this one,
\* beside four calls of the push; two files, two edits and a migration.
SPECIFICATION PageSpec
CONSTANTS
  Sources = {s1, s2}
  Paths = {p1, p2}
  Content = {c1, c2}
  Absent = Absent
  Gens = {g1, g2}
  Missing = Missing
  NoControl = NoControl
  NoGen = NoGen
  NoJournal = NoJournal
  LegacyIgnoresLock = FALSE
  None = None
  Torn = Torn
  Raw = Raw
  SessionRoots = {"r1", "r2", "r3"}
  Protected = {"r1", "r2"}
  Views = {"v"}
  MaxSwitches = 4
  Files = {"f1", "f2"}
  Edits = {"e1", "e2"}
  Procs = {"p1", "p2"}
  Names = {"n"}
  Values = {"a", "b"}
  MaxOpens = 4
  MaxSpaces = 4
  MaxCalls = 4
  MaxEdits = 2
  MaxWrites = 2
  MaxMigrations = 1
SYMMETRY Symmetry
INVARIANTS LegacyKept SavesKept BootstrapOutlivesBackings
           RawStaysOutside CrashesKeepData EditsGetPushed OnePageOwner
PROPERTIES ChangesNeverDiscarded
\* Pages close, and the bounds end.
CHECK_DEADLOCK FALSE
