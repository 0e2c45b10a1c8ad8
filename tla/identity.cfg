\* Three uploads of three audios, two of them the same music, under two paths;
\* a file may be replaced by any other.
CONSTANTS
  a1 = "a1"
  a2 = "a2"
  b = "b"
  Audios = {"a1", "a2", "b"}
  Prints = {"fa", "fb"}
  PrintOf <- MCPrintOf
  Paths = {p, q}
  Service = {"http"}
  Cli = {}
  MaxUploads = 3
SPECIFICATION Spec
SYMMETRY PathSymmetry
INVARIANTS
  TypeOK
  HashUnique
  AnalysisMatchesHash
  ProbeServesOwn
  TagsOwnAudio
PROPERTIES
  CacheServesOwn
CHECK_DEADLOCK FALSE
