SPECIFICATION MCSpec
CONSTANTS
  name1 = name1
  name2 = name2
  d = d
  a = a
  b = b
  NONE = NONE
  Names = {name1, name2}
  Fds = {d}
  Texts = {a, b}
  MAX_FILE_BYTES = 1
  MAX_TOTAL_BYTES = 2
  MaxSize = 1
  MaxCalls = 2
  dir1 = dir1
  dir2 = dir2
  Dirs = {dir1, dir2}
  Root = Root
  Outside = Outside
SYMMETRY Symmetry
INVARIANTS
  MirrorIsSound
  GuestStartsFromTheWorkspace
  DirectoryIsTracked
PROPERTIES
  StoredIsWhatTheGuestLeft
