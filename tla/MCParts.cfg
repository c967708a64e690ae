SPECIFICATION PartsSpec
CONSTANTS
  LIMIT = 14
  Sizes = {0, 1, 3, 5}
  MAX = 7
  HISTORY_SIZE = 2
  Bytes <- Typed
  Builtins <- Commands
  Listing <- Directories
  MaxOps = 5
INVARIANTS
  FilesExact
  MemoryExact
  StreamExact
  HeapExact
  LineShown
  ShellExact
  EditorExact
  LinkExact
  EncodeExact
  AsExact
CHECK_DEADLOCK FALSE
