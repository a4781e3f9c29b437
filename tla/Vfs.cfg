SPECIFICATION Spec
CONSTANTS
  Fd = {3, 4}
  HEAP = 9
  Fat = {file}
  Proc = {meminfo}
  Dev = {tty}
  DISK = 2
  SEEK_MAX = 2
  PROC_SIZE = 1
  NULL = NULL
INVARIANTS TypeOK NothingLost EndKnown
CHECK_DEADLOCK FALSE
