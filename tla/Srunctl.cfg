SPECIFICATION Spec
CONSTANTS
  MaxWords = 4
  Retvals = {0, 1, 255}
INVARIANTS TypeOK ModesByOptions FilesBeforeSend 
CHECK_DEADLOCK FALSE
