\* Every point of failure.
SPECIFICATION Spec
CONSTANTS
  Capacity = 2
  MaxPrograms = 2
  MaxIds = 3
  Failures = {"timeout", "retire", "upload", "publish"}
INVARIANTS TypeOK ReferencesAreExact DirectoryIsExact RecordsAgree
CHECK_DEADLOCK FALSE
