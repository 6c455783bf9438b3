\* A binding fails after it has occupied the slot.
SPECIFICATION Spec
CONSTANTS
  Capacity = 2
  MaxPrograms = 2
  MaxIds = 3
  Failures = {"publish"}
INVARIANT BoundProgramIsLoaded
CHECK_DEADLOCK FALSE
