SPECIFICATION Spec
CONSTANTS MaxVm = 1 SeqMod = 4 Patient = FALSE
PROPERTIES PauseHolds StepIsExact
CHECK_DEADLOCK FALSE
