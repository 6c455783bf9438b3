\* Two creations, patient and impatient hosts.
SPECIFICATION FairSpec
CONSTANTS MaxVm = 2 SeqMod = 4 Patience = {TRUE, FALSE}
INVARIANTS TypeOK RetiringIsExclusive ExecutesTenant StoppedIsPaused
PROPERTIES OnlyStartLosesCommands RetriedDeletionEnds ShutdownEnds
CHECK_DEADLOCK FALSE
