SPECIFICATION Spec
CONSTANTS MaxVm = 2 SeqMod = 4 Patience = {TRUE}
INVARIANT HostOwnsSlot
CHECK_DEADLOCK FALSE
