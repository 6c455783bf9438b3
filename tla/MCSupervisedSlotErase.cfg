SPECIFICATION Spec
CONSTANTS MaxVm = 2 SeqMod = 4 Patience = {TRUE}
PROPERTY NoCommandErased
CHECK_DEADLOCK FALSE
