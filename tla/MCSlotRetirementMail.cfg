\* Mail that reaches the ring of a replacement VM.
SPECIFICATION RetirementSpec
CONSTANTS
  Senders = {s1, s2}
  Slots = 2
  VmIds = {1, 2}
  FirstOwner = 1
  NoVm = 0
  MaxSends = 2
  WordMod = 4
  MaxBinds = 3
INVARIANT OnlyOwnMail
CHECK_DEADLOCK FALSE
