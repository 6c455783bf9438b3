\* Three incarnations: one recycled slot shows what a late sender meets, the
\* third what is left of a pin count overwritten at the first recycling.
SPECIFICATION FairRetirementSpec
CONSTANTS
  Senders = {s1, s2}
  Slots = 2
  VmIds = {1, 2}
  FirstOwner = 1
  NoVm = 0
  MaxSends = 2
  WordMod = 4
  MaxBinds = 3
INVARIANTS
  RetirementTypeOK MailStaysWithItsVm ClearedRingIsQuiet PinsAreExact
PROPERTIES RefusedOnlyAfterWithdrawal RetirementEnds
CHECK_DEADLOCK FALSE
