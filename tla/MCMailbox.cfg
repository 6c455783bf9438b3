\* Two warps with enough sends for three laps of a ring of two slots: every
\* reservation past the second reuses a slot, and the senders compete for it.
\* Six words, so that the positions come round.
SPECIFICATION FairSpec
CONSTANTS
  Senders = {s1, s2}
  Slots = 2
  VmIds = {v1, v2}
  FirstOwner = v1
  NoVm = NoVm
  MaxSends = 3
  WordMod = 6
INVARIANTS
  IInv SlotsAreExclusive ReceivedInOrder SenderOrder PinsAreCounted
  WordsTellPositions
PROPERTIES FullOnlyWhenFull ImplementsChannel AcceptedIsReceived
CHECK_DEADLOCK FALSE
