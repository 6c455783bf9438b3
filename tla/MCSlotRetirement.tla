-------------------------- MODULE MCSlotRetirement --------------------------
(* A slot that passes through a few VMs, on small instances.               *)
EXTENDS SlotRetirement, TLC

Symmetry == Permutations(Senders)
=============================================================================
