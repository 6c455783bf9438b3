--------------------------- MODULE SlotRetirement ---------------------------
(***************************************************************************)
(* One resident slot passing from VM to VM while other warps send to it.   *)
(* The slot's warp withdraws route and owner and waits for pinned senders  *)
(* (DeactivateVm, runtime/src/gpu/kernel.cu); the host then installs an    *)
(* empty ring and binds the next VM (UnbindSlot and BindSlot of            *)
(* runtime/src/host/persistent.h).  The mailbox is that of Mailbox.        *)
(*                                                                         *)
(* The host here waits for each acknowledgement as long as it takes; its   *)
(* timeouts are in SupervisedSlot.  Its CUDA calls succeed.                    *)
(***************************************************************************)
EXTENDS Mailbox

CONSTANT MaxBinds   \* bound: VMs (or incarnations of one) the slot holds

ASSUME IdsAreNumbers == VmIds \subseteq Nat /\ FirstOwner = 1
ASSUME BindsAssumption == MaxBinds \in Nat \ {0}
\* No more warps than kMaxVms can hold a pin: the count does not come round.
ASSUME PinsFitTheWord == Cardinality(Senders) < WordMod

VARIABLES
  routes,    \* the ids vm_routes maps to this slot
  host,      \* "bound", "waiting" (for the acknowledgement), "empty", "routing"
  warp,      \* the resident warp: "running", "parked", or its place in DeactivateVm
  acked,     \* seq has moved since the host sent Deactivate
  tenant,    \* h_vm_ids[slot]
  resident,  \* states[slot].vm_id
  created,   \* the last id the directory gave out
  binds,
  lostPins   \* history: pins that the last ring installation overwrote

slotVars == <<routes, host, warp, acked, tenant, resident, created, binds, lostPins>>
allVars  == <<vars, slotVars>>

RetirementInit ==
  /\ Init
  /\ routes = {FirstOwner}
  /\ host = "bound"
  /\ warp = "parked"
  /\ acked = FALSE
  /\ tenant = FirstOwner
  /\ resident = FirstOwner
  /\ created = FirstOwner
  /\ binds = 1
  /\ lostPins = 0

-----------------------------------------------------------------------------
\* SEND reads the route of v; without one it faults and sends nothing.
Send(s, v) == v \in routes /\ Call(s, v) /\ UNCHANGED slotVars

\* The owner receives only while its warp executes the program.
Receive == warp = "running" /\ ReceiveStep /\ UNCHANGED slotVars

Run ==
  /\ host = "bound" /\ warp = "parked"
  /\ warp' = "running"
  /\ UNCHANGED <<vars, routes, host, acked, tenant, resident, created, binds, lostPins>>

\* The program halts, or stops at a control point: never inside TRY_RECV.
Park ==
  /\ warp = "running" /\ rpc = "idle"
  /\ warp' = "parked"
  /\ UNCHANGED <<vars, routes, host, acked, tenant, resident, created, binds, lostPins>>

SendDeactivate ==
  /\ host = "bound" /\ warp = "parked"
  /\ host' = "waiting"
  /\ acked' = FALSE
  /\ UNCHANGED <<vars, routes, warp, tenant, resident, created, binds, lostPins>>

-----------------------------------------------------------------------------
(* DeactivateVm, on the slot's own warp *)

\* Fault: the route stays up.
KeepRoute ==
  /\ host = "waiting" /\ warp = "parked" /\ ~acked
  /\ warp' = "owner"
  /\ UNCHANGED <<vars, routes, host, acked, tenant, resident, created, binds, lostPins>>

WithdrawRoute ==
  /\ host = "waiting" /\ warp = "parked" /\ ~acked
  /\ routes' = routes \ {resident}
  /\ warp' = "owner"
  /\ UNCHANGED <<vars, host, acked, tenant, resident, created, binds, lostPins>>

WithdrawOwner ==
  /\ warp = "owner"
  /\ owner_vm_id' = NoVm
  /\ warp' = "drain"
  /\ UNCHANGED <<in_flight_sends, head, tail, sequence, message, sender, reader,
                 reserved, received, routes, host, acked, tenant, resident,
                 created, binds, lostPins>>

\* Fault: the warp does not wait for pinned senders.
NotDrained ==
  /\ warp = "drain"
  /\ warp' = "indices"
  /\ UNCHANGED <<vars, routes, host, acked, tenant, resident, created, binds, lostPins>>

\* The spin loop leaves when it reads no pinned sender.
Drained ==
  /\ warp = "drain"
  /\ in_flight_sends = 0
  /\ warp' = "indices"
  /\ UNCHANGED <<vars, routes, host, acked, tenant, resident, created, binds, lostPins>>

ResetIndices ==
  /\ warp = "indices"
  /\ head' = 0 /\ tail' = 0
  /\ reserved' = <<>> /\ received' = <<>>
  /\ warp' = "slots"
  /\ UNCHANGED <<owner_vm_id, in_flight_sends, sequence, message, sender, reader,
                 routes, host, acked, tenant, resident, created, binds, lostPins>>

\* The lanes clear the entries together.
ClearSlots ==
  /\ warp = "slots"
  /\ sequence' = EmptySequence /\ message' = EmptyMessages
  /\ warp' = "acknowledge"
  /\ UNCHANGED <<owner_vm_id, in_flight_sends, head, tail, sender, reader,
                 reserved, received, routes, host, acked, tenant, resident,
                 created, binds, lostPins>>

Acknowledge ==
  /\ warp = "acknowledge"
  /\ resident' = NoVm
  /\ acked' = TRUE
  /\ warp' = "parked"
  /\ UNCHANGED <<vars, routes, host, tenant, created, binds, lostPins>>

-----------------------------------------------------------------------------
(* The host *)

\* UnbindSlot after the acknowledgement: a copy of a whole empty Mailbox,
\* in_flight_sends included, over the slot's.
InstallRing ==
  /\ host = "waiting" /\ acked
  /\ owner_vm_id' = NoVm
  /\ in_flight_sends' = 0
  /\ lostPins' = Cardinality(Pinned)
  /\ head' = 0 /\ tail' = 0
  /\ sequence' = EmptySequence /\ message' = EmptyMessages
  /\ reserved' = <<>> /\ received' = <<>>
  /\ tenant' = NoVm /\ resident' = NoVm
  /\ host' = "empty"
  /\ UNCHANGED <<sender, reader, routes, warp, acked, created, binds>>

\* BindSlot up to the owner: ResetSlot binds the id it had, a creation a new
\* one, for the directory reuses none.  The state block is uploaded first.
PublishOwner(v) ==
  /\ host = "empty"
  /\ binds < MaxBinds
  /\ v \in {created, created + 1}
  /\ created' = v
  /\ binds' = binds + 1
  /\ tenant' = v /\ resident' = v
  /\ owner_vm_id' = v
  /\ host' = "routing"
  /\ UNCHANGED <<in_flight_sends, head, tail, sequence, message, sender, reader,
                 reserved, received, routes, warp, acked, lostPins>>

PublishRoute ==
  /\ host = "routing"
  /\ routes' = routes \union {tenant}
  /\ host' = "bound"
  /\ UNCHANGED <<vars, warp, acked, tenant, resident, created, binds, lostPins>>

-----------------------------------------------------------------------------
Deactivation ==
  WithdrawRoute \/ WithdrawOwner \/ Drained \/ ResetIndices \/ ClearSlots \/ Acknowledge

Host == SendDeactivate \/ InstallRing \/ PublishRoute \/ \E v \in VmIds : PublishOwner(v)

RetirementNext ==
  \/ \E s \in Senders :
       \/ SendStep(s) /\ UNCHANGED slotVars
       \/ \E v \in VmIds : Send(s, v)
  \/ Receive \/ Run \/ Park
  \/ Deactivation \/ Host

RetirementSpec == RetirementInit /\ [][RetirementNext]_allVars

\* Resident warps are scheduled for ever: none is preempted for good.
FairRetirementSpec ==
  /\ RetirementSpec
  /\ \A s \in Senders : WF_allVars(SendStep(s) /\ UNCHANGED slotVars)
  /\ WF_allVars(Deactivation)

-----------------------------------------------------------------------------
(* Properties *)

\* The variables of slot, warp and host have their types.
RetirementTypeOK ==
  /\ owner_vm_id \in VmIds \union {NoVm}
  /\ in_flight_sends \in 0..(WordMod - 1)
  /\ routes \subseteq VmIds
  /\ host \in {"bound", "waiting", "empty", "routing"}
  /\ warp \in {"running", "parked", "owner", "drain", "indices", "slots", "acknowledge"}
  /\ {tenant, resident} \subseteq VmIds \union {NoVm}
  /\ binds \in 1..MaxBinds

\* Every message in the ring, or received from it, was sent to the VM that
\* holds the slot: a late sender never publishes into a replacement's mailbox
\* (docs/architecture.md:214-216, kernel.cu:75-77).
OnlyOwnMail ==
  tenant # NoVm =>
    /\ \A i \in DOMAIN message : message[i] = NoMessage \/ message[i][3] = tenant
    /\ \A i \in DOMAIN received : received[i] # NoMessage => received[i][3] = tenant

\* The same in every tenancy whose ring was installed over no pin: there the
\* pins and the owner check do keep a VM's mail to itself, and in order.
MailStaysWithItsVm == lostPins = 0 => OnlyOwnMail /\ ReceivedInOrder

\* While the ring is being cleared, and until the slot is bound again, no
\* sender is past its owner check, unless pins are missing from the count.
Validated(s) == pc[s] \in {"head", "sequence", "cas", "write", "publish"}

ClearedRingIsQuiet ==
  lostPins = 0 /\ (warp \in {"indices", "slots", "acknowledge"} \/ host = "empty")
    => \A s \in Senders : ~Validated(s)

\* The pin word is exact but for the pins the last installation overwrote:
\* it is short by their number, and wraps below zero as they are dropped.
PinsAreExact ==
  (in_flight_sends + lostPins) % WordMod = Cardinality(Pinned) % WordMod

\* A sender is refused only if the route it came by is gone again: binding
\* publishes the owner before the route, retiring removes it after.
RefusedOnlyAfterWithdrawal ==
  [][\A s \in Senders :
       pc[s] = "owner" /\ pc'[s] = "refused" => expected[s] \notin routes]_allVars

\* A retirement gets to its acknowledgement if no pin is missing.
RetirementEnds == (warp = "drain") ~> (acked \/ lostPins > 0)
=============================================================================
