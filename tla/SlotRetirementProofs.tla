------------------------ MODULE SlotRetirementProofs ------------------------
(***************************************************************************)
(* What pins and owner check guarantee to the VMs that hold a slot in      *)
(* turn, for any number of senders, slots, sends and tenancies.  Where the *)
(* ring was installed over no pin the mailbox keeps the invariant of       *)
(* MailboxProofs through every tenancy; where it was not, only the types,  *)
(* the places of host and warp, and the arithmetic of the pins remain.     *)
(***************************************************************************)
EXTENDS SlotRetirement, MailboxProofs

\* The types that survive a lost pin: an entry may be copied before it is
\* written.
SlotTypeOK ==
  /\ RetirementTypeOK
  /\ head \in Nat /\ tail \in Nat
  /\ sequence \in [0..(Slots - 1) -> Nat]
  /\ message \in [0..(Slots - 1) -> Messages \union {NoMessage}]
  /\ pc \in [Senders -> PinnedPcs \union {"idle", "call"}]
  /\ expected \in [Senders -> VmIds]
  /\ position \in [Senders -> Nat]
  /\ sends \in [Senders -> 0..MaxSends]
  /\ \A s \in Senders : pc[s] # "idle" => sends[s] >= 1
  /\ rpc \in {"idle", "copy", "release", "advance"}
  /\ inbox \in Messages \union {NoMessage}
  /\ reserved \in Seq(Messages)
  /\ received \in Seq(Messages \union {NoMessage})
  /\ acked \in BOOLEAN /\ lostPins \in Nat

-----------------------------------------------------------------------------
(* Where host and warp are.                                                *)

\* The slot is its tenant's until the retirement is acknowledged; the owner
\* word names it from PublishOwner to WithdrawOwner, the route within that.
Held   == host \in {"bound", "routing"} \/ (host = "waiting" /\ ~acked)
Owned  == Held /\ warp \in {"running", "parked", "owner"}
Routed == host # "routing" /\ Held /\ warp \in {"running", "parked"}

PlaceInv ==
  /\ rpc # "idle" => warp = "running"
  /\ warp = "running" => host = "bound"
  /\ warp \notin {"running", "parked"} => host = "waiting" /\ ~acked
  /\ tenant = NoVm <=> host = "empty"
  /\ Held => resident = tenant
  /\ owner_vm_id = IF Owned THEN tenant ELSE NoVm
  /\ routes = IF Routed THEN {tenant} ELSE {}

-----------------------------------------------------------------------------
(* While no pin is missing.                                                *)

\* No sender is past its owner check.
Quiet == \A s \in Senders : ~Validated(s)

\* The warp or the host has the ring to itself.
Clearing ==
  \/ warp \in {"indices", "slots", "acknowledge"}
  \/ host = "waiting" /\ acked
  \/ host = "empty"

\* A message of the tenant's, or none.
Own(m) == m = NoMessage \/ m[3] = tenant

MailInv ==
  /\ Clearing => Quiet
  /\ \A s \in Senders : Validated(s) => expected[s] = tenant
  /\ \A i \in 0..(Slots - 1) : Own(message[i])
  /\ \A i \in 1..Len(received) : Own(received[i])
  /\ rpc \in {"release", "advance"} => Own(inbox)
  /\ host = "empty" => message = EmptyMessages /\ received = <<>>
  /\ warp = "slots" => head = 0 /\ tail = 0 /\ reserved = <<>> /\ received = <<>>
  /\ warp # "slots" => IInv

RetirementInv ==
  /\ SlotTypeOK /\ PlaceInv /\ PinsAreExact
  /\ lostPins = 0 => MailInv

-----------------------------------------------------------------------------
(* The types.                                                              *)

\* A sender's message is one of Messages as soon as it has begun the SEND.
LEMMA PayloadType ==
  ASSUME SlotTypeOK, NEW s \in Senders, pc[s] # "idle"
  PROVE  Payload(s) \in Messages
BY MaxSendsAssumption DEF SlotTypeOK, Payload, Messages

\* An empty ring has the types of a ring.
LEMMA EmptyTypes ==
  /\ EmptySequence \in [0..(Slots - 1) -> Nat]
  /\ EmptyMessages \in [0..(Slots - 1) -> Messages \union {NoMessage}]
BY SlotsAssumption DEF EmptySequence, EmptyMessages

\* A word stays within its width.
LEMMA PinWordType ==
  ASSUME in_flight_sends \in 0..(WordMod - 1)
  PROVE  /\ (in_flight_sends + 1) % WordMod \in 0..(WordMod - 1)
         /\ (in_flight_sends - 1) % WordMod \in 0..(WordMod - 1)
<1>1. in_flight_sends + 1 \in Int /\ in_flight_sends - 1 \in Int BY WordAssumption
<1> QED BY <1>1, WordDivision

\* Initially the first owner holds an empty ring.
LEMMA TypeInit == RetirementInit => SlotTypeOK
<1> SUFFICES ASSUME RetirementInit PROVE SlotTypeOK
  OBVIOUS
<1> USE DEF RetirementInit, Init
<1>1. RetirementTypeOK
  BY OwnerAssumption, WordAssumption, BindsAssumption DEF RetirementTypeOK
<1>2. /\ sends \in [Senders -> 0..MaxSends] /\ pc \in [Senders -> {"idle"}]
      /\ expected \in [Senders -> VmIds] /\ position \in [Senders -> Nat]
  BY OwnerAssumption, MaxSendsAssumption
<1>3. reserved \in Seq(Messages) /\ received \in Seq(Messages \union {NoMessage})
  OBVIOUS
<1> QED BY <1>1, <1>2, <1>3, EmptyTypes DEF SlotTypeOK

\* The types survive every step of SEND.
LEMMA TypeSend ==
  ASSUME SlotTypeOK, NEW s \in Senders,
         SendStep(s) \/ (\E v \in VmIds : Call(s, v)), UNCHANGED slotVars
  PROVE  SlotTypeOK'
<1> USE DEF SlotTypeOK, RetirementTypeOK, slotVars, PinnedPcs
<1>1. ASSUME NEW v \in VmIds, Call(s, v) PROVE SlotTypeOK'
  BY <1>1, MaxSendsAssumption DEF Call, ring, reader
<1>2. CASE Pin(s) BY <1>2, PinWordType DEF Pin, reader
<1>3. CASE CheckOwner(s) BY <1>3 DEF CheckOwner, ring, reader
<1>4. CASE ReadHead(s) BY <1>4 DEF ReadHead, ring, reader
<1>5. CASE ReadSequence(s)
  <2>1. \E p \in {"full", "head", "cas"} : pc' = [pc EXCEPT ![s] = p]
    BY <1>5 DEF ReadSequence
  <2>2. /\ pc' \in [Senders -> PinnedPcs \union {"idle", "call"}]
        /\ \A t \in Senders : pc'[t] # "idle" => sends[t] >= 1
    BY <1>5, <2>1 DEF ReadSequence
  <2> QED BY <1>5, <2>2 DEF ReadSequence, ring, reader
<1>6. CASE ReserveHead(s)
  <2>1. Payload(s) \in Messages BY <1>6, PayloadType DEF ReserveHead
  <2>3. reserved' \in Seq(Messages)
    <3>1. Append(reserved, Payload(s)) \in Seq(Messages)
      <4> HIDE DEF Payload, Messages
      <4>1. reserved \in Seq(Messages) OBVIOUS
      <4> QED BY <2>1, <4>1
    <3> QED BY <1>6, <3>1 DEF ReserveHead
  <2>2. head' \in Nat BY <1>6 DEF ReserveHead
  <2> QED BY <1>6, <2>2, <2>3 DEF ReserveHead, reader
<1>7. CASE WriteMessage(s)
  <2>1. message' \in [0..(Slots - 1) -> Messages \union {NoMessage}]
    BY <1>7, PayloadType DEF WriteMessage
  <2> QED BY <1>7, <2>1 DEF WriteMessage, reader
<1>8. CASE Publish(s)
  <2>1. position[s] + 1 \in Nat
    OBVIOUS
  <2>2. sequence' \in [0..(Slots - 1) -> Nat] BY <1>8, <2>1 DEF Publish
  <2> QED BY <1>8, <2>2 DEF Publish, reader
<1>9. CASE Unpin(s) BY <1>9, PinWordType DEF Unpin, reader
<1> QED BY <1>1, <1>2, <1>3, <1>4, <1>5, <1>6, <1>7, <1>8, <1>9 DEF SendStep

\* ...and every step of TRY_RECV.
LEMMA TypeReceive ==
  ASSUME SlotTypeOK, ReceiveStep, UNCHANGED slotVars
  PROVE  SlotTypeOK'
<1> USE DEF SlotTypeOK, RetirementTypeOK, slotVars
<1>1. CASE FindPublished BY <1>1 DEF FindPublished, ring, sender
<1>2. CASE CopyMessage
  <2>1. inbox' \in Messages \union {NoMessage}
    BY <1>2, Division DEF CopyMessage
  <2> QED BY <1>2, <2>1 DEF CopyMessage, ring, sender
<1>3. CASE ReleaseSlot
  <2>1. tail + Slots \in Nat BY SlotsAssumption
  <2>2. sequence' \in [0..(Slots - 1) -> Nat] BY <1>3, <2>1 DEF ReleaseSlot
  <2> QED BY <1>3, <2>2 DEF ReleaseSlot, sender
<1>4. CASE AdvanceTail BY <1>4 DEF AdvanceTail, sender
<1> QED BY <1>1, <1>2, <1>3, <1>4 DEF ReceiveStep

\* ...and what the slot's warp and the host do to them.
LEMMA TypeSlot ==
  ASSUME SlotTypeOK, PlaceInv, Run \/ Park \/ Deactivation \/ Host \/ UNCHANGED allVars
  PROVE  SlotTypeOK'
<1> USE DEF SlotTypeOK, RetirementTypeOK
<1>1. CASE Run \/ Park \/ SendDeactivate \/ WithdrawRoute
  BY <1>1 DEF Run, Park, SendDeactivate, WithdrawRoute, vars, ring, sender, reader
<1>2. CASE WithdrawOwner \/ Drained \/ Acknowledge
  BY <1>2 DEF WithdrawOwner, Drained, Acknowledge, vars, ring, sender, reader
<1>3. CASE ResetIndices BY <1>3 DEF ResetIndices, sender, reader
<1>4. CASE ClearSlots BY <1>4, EmptyTypes DEF ClearSlots, sender, reader
<1>5. CASE InstallRing
  BY <1>5, EmptyTypes, PinnedFinite, WordAssumption DEF InstallRing, sender, reader
<1>6. ASSUME NEW v \in VmIds, PublishOwner(v) PROVE SlotTypeOK'
  BY <1>6, BindsAssumption DEF PublishOwner, sender, reader
<1>7. CASE PublishRoute
  <2>1. routes' \subseteq VmIds BY <1>7 DEF PublishRoute, PlaceInv
  <2> QED BY <1>7, <2>1 DEF PublishRoute, vars, ring, sender, reader
<1>8. CASE UNCHANGED allVars BY <1>8 DEF allVars, slotVars, vars, ring, sender, reader
<1> QED BY <1>1, <1>2, <1>3, <1>4, <1>5, <1>6, <1>7, <1>8 DEF Deactivation, Host

-----------------------------------------------------------------------------
(* The places of host and warp.                                            *)

\* Initially the slot is bound and its warp parked.
LEMMA PlaceInit == RetirementInit => PlaceInv
BY OwnerAssumption DEF RetirementInit, Init, PlaceInv, Held, Owned, Routed

\* SEND changes none of it.
LEMMA PlaceSend ==
  ASSUME SlotTypeOK, PlaceInv, NEW s \in Senders,
         SendStep(s) \/ (\E v \in VmIds : Call(s, v)), UNCHANGED slotVars
  PROVE  PlaceInv'
<1>1. UNCHANGED <<owner_vm_id, rpc>>
  BY DEF SendStep, Call, Pin, CheckOwner, ReadHead, ReadSequence, ReserveHead, WriteMessage,
         Publish, Unpin, ring, reader
<1> QED BY <1>1 DEF PlaceInv, Held, Owned, Routed, slotVars

\* TRY_RECV is executed by a warp that runs.
LEMMA PlaceReceive ==
  ASSUME SlotTypeOK, PlaceInv, Receive
  PROVE  PlaceInv'
<1>1. UNCHANGED owner_vm_id
  BY DEF Receive, ReceiveStep, FindPublished, CopyMessage, ReleaseSlot, AdvanceTail, ring
<1> QED BY <1>1 DEF Receive, PlaceInv, Held, Owned, Routed, slotVars

\* Retirement and binding take route and owner down and up in that order.
LEMMA PlaceSlot ==
  ASSUME SlotTypeOK, PlaceInv, Run \/ Park \/ Deactivation \/ Host \/ UNCHANGED allVars
  PROVE  PlaceInv'
<1> USE DEF PlaceInv, Held, Owned, Routed
<1> USE DEF SlotTypeOK, RetirementTypeOK
<1>1. CASE Run BY <1>1 DEF Run, vars, ring, reader
<1>2. CASE Park BY <1>2 DEF Park, vars, ring, reader
<1>3. CASE SendDeactivate BY <1>3 DEF SendDeactivate, vars, ring, reader
<1>4. CASE WithdrawRoute BY <1>4 DEF WithdrawRoute, vars, ring, reader
<1>5. CASE WithdrawOwner BY <1>5 DEF WithdrawOwner, reader
<1>6. CASE Drained BY <1>6 DEF Drained, vars, ring, reader
<1>7. CASE ResetIndices \/ ClearSlots BY <1>7 DEF ResetIndices, ClearSlots, reader
<1>8. CASE Acknowledge BY <1>8 DEF Acknowledge, vars, ring, reader
<1>9. CASE InstallRing BY <1>9 DEF InstallRing, reader
<1>10. ASSUME NEW v \in VmIds, PublishOwner(v) PROVE PlaceInv'
  BY <1>10, OwnerAssumption DEF PublishOwner, reader
<1>11. CASE PublishRoute BY <1>11 DEF PublishRoute, vars, ring, reader
<1>12. CASE UNCHANGED allVars BY <1>12 DEF allVars, slotVars, vars, ring, reader
<1> QED BY <1>1, <1>2, <1>3, <1>4, <1>5, <1>6, <1>7, <1>8, <1>9, <1>10, <1>11, <1>12
        DEF Deactivation, Host

-----------------------------------------------------------------------------
(* The pins.                                                               *)

\* Initially there is none.
LEMMA PinsInit == RetirementInit => PinsAreExact
<1> SUFFICES ASSUME RetirementInit PROVE PinsAreExact
  OBVIOUS
<1>1. Pinned = {} BY DEF RetirementInit, Init, Pinned, PinnedPcs
<1> QED BY <1>1, FS_EmptySet DEF PinsAreExact, RetirementInit, Init

\* A step that moves the count and the pinned senders alike.
LEMMA PinsMove ==
  ASSUME SlotTypeOK, PinsAreExact, NEW d \in Int,
         in_flight_sends' = (in_flight_sends + d) % WordMod,
         Cardinality(Pinned') = Cardinality(Pinned) + d, lostPins' = lostPins
  PROVE  PinsAreExact'
<1> DEFINE f == in_flight_sends
           n == Cardinality(Pinned)
<1>1. f \in Int /\ lostPins \in Int /\ n \in Int
  BY PinnedFinite, WordAssumption DEF SlotTypeOK, RetirementTypeOK
<1>2. (f + lostPins) % WordMod = n % WordMod BY DEF PinsAreExact
<1>3. (((f + d) % WordMod) + lostPins) % WordMod = (n + d) % WordMod
  <2> HIDE DEF f, n
  <2>1. (((f + d) % WordMod) + lostPins) % WordMod = ((f + d) + lostPins) % WordMod
    BY <1>1, WordAdd
  <2>2. (((f + lostPins) % WordMod) + d) % WordMod = ((f + lostPins) + d) % WordMod
    BY <1>1, WordAdd
  <2>3. ((n % WordMod) + d) % WordMod = (n + d) % WordMod BY <1>1, WordAdd
  <2>4. (f + d) + lostPins = (f + lostPins) + d BY <1>1
  <2> QED BY <1>2, <2>1, <2>2, <2>3, <2>4
<1> QED BY <1>3 DEF PinsAreExact

\* Every step keeps the arithmetic; the copy of an empty ring loses what it counts.
LEMMA PinsStep ==
  ASSUME SlotTypeOK, PinsAreExact, [RetirementNext]_allVars
  PROVE  PinsAreExact'
<1>1. pc \in [Senders -> PinnedPcs \union {"idle", "call"}] /\ in_flight_sends \in Int
      /\ Cardinality(Pinned) \in Int
  BY PinnedFinite, WordAssumption DEF SlotTypeOK, RetirementTypeOK
<1>2. ASSUME Pinned' = Pinned, UNCHANGED <<in_flight_sends, lostPins>>
      PROVE  PinsAreExact'
  BY <1>2 DEF PinsAreExact
<1>3. ASSUME NEW s \in Senders, UNCHANGED slotVars, Pin(s) PROVE PinsAreExact'
  <2>1. in_flight_sends' = (in_flight_sends + 1) % WordMod BY <1>3 DEF Pin
  <2>2. Cardinality(Pinned') = Cardinality(Pinned) + 1 BY <1>1, <1>3, PinHeld
  <2> QED BY <1>3, <2>1, <2>2, PinsMove DEF slotVars
<1>4. ASSUME NEW s \in Senders, UNCHANGED slotVars, Unpin(s) PROVE PinsAreExact'
  <2>1. in_flight_sends - 1 = in_flight_sends + (-1) BY <1>1
  <2>2. Cardinality(Pinned) - 1 = Cardinality(Pinned) + (-1) BY <1>1
  <2>3. in_flight_sends' = (in_flight_sends - 1) % WordMod BY <1>4 DEF Unpin
  <2>4. Cardinality(Pinned') = Cardinality(Pinned) - 1 BY <1>1, <1>4, UnpinDropped
  <2> QED BY <1>4, <2>1, <2>2, <2>3, <2>4, PinsMove DEF slotVars
<1>5. ASSUME NEW s \in Senders, NEW v \in VmIds, Send(s, v) PROVE PinsAreExact'
  BY <1>1, <1>2, <1>5, PinnedKept DEF Send, slotVars
<1>6. ASSUME NEW s \in Senders, UNCHANGED slotVars,
             CheckOwner(s) \/ ReadHead(s) \/ ReadSequence(s) \/ ReserveHead(s)
             \/ WriteMessage(s) \/ Publish(s)
      PROVE  PinsAreExact'
  BY <1>1, <1>2, <1>6, PinnedKept DEF slotVars
<1>7. CASE Receive
  BY <1>2, <1>7 DEF Receive, slotVars, ReceiveStep, FindPublished, CopyMessage, ReleaseSlot,
                    AdvanceTail, Pinned, ring, sender
<1>8. CASE Run \/ Park \/ Deactivation \/ SendDeactivate \/ PublishRoute
  BY <1>2, <1>8 DEF Run, Park, Deactivation, SendDeactivate, PublishRoute, WithdrawRoute,
     WithdrawOwner, Drained, ResetIndices, ClearSlots, Acknowledge, Pinned, vars, ring, sender
<1>9. ASSUME NEW v \in VmIds, PublishOwner(v) PROVE PinsAreExact'
  BY <1>2, <1>9 DEF PublishOwner, Pinned, sender
<1>10. CASE InstallRing
  <2>1. Pinned' = Pinned /\ in_flight_sends' = 0 /\ lostPins' = Cardinality(Pinned)
    BY <1>10 DEF InstallRing, Pinned, sender
  <2>2. 0 + Cardinality(Pinned) = Cardinality(Pinned) BY <1>1
  <2> QED BY <2>1, <2>2 DEF PinsAreExact
<1>11. CASE UNCHANGED allVars
  BY <1>2, <1>11 DEF allVars, slotVars, vars, ring, sender, Pinned
<1> QED BY <1>3, <1>4, <1>5, <1>6, <1>7, <1>8, <1>9, <1>10, <1>11
        DEF RetirementNext, SendStep, Host

\* With no pin missing, a count of zero means that no sender is under way.
LEMMA CountedOut ==
  ASSUME SlotTypeOK, PinsAreExact, lostPins = 0, in_flight_sends = 0
  PROVE  Pinned = {}
<1> DEFINE n == Cardinality(Pinned)
<1>1. n \in Nat /\ n <= Cardinality(Senders) BY PinnedFinite
<1>2. Cardinality(Senders) \in Nat BY SendersAssumption, FS_CardinalityType
<1>3. n \in 0..(WordMod - 1) /\ 0 \in 0..(WordMod - 1)
  BY <1>1, <1>2, PinsFitTheWord, WordAssumption
<1>4. n % WordMod = 0 % WordMod BY DEF PinsAreExact
<1>5. n = 0
  <2> HIDE DEF n
  <2> QED BY <1>3, <1>4, WordSmall
<1> QED BY <1>5, PinnedFinite, FS_EmptySet

-----------------------------------------------------------------------------
(* The mail.                                                               *)

\* An empty ring that no sender holds a place of has the mailbox's invariant.
LEMMA EmptyRingInv ==
  ASSUME SlotTypeOK, SlotTypeOK', Quiet, rpc = "idle", UNCHANGED <<sender, reader>>,
         head' = 0, tail' = 0, sequence' = EmptySequence, message' = EmptyMessages,
         reserved' = <<>>, received' = <<>>
  PROVE  IInv'
<1> USE DEF sender, reader
<1>1. TypeOK'
  BY DEF SlotTypeOK, RetirementTypeOK, TypeOK
<1>2. RingInv'
  <2>1. \A q \in 0..(Slots - 1) : SlotOf(q) = q
    BY SlotByDivision, SlotsAssumption
  <2> QED BY <2>1, SlotsAssumption
          DEF RingInv, Window, Consumed, EmptySequence, EmptyMessages
<1>3. SenderInv' BY DEF Quiet, Validated, SlotTypeOK, SenderInv, Writing
<1>4. ReaderInv' BY DEF ReaderInv
<1> QED BY <1>1, <1>2, <1>3, <1>4 DEF IInv

\* Initially the ring is the mailbox's.
LEMMA MailInit == RetirementInit => MailInv
<1> SUFFICES ASSUME RetirementInit PROVE MailInv
  OBVIOUS
<1>1. IInv BY InitInv DEF RetirementInit
<1>2. Quiet /\ message = EmptyMessages /\ received = <<>> /\ rpc = "idle"
      /\ warp = "parked" /\ host = "bound"
  BY DEF RetirementInit, Init, Quiet, Validated
<1> QED BY <1>1, <1>2 DEF MailInv, Clearing, Quiet, Own, EmptyMessages

\* A sender gets past its owner check for the tenant only, and not while the
\* ring is cleared.
LEMMA MailSend ==
  ASSUME SlotTypeOK, PlaceInv, MailInv, NEW s \in Senders,
         SendStep(s) \/ (\E v \in VmIds : Call(s, v)), UNCHANGED slotVars
  PROVE  MailInv'
<1> USE DEF slotVars
<1>1. /\ \A t \in Senders : t # s => pc'[t] = pc[t] /\ expected'[t] = expected[t]
      /\ Validated(s)' =>
           /\ expected'[s] = expected[s]
           /\ Validated(s) \/ (owner_vm_id = expected[s] /\ owner_vm_id \in VmIds)
  <2> USE DEF SlotTypeOK, Validated
  <2>1. ASSUME NEW v \in VmIds, Call(s, v)
        PROVE  /\ \A t \in Senders : t # s => pc'[t] = pc[t] /\ expected'[t] = expected[t]
               /\ ~Validated(s)'
    BY <2>1 DEF Call
  <2>2. expected \in [Senders -> VmIds] BY DEF SlotTypeOK
  <2>3. CASE Pin(s) \/ CheckOwner(s) \/ Unpin(s) BY <2>2, <2>3 DEF Pin, CheckOwner, Unpin
  <2>4. CASE ReadHead(s) \/ ReadSequence(s) BY <2>4 DEF ReadHead, ReadSequence
  <2>5. CASE ReserveHead(s) \/ WriteMessage(s) \/ Publish(s)
    BY <2>5 DEF ReserveHead, WriteMessage, Publish
  <2> QED BY <2>1, <2>3, <2>4, <2>5 DEF SendStep
<1>2. Clearing => owner_vm_id = NoVm
  BY DEF Clearing, PlaceInv, Owned, Held
<1>3. owner_vm_id \in VmIds => owner_vm_id = tenant BY OwnerAssumption DEF PlaceInv
<1>4. Clearing' => Quiet'
  <2>1. Clearing' => Clearing BY DEF Clearing
  <2> QED BY <1>1, <1>2, <2>1, OwnerAssumption DEF MailInv, Quiet, Validated
<1>5. \A t \in Senders : Validated(t)' => expected'[t] = tenant'
  <2> TAKE t \in Senders
  <2>1. CASE t = s BY <1>1, <1>3, <2>1 DEF MailInv
  <2>2. CASE t # s BY <1>1, <2>2 DEF MailInv, Validated
  <2> QED BY <2>1, <2>2
<1>6. UNCHANGED <<tail, received, rpc, inbox>>
  BY DEF SendStep, Call, Pin, CheckOwner, ReadHead, ReadSequence, ReserveHead, WriteMessage,
         Publish, Unpin, ring, reader
<1>7. message' = message \/ (Validated(s) /\ message' = [message EXCEPT ![SlotOf(position[s])] = Payload(s)])
  BY DEF SendStep, Call, Pin, CheckOwner, ReadHead, ReadSequence, ReserveHead, WriteMessage,
         Publish, Unpin, ring, Validated
<1>8. \A i \in 0..(Slots - 1) : Own(message[i])'
  <2>1. Validated(s) => Payload(s)[3] = tenant BY DEF MailInv, Payload
  <2> QED BY <1>7, <2>1 DEF MailInv, Own, SlotTypeOK
<1>9. Clearing => UNCHANGED <<head, message, reserved>>
  <2>1. Clearing => ~Validated(s) BY DEF MailInv, Quiet
  <2> QED BY <2>1 DEF Validated, SendStep, Call, Pin, CheckOwner, ReadHead, ReadSequence,
         ReserveHead, WriteMessage, Publish, Unpin, ring
<1>10. warp' # "slots" => IInv'
  <2>1. [Next]_vars BY DEF Next
  <2> QED BY <2>1, StepInv DEF MailInv
<1> QED BY <1>4, <1>5, <1>6, <1>8, <1>9, <1>10 DEF MailInv, Own, Clearing

\* What the owner receives is a message of its own.
LEMMA MailReceive ==
  ASSUME SlotTypeOK, PlaceInv, MailInv, Receive
  PROVE  MailInv'
<1> USE DEF slotVars
<1>1. warp = "running" /\ host = "bound" /\ ReceiveStep /\ UNCHANGED slotVars
  BY DEF Receive, PlaceInv
<1>2. UNCHANGED <<pc, expected, message>>
  BY <1>1 DEF ReceiveStep, FindPublished, CopyMessage, ReleaseSlot, AdvanceTail, ring, sender
<1>3. IInv'
  <2>1. [Next]_vars BY <1>1 DEF Next
  <2> QED BY <1>1, <2>1, StepInv DEF MailInv
<1>4. rpc' \in {"release", "advance"} => Own(inbox)'
  <2>1. CASE CopyMessage
    <3>1. SlotOf(tail) \in 0..(Slots - 1) BY Division DEF SlotTypeOK
    <3> QED BY <1>1, <2>1, <3>1 DEF CopyMessage, MailInv, Own
  <2>2. CASE ~CopyMessage
    BY <1>1, <2>2 DEF ReceiveStep, FindPublished, ReleaseSlot, AdvanceTail, MailInv, Own
  <2> QED BY <2>1, <2>2
<1>5. \A i \in 1..Len(received') : Own(received[i])'
  <2>1. CASE AdvanceTail
    <3>1. rpc = "advance" /\ received' = Append(received, inbox) BY <2>1 DEF AdvanceTail
    <3>2. Own(inbox) BY <3>1 DEF MailInv
    <3>3. Len(received') = Len(received) + 1 /\ Len(received) \in Nat
          /\ received'[Len(received) + 1] = inbox
          /\ \A i \in 1..Len(received) : received'[i] = received[i]
      BY <3>1 DEF SlotTypeOK
    <3> QED BY <1>1, <3>2, <3>3 DEF MailInv, Own
  <2>2. CASE ~AdvanceTail
    <3>1. received' = received
      BY <1>1, <2>2 DEF ReceiveStep, FindPublished, CopyMessage, ReleaseSlot
    <3> QED BY <1>1, <3>1 DEF MailInv, Own
  <2> QED BY <2>1, <2>2
<1> QED BY <1>1, <1>2, <1>3, <1>4, <1>5 DEF MailInv, Clearing, Quiet, Validated, Own

\* The ring passes to the next tenant empty, and only when no sender holds a
\* place of it.
LEMMA MailSlot ==
  ASSUME SlotTypeOK, SlotTypeOK', PlaceInv, PinsAreExact, lostPins = 0 => MailInv,
         lostPins' = 0, Run \/ Park \/ Deactivation \/ Host \/ UNCHANGED allVars
  PROVE  MailInv'
<1>1. ASSUME MailInv, UNCHANGED <<vars, tenant>>, Clearing' => Clearing \/ Quiet,
             warp' = "slots" <=> warp = "slots", host' = "empty" => host = "empty"
      PROVE  MailInv'
  <2>1. IInv => IInv' BY <1>1, StutterInv
  <2> QED BY <1>1, <2>1
      DEF MailInv, vars, ring, sender, reader, Quiet, Validated, Own, Clearing
<1>2. CASE Run \/ Park \/ SendDeactivate
  BY <1>1, <1>2 DEF Run, Park, SendDeactivate, Clearing
<1>3. CASE WithdrawRoute BY <1>1, <1>3 DEF WithdrawRoute, Clearing
<1>4. CASE WithdrawOwner
  <2>1. MailInv /\ warp = "owner" BY <1>4 DEF WithdrawOwner
  <2>2. IInv' BY <1>4, <2>1, OwnerAssumption
    DEF WithdrawOwner, MailInv, IInv, TypeOK, RingInv, SenderInv, ReaderInv, Window, Consumed,
        Writing, Payload, sender, reader
  <2> QED BY <1>4, <2>1, <2>2
      DEF WithdrawOwner, MailInv, Clearing, Quiet, Validated, Own, sender, reader
<1>5. CASE Drained
  <2>1. in_flight_sends = 0 /\ lostPins = 0 BY <1>5 DEF Drained
  <2>2. Quiet BY <2>1, CountedOut DEF Quiet, Validated, Pinned, PinnedPcs
  <2> QED BY <1>1, <1>5, <2>1, <2>2 DEF Drained, Clearing
<1>6. CASE ResetIndices
  <2>1. MailInv /\ Clearing BY <1>6 DEF ResetIndices, Clearing
  <2> QED BY <1>6, <2>1
      DEF ResetIndices, MailInv, Clearing, Quiet, Validated, Own, PlaceInv, sender, reader
<1>7. CASE ClearSlots
  <2>1. MailInv /\ Clearing /\ warp = "slots" BY <1>7 DEF ClearSlots, Clearing
  <2>2. head' = 0 /\ tail' = 0 /\ reserved' = <<>> /\ received' = <<>>
    BY <1>7, <2>1 DEF ClearSlots, MailInv
  <2>3. rpc = "idle" BY <2>1 DEF PlaceInv
  <2>4. IInv' BY <1>7, <2>1, <2>2, <2>3, EmptyRingInv DEF ClearSlots, MailInv
  <2> QED BY <1>7, <2>1, <2>2, <2>3, <2>4
      DEF ClearSlots, MailInv, Clearing, Quiet, Validated, Own, EmptyMessages, PlaceInv, sender, reader
<1>8. CASE Acknowledge
  BY <1>1, <1>8 DEF Acknowledge, Clearing
<1>9. CASE InstallRing
  <2>1. Pinned = {} BY <1>9, PinnedFinite, FS_EmptySet DEF InstallRing
  <2>2. Quiet BY <2>1 DEF Quiet, Validated, Pinned, PinnedPcs
  <2>3. rpc = "idle" /\ warp = "parked" BY <1>9 DEF InstallRing, PlaceInv
  <2>4. IInv' BY <1>9, <2>2, <2>3, EmptyRingInv DEF InstallRing
  <2> QED BY <1>9, <2>2, <2>3, <2>4
      DEF InstallRing, MailInv, Clearing, Quiet, Validated, Own, EmptyMessages, sender, reader
<1>10. ASSUME NEW v \in VmIds, PublishOwner(v) PROVE MailInv'
  <2>1. MailInv /\ host = "empty" BY <1>10 DEF PublishOwner
  <2>2. Quiet /\ message = EmptyMessages /\ received = <<>>
        /\ rpc = "idle" /\ warp = "parked"
    BY <2>1 DEF MailInv, Clearing, PlaceInv
  <2>3. IInv' BY <1>10, <2>1, <2>2
    DEF PublishOwner, MailInv, IInv, TypeOK, RingInv, SenderInv, ReaderInv, Window, Consumed,
        Writing, Payload, sender, reader
  <2> QED BY <1>10, <2>2, <2>3
      DEF PublishOwner, MailInv, Clearing, Quiet, Validated, Own, EmptyMessages, sender, reader
<1>11. CASE PublishRoute BY <1>1, <1>11 DEF PublishRoute, Clearing
<1>12. CASE UNCHANGED allVars BY <1>1, <1>12 DEF allVars, slotVars, Clearing
<1> QED BY <1>2, <1>3, <1>4, <1>5, <1>6, <1>7, <1>8, <1>9, <1>10, <1>11, <1>12
        DEF Deactivation, Host

-----------------------------------------------------------------------------
(* The invariant and the properties.                                       *)

\* The steps of the system, by who takes them.
LEMMA Steps ==
  ASSUME [RetirementNext]_allVars
  PROVE  \/ \E s \in Senders :
              /\ SendStep(s) \/ (\E v \in VmIds : Call(s, v))
              /\ UNCHANGED slotVars
         \/ Receive
         \/ Run \/ Park \/ Deactivation \/ Host \/ UNCHANGED allVars
BY DEF RetirementNext, Send

\* Every step of the system or a stutter keeps the inductive invariant.
LEMMA RetirementStep == RetirementInv /\ [RetirementNext]_allVars => RetirementInv'
<1> SUFFICES ASSUME RetirementInv, [RetirementNext]_allVars PROVE RetirementInv'
  OBVIOUS
<1> USE DEF RetirementInv
<1>1. PinsAreExact' BY PinsStep
<1>2. ASSUME NEW s \in Senders,
             SendStep(s) \/ (\E v \in VmIds : Call(s, v)), UNCHANGED slotVars
      PROVE  RetirementInv'
  <2>1. SlotTypeOK' BY <1>2, TypeSend
  <2>2. PlaceInv' BY <1>2, PlaceSend
  <2>3. lostPins' = 0 => MailInv' BY <1>2, MailSend DEF slotVars
  <2> QED BY <1>1, <2>1, <2>2, <2>3
<1>3. CASE Receive
  <2>1. SlotTypeOK' BY <1>3, TypeReceive DEF Receive
  <2>2. PlaceInv' BY <1>3, PlaceReceive
  <2>3. lostPins' = 0 => MailInv' BY <1>3, MailReceive DEF Receive, slotVars
  <2> QED BY <1>1, <2>1, <2>2, <2>3
<1>4. CASE Run \/ Park \/ Deactivation \/ Host \/ UNCHANGED allVars
  <2>1. SlotTypeOK' BY <1>4, TypeSlot
  <2>2. PlaceInv' BY <1>4, PlaceSlot
  <2>3. lostPins' = 0 => MailInv' BY <1>4, <2>1, MailSlot
  <2> QED BY <1>1, <2>1, <2>2, <2>3
<1> QED BY <1>2, <1>3, <1>4, Steps

\* Every reachable state satisfies the inductive invariant.
THEOREM RetirementInvariance == RetirementSpec => []RetirementInv
<1>1. RetirementInit => RetirementInv
  BY TypeInit, PlaceInit, PinsInit, MailInit DEF RetirementInv
<1> QED BY <1>1, RetirementStep, PTL DEF RetirementSpec

\* The words of the slot keep their types through every tenancy.
THEOREM RetirementTypes == RetirementSpec => []RetirementTypeOK
<1>1. RetirementInv => RetirementTypeOK BY DEF RetirementInv, SlotTypeOK
<1> QED BY <1>1, RetirementInvariance, PTL

\* The pin word is short by exactly the pins that UnbindSlot's copy of an
\* empty mailbox overwrote (persistent.h), modulo its width.
THEOREM PinsArithmetic == RetirementSpec => []PinsAreExact
<1>1. RetirementInv => PinsAreExact BY DEF RetirementInv
<1> QED BY <1>1, RetirementInvariance, PTL

\* Where no pin is missing, DeactivateVm and the host have the ring to
\* themselves while they clear it.
THEOREM RingClearedAlone == RetirementSpec => []ClearedRingIsQuiet
<1>1. RetirementInv => ClearedRingIsQuiet
  BY DEF RetirementInv, ClearedRingIsQuiet, MailInv, Clearing, Quiet
<1> QED BY <1>1, RetirementInvariance, PTL

\* In every tenancy whose ring was installed over no pin, a VM receives what
\* was sent to it, in order, and nothing else.
THEOREM MailDelivered == RetirementSpec => []MailStaysWithItsVm
<1>1. RetirementInv => MailStaysWithItsVm
  <2> SUFFICES ASSUME RetirementInv, lostPins = 0 PROVE OnlyOwnMail /\ ReceivedInOrder
    BY DEF MailStaysWithItsVm
  <2>1. MailInv BY DEF RetirementInv
  <2>2. OnlyOwnMail
    <3>1. DOMAIN message = 0..(Slots - 1) /\ DOMAIN received = 1..Len(received)
      BY DEF RetirementInv, SlotTypeOK
    <3> QED BY <2>1, <3>1 DEF MailInv, Own, OnlyOwnMail
  <2>3. CASE warp = "slots"
    <3>1. received = <<>> /\ reserved = <<>> BY <2>1, <2>3 DEF MailInv
    <3>2. Len(received) = 0 /\ Len(reserved) = 0 BY <3>1
    <3> QED BY <2>2, <3>2 DEF ReceivedInOrder
  <2>4. CASE warp # "slots"
    <3>1. IInv BY <2>1, <2>4 DEF MailInv
    <3>2. /\ Len(received) = tail /\ tail \in Nat /\ head \in Nat
          /\ Consumed <= head /\ Len(reserved) = head
      BY <3>1 DEF IInv, ReaderInv, RingInv, TypeOK
    <3>3. tail <= head BY <3>2 DEF Consumed
    <3> QED BY <2>2, <3>1, <3>2, <3>3 DEF ReceivedInOrder, IInv, ReaderInv
  <2> QED BY <2>3, <2>4
<1> QED BY <1>1, RetirementInvariance, PTL

\* A sender whose call is refused came by a route that is gone again.
LEMMA RefusalStep ==
  ASSUME RetirementInv, [RetirementNext]_allVars, NEW s \in Senders,
         pc[s] = "owner", pc'[s] = "refused"
  PROVE  expected[s] \notin routes
<1>1. pc \in [Senders -> PinnedPcs \union {"idle", "call"}] /\ expected \in [Senders -> VmIds]
  BY DEF RetirementInv, SlotTypeOK
<1>2. owner_vm_id # expected[s]
  <2>1. UNCHANGED pc => FALSE
    OBVIOUS
  <2>2. Receive \/ Run \/ Park \/ Deactivation \/ Host \/ UNCHANGED allVars => UNCHANGED pc
    BY DEF Receive, ReceiveStep, FindPublished, CopyMessage, ReleaseSlot, AdvanceTail, Run, Park,
       Deactivation, WithdrawRoute, WithdrawOwner, Drained, ResetIndices, ClearSlots,
       Acknowledge, Host, SendDeactivate, InstallRing, PublishOwner, PublishRoute,
       allVars, vars, sender
  <2>3. ASSUME NEW t \in Senders, SendStep(t) \/ (\E v \in VmIds : Call(t, v))
        PROVE  owner_vm_id # expected[s]
    <3>1. CASE t # s
      <4>1. pc'[s] = pc[s]
        BY <1>1, <2>3, <3>1 DEF SendStep, Call, Pin, CheckOwner, ReadHead, ReadSequence,
           ReserveHead, WriteMessage, Publish, Unpin
      <4> QED BY <4>1
    <3>2. CASE t = s
      <4>1. CheckOwner(s)
        BY <2>3, <3>2 DEF SendStep, Call, Pin, ReadHead, ReadSequence,
           ReserveHead, WriteMessage, Publish, Unpin
      <4> QED BY <1>1, <4>1 DEF CheckOwner
    <3> QED BY <3>1, <3>2
  <2> QED BY <2>1, <2>2, <2>3, Steps
<1>3. routes \subseteq {owner_vm_id}
  BY DEF RetirementInv, PlaceInv, Routed, Owned
<1> QED BY <1>2, <1>3

\* BindSlot publishes the owner before the route and DeactivateVm withdraws the
\* route before the owner, so a refused SEND is one that a retirement overtook.
THEOREM RefusalIsLate == RetirementSpec => RefusedOnlyAfterWithdrawal
<1>1. RetirementInv /\ [RetirementNext]_allVars =>
        [\A s \in Senders :
           pc[s] = "owner" /\ pc'[s] = "refused" => expected[s] \notin routes]_allVars
  BY RefusalStep
<1> QED BY <1>1, RetirementInvariance, PTL DEF RetirementSpec, RefusedOnlyAfterWithdrawal
=============================================================================
