------------------------------ MODULE Mailbox ------------------------------
(***************************************************************************)
(* The inbound mailbox of one resident VM (runtime/src/gpu/warpvm.cuh):    *)
(* a bounded ring to which any warp may send and from which only the warp  *)
(* that owns the slot receives.  The actions follow MailboxTrySend and     *)
(* MailboxTryReceive one shared-memory access at a time; what a warp does  *)
(* with its own registers between two accesses belongs to the first.       *)
(*                                                                         *)
(* Positions are natural numbers here; the code keeps them in 32-bit words *)
(* and compares those.  WordsTellPositions says when that is the same.     *)
(***************************************************************************)
EXTENDS Integers, Sequences, FiniteSets

CONSTANTS
  Senders,     \* warps that execute SEND
  Slots,       \* kMailboxSlots
  VmIds,       \* logical VM ids a sender may name
  FirstOwner,  \* the VM bound to the slot when the run starts
  NoVm,        \* kInvalidVmId
  MaxSends,    \* bound: SENDs executed by one warp
  WordMod      \* 2^32, the modulus of in_flight_sends, positions and sequences

\* With one slot a published entry and the free entry of the next lap carry
\* the same sequence number; the algorithm needs two (the code has sixteen).
ASSUME SlotsAssumption    == Slots \in Nat /\ Slots >= 2
ASSUME OwnerAssumption    == FirstOwner \in VmIds /\ NoVm \notin VmIds
ASSUME MaxSendsAssumption == MaxSends \in Nat
ASSUME SendersAssumption  == IsFiniteSet(Senders)
ASSUME WordAssumption     == WordMod \in Nat /\ WordMod > 0
\* Otherwise the slot of a position would not be that of its word.
ASSUME LapAssumption      == WordMod % Slots = 0

VARIABLES
  owner_vm_id, in_flight_sends, head, tail,  \* struct Mailbox
  sequence, message,                         \* its slots
  pc,         \* where each sender stands in MailboxTrySend
  expected,   \* the expected_owner argument of its call
  position,   \* its local position
  sends,      \* SENDs it has begun: the current one is the sends[s]-th
  rpc,        \* where the owner stands in MailboxTryReceive
  inbox,      \* the message it copied out
  reserved,   \* history: the message of each position, in order
  received    \* history: the messages the owner received, in order

ring   == <<owner_vm_id, in_flight_sends, head, tail, sequence, message>>
sender == <<pc, expected, position, sends>>
reader == <<rpc, inbox>>
vars   == <<ring, sender, reader, reserved, received>>

NoMessage == <<>>                   \* a zeroed Message
SlotOf(p) == p % Slots

\* The word that holds a position or a sequence number.
Word(p) == p % WordMod

\* Fault: the difference of two words is not taken as signed.
UnsignedDifference(q, p) == (Word(q) - Word(p)) % WordMod

\* static_cast<int32_t> of the difference of two words.
Difference(q, p) ==
  LET d == (Word(q) - Word(p)) % WordMod
  IN  IF d < WordMod \div 2 THEN d ELSE d - WordMod

\* A message names its sender; which of its sends it is, and to whom, is
\* history that tells messages apart.
Messages   == Senders \X (1..MaxSends) \X VmIds
Payload(s) == <<s, sends[s], expected[s]>>

\* The slots of an empty ring: entry i waits for position i.
EmptySequence == [i \in 0..(Slots - 1) |-> i]
EmptyMessages == [i \in 0..(Slots - 1) |-> NoMessage]

Init ==
  /\ owner_vm_id = FirstOwner
  /\ in_flight_sends = 0
  /\ head = 0
  /\ tail = 0
  /\ sequence = EmptySequence
  /\ message = EmptyMessages
  /\ pc = [s \in Senders |-> "idle"]
  /\ expected = [s \in Senders |-> FirstOwner]
  /\ position = [s \in Senders |-> 0]
  /\ sends = [s \in Senders |-> 0]
  /\ rpc = "idle"
  /\ inbox = NoMessage
  /\ reserved = <<>>
  /\ received = <<>>

-----------------------------------------------------------------------------
(* MailboxTrySend *)

\* SEND has found this mailbox in the route directory under the id v.
Call(s, v) ==
  /\ pc[s] = "idle"
  /\ sends[s] < MaxSends
  /\ pc' = [pc EXCEPT ![s] = "call"]
  /\ expected' = [expected EXCEPT ![s] = v]
  /\ sends' = [sends EXCEPT ![s] = @ + 1]
  /\ UNCHANGED <<ring, position, reader, reserved, received>>

\* Pin the mailbox before looking at its owner.
Pin(s) ==
  /\ pc[s] = "call"
  /\ in_flight_sends' = (in_flight_sends + 1) % WordMod
  /\ pc' = [pc EXCEPT ![s] = "owner"]
  /\ UNCHANGED <<owner_vm_id, head, tail, sequence, message, expected,
                 position, sends, reader, reserved, received>>

\* Fault: the owner is not looked at.
CheckNoOwner(s) ==
  /\ pc[s] = "owner"
  /\ pc' = [pc EXCEPT ![s] = "head"]
  /\ UNCHANGED <<ring, expected, position, sends, reader, reserved, received>>

CheckOwner(s) ==
  /\ pc[s] = "owner"
  /\ pc' = [pc EXCEPT ![s] = IF owner_vm_id = expected[s] THEN "head"
                                                          ELSE "refused"]
  /\ UNCHANGED <<ring, expected, position, sends, reader, reserved, received>>

ReadHead(s) ==
  /\ pc[s] = "head"
  /\ position' = [position EXCEPT ![s] = head]
  /\ pc' = [pc EXCEPT ![s] = "sequence"]
  /\ UNCHANGED <<ring, expected, sends, reader, reserved, received>>

\* Fault: an entry of the previous lap does not stop the sender.
ReadSequenceNeverFull(s) ==
  /\ pc[s] = "sequence"
  /\ pc' = [pc EXCEPT ![s] =
       IF sequence[SlotOf(position[s])] > position[s] THEN "head" ELSE "cas"]
  /\ UNCHANGED <<ring, expected, position, sends, reader, reserved, received>>

\* Fault: a position overtaken by another sender is taken for a full ring.
ReadSequenceNoRetry(s) ==
  /\ pc[s] = "sequence"
  /\ pc' = [pc EXCEPT ![s] =
       IF sequence[SlotOf(position[s])] = position[s] THEN "cas" ELSE "full"]
  /\ UNCHANGED <<ring, expected, position, sends, reader, reserved, received>>

\* Behind the position: the entry of the previous lap is still there, the
\* ring is full.  Ahead of it: another sender moved head, start over.
ReadSequence(s) ==
  /\ pc[s] = "sequence"
  /\ LET difference == sequence[SlotOf(position[s])] - position[s] IN
       \/ difference < 0 /\ pc' = [pc EXCEPT ![s] = "full"]
       \/ difference > 0 /\ pc' = [pc EXCEPT ![s] = "head"]
       \/ difference = 0 /\ pc' = [pc EXCEPT ![s] = "cas"]
  /\ UNCHANGED <<ring, expected, position, sends, reader, reserved, received>>

\* Fault: head is stored, not compared and swapped.
StoreHead(s) ==
  /\ pc[s] = "cas"
  /\ head' = position[s] + 1
  /\ reserved' = Append(reserved, Payload(s))
  /\ pc' = [pc EXCEPT ![s] = "write"]
  /\ UNCHANGED <<owner_vm_id, in_flight_sends, tail, sequence, message,
                 expected, position, sends, reader, received>>

\* Fault: the reservation publishes the slot, before the message is there.
ReserveAndPublish(s) ==
  /\ pc[s] = "cas" /\ head = position[s]
  /\ head' = position[s] + 1
  /\ reserved' = Append(reserved, Payload(s))
  /\ sequence' = [sequence EXCEPT ![SlotOf(position[s])] = position[s] + 1]
  /\ pc' = [pc EXCEPT ![s] = "write"]
  /\ UNCHANGED <<owner_vm_id, in_flight_sends, tail, message,
                 expected, position, sends, reader, received>>

\* The compare-and-swap on head either reserves the position or starts over.
ReserveHead(s) ==
  /\ pc[s] = "cas"
  /\ \/ /\ head = position[s]
        /\ head' = position[s] + 1
        /\ reserved' = Append(reserved, Payload(s))
        /\ pc' = [pc EXCEPT ![s] = "write"]
     \/ /\ head # position[s]
        /\ pc' = [pc EXCEPT ![s] = "head"]
        /\ UNCHANGED <<head, reserved>>
  /\ UNCHANGED <<owner_vm_id, in_flight_sends, tail, sequence, message,
                 expected, position, sends, reader, received>>

WriteMessage(s) ==
  /\ pc[s] = "write"
  /\ message' = [message EXCEPT ![SlotOf(position[s])] = Payload(s)]
  /\ pc' = [pc EXCEPT ![s] = "publish"]
  /\ UNCHANGED <<owner_vm_id, in_flight_sends, head, tail, sequence,
                 expected, position, sends, reader, reserved, received>>

\* Fault: the slot keeps the sequence of an empty one.
PublishUnmarked(s) ==
  /\ pc[s] = "publish"
  /\ sequence' = [sequence EXCEPT ![SlotOf(position[s])] = position[s]]
  /\ pc' = [pc EXCEPT ![s] = "sent"]
  /\ UNCHANGED <<owner_vm_id, in_flight_sends, head, tail, message,
                 expected, position, sends, reader, reserved, received>>

Publish(s) ==
  /\ pc[s] = "publish"
  /\ sequence' = [sequence EXCEPT ![SlotOf(position[s])] = position[s] + 1]
  /\ pc' = [pc EXCEPT ![s] = "sent"]
  /\ UNCHANGED <<owner_vm_id, in_flight_sends, head, tail, message,
                 expected, position, sends, reader, reserved, received>>

\* Fault: a refused sender leaves its pin behind.
UnpinUnlessRefused(s) ==
  /\ pc[s] \in {"refused", "full", "sent"}
  /\ in_flight_sends' =
       IF pc[s] = "refused" THEN in_flight_sends ELSE (in_flight_sends - 1) % WordMod
  /\ pc' = [pc EXCEPT ![s] = "idle"]
  /\ UNCHANGED <<owner_vm_id, head, tail, sequence, message, expected,
                 position, sends, reader, reserved, received>>

\* Fault: a signed count, from which a refused sender drops its pin twice.
UnpinTwice(s) ==
  /\ pc[s] \in {"refused", "full", "sent"}
  /\ in_flight_sends' = in_flight_sends - (IF pc[s] = "refused" THEN 2 ELSE 1)
  /\ pc' = [pc EXCEPT ![s] = "idle"]
  /\ UNCHANGED <<owner_vm_id, head, tail, sequence, message, expected,
                 position, sends, reader, reserved, received>>

\* All three ways out of the call drop the pin.
Unpin(s) ==
  /\ pc[s] \in {"refused", "full", "sent"}
  /\ in_flight_sends' = (in_flight_sends - 1) % WordMod
  /\ pc' = [pc EXCEPT ![s] = "idle"]
  /\ UNCHANGED <<owner_vm_id, head, tail, sequence, message, expected,
                 position, sends, reader, reserved, received>>

-----------------------------------------------------------------------------
(* MailboxTryReceive.  A poll that finds nothing published changes nothing. *)

FindPublished ==
  /\ rpc = "idle"
  /\ sequence[SlotOf(tail)] = tail + 1
  /\ rpc' = "copy"
  /\ UNCHANGED <<ring, sender, inbox, reserved, received>>

CopyMessage ==
  /\ rpc = "copy"
  /\ inbox' = message[SlotOf(tail)]
  /\ rpc' = "release"
  /\ UNCHANGED <<ring, sender, reserved, received>>

\* Fault: the slot is released for a position it never takes.
ReleaseShort ==
  /\ rpc = "release"
  /\ sequence' = [sequence EXCEPT ![SlotOf(tail)] = tail + Slots - 1]
  /\ rpc' = "advance"
  /\ UNCHANGED <<owner_vm_id, in_flight_sends, head, tail, message, sender,
                 inbox, reserved, received>>

ReleaseSlot ==
  /\ rpc = "release"
  /\ sequence' = [sequence EXCEPT ![SlotOf(tail)] = tail + Slots]
  /\ rpc' = "advance"
  /\ UNCHANGED <<owner_vm_id, in_flight_sends, head, tail, message, sender,
                 inbox, reserved, received>>

AdvanceTail ==
  /\ rpc = "advance"
  /\ tail' = tail + 1
  /\ received' = Append(received, inbox)
  /\ rpc' = "idle"
  /\ UNCHANGED <<owner_vm_id, in_flight_sends, head, sequence, message,
                 sender, inbox, reserved>>

-----------------------------------------------------------------------------
SendStep(s) ==
  \/ Pin(s) \/ CheckOwner(s) \/ ReadHead(s) \/ ReadSequence(s)
  \/ ReserveHead(s) \/ WriteMessage(s) \/ Publish(s) \/ Unpin(s)

ReceiveStep == FindPublished \/ CopyMessage \/ ReleaseSlot \/ AdvanceTail

Next ==
  \/ \E s \in Senders : SendStep(s) \/ \E v \in VmIds : Call(s, v)
  \/ ReceiveStep

Spec == Init /\ [][Next]_vars

\* Every resident warp keeps being scheduled, and the owner keeps polling.
FairSpec ==
  Spec /\ (\A s \in Senders : WF_vars(SendStep(s))) /\ WF_vars(ReceiveStep)

-----------------------------------------------------------------------------
(* Properties *)

PinnedPcs == {"owner", "refused", "head", "sequence", "full", "cas",
              "write", "publish", "sent"}
Pinned    == {s \in Senders : pc[s] \in PinnedPcs}

\* Every variable of the mailbox and of the two protocols has its type.
TypeOK ==
  /\ owner_vm_id \in VmIds \union {NoVm}
  /\ in_flight_sends \in 0..(WordMod - 1)
  /\ head \in Nat /\ tail \in Nat
  /\ sequence \in [0..(Slots - 1) -> Nat]
  /\ message \in [0..(Slots - 1) -> Messages \union {NoMessage}]
  /\ pc \in [Senders -> PinnedPcs \union {"idle", "call"}]
  /\ expected \in [Senders -> VmIds]
  /\ position \in [Senders -> Nat]
  /\ sends \in [Senders -> 0..MaxSends]
  /\ rpc \in {"idle", "copy", "release", "advance"}
  /\ inbox \in Messages \union {NoMessage}
  /\ reserved \in Seq(Messages)
  /\ received \in Seq(Messages)

\* A position is consumed once its slot is released for the next lap.
Consumed == IF rpc = "advance" THEN tail + 1 ELSE tail

Writing(s) == pc[s] \in {"write", "publish"}

\* Two warps never hold the same slot for writing, and none writes the slot
\* the owner is copying: no message is torn (warpvm.cuh:53-56).
SlotsAreExclusive ==
  /\ \A s, t \in Senders :
       s # t /\ Writing(s) /\ Writing(t)
         => SlotOf(position[s]) # SlotOf(position[t])
  /\ rpc \in {"copy", "release"} =>
       \A s \in Senders : Writing(s) => SlotOf(position[s]) # SlotOf(tail)

\* The owner receives every accepted message once, in the order of the
\* reservations: none lost, repeated, overwritten or taken half-written.
ReceivedInOrder ==
  /\ Len(received) <= Len(reserved)
  /\ \A i \in 1..Len(received) : received[i] = reserved[i]

\* Messages of one sender reach the owner in the order of its SENDs.
SenderOrder ==
  \A i, j \in 1..Len(received) :
    i < j /\ received[i][1] = received[j][1] => received[i][2] < received[j][2]

\* The pin count is the number of calls under way, so it reads zero only
\* when no sender is between its pin and its unpin.
PinsAreCounted ==
  in_flight_sends = Cardinality(Pinned) % WordMod

\* SEND reports a full ring only if at that moment every slot is reserved or
\* holds a message the owner has not consumed, however stale its position.
FullOnlyWhenFull ==
  [][\A s \in Senders :
       pc[s] = "sequence" /\ pc'[s] = "full" => head - Consumed = Slots]_vars

\* A position's word still says what the position would: which entry of the
\* ring is its own, whether that is full, free or overtaken, and whether head
\* has moved (warpvm.cuh:92-104).  A sender may sleep through half the words,
\* less a lap, before it compares, and through all but one before it swaps.
WordsTellPositions ==
  \A s \in Senders :
    LET overslept == head - position[s]
        found     == sequence[SlotOf(position[s])]
    IN  /\ SlotOf(Word(position[s])) = SlotOf(position[s])
        /\ pc[s] = "sequence" /\ overslept + Slots <= WordMod \div 2
             => Difference(found, position[s]) = found - position[s]
        /\ pc[s] = "cas" /\ overslept < WordMod
             => (Word(head) = Word(position[s]) <=> head = position[s])

\* A reserved position is in the end received: a sender that was slow to
\* publish, or many competing ones, cannot wedge the ring.
AcceptedIsReceived ==
  \A n \in 1..(Cardinality(Senders) * MaxSends) :
    (Len(reserved) >= n) ~> (Len(received) >= n)
-----------------------------------------------------------------------------
(***************************************************************************)
(* The inductive invariant of MailboxProofs.  The ring at any moment is a  *)
(* window of Slots positions starting at Consumed; positions below head    *)
(* are reserved, the others free.                                          *)
(***************************************************************************)
Window == Consumed..(Consumed + Slots - 1)

RingInv ==
  /\ Consumed <= head /\ head <= Consumed + Slots
  /\ Len(reserved) = head
  /\ \A p \in Window :
       /\ sequence[SlotOf(p)] \in {p, p + 1}
       /\ p >= head => sequence[SlotOf(p)] = p
       /\ sequence[SlotOf(p)] = p + 1 => message[SlotOf(p)] = reserved[p + 1]

\* A sender about to swap head knows its position is in the window: the
\* window only moves forward, so what it read cannot have become too old.
SenderInv ==
  \A s \in Senders :
    /\ pc[s] # "idle" => sends[s] >= 1
    /\ pc[s] \in {"sequence", "cas"} => position[s] <= head
    /\ pc[s] = "cas" /\ head = position[s] => head < Consumed + Slots
    /\ Writing(s) =>
         /\ Consumed <= position[s] /\ position[s] < head
         /\ sequence[SlotOf(position[s])] = position[s]
         /\ reserved[position[s] + 1] = Payload(s)
         /\ \A t \in Senders : Writing(t) /\ position[t] = position[s] => t = s
    /\ pc[s] = "publish" => message[SlotOf(position[s])] = Payload(s)

ReaderInv ==
  /\ rpc # "idle" => tail < head
  /\ rpc \in {"copy", "release"} => sequence[SlotOf(tail)] = tail + 1
  /\ rpc \in {"release", "advance"} => inbox = reserved[tail + 1]
  /\ Len(received) = tail
  /\ \A i \in 1..tail : received[i] = reserved[i]

\* The shape of every reachable state: which positions are reserved, which
\* are published, and what each warp knows about its own.
IInv == TypeOK /\ RingInv /\ SenderInv /\ ReaderInv
=============================================================================
