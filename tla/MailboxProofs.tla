--------------------------- MODULE MailboxProofs ---------------------------
(***************************************************************************)
(* The safety of the mailbox for any number of senders, slots and sends.   *)
(* Everything follows from the inductive invariant IInv of Mailbox; the    *)
(* arithmetic of the ring is in four lemmas on SlotOf.                     *)
(***************************************************************************)
EXTENDS MailboxChannel, FiniteSetTheorems, SequenceTheorems, TLAPS

USE DEF SlotOf

\* Division with remainder by Slots, in the form the solvers use.
LEMMA Division ==
  \A p \in Nat : /\ p \div Slots \in Nat
                 /\ SlotOf(p) \in 0..(Slots - 1)
                 /\ p = Slots * (p \div Slots) + SlotOf(p)
  BY SlotsAssumption

\* Quotient and remainder are unique.
LEMMA DivisionUnique ==
  \A a, b \in Int, r, t \in 0..(Slots - 1) :
    Slots * a + r = Slots * b + t => r = t
<1> SUFFICES ASSUME NEW a \in Int, NEW b \in Int,
                    NEW r \in 0..(Slots - 1), NEW t \in 0..(Slots - 1),
                    Slots * a + r = Slots * b + t
             PROVE  r = t
  OBVIOUS
<1>1. CASE a < b
  <2>1. Slots * (b - a) >= Slots BY <1>1, SlotsAssumption
  <2> QED BY <2>1, SlotsAssumption
<1>2. CASE b < a
  <2>1. Slots * (a - b) >= Slots BY <1>2, SlotsAssumption
  <2> QED BY <2>1, SlotsAssumption
<1> QED BY <1>1, <1>2, SlotsAssumption

\* A position written as a multiple of Slots plus r lies in slot r.
LEMMA SlotByDivision ==
  \A p \in Nat, a \in Int, r \in 0..(Slots - 1) : p = Slots * a + r => SlotOf(p) = r
<1> SUFFICES ASSUME NEW p \in Nat, NEW a \in Int, NEW r \in 0..(Slots - 1),
                    p = Slots * a + r
             PROVE  SlotOf(p) = r
  OBVIOUS
<1> DEFINE b == p \div Slots
           t == SlotOf(p)
<1>1. b \in Int /\ t \in 0..(Slots - 1) /\ p = Slots * b + t BY Division
<1> HIDE DEF b, t
<1>2. r = t BY <1>1, DivisionUnique
<1> QED BY <1>2 DEF t

\* Positions less than one lap apart lie in different slots.
LEMMA SlotDistinct ==
  \A p, q \in Nat : p < q /\ q < p + Slots => SlotOf(p) # SlotOf(q)
<1> SUFFICES ASSUME NEW p \in Nat, NEW q \in Nat, p < q, q < p + Slots,
                    SlotOf(p) = SlotOf(q)
             PROVE  FALSE
  OBVIOUS
<1> DEFINE d == (q \div Slots) - (p \div Slots)
<1>1. d \in Int /\ q - p = Slots * d BY SlotsAssumption, Division
<1>2. Slots * d > 0 /\ Slots * d < Slots
  <2>1. q - p > 0 /\ q - p < Slots BY SlotsAssumption
  <2> QED BY <1>1, <2>1
<1> HIDE DEF d
<1>3. CASE d <= 0
  <2>1. Slots * d <= 0 BY <1>1, <1>3, SlotsAssumption
  <2> QED BY <1>1, <1>2, <2>1, SlotsAssumption
<1>4. CASE d >= 1
  <2>1. Slots * d >= Slots BY <1>1, <1>4, SlotsAssumption
  <2> QED BY <1>1, <1>2, <2>1, SlotsAssumption
<1> QED BY <1>1, <1>3, <1>4

\* One lap later is the same slot.
LEMMA SlotNextLap == \A p \in Nat : SlotOf(p + Slots) = SlotOf(p)
<1> TAKE p \in Nat
<1> DEFINE a == p \div Slots
           r == SlotOf(p)
<1>1. a \in Int /\ r \in 0..(Slots - 1) /\ p = Slots * a + r BY Division
<1> HIDE DEF a, r
<1>2. p + Slots = Slots * (a + 1) + r /\ p + Slots \in Nat /\ a + 1 \in Int
  BY <1>1, SlotsAssumption
<1>3. SlotOf(p + Slots) = r BY <1>1, <1>2, SlotByDivision
<1> QED BY <1>3 DEF r

\* Any Slots consecutive positions reach every slot.
LEMMA SlotCovered ==
  \A c \in Nat, i \in 0..(Slots - 1) : \E p \in c..(c + Slots - 1) : SlotOf(p) = i
<1> TAKE c \in Nat, i \in 0..(Slots - 1)
<1> DEFINE a == c \div Slots
           r == SlotOf(c)
<1>1. a \in Nat /\ r \in 0..(Slots - 1) /\ c = Slots * a + r BY Division
<1> HIDE DEF a, r
<1>2. CASE i >= r
  <2> DEFINE p == Slots * a + i
  <2>1. p \in Nat /\ p \in c..(c + Slots - 1) BY <1>1, <1>2, SlotsAssumption
  <2>2. SlotOf(p) = i BY <2>1, <1>1, SlotByDivision
  <2> QED BY <2>1, <2>2
<1>3. CASE i < r
  <2> DEFINE p == Slots * (a + 1) + i
  <2>1. a + 1 \in Nat BY <1>1
  <2>2. p \in Nat /\ p \in c..(c + Slots - 1) BY <1>1, <1>3, SlotsAssumption
  <2>3. SlotOf(p) = i BY <2>1, <2>2, SlotByDivision
  <2> QED BY <2>2, <2>3
<1> QED BY <1>1, <1>2, <1>3

HIDE DEF SlotOf
-----------------------------------------------------------------------------
USE SlotsAssumption, OwnerAssumption, MaxSendsAssumption, WordAssumption

\* The empty ring satisfies the invariant: every slot awaits its first position.
LEMMA InitInv == Init => IInv
<1> SUFFICES ASSUME Init PROVE IInv
  OBVIOUS
<1> USE DEF Init
<1>1. TypeOK
  BY DEF TypeOK, EmptySequence, EmptyMessages, NoMessage, PinnedPcs
<1>2. RingInv
  <2>1. Consumed = 0 BY DEF Consumed
  <2>2. ASSUME NEW p \in 0..(Slots - 1) PROVE SlotOf(p) = p
    BY SlotByDivision
  <2> QED BY <2>1, <2>2 DEF RingInv, Window, EmptySequence
<1>3. SenderInv
  BY DEF SenderInv, Writing
<1>4. ReaderInv
  BY DEF ReaderInv
<1> QED BY <1>1, <1>2, <1>3, <1>4 DEF IInv

\* The steps of a sender that touch neither the ring nor the histories.
LEMMA CallInv ==
  ASSUME IInv, NEW s \in Senders, NEW v \in VmIds, Call(s, v)
  PROVE  IInv'
<1> USE DEF IInv, Call, ring, reader
<1>1. TypeOK' BY SMTT(30) DEF TypeOK, PinnedPcs
<1>2. RingInv' BY DEF RingInv, Window, Consumed
<1>3. SenderInv'
  BY SMTT(30) DEF SenderInv, Writing, Payload, Consumed, TypeOK, PinnedPcs
<1>4. ReaderInv' BY DEF ReaderInv
<1> QED BY <1>1, <1>2, <1>3, <1>4

\* A pin changes the pin count only, modulo the width of its word.
LEMMA PinInv ==
  ASSUME IInv, NEW s \in Senders, Pin(s)
  PROVE  IInv'
<1> USE DEF IInv, Pin, reader
<1>1. TypeOK' BY DEF TypeOK, PinnedPcs
<1>2. RingInv' BY DEF RingInv, Window, Consumed
<1>3. SenderInv'
  BY DEF SenderInv, Writing, Payload, Consumed, TypeOK, PinnedPcs
<1>4. ReaderInv' BY DEF ReaderInv
<1> QED BY <1>1, <1>2, <1>3, <1>4

\* The owner check changes the sender's place only.
LEMMA CheckOwnerInv ==
  ASSUME IInv, NEW s \in Senders, CheckOwner(s)
  PROVE  IInv'
<1> USE DEF IInv, CheckOwner, ring, reader
<1>1. TypeOK' BY DEF TypeOK, PinnedPcs
<1>2. RingInv' BY DEF RingInv, Window, Consumed
<1>3. SenderInv' BY DEF SenderInv, Writing, Payload, Consumed, TypeOK
<1>4. ReaderInv' BY DEF ReaderInv
<1> QED BY <1>1, <1>2, <1>3, <1>4

\* The position a sender reads is at most head.
LEMMA ReadHeadInv ==
  ASSUME IInv, NEW s \in Senders, ReadHead(s)
  PROVE  IInv'
<1> USE DEF IInv, ReadHead, ring, reader
<1>1. TypeOK' BY DEF TypeOK, PinnedPcs
<1>2. RingInv' BY DEF RingInv, Window, Consumed
<1>3. SenderInv' BY SMTT(30) DEF SenderInv, Writing, Payload, Consumed, TypeOK
<1>4. ReaderInv' BY DEF ReaderInv
<1> QED BY <1>1, <1>2, <1>3, <1>4

\* Dropping a pin changes the pin count only.
LEMMA UnpinInv ==
  ASSUME IInv, NEW s \in Senders, Unpin(s)
  PROVE  IInv'
<1> USE DEF IInv, Unpin, reader
<1>1. TypeOK' BY DEF TypeOK, PinnedPcs
<1>2. RingInv' BY DEF RingInv, Window, Consumed
<1>3. SenderInv' BY DEF SenderInv, Writing, Payload, Consumed, TypeOK
<1>4. ReaderInv' BY DEF ReaderInv
<1> QED BY <1>1, <1>2, <1>3, <1>4

\* The slot of a position at or before head, read in a reachable state:
\* equal to the position means free at head, less means a full ring.
LEMMA SequenceRead ==
  ASSUME IInv, NEW p \in Nat, p <= head
  PROVE  /\ sequence[SlotOf(p)] = p /\ p = head => head < Consumed + Slots
         /\ sequence[SlotOf(p)] < p => head - Consumed = Slots
<1> USE DEF IInv
<1>1. Consumed \in Nat /\ head \in Nat BY DEF TypeOK, Consumed
<1>2. SlotOf(p) \in 0..(Slots - 1) BY Division
<1>3. PICK q \in Consumed..(Consumed + Slots - 1) : SlotOf(q) = SlotOf(p)
  BY <1>1, <1>2, SlotCovered
<1>4. q \in Nat /\ sequence[SlotOf(p)] \in {q, q + 1}
  BY <1>1, <1>3 DEF RingInv, Window
<1>5. Consumed <= head /\ head <= Consumed + Slots BY DEF RingInv
<1>6. CASE p < Consumed
  BY <1>1, <1>3, <1>4, <1>5, <1>6
<1>7. CASE p >= Consumed /\ p < Consumed + Slots
  <2>1. p = q
    BY <1>1, <1>3, <1>4, <1>7, SlotDistinct
  <2> QED BY <1>1, <1>4, <1>5, <1>7, <2>1
<1>8. CASE p = Consumed + Slots
  <2>1. SlotOf(p) = SlotOf(Consumed) BY <1>1, <1>8, SlotNextLap
  <2>2. sequence[SlotOf(p)] \in {Consumed, Consumed + 1}
    BY <1>1, <2>1 DEF RingInv, Window
  <2> QED BY <1>1, <1>5, <1>8, <2>2
<1> QED BY <1>1, <1>5, <1>6, <1>7, <1>8

\* What the sequence number says about the position survives until the swap.
LEMMA ReadSequenceInv ==
  ASSUME IInv, NEW s \in Senders, ReadSequence(s)
  PROVE  IInv'
<1> USE DEF IInv, ReadSequence, ring, reader
<1>1. TypeOK' BY DEF TypeOK, PinnedPcs
<1>2. RingInv' BY DEF RingInv, Window, Consumed
<1>3. SenderInv'
  <2>1. position[s] \in Nat /\ position[s] <= head BY DEF TypeOK, SenderInv
  <2>2. sequence[SlotOf(position[s])] \in Nat
    BY <2>1, Division DEF TypeOK
  <2>3. pc'[s] = "cas" /\ head = position[s] => head < Consumed + Slots
    BY <2>1, <2>2, SequenceRead, SMTT(30) DEF TypeOK
  <2>4. /\ pc[s] = "sequence" /\ pc'[s] \in {"full", "head", "cas"}
        /\ \A t \in Senders : t # s => pc'[t] = pc[t]
        /\ Consumed' = Consumed
        /\ UNCHANGED <<head, sequence, message, position, sends, reserved>>
    BY DEF TypeOK, Consumed
  <2>5. \A t \in Senders : Writing(t)' <=> Writing(t) BY <2>4 DEF Writing
  <2>6. \A t \in Senders : Payload(t)' = Payload(t) BY <2>4 DEF Payload
  <2> HIDE DEF ReadSequence
  <2>7. \A t \in Senders : Writing(t) =>
          /\ Consumed <= position[t] /\ position[t] < head
          /\ sequence[SlotOf(position[t])] = position[t]
          /\ reserved[position[t] + 1] = Payload(t)
          /\ \A u \in Senders : Writing(u) /\ position[u] = position[t] => u = t
    BY DEF SenderInv
  <2> QED BY <2>1, <2>3, <2>4, <2>5, <2>6, <2>7 DEF SenderInv
<1>4. ReaderInv' BY DEF ReaderInv
<1> QED BY <1>1, <1>2, <1>3, <1>4

\* Reserving appends the sender's message at position head, which was free.
LEMMA ReserveHeadInv ==
  ASSUME IInv, NEW s \in Senders, ReserveHead(s)
  PROVE  IInv'
<1> USE DEF IInv, reader
<1>1. CASE head # position[s]
  <2> USE <1>1 DEF ReserveHead
  <2>1. TypeOK' BY DEF TypeOK, PinnedPcs
  <2>2. RingInv' BY DEF RingInv, Window, Consumed, TypeOK
  <2>3. SenderInv' BY SMTT(30) DEF SenderInv, Writing, Payload, Consumed, TypeOK
  <2>4. ReaderInv' BY DEF ReaderInv, TypeOK
  <2> QED BY <2>1, <2>2, <2>3, <2>4
<1>2. CASE head = position[s]
  <2>1. /\ pc[s] = "cas" /\ head' = head + 1
        /\ reserved' = Append(reserved, Payload(s))
        /\ pc' = [pc EXCEPT ![s] = "write"]
        /\ UNCHANGED <<owner_vm_id, in_flight_sends, tail, sequence, message,
                       expected, position, sends, rpc, inbox, received>>
    BY <1>2 DEF ReserveHead
  <2>2. Consumed' = Consumed /\ Window' = Window BY <2>1 DEF Consumed, Window
  <2>3. /\ Consumed \in Nat /\ head \in Nat /\ Consumed <= head
        /\ head < Consumed + Slots /\ Len(reserved) = head
    BY <1>2, <2>1 DEF TypeOK, RingInv, SenderInv, Consumed
  <2>4. Payload(s) \in Messages
    BY <2>1 DEF TypeOK, SenderInv, Payload, Messages
  <2>5. /\ reserved' \in Seq(Messages) /\ Len(reserved') = head'
        /\ \A i \in 1..head : reserved'[i] = reserved[i]
        /\ reserved'[head + 1] = Payload(s)
    <3> DEFINE m == Payload(s)
    <3>1. m \in Messages /\ reserved \in Seq(Messages) BY <2>4 DEF TypeOK
    <3> HIDE DEF m, IInv
    <3>2. reserved' = Append(reserved, m) BY <2>1 DEF m
    <3>3. head' = head + 1 BY <2>1
    <3>4. /\ reserved' \in Seq(Messages) /\ Len(reserved') = head'
          /\ \A i \in 1..head : reserved'[i] = reserved[i]
          /\ reserved'[head + 1] = m
      BY <2>3, <3>1, <3>2, <3>3
    <3> QED BY <3>4 DEF m
  <2>6. TypeOK' BY <2>1, <2>5 DEF TypeOK, PinnedPcs
  <2>7. RingInv'
    <3>1. ASSUME NEW p \in Window
          PROVE  /\ sequence[SlotOf(p)] \in {p, p + 1}
                 /\ p >= head' => sequence[SlotOf(p)] = p
                 /\ sequence[SlotOf(p)] = p + 1
                      => message[SlotOf(p)] = reserved'[p + 1]
      <4>1. p \in Nat BY <2>3 DEF Window
      <4>2. /\ sequence[SlotOf(p)] \in {p, p + 1}
            /\ p >= head => sequence[SlotOf(p)] = p
            /\ sequence[SlotOf(p)] = p + 1
                 => message[SlotOf(p)] = reserved[p + 1]
        BY DEF RingInv
      <4> QED BY <2>1, <2>3, <2>5, <4>1, <4>2
    <3>2. Consumed' <= head' /\ head' <= Consumed' + Slots
      BY <2>1, <2>2, <2>3
    <3>3. sequence' = sequence /\ message' = message BY <2>1
    <3> HIDE DEF IInv
    <3> QED BY <2>2, <2>5, <3>1, <3>2, <3>3 DEF RingInv
  <2>8. SenderInv'
    <3>1. sequence[SlotOf(head)] = head
      BY <2>3 DEF RingInv, Window
    <3>2. ASSUME NEW t \in Senders, t # s, Writing(t)
          PROVE  /\ position[t] < head
                 /\ reserved'[position[t] + 1] = reserved[position[t] + 1]
      BY <2>3, <2>5, <3>2, SMTT(30) DEF SenderInv, TypeOK
    <3>3. \A t \in Senders : t # s => pc'[t] = pc[t]
      BY <2>1 DEF TypeOK
    <3>4. pc'[s] = "write" BY <2>1 DEF TypeOK
    <3>5. \A t \in Senders : Payload(t)' = Payload(t) BY <2>1 DEF Payload
    <3> QED
      BY <1>2, <2>1, <2>2, <2>3, <2>5, <3>1, <3>2, <3>3, <3>4, <3>5, SMTT(30)
      DEF SenderInv, Writing, TypeOK
  <2>9. ReaderInv'
    <3>1. Consumed <= head /\ tail \in Nat BY DEF RingInv, TypeOK
    <3>2. tail <= head BY <2>3, <3>1 DEF ReaderInv, Consumed
    <3> QED BY <2>1, <2>3, <2>5, <3>1, <3>2 DEF ReaderInv
  <2> QED BY <2>6, <2>7, <2>8, <2>9
<1> QED BY <1>1, <1>2

\* Writing touches one slot of the window, which is not published and which
\* nobody else writes or copies.
LEMMA WriteMessageInv ==
  ASSUME IInv, NEW s \in Senders, WriteMessage(s)
  PROVE  IInv'
<1> USE DEF IInv
<1> DEFINE p == position[s]
<1>1. /\ pc[s] = "write" /\ pc' = [pc EXCEPT ![s] = "publish"]
      /\ message' = [message EXCEPT ![SlotOf(p)] = Payload(s)]
      /\ UNCHANGED <<owner_vm_id, in_flight_sends, head, tail, sequence,
                     expected, position, sends, rpc, inbox, reserved, received>>
  BY DEF WriteMessage, reader
<1>2. /\ p \in Nat /\ Consumed <= p /\ p < head /\ sequence[SlotOf(p)] = p
      /\ reserved[p + 1] = Payload(s) /\ SlotOf(p) \in 0..(Slots - 1)
  BY <1>1, Division DEF SenderInv, Writing, TypeOK
<1>3. Consumed' = Consumed /\ Window' = Window /\ Consumed \in Nat
  BY <1>1 DEF Consumed, Window, TypeOK
<1>4. Payload(s) \in Messages
  BY <1>1 DEF TypeOK, SenderInv, Payload, Messages
<1>5. TypeOK' BY <1>1, <1>4 DEF TypeOK, PinnedPcs
<1>6. \A q \in Nat : Consumed <= q /\ q < Consumed + Slots /\ q # p
                        => SlotOf(q) # SlotOf(p)
  BY <1>2, <1>3, SlotDistinct, SMTT(30) DEF RingInv, TypeOK
<1>7. RingInv'
  <2>1. ASSUME NEW q \in Window, sequence[SlotOf(q)] = q + 1
        PROVE  message'[SlotOf(q)] = reserved[q + 1]
    <3>1. q \in Nat /\ q # p BY <1>2, <1>3, <2>1 DEF Window
    <3>2. SlotOf(q) # SlotOf(p) BY <1>3, <1>6, <3>1 DEF Window
    <3>3. SlotOf(q) \in 0..(Slots - 1) BY <3>1, Division
    <3> QED BY <1>1, <2>1, <3>2, <3>3 DEF RingInv, TypeOK
  <2> QED BY <1>1, <1>3, <2>1 DEF RingInv
<1>8. SenderInv'
  <2>1. ASSUME NEW t \in Senders, t # s, Writing(t)
        PROVE  message'[SlotOf(position[t])] = message[SlotOf(position[t])]
    <3>1. /\ position[t] \in Nat /\ Consumed <= position[t]
          /\ position[t] < head /\ position[t] # p
      BY <1>1, <2>1 DEF SenderInv, Writing, TypeOK
    <3>2. head <= Consumed + Slots /\ head \in Nat BY DEF RingInv, TypeOK
    <3>3. SlotOf(position[t]) # SlotOf(p) BY <1>3, <1>6, <3>1, <3>2
    <3> QED BY <1>1, <3>1, <3>3, Division DEF TypeOK
  <2>2. message'[SlotOf(p)] = Payload(s) BY <1>1, <1>2 DEF TypeOK
  <2>3. \A t \in Senders : Payload(t)' = Payload(t) BY <1>1 DEF Payload
  <2>4. \A t \in Senders : t # s => pc'[t] = pc[t] BY <1>1 DEF TypeOK
  <2>5. pc'[s] = "publish" BY <1>1 DEF TypeOK
  <2> QED BY <1>1, <1>2, <1>3, <2>1, <2>2, <2>3, <2>4, <2>5, SMTT(30)
          DEF SenderInv, Writing, TypeOK
<1>9. ReaderInv' BY <1>1 DEF ReaderInv
<1> QED BY <1>5, <1>7, <1>8, <1>9

\* Publishing turns the sender's own slot from free to published.
LEMMA PublishInv ==
  ASSUME IInv, NEW s \in Senders, Publish(s)
  PROVE  IInv'
<1> USE DEF IInv
<1> DEFINE p == position[s]
<1>1. /\ pc[s] = "publish" /\ pc' = [pc EXCEPT ![s] = "sent"]
      /\ sequence' = [sequence EXCEPT ![SlotOf(p)] = p + 1]
      /\ UNCHANGED <<owner_vm_id, in_flight_sends, head, tail, message,
                     expected, position, sends, rpc, inbox, reserved, received>>
  BY DEF Publish, reader
<1>2. /\ p \in Nat /\ Consumed <= p /\ p < head
      /\ reserved[p + 1] = Payload(s) /\ SlotOf(p) \in 0..(Slots - 1)
      /\ message[SlotOf(p)] = Payload(s)
  BY <1>1, Division DEF SenderInv, Writing, TypeOK
<1>3. Consumed' = Consumed /\ Window' = Window /\ Consumed \in Nat
  BY <1>1 DEF Consumed, Window, TypeOK
<1>4. TypeOK' BY <1>1, <1>2, SMTT(30) DEF TypeOK, PinnedPcs
<1>5. ASSUME NEW q \in Nat, Consumed <= q, q < Consumed + Slots, q # p
      PROVE  SlotOf(q) # SlotOf(p) /\ sequence'[SlotOf(q)] = sequence[SlotOf(q)]
  <2>1. SlotOf(q) # SlotOf(p)
    BY <1>2, <1>3, <1>5, SlotDistinct, SMTT(30) DEF RingInv, TypeOK
  <2> QED BY <1>1, <2>1, Division DEF TypeOK
<1>6. sequence'[SlotOf(p)] = p + 1 BY <1>1, <1>2 DEF TypeOK
<1>7. RingInv'
  <2>1. ASSUME NEW q \in Window
        PROVE  /\ sequence'[SlotOf(q)] \in {q, q + 1}
               /\ q >= head => sequence'[SlotOf(q)] = q
               /\ sequence'[SlotOf(q)] = q + 1
                    => message[SlotOf(q)] = reserved[q + 1]
    <3>1. q \in Nat /\ Consumed <= q /\ q < Consumed + Slots
      BY <1>3 DEF Window
    <3>2. CASE q = p BY <1>2, <1>6, <3>2 DEF TypeOK
    <3>3. CASE q # p BY <1>5, <3>1, <3>3 DEF RingInv
    <3> QED BY <3>2, <3>3
  <2> QED BY <1>1, <1>3, <2>1 DEF RingInv
<1>8. SenderInv'
  <2>1. ASSUME NEW t \in Senders, t # s, Writing(t)
        PROVE  sequence'[SlotOf(position[t])] = sequence[SlotOf(position[t])]
    <3>1. /\ position[t] \in Nat /\ Consumed <= position[t]
          /\ position[t] < head /\ position[t] # p
      BY <1>1, <2>1 DEF SenderInv, Writing, TypeOK
    <3>2. head <= Consumed + Slots /\ head \in Nat BY DEF RingInv, TypeOK
    <3> QED BY <1>3, <1>5, <3>1, <3>2
  <2>2. \A t \in Senders : Payload(t)' = Payload(t) BY <1>1 DEF Payload
  <2>3. \A t \in Senders : t # s => pc'[t] = pc[t] BY <1>1 DEF TypeOK
  <2>4. pc'[s] = "sent" BY <1>1 DEF TypeOK
  <2> QED BY <1>1, <1>3, <2>1, <2>2, <2>3, <2>4 DEF SenderInv, Writing, TypeOK
<1>9. ReaderInv'
  <2>1. tail \in Nat /\ tail < Consumed + Slots BY DEF Consumed, TypeOK
  <2>2. rpc \in {"copy", "release"} => tail # p
    <3> SUFFICES ASSUME rpc \in {"copy", "release"}, tail = p PROVE FALSE
      OBVIOUS
    <3>1. sequence[SlotOf(p)] = p + 1 BY DEF ReaderInv
    <3>2. sequence[SlotOf(p)] = p BY <1>1 DEF SenderInv, Writing
    <3> QED BY <1>2, <3>1, <3>2
  <2>3. rpc \in {"copy", "release"} => sequence'[SlotOf(tail)] = tail + 1
    BY <1>5, <2>1, <2>2 DEF ReaderInv, Consumed
  <2> QED BY <1>1, <2>3 DEF ReaderInv
<1> QED BY <1>4, <1>7, <1>8, <1>9

\* A published entry at the tail is a reserved one.
LEMMA FindPublishedInv ==
  ASSUME IInv, FindPublished
  PROVE  IInv'
<1> USE DEF IInv, FindPublished, ring, sender
<1>1. TypeOK' BY DEF TypeOK
<1>2. RingInv' BY DEF RingInv, Window, Consumed
<1>3. SenderInv' BY DEF SenderInv, Writing, Payload, Consumed
<1>4. ReaderInv'
  <2>1. tail \in Window /\ tail \in Nat /\ head \in Nat
    BY DEF Window, Consumed, TypeOK
  <2>2. tail < head BY <2>1 DEF RingInv
  <2> QED BY <2>2 DEF ReaderInv
<1> QED BY <1>1, <1>2, <1>3, <1>4

\* What the owner copies is the message that was reserved there.
LEMMA CopyMessageInv ==
  ASSUME IInv, CopyMessage
  PROVE  IInv'
<1> USE DEF IInv, CopyMessage, ring, sender
<1>1. TypeOK' BY Division DEF TypeOK
<1>2. RingInv' BY DEF RingInv, Window, Consumed
<1>3. SenderInv' BY DEF SenderInv, Writing, Payload, Consumed
<1>4. ReaderInv'
  <2>1. tail \in Window BY DEF Window, Consumed, TypeOK
  <2> QED BY <2>1 DEF ReaderInv, RingInv
<1> QED BY <1>1, <1>2, <1>3, <1>4

\* Releasing moves the window by one: position tail leaves it and its slot
\* becomes the free entry of position tail + Slots.
LEMMA ReleaseSlotInv ==
  ASSUME IInv, ReleaseSlot
  PROVE  IInv'
<1> USE DEF IInv
<1>1. /\ rpc = "release" /\ rpc' = "advance"
      /\ sequence' = [sequence EXCEPT ![SlotOf(tail)] = tail + Slots]
      /\ UNCHANGED <<owner_vm_id, in_flight_sends, head, tail, message, pc,
                     expected, position, sends, inbox, reserved, received>>
  BY DEF ReleaseSlot, sender
<1>2. /\ Consumed = tail /\ Consumed' = tail + 1 /\ tail \in Nat
      /\ head \in Nat /\ tail < head /\ head <= tail + Slots
  BY <1>1 DEF Consumed, ReaderInv, RingInv, TypeOK
<1>3. SlotOf(tail) \in 0..(Slots - 1) BY <1>2, Division
<1>4. sequence'[SlotOf(tail)] = tail + Slots BY <1>1, <1>3 DEF TypeOK
<1>5. ASSUME NEW q \in Nat, tail < q, q < tail + Slots
      PROVE  q \in Window /\ sequence'[SlotOf(q)] = sequence[SlotOf(q)]
  <2>1. SlotOf(q) # SlotOf(tail) BY <1>2, <1>5, SlotDistinct
  <2> QED BY <1>1, <1>2, <1>5, <2>1, Division DEF TypeOK, Window
<1>6. TypeOK'
  <2>1. tail + Slots \in Nat BY <1>2
  <2>2. sequence \in [0..(Slots - 1) -> Nat] BY DEF TypeOK
  <2>3. sequence' \in [0..(Slots - 1) -> Nat] BY <1>1, <2>1, <2>2
  <2> QED BY <1>1, <2>3 DEF TypeOK
<1>7. RingInv'
  <2>1. ASSUME NEW q \in Window'
        PROVE  /\ sequence'[SlotOf(q)] \in {q, q + 1}
               /\ q >= head => sequence'[SlotOf(q)] = q
               /\ sequence'[SlotOf(q)] = q + 1
                    => message[SlotOf(q)] = reserved[q + 1]
    <3>1. q \in Nat /\ tail < q /\ q <= tail + Slots
      BY <1>2 DEF Window
    <3>2. CASE q = tail + Slots
      <4>1. sequence'[SlotOf(q)] = q BY <1>2, <1>4, <3>2, SlotNextLap
      <4> QED BY <3>1, <4>1
    <3>3. CASE q < tail + Slots BY <1>5, <3>1, <3>3 DEF RingInv
    <3> QED BY <1>2, <3>1, <3>2, <3>3
  <2> QED BY <1>1, <1>2, <2>1 DEF RingInv
<1>8. SenderInv'
  <2>1. ASSUME NEW t \in Senders, Writing(t)
        PROVE  /\ Consumed' <= position[t]
               /\ sequence'[SlotOf(position[t])] = sequence[SlotOf(position[t])]
    <3>1. /\ position[t] \in Nat /\ tail <= position[t] /\ position[t] < head
          /\ sequence[SlotOf(position[t])] = position[t]
      BY <1>2, <2>1 DEF SenderInv, TypeOK
    <3>2. position[t] # tail BY <1>1, <1>2, <3>1 DEF ReaderInv
    <3> QED BY <1>2, <1>5, <3>1, <3>2
  <2>2. \A t \in Senders : Payload(t)' = Payload(t) /\ Writing(t)' = Writing(t)
    BY <1>1 DEF Payload, Writing
  <2> QED BY <1>1, <1>2, <2>1, <2>2 DEF SenderInv, TypeOK
<1>9. ReaderInv' BY <1>1 DEF ReaderInv
<1> QED BY <1>6, <1>7, <1>8, <1>9

\* Advancing tail adds the copied message to those received.
LEMMA AdvanceTailInv ==
  ASSUME IInv, AdvanceTail
  PROVE  IInv'
<1> USE DEF IInv
<1>1. /\ rpc = "advance" /\ rpc' = "idle" /\ tail' = tail + 1
      /\ received' = Append(received, inbox)
      /\ UNCHANGED <<owner_vm_id, in_flight_sends, head, sequence, message, pc,
                     expected, position, sends, inbox, reserved>>
  BY DEF AdvanceTail, sender
<1>2. /\ tail \in Nat /\ head \in Nat /\ tail < head /\ Len(reserved) = head
      /\ inbox = reserved[tail + 1]
  BY <1>1 DEF TypeOK, RingInv, ReaderInv
<1>3. inbox \in Messages BY <1>2 DEF TypeOK
<1>4. Consumed' = Consumed /\ Window' = Window BY <1>1 DEF Consumed, Window
<1>5. TypeOK'
  <2>1. received' \in Seq(Messages) BY <1>1, <1>3 DEF TypeOK
  <2> QED BY <1>1, <1>2, <2>1 DEF TypeOK
<1>6. RingInv' BY <1>1, <1>4 DEF RingInv
<1>7. SenderInv' BY <1>1, <1>4 DEF SenderInv, Writing, Payload
<1>8. ReaderInv'
  <2>1. Len(received) = tail /\ received \in Seq(Messages)
    BY DEF ReaderInv, TypeOK
  <2>2. /\ Len(received') = tail + 1 /\ received'[tail + 1] = inbox
        /\ \A i \in 1..tail : received'[i] = received[i]
    BY <1>1, <1>2, <1>3, <2>1
  <2> QED BY <1>1, <1>2, <2>2 DEF ReaderInv
<1> QED BY <1>5, <1>6, <1>7, <1>8

-----------------------------------------------------------------------------
\* A stuttering step keeps the invariant.
LEMMA StutterInv == IInv /\ UNCHANGED vars => IInv'
  BY SMTT(30) DEF IInv, TypeOK, RingInv, SenderInv, ReaderInv, Window, Consumed, Writing,
         Payload, vars, ring, sender, reader

\* Every step keeps the invariant: one case per action.
LEMMA StepInv == IInv /\ [Next]_vars => IInv'
<1> SUFFICES ASSUME IInv, [Next]_vars PROVE IInv'
  OBVIOUS
<1>1. ASSUME NEW s \in Senders, NEW v \in VmIds, Call(s, v) PROVE IInv'
  BY <1>1, CallInv
<1>2. ASSUME NEW s \in Senders, SendStep(s) PROVE IInv'
  BY <1>2, PinInv, CheckOwnerInv, ReadHeadInv, ReadSequenceInv,
     ReserveHeadInv, WriteMessageInv, PublishInv, UnpinInv DEF SendStep
<1>3. CASE ReceiveStep
  BY <1>3, FindPublishedInv, CopyMessageInv, ReleaseSlotInv, AdvanceTailInv
  DEF ReceiveStep
<1>4. CASE UNCHANGED vars BY <1>4, StutterInv
<1> QED BY <1>1, <1>2, <1>3, <1>4 DEF Next

\* The inductive invariant holds in every reachable state.
THEOREM Invariance == Spec => []IInv
<1>1. Init => IInv BY InitInv
<1>2. IInv /\ [Next]_vars => IInv' BY StepInv
<1> QED BY <1>1, <1>2, PTL DEF Spec

\* Every variable of the mailbox keeps its type.
THEOREM TypeCorrect == Spec => []TypeOK
<1>1. IInv => TypeOK BY DEF IInv
<1> QED BY <1>1, Invariance, PTL

\* MailboxTrySend and MailboxTryReceive never write or copy one slot from two
\* warps at a time, so no message is torn.
THEOREM Exclusion == Spec => []SlotsAreExclusive
<1>1. IInv => SlotsAreExclusive
  <2> SUFFICES ASSUME IInv PROVE SlotsAreExclusive
    OBVIOUS
  <2> USE DEF IInv
  <2>1. /\ Consumed \in Nat /\ head \in Nat /\ head <= Consumed + Slots
        /\ tail \in Nat
    BY DEF Consumed, TypeOK, RingInv
  <2>2. ASSUME NEW s \in Senders, Writing(s)
        PROVE  /\ position[s] \in Nat /\ Consumed <= position[s]
               /\ position[s] < head
    BY <2>2 DEF SenderInv, TypeOK
  <2>3. ASSUME NEW s \in Senders, NEW t \in Senders, s # t,
               Writing(s), Writing(t)
        PROVE  SlotOf(position[s]) # SlotOf(position[t])
    <3>1. position[s] # position[t] BY <2>3 DEF SenderInv
    <3>2. CASE position[s] < position[t]
      BY <2>1, <2>2, <2>3, <3>2, SlotDistinct
    <3>3. CASE position[t] < position[s]
      BY <2>1, <2>2, <2>3, <3>3, SlotDistinct
    <3> QED BY <2>2, <2>3, <3>1, <3>2, <3>3
  <2>4. ASSUME rpc \in {"copy", "release"}, NEW s \in Senders, Writing(s)
        PROVE  SlotOf(position[s]) # SlotOf(tail)
    <3>1. Consumed = tail BY <2>4 DEF Consumed
    <3>2. position[s] # tail
      BY <2>1, <2>2, <2>4 DEF SenderInv, ReaderInv
    <3> QED BY <2>1, <2>2, <2>4, <3>1, <3>2, SlotDistinct
  <2> QED BY <2>3, <2>4 DEF SlotsAreExclusive
<1> QED BY <1>1, Invariance, PTL

\* The owner receives what was accepted, in order, once each.
THEOREM InOrder == Spec => []ReceivedInOrder
<1>1. IInv => ReceivedInOrder
  <2> SUFFICES ASSUME IInv PROVE ReceivedInOrder
    OBVIOUS
  <2> USE DEF IInv
  <2>1. /\ Len(received) = tail /\ tail \in Nat /\ head \in Nat
        /\ Consumed <= head /\ Len(reserved) = head
    BY DEF ReaderInv, RingInv, TypeOK
  <2>2. tail <= head BY <2>1 DEF Consumed
  <2> QED BY <2>1, <2>2 DEF ReceivedInOrder, ReaderInv
<1> QED BY <1>1, Invariance, PTL

\* SEND is refused for lack of room only when there is none at that moment.
THEOREM FullIsHonest == Spec => FullOnlyWhenFull
<1>1. IInv /\ [Next]_vars =>
        [\A s \in Senders :
           pc[s] = "sequence" /\ pc'[s] = "full" => head - Consumed = Slots]_vars
  <2> SUFFICES ASSUME IInv, Next, NEW s \in Senders,
                      pc[s] = "sequence", pc'[s] = "full"
               PROVE  head - Consumed = Slots
    BY DEF vars, ring, sender, reader
  <2> USE DEF IInv
  <2>1. ASSUME NEW t \in Senders, t # s,
               SendStep(t) \/ \E v \in VmIds : Call(t, v)
        PROVE  FALSE
    BY <2>1 DEF SendStep, Call, Pin, CheckOwner, ReadHead, ReadSequence, ReserveHead,
                WriteMessage, Publish, Unpin, TypeOK
  <2>2. ~ReceiveStep
    BY DEF ReceiveStep, FindPublished, CopyMessage, ReleaseSlot, AdvanceTail,
           sender
  <2>3. ReadSequence(s)
    BY <2>1, <2>2 DEF Next, SendStep, Call, Pin, CheckOwner, ReadHead, ReserveHead,
                      WriteMessage, Publish, Unpin
  <2>4. position[s] \in Nat /\ position[s] <= head BY DEF TypeOK, SenderInv
  <2>5. sequence[SlotOf(position[s])] \in Nat BY <2>4, Division DEF TypeOK
  <2>6. sequence[SlotOf(position[s])] < position[s]
    BY <2>3, <2>4, <2>5 DEF ReadSequence, TypeOK
  <2> QED BY <2>4, <2>6, SequenceRead
<1> QED BY <1>1, Invariance, PTL DEF Spec, FullOnlyWhenFull
-----------------------------------------------------------------------------
(***************************************************************************)
(* What the mailbox's counts and histories say for any number of senders,  *)
(* slots and sends: the pins are counted, each sender's messages stay in   *)
(* its order, and words tell positions apart.                              *)
(***************************************************************************)
HIDE SlotsAssumption
HIDE OwnerAssumption
HIDE MaxSendsAssumption
HIDE WordAssumption

\* Division with remainder by any width, in the form the solvers use.
LEMMA WordDivision ==
  \A x \in Int : /\ x \div WordMod \in Int
                 /\ x % WordMod \in 0..(WordMod - 1)
                 /\ x = WordMod * (x \div WordMod) + (x % WordMod)
  BY WordAssumption

\* Two numbers that differ by a multiple of the width have one remainder.
LEMMA WordUnique ==
  \A a, b \in Int, r, t \in 0..(WordMod - 1) :
    WordMod * a + r = WordMod * b + t => r = t
<1> SUFFICES ASSUME NEW a \in Int, NEW b \in Int,
                    NEW r \in 0..(WordMod - 1), NEW t \in 0..(WordMod - 1),
                    WordMod * a + r = WordMod * b + t
             PROVE  r = t
  OBVIOUS
<1>1. CASE a < b
  <2>1. WordMod * (b - a) >= WordMod BY <1>1, WordAssumption
  <2> QED BY <2>1, WordAssumption
<1>2. CASE b < a
  <2>1. WordMod * (a - b) >= WordMod BY <1>2, WordAssumption
  <2> QED BY <2>1, WordAssumption
<1> QED BY <1>1, <1>2, WordAssumption

\* Adding to a word is adding to the number it stands for.
LEMMA WordAdd == \A c, d \in Int : ((c % WordMod) + d) % WordMod = (c + d) % WordMod
<1> TAKE c, d \in Int
<1> DEFINE r == c % WordMod
           q == c \div WordMod
           t == (r + d) % WordMod
           k == (r + d) \div WordMod
           u == (c + d) % WordMod
           j == (c + d) \div WordMod
<1>1. q \in Int /\ r \in Int /\ c = WordMod * q + r BY WordDivision
<1>2. r + d \in Int /\ c + d \in Int BY <1>1
<1>3. k \in Int /\ t \in 0..(WordMod - 1) /\ r + d = WordMod * k + t
  BY <1>2, WordDivision
<1>4. j \in Int /\ u \in 0..(WordMod - 1) /\ c + d = WordMod * j + u
  BY <1>2, WordDivision
<1>5. t = u
  <2> HIDE DEF r, q, t, k, u, j
  <2>1. WordMod * (q + k) + t = WordMod * j + u
    BY <1>1, <1>3, <1>4, WordAssumption
  <2> QED BY <1>1, <1>3, <1>4, <2>1, WordUnique
<1> QED BY <1>5

-----------------------------------------------------------------------------
(* The pins.                                                               *)

\* The senders that hold a pin are finitely many.
LEMMA PinnedFinite ==
  /\ IsFiniteSet(Pinned) /\ Cardinality(Pinned) \in Nat
  /\ Cardinality(Pinned) <= Cardinality(Senders)
BY SendersAssumption, FS_Subset, FS_CardinalityType DEF Pinned

\* A pin adds its sender to those that hold one.
LEMMA PinHeld ==
  ASSUME pc \in [Senders -> PinnedPcs \union {"idle", "call"}], NEW s \in Senders, Pin(s)
  PROVE  Cardinality(Pinned') = Cardinality(Pinned) + 1
<1>1. pc[s] = "call" /\ pc' = [pc EXCEPT ![s] = "owner"] BY DEF Pin
<1>2. Pinned' = Pinned \cup {s} /\ s \notin Pinned BY <1>1 DEF Pinned, PinnedPcs
<1> QED BY <1>2, PinnedFinite, FS_AddElement

\* Every way out of the call takes its sender from those that hold a pin.
LEMMA UnpinDropped ==
  ASSUME pc \in [Senders -> PinnedPcs \union {"idle", "call"}], NEW s \in Senders, Unpin(s)
  PROVE  Cardinality(Pinned') = Cardinality(Pinned) - 1
<1>1. pc[s] \in {"refused", "full", "sent"} /\ pc' = [pc EXCEPT ![s] = "idle"] BY DEF Unpin
<1>2. Pinned' = Pinned \ {s} /\ s \in Pinned BY <1>1 DEF Pinned, PinnedPcs
<1> QED BY <1>2, PinnedFinite, FS_RemoveElement

\* The other steps of the protocol neither take a pin nor drop one.
LEMMA PinnedKept ==
  ASSUME pc \in [Senders -> PinnedPcs \union {"idle", "call"}], NEW s \in Senders,
         \/ \E v \in VmIds : Call(s, v)
         \/ CheckOwner(s) \/ ReadHead(s) \/ ReadSequence(s) \/ ReserveHead(s)
         \/ WriteMessage(s) \/ Publish(s)
         \/ ReceiveStep
  PROVE  Pinned' = Pinned /\ in_flight_sends' = in_flight_sends
<1> USE DEF Pinned, PinnedPcs, ring
<1>1. ASSUME NEW v \in VmIds, Call(s, v)
      PROVE  Pinned' = Pinned /\ in_flight_sends' = in_flight_sends
  BY <1>1 DEF Call
<1>2. CASE CheckOwner(s) \/ ReadHead(s) \/ ReadSequence(s) \/ ReserveHead(s)
           \/ WriteMessage(s) \/ Publish(s)
  BY <1>2 DEF CheckOwner, ReadHead, ReadSequence, ReserveHead, WriteMessage, Publish
<1>3. CASE ReceiveStep
  BY <1>3 DEF ReceiveStep, FindPublished, CopyMessage, ReleaseSlot, AdvanceTail, sender
<1> QED BY <1>1, <1>2, <1>3

\* A number below the width is its own remainder.
LEMMA WordSmall == \A x \in 0..(WordMod - 1) : x % WordMod = x
<1> TAKE x \in 0..(WordMod - 1)
<1> DEFINE r == x % WordMod
           k == x \div WordMod
<1>1. x \in Int /\ WordMod \in Nat BY WordAssumption
<1>2. r \in 0..(WordMod - 1) /\ k \in Int /\ x = WordMod * k + r BY <1>1, WordDivision
<1>3. WordMod * 0 + x = WordMod * k + r BY <1>1, <1>2
<1>4. r = x
  <2> HIDE DEF r, k
  <2> QED BY <1>2, <1>3, WordUnique
<1> QED BY <1>4

\* The pin word of MailboxTrySend counts the calls between their pin and
\* their unpin, by whatever way they leave (warpvm.cuh:78-121).
THEOREM PinsExact == Spec => []PinsAreCounted
<1>1. Init => PinsAreCounted
  <2> SUFFICES ASSUME Init PROVE PinsAreCounted
    OBVIOUS
  <2>1. Pinned = {} BY DEF Init, Pinned, PinnedPcs
  <2>2. 0 % WordMod = 0 BY WordSmall, WordAssumption
  <2> QED BY <2>1, <2>2, FS_EmptySet DEF PinsAreCounted, Init
<1>2. TypeOK /\ PinsAreCounted /\ [Next]_vars => PinsAreCounted'
  <2> SUFFICES ASSUME TypeOK, PinsAreCounted, [Next]_vars PROVE PinsAreCounted'
    OBVIOUS
  <2>1. /\ pc \in [Senders -> PinnedPcs \union {"idle", "call"}]
        /\ in_flight_sends \in Int /\ Cardinality(Pinned) \in Int
        /\ in_flight_sends = Cardinality(Pinned) % WordMod
    BY PinnedFinite, WordAssumption DEF TypeOK, PinsAreCounted
  <2>2. ASSUME Pinned' = Pinned, in_flight_sends' = in_flight_sends
        PROVE  PinsAreCounted'
    BY <2>2 DEF PinsAreCounted
  <2>3. ASSUME NEW d \in Int, in_flight_sends' = (in_flight_sends + d) % WordMod,
               Cardinality(Pinned') = Cardinality(Pinned) + d
        PROVE  PinsAreCounted'
    <3> DEFINE n == Cardinality(Pinned)
    <3>1. n \in Int /\ in_flight_sends = n % WordMod /\ Cardinality(Pinned') = n + d
      BY <2>1, <2>3
    <3> HIDE DEF n
    <3>2. ((n % WordMod) + d) % WordMod = (n + d) % WordMod BY <3>1, WordAdd
    <3> QED BY <2>3, <3>1, <3>2 DEF PinsAreCounted
  <2>4. ASSUME NEW s \in Senders, Pin(s) PROVE PinsAreCounted'
    <3>1. in_flight_sends' = (in_flight_sends + 1) % WordMod BY <2>4 DEF Pin
    <3>2. Cardinality(Pinned') = Cardinality(Pinned) + 1 BY <2>1, <2>4, PinHeld
    <3> QED BY <2>3, <3>1, <3>2
  <2>5. ASSUME NEW s \in Senders, Unpin(s) PROVE PinsAreCounted'
    <3>1. in_flight_sends - 1 = in_flight_sends + (-1) BY <2>1
    <3>2. Cardinality(Pinned) - 1 = Cardinality(Pinned) + (-1) BY <2>1
    <3>3. in_flight_sends' = (in_flight_sends - 1) % WordMod BY <2>5 DEF Unpin
    <3>4. Cardinality(Pinned') = Cardinality(Pinned) - 1 BY <2>1, <2>5, UnpinDropped
    <3> QED BY <2>3, <3>1, <3>2, <3>3, <3>4
  <2>6. CASE UNCHANGED vars
    BY <2>2, <2>6 DEF vars, ring, sender, Pinned
  <2>7. CASE ReceiveStep
    BY <2>2, <2>7 DEF ReceiveStep, FindPublished, CopyMessage, ReleaseSlot, AdvanceTail,
                      Pinned, ring, sender
  <2> QED BY <2>1, <2>2, <2>4, <2>5, <2>6, <2>7, PinnedKept DEF Next, SendStep
<1> QED BY <1>1, <1>2, TypeCorrect, PTL DEF Spec

-----------------------------------------------------------------------------
(* The order of one sender's messages.                                     *)

\* The k-th send of a sender reserves after its earlier ones, and while it
\* has not reserved yet every reserved message of its sender is of an earlier one.
Before(s) == pc[s] \in {"call", "owner", "head", "sequence", "cas"}

OrderInv ==
  /\ \A i, j \in 1..Len(reserved) :
       i < j /\ reserved[i][1] = reserved[j][1] => reserved[i][2] < reserved[j][2]
  /\ \A s \in Senders : \A i \in 1..Len(reserved) : reserved[i][1] = s =>
       reserved[i][2] <= sends[s] /\ (Before(s) => reserved[i][2] < sends[s])

\* A reservation appends the sender's current send, which is its latest.
LEMMA ReserveOrdered ==
  ASSUME IInv, OrderInv, NEW s \in Senders, ReserveHead(s), head = position[s]
  PROVE  OrderInv'
<1>1. /\ pc[s] = "cas" /\ reserved' = Append(reserved, Payload(s))
      /\ pc' = [pc EXCEPT ![s] = "write"] /\ sends' = sends
  BY DEF ReserveHead
<1>2. /\ reserved \in Seq(Messages) /\ sends \in [Senders -> 0..MaxSends]
      /\ pc \in [Senders -> PinnedPcs \union {"idle", "call"}]
      /\ expected \in [Senders -> VmIds] /\ sends[s] >= 1
  BY <1>1 DEF IInv, TypeOK, SenderInv
<1>3. Payload(s) \in Messages /\ Payload(s)[1] = s /\ Payload(s)[2] = sends[s]
  BY <1>2 DEF Payload, Messages
<1>4. /\ Len(reserved') = Len(reserved) + 1 /\ Len(reserved) \in Nat
      /\ reserved'[Len(reserved) + 1] = Payload(s)
      /\ \A i \in 1..Len(reserved) : reserved'[i] = reserved[i]
  BY <1>1, <1>2, <1>3
<1>5. \A i \in 1..Len(reserved) : /\ reserved[i][1] \in Senders /\ reserved[i][2] \in Nat
                                  /\ reserved[i][1] = s => reserved[i][2] < sends[s]
  BY <1>1, <1>2 DEF Messages, OrderInv, Before
<1>6. \A t \in Senders : Before(t)' => Before(t) /\ t # s
  BY <1>1, <1>2 DEF Before
<1>7. ASSUME NEW i \in 1..Len(reserved'), NEW j \in 1..Len(reserved'),
             i < j, reserved'[i][1] = reserved'[j][1]
      PROVE  reserved'[i][2] < reserved'[j][2]
  <2>1. i \in 1..Len(reserved) BY <1>4, <1>7
  <2>2. CASE j \in 1..Len(reserved) BY <1>4, <1>7, <2>1, <2>2 DEF OrderInv
  <2>3. CASE j = Len(reserved) + 1 BY <1>3, <1>4, <1>5, <1>7, <2>1, <2>3
  <2> QED BY <1>4, <2>2, <2>3
<1>8. ASSUME NEW t \in Senders, NEW i \in 1..Len(reserved'), reserved'[i][1] = t
      PROVE  reserved'[i][2] <= sends'[t] /\ (Before(t)' => reserved'[i][2] < sends'[t])
  <2>1. CASE i \in 1..Len(reserved)
    BY <1>1, <1>4, <1>5, <1>6, <1>8, <2>1 DEF OrderInv
  <2>2. CASE i = Len(reserved) + 1
    BY <1>1, <1>2, <1>3, <1>4, <1>6, <1>8, <2>2
  <2> QED BY <1>4, <2>1, <2>2
<1> QED BY <1>7, <1>8 DEF OrderInv

\* A new call is a later send than any before it.
LEMMA CallOrdered ==
  ASSUME IInv, OrderInv, NEW s \in Senders, NEW v \in VmIds, Call(s, v)
  PROVE  OrderInv'
<1>1. /\ pc[s] = "idle" /\ pc' = [pc EXCEPT ![s] = "call"] /\ reserved' = reserved
      /\ sends' = [sends EXCEPT ![s] = @ + 1]
  BY DEF Call
<1>2. /\ reserved \in Seq(Messages) /\ sends \in [Senders -> 0..MaxSends]
      /\ pc \in [Senders -> PinnedPcs \union {"idle", "call"}]
  BY DEF IInv, TypeOK
<1>3. ASSUME NEW t \in Senders, NEW i \in 1..Len(reserved), reserved[i][1] = t
      PROVE  reserved[i][2] <= sends'[t] /\ (Before(t)' => reserved[i][2] < sends'[t])
  <2>1. reserved[i][2] \in Nat
    BY <1>2 DEF Messages
  <2>2. CASE t = s BY <1>1, <1>2, <1>3, <2>1, <2>2 DEF OrderInv
  <2>3. CASE t # s BY <1>1, <1>2, <1>3, <2>1, <2>3 DEF OrderInv, Before
  <2> QED BY <2>2, <2>3
<1> QED BY <1>1, <1>3 DEF OrderInv

\* Whichever reservations compete, what reaches the owner from one sender is
\* in the order of its SENDs (warpvm.cuh:102-119).
THEOREM SenderOrdered == Spec => []SenderOrder
<1>1. Init => OrderInv BY DEF Init, OrderInv
<1>2. IInv /\ OrderInv /\ [Next]_vars => OrderInv'
  <2> SUFFICES ASSUME IInv, OrderInv, [Next]_vars PROVE OrderInv'
    OBVIOUS
  <2>1. ASSUME reserved' = reserved, sends' = sends,
               \A t \in Senders : Before(t)' => Before(t)
        PROVE  OrderInv'
    BY <2>1 DEF OrderInv
  <2>2. ASSUME NEW s \in Senders,
               \/ Pin(s) \/ CheckOwner(s) \/ ReadHead(s) \/ ReadSequence(s)
               \/ ReserveHead(s) /\ head # position[s]
               \/ WriteMessage(s) \/ Publish(s) \/ Unpin(s)
        PROVE  OrderInv'
    BY <2>1, <2>2 DEF Pin, CheckOwner, ReadHead, ReadSequence, ReserveHead, WriteMessage,
                      Publish, Unpin, Before, IInv, TypeOK
  <2>3. CASE ReceiveStep \/ UNCHANGED vars
    BY <2>1, <2>3 DEF ReceiveStep, FindPublished, CopyMessage, ReleaseSlot, AdvanceTail,
                      Before, vars, sender
  <2> QED BY <2>2, <2>3, CallOrdered, ReserveOrdered DEF Next, SendStep
<1>3. IInv /\ OrderInv => SenderOrder
  <2> SUFFICES ASSUME IInv, OrderInv PROVE SenderOrder
    OBVIOUS
  <2>1. /\ Len(received) = tail /\ tail \in Nat /\ head \in Nat /\ tail <= head
        /\ Len(reserved) = head /\ \A i \in 1..tail : received[i] = reserved[i]
    BY DEF IInv, TypeOK, RingInv, ReaderInv, Consumed
  <2> QED BY <2>1 DEF OrderInv, SenderOrder
<1> QED BY <1>1, <1>2, <1>3, Invariance, PTL DEF Spec

-----------------------------------------------------------------------------
(* Positions as 32-bit words: what MailboxTrySend compares is what the
   mailbox's specification compares, whatever the width of a word, as long as
   no sender sleeps through half of all positions.                          *)

\* A whole number of words changes no remainder.
LEMMA WordRound == \A a, k \in Int : (a + WordMod * k) % WordMod = a % WordMod
<1> SUFFICES ASSUME NEW a \in Int, NEW k \in Int
             PROVE  (a + WordMod * k) % WordMod = a % WordMod
  OBVIOUS
<1> DEFINE b == a + WordMod * k
           q == a \div WordMod
           r == a % WordMod
           j == b \div WordMod
           t == b % WordMod
<1>1. b \in Int /\ WordMod \in Nat BY WordAssumption
<1>2. q \in Int /\ r \in 0..(WordMod - 1) /\ a = WordMod * q + r BY WordDivision
<1>3. j \in Int /\ t \in 0..(WordMod - 1) /\ b = WordMod * j + t BY <1>1, WordDivision
<1>4. t = r
  <2>1. b = a + WordMod * k OBVIOUS
  <2> HIDE DEF b, q, r, j, t
  <2>2. WordMod * j + t = WordMod * (q + k) + r BY <1>1, <1>2, <1>3, <2>1
  <2> QED BY <1>2, <1>3, <2>2, WordUnique
<1> QED BY <1>4

\* The difference of two words is the difference of the numbers, as a word.
LEMMA WordSubtract ==
  \A a, b \in Int : (Word(a) - Word(b)) % WordMod = (a - b) % WordMod
<1> SUFFICES ASSUME NEW a \in Int, NEW b \in Int
             PROVE  (Word(a) - Word(b)) % WordMod = (a - b) % WordMod
  OBVIOUS
<1> DEFINE u == b % WordMod
           k == b \div WordMod
<1>1. u \in Int /\ k \in Int /\ b = WordMod * k + u BY WordDivision, WordAssumption
<1>2. ((a % WordMod) + (-u)) % WordMod = (a + (-u)) % WordMod BY <1>1, WordAdd
<1>3. ((a - b) + WordMod * k) % WordMod = (a - b) % WordMod BY <1>1, WordRound
<1>4. (a - b) + WordMod * k = a + (-u)
  <2> HIDE DEF u, k
  <2> QED BY <1>1, WordAssumption
<1>5. (a % WordMod) + (-u) = Word(a) - Word(b) 
  <2>1. a % WordMod \in Int BY WordDivision
  <2> QED BY <1>1, <2>1 DEF Word
<1> QED BY <1>2, <1>3, <1>4, <1>5

\* A signed difference is exact within half a word's range.
LEMMA DifferenceExact ==
  \A q, p \in Int :
    -(WordMod \div 2) <= q - p /\ q - p < WordMod \div 2 => Difference(q, p) = q - p
<1> SUFFICES ASSUME NEW q \in Int, NEW p \in Int,
                    -(WordMod \div 2) <= q - p, q - p < WordMod \div 2
             PROVE  Difference(q, p) = q - p
  OBVIOUS
<1> DEFINE d == q - p
           h == WordMod \div 2
           w == (Word(q) - Word(p)) % WordMod
<1>1. d \in Int /\ h \in Nat /\ 2 * h <= WordMod /\ -h <= d /\ d < h
  BY WordAssumption
<1>2. w = d % WordMod BY WordSubtract
<1>3. Difference(q, p) = IF w < h THEN w ELSE w - WordMod BY DEF Difference
<1> HIDE DEF d, h, w
<1>4. CASE d >= 0
  <2>1. d \in 0..(WordMod - 1) BY <1>1, <1>4, WordAssumption
  <2>2. w = d BY <1>2, <2>1, WordSmall
  <2> QED BY <1>1, <1>3, <2>2 DEF d
<1>5. CASE d < 0
  <2>1. d + WordMod \in 0..(WordMod - 1) BY <1>1, <1>5, WordAssumption
  <2>2. (d + WordMod * 1) % WordMod = d % WordMod BY <1>1, WordRound
  <2>3. d + WordMod * 1 = d + WordMod BY <1>1, WordAssumption
  <2>4. w = d + WordMod BY <1>2, <2>1, <2>2, <2>3, WordSmall
  <2>5. ~(w < h) /\ w - WordMod = d BY <1>1, <2>4, WordAssumption
  <2> QED BY <1>3, <2>5 DEF d
<1> QED BY <1>1, <1>4, <1>5

\* Less than a word apart, two positions have one word only if they are one.
LEMMA WordDistinct ==
  \A a, b \in Int : 0 <= a - b /\ a - b < WordMod /\ Word(a) = Word(b) => a = b
<1> SUFFICES ASSUME NEW a \in Int, NEW b \in Int,
                    0 <= a - b, a - b < WordMod, Word(a) = Word(b)
             PROVE  a = b
  OBVIOUS
<1>1. Word(a) \in Int /\ Word(b) \in Int BY WordDivision DEF Word
<1>2. Word(a) - Word(b) = 0 BY <1>1
<1>3. 0 % WordMod = (a - b) % WordMod BY <1>2, WordSubtract
<1>4. 0 \in 0..(WordMod - 1) /\ a - b \in 0..(WordMod - 1) BY WordAssumption
<1>5. 0 = a - b BY <1>3, <1>4, WordSmall
<1> QED BY <1>5

\* Slots divides the number of words: a position and its word share a slot.
LEMMA WordSlot == \A p \in Nat : SlotOf(Word(p)) = SlotOf(p)
<1> SUFFICES ASSUME NEW p \in Nat PROVE SlotOf(Word(p)) = SlotOf(p)
  OBVIOUS
<1> DEFINE n == WordMod \div Slots
           q == p \div WordMod
           r == Word(p)
           b == r \div Slots
           t == SlotOf(r)
<1>1. WordMod \in Nat /\ n \in Nat /\ WordMod = Slots * n + SlotOf(WordMod)
  BY Division, WordAssumption
<1>2. WordMod = Slots * n BY <1>1, LapAssumption, SlotsAssumption DEF SlotOf
<1>3. r \in Nat /\ q \in Int /\ p = WordMod * q + r BY WordDivision, WordAssumption DEF Word
<1>4. b \in Nat /\ t \in 0..(Slots - 1) /\ r = Slots * b + t BY <1>3, Division
<1>5. SlotOf(p) = t
  <2> HIDE DEF n, q, r, b, t
  <2>1. n * q + b \in Int /\ WordMod * q = Slots * (n * q)
    BY <1>1, <1>2, <1>3, <1>4, SlotsAssumption
  <2>2. p = Slots * (n * q + b) + t BY <1>1, <1>3, <1>4, <2>1, SlotsAssumption
  <2> QED BY <1>4, <2>1, <2>2, SlotByDivision
<1> QED BY <1>5

-----------------------------------------------------------------------------
\* The entry a sender finds is at most a lap behind its position, and less
\* than a lap ahead of head.
LEMMA EntryNear ==
  ASSUME IInv, NEW p \in Nat, p <= head
  PROVE  /\ sequence[SlotOf(p)] \in Nat
         /\ p - Slots <= sequence[SlotOf(p)]
         /\ sequence[SlotOf(p)] < head + Slots
<1>1. Consumed \in Nat /\ head \in Nat BY DEF IInv, TypeOK, Consumed
<1>2. Consumed <= head /\ head <= Consumed + Slots BY DEF IInv, RingInv
<1>3. SlotOf(p) \in 0..(Slots - 1) BY Division
<1>4. PICK q \in Consumed..(Consumed + Slots - 1) : SlotOf(q) = SlotOf(p)
  BY <1>1, <1>3, SlotCovered
<1>5. q \in Nat /\ sequence[SlotOf(p)] \in {q, q + 1} /\ (q >= head => sequence[SlotOf(p)] = q)
  BY <1>1, <1>4 DEF IInv, RingInv, Window
<1> QED BY <1>1, <1>2, <1>4, <1>5, SlotsAssumption

\* The invariant of the ring says that words tell positions apart.
LEMMA WordsTell == IInv => WordsTellPositions
<1> SUFFICES ASSUME IInv, NEW s \in Senders
             PROVE  /\ SlotOf(Word(position[s])) = SlotOf(position[s])
                    /\ pc[s] = "sequence" /\ (head - position[s]) + Slots <= WordMod \div 2
                         => Difference(sequence[SlotOf(position[s])], position[s])
                              = sequence[SlotOf(position[s])] - position[s]
                    /\ pc[s] = "cas" /\ head - position[s] < WordMod
                         => (Word(head) = Word(position[s]) <=> head = position[s])
  BY DEF WordsTellPositions
<1>1. position[s] \in Nat /\ head \in Nat BY DEF IInv, TypeOK
<1>2. pc[s] \in {"sequence", "cas"} => position[s] <= head BY DEF IInv, SenderInv
<1>3. SlotOf(Word(position[s])) = SlotOf(position[s]) BY <1>1, WordSlot
<1>4. ASSUME pc[s] = "sequence", (head - position[s]) + Slots <= WordMod \div 2
      PROVE  Difference(sequence[SlotOf(position[s])], position[s])
               = sequence[SlotOf(position[s])] - position[s]
  <2> DEFINE found == sequence[SlotOf(position[s])]
             h     == WordMod \div 2
  <2>1. position[s] <= head BY <1>2, <1>4
  <2>2. found \in Nat /\ position[s] - Slots <= found /\ found < head + Slots
    BY <1>1, <2>1, EntryNear
  <2>3. h \in Int /\ (head - position[s]) + Slots <= h BY <1>4, WordAssumption
  <2> HIDE DEF found, h
  <2>4. -h <= found - position[s] /\ found - position[s] < h
    BY <1>1, <2>1, <2>2, <2>3, SlotsAssumption
  <2>5. Difference(found, position[s]) = found - position[s]
    BY <1>1, <2>2, <2>4, DifferenceExact DEF h
  <2> QED BY <2>5 DEF found
<1>5. ASSUME pc[s] = "cas", head - position[s] < WordMod
      PROVE  Word(head) = Word(position[s]) <=> head = position[s]
  <2>1. 0 <= head - position[s] BY <1>1, <1>2, <1>5
  <2> QED BY <1>1, <1>5, <2>1, WordDistinct
<1> QED BY <1>3, <1>4, <1>5

\* The comparisons of MailboxTrySend on 32-bit words (warpvm.cuh:92-104) are
\* those on positions, however often the words have come round.
THEOREM WordsTellApart == Spec => []WordsTellPositions
BY WordsTell, Invariance, PTL

----------------------------------------------------------------------------
(* The ring implements the bounded channel: every step of MailboxTrySend   *)
(* and MailboxTryReceive is, through the mapping of MailboxChannel, a step *)
(* of the channel or none.                                                 *)
USE SlotsAssumption, OwnerAssumption, MaxSendsAssumption, WordAssumption

\* The slot keeps its owner here, and beyond the owner check a sender means it.
OwnerInv ==
  /\ owner_vm_id = FirstOwner
  /\ \A s \in Senders : pc[s] \in {"head", "sequence", "cas"} => expected[s] = FirstOwner

\* No call changes owner_vm_id: only the retirement of the slot does.
LEMMA OwnerInvariance == Spec => []OwnerInv
<1>1. Init => OwnerInv BY DEF Init, OwnerInv
<1>2. TypeOK /\ OwnerInv /\ [Next]_vars => OwnerInv'
  <2> SUFFICES ASSUME TypeOK, OwnerInv, [Next]_vars PROVE OwnerInv'
    OBVIOUS
  <2>1. ASSUME NEW s \in Senders, NEW v \in VmIds, Call(s, v) PROVE OwnerInv'
    BY <2>1 DEF Call, OwnerInv, TypeOK, ring
  <2>2. ASSUME NEW s \in Senders, SendStep(s) PROVE OwnerInv'
    BY <2>2 DEF SendStep, Pin, CheckOwner, ReadHead, ReadSequence, ReserveHead,
                WriteMessage, Publish, Unpin, OwnerInv, TypeOK, ring
  <2>3. CASE ReceiveStep \/ UNCHANGED vars
    BY <2>3 DEF ReceiveStep, FindPublished, CopyMessage, ReleaseSlot, AdvanceTail,
                OwnerInv, vars, ring, sender
  <2> QED BY <2>1, <2>2, <2>3 DEF Next
<1> QED BY <1>1, <1>2, TypeCorrect, PTL DEF Spec

-----------------------------------------------------------------------------
(* The mapped variables.                                                   *)

\* A call is seen at its place in MailboxTrySend.
LEMMA CallOfPlace ==
  ASSUME NEW s \in Senders
  PROVE  /\ pc[s] = "idle" => CallOf(s) = [state |-> "none"]
         /\ pc[s] \in {"call", "owner", "head", "sequence", "cas"} =>
              CallOf(s) = [state |-> "trying", to |-> expected[s], msg |-> Payload(s)]
         /\ pc[s] \in {"write", "publish"} =>
              CallOf(s) = [state |-> "accepted", msg |-> Payload(s)]
         /\ pc[s] \in {"refused", "full"} => CallOf(s) = [state |-> "failed"]
         /\ pc[s] = "sent" => CallOf(s) = [state |-> "shown"]
BY DEF CallOf, Writing

\* The same of a call that has returned, seen from the step before.
LEMMA IdleNext == ASSUME NEW s \in Senders PROVE (pc[s] = "idle" => CallOf(s) = [state |-> "none"])'
BY CallOfPlace, PTL

\* No step of the reader changes a call.
LEMMA CallBarSame ==
  ASSUME UNCHANGED <<pc, expected, sends>>
  PROVE  CallBar' = CallBar
<1>1. \A s \in Senders : CallOf(s)' = CallOf(s) BY DEF CallOf, Writing, Payload
<1> QED BY <1>1 DEF CallBar

\* A step of one sender changes its own call at most.
LEMMA CallBarStep ==
  ASSUME NEW s \in Senders, NEW c, CallOf(s)' = c,
         \A t \in Senders : t # s => pc'[t] = pc[t] /\ expected'[t] = expected[t]
                                     /\ sends'[t] = sends[t]
  PROVE  CallBar' = [CallBar EXCEPT ![s] = c]
<1>1. \A t \in Senders : t # s => CallOf(t)' = CallOf(t)
  BY DEF CallOf, Writing, Payload
<1> QED BY <1>1 DEF CallBar

Entries == [msg : Messages, visible : BOOLEAN]

\* The queue is the sequence of the positions reserved and not consumed.
LEMMA QueueType ==
  IInv => /\ QueueBar \in Seq(Entries)
          /\ Len(QueueBar) = head - Consumed
          /\ \A i \in 1..(head - Consumed) : QueueBar[i] = Entry(Consumed + i - 1)
<1> SUFFICES ASSUME IInv
    PROVE  /\ QueueBar \in Seq(Entries)
           /\ Len(QueueBar) = head - Consumed
           /\ \A i \in 1..(head - Consumed) : QueueBar[i] = Entry(Consumed + i - 1)
  OBVIOUS
<1> DEFINE n == head - Consumed
<1>1. /\ Consumed \in Nat /\ head \in Nat /\ n \in Nat
      /\ reserved \in Seq(Messages) /\ Len(reserved) = head
  BY DEF IInv, TypeOK, RingInv, Consumed
<1>2. ASSUME NEW i \in 1..n PROVE Entry(Consumed + i - 1) \in Entries
  <2>1. Consumed + i - 1 + 1 \in 1..Len(reserved) BY <1>1
  <2>2. reserved[Consumed + i - 1 + 1] \in Messages BY <1>1, <2>1
  <2> QED BY <2>2 DEF Entry, Entries
<1>3. QueueBar \in [1..n -> Entries] BY <1>2 DEF QueueBar
<1>4. QueueBar \in Seq(Entries) BY <1>1, <1>3, SeqDef
<1>5. DOMAIN QueueBar = 1..n /\ DOMAIN QueueBar = 1..Len(QueueBar) /\ Len(QueueBar) \in Nat
  BY <1>3, <1>4, LenProperties
<1>6. Len(QueueBar) = n
  <2> HIDE DEF n
  <2> QED BY <1>1, <1>5
<1> QED BY <1>4, <1>6 DEF QueueBar

\* The same of the queue after a step.
LEMMA QueueTypeNext ==
  ASSUME IInv'
  PROVE  /\ QueueBar' \in Seq(Entries)
         /\ Len(QueueBar') = head' - Consumed'
         /\ \A i \in 1..(head' - Consumed') : QueueBar'[i] = Entry(Consumed + i - 1)'
<1>1. (IInv => /\ QueueBar \in Seq(Entries)
               /\ Len(QueueBar) = head - Consumed
               /\ \A i \in 1..(head - Consumed) : QueueBar[i] = Entry(Consumed + i - 1))'
  BY QueueType, PTL
<1> QED BY <1>1 DEF Entries, Messages

\* The queue follows from head, the consumed positions, what is reserved
\* and the sequence numbers.
LEMMA QueueSame ==
  ASSUME UNCHANGED <<head, tail, rpc, reserved, sequence>>
  PROVE  QueueBar' = QueueBar
BY DEF QueueBar, Entry, Consumed

-----------------------------------------------------------------------------
(* One lemma for each step that the channel sees.                          *)

\* The sender's own steps: until it is refused or has won the swap, and
\* while it writes its message.
Private(s) ==
  \/ Pin(s)
  \/ ReadHead(s)
  \/ CheckOwner(s) /\ pc'[s] = "head"
  \/ ReadSequence(s) /\ pc'[s] # "full"
  \/ ReserveHead(s) /\ head # position[s]
  \/ WriteMessage(s)

\* The channel sees none of them.
LEMMA PrivateStep ==
  ASSUME IInv, NEW s \in Senders, Private(s)
  PROVE  UNCHANGED Abstract!vars
<1>1. /\ UNCHANGED <<head, tail, rpc, reserved, sequence, received, inbox, expected, sends>>
      /\ \A t \in Senders : t # s => pc'[t] = pc[t]
      /\ \/ /\ pc[s] \in {"call", "owner", "head", "sequence", "cas"}
            /\ pc'[s] \in {"call", "owner", "head", "sequence", "cas"}
         \/ pc[s] = "write" /\ pc'[s] = "publish"
  BY DEF Private, Pin, ReadHead, CheckOwner, ReadSequence, ReserveHead, WriteMessage,
         ring, reader, IInv, TypeOK
<1>2. QueueBar' = QueueBar BY <1>1, QueueSame
<1>3. CallOf(s)' = CallOf(s) BY <1>1 DEF CallOf, Writing, Payload
<1>4. \A t \in Senders : t # s => CallOf(t)' = CallOf(t)
  BY <1>1 DEF CallOf, Writing, Payload
<1>5. CallBar' = CallBar BY <1>3, <1>4 DEF CallBar
<1>6. DeliveredBar' = DeliveredBar BY <1>1 DEF DeliveredBar
<1> QED BY <1>2, <1>5, <1>6 DEF Abstract!vars

\* SEND begins with a message of its own.
LEMMA CallBegins ==
  ASSUME IInv, NEW s \in Senders, NEW v \in VmIds, Call(s, v)
  PROVE  Abstract!Begin(s, v, <<s, sends'[s], v>>) /\ <<s, sends'[s], v>> \in Messages
<1>1. /\ pc[s] = "idle" /\ pc' = [pc EXCEPT ![s] = "call"] /\ sends[s] < MaxSends
      /\ expected' = [expected EXCEPT ![s] = v]
      /\ sends' = [sends EXCEPT ![s] = @ + 1]
      /\ UNCHANGED <<head, tail, rpc, reserved, sequence, received, inbox>>
  BY DEF Call, ring, reader
<1>2. /\ pc \in [Senders -> PinnedPcs \union {"idle", "call"}]
      /\ expected \in [Senders -> VmIds] /\ sends \in [Senders -> 0..MaxSends]
  BY DEF IInv, TypeOK
<1>3. /\ pc'[s] = "call" /\ expected'[s] = v /\ sends'[s] = sends[s] + 1
      /\ \A t \in Senders : t # s => pc'[t] = pc[t] /\ expected'[t] = expected[t]
                                     /\ sends'[t] = sends[t]
  BY <1>1, <1>2
<1>4. CallOf(s)' = [state |-> "trying", to |-> v, msg |-> <<s, sends'[s], v>>]
  BY <1>3 DEF CallOf, Writing, Payload
<1>5. CallBar' = [CallBar EXCEPT ![s] = [state |-> "trying", to |-> v, msg |-> <<s, sends'[s], v>>]]
  BY <1>3, <1>4, CallBarStep
<1>6. CallBar[s].state = "none" BY <1>1, CallOfPlace DEF CallBar
<1>7. QueueBar' = QueueBar BY <1>1, QueueSame
<1>8. DeliveredBar' = DeliveredBar BY <1>1 DEF DeliveredBar
<1>9. <<s, sends'[s], v>> \in Messages
  <2>1. sends'[s] \in 1..MaxSends BY <1>1, <1>2, <1>3
  <2> QED BY <2>1 DEF Messages
<1> QED BY <1>5, <1>6, <1>7, <1>8, <1>9 DEF Abstract!Begin

\* A sender whose owner check fails meant another VM.
LEMMA RefusalRejects ==
  ASSUME IInv, OwnerInv, NEW s \in Senders, CheckOwner(s), pc'[s] # "head"
  PROVE  Abstract!RejectOwner(s)
<1>1. /\ pc[s] = "owner" /\ pc' = [pc EXCEPT ![s] = "refused"] /\ expected[s] # FirstOwner
      /\ UNCHANGED <<head, tail, rpc, reserved, sequence, received, inbox, expected, sends>>
  BY DEF CheckOwner, ring, reader, OwnerInv, IInv, TypeOK
<1>2. pc'[s] = "refused" /\ \A t \in Senders : t # s => pc'[t] = pc[t]
  BY <1>1 DEF IInv, TypeOK
<1>3. CallOf(s)' = [state |-> "failed"] BY <1>2 DEF CallOf, Writing
<1>4. CallBar' = [CallBar EXCEPT ![s] = [state |-> "failed"]]
  BY <1>1, <1>2, <1>3, CallBarStep
<1>5. CallBar[s] = [state |-> "trying", to |-> expected[s], msg |-> Payload(s)]
  BY <1>1, CallOfPlace DEF CallBar
<1>6. QueueBar' = QueueBar /\ DeliveredBar' = DeliveredBar
  BY <1>1, QueueSame DEF DeliveredBar
<1> QED BY <1>1, <1>4, <1>5, <1>6 DEF Abstract!RejectOwner, Abstract!Trying, Abstract!Ends

\* Winning the compare-and-swap accepts the message, and there is room for it.
LEMMA ReservationAccepts ==
  ASSUME IInv, OwnerInv, NEW s \in Senders, ReserveHead(s), head = position[s]
  PROVE  Abstract!Accept(s)
<1>1. /\ pc[s] = "cas" /\ pc' = [pc EXCEPT ![s] = "write"] /\ expected[s] = FirstOwner
      /\ head' = head + 1 /\ reserved' = Append(reserved, Payload(s))
      /\ UNCHANGED <<tail, rpc, sequence, received, inbox, expected, sends>>
  BY DEF ReserveHead, reader, OwnerInv
<1>2. /\ Consumed \in Nat /\ Consumed' = Consumed /\ head \in Nat /\ Consumed <= head
      /\ head < Consumed + Slots /\ Len(reserved) = head /\ reserved \in Seq(Messages)
      /\ sequence[SlotOf(head)] = head /\ Payload(s) \in Messages
  <2>1. head < Consumed + Slots BY <1>1 DEF IInv, SenderInv
  <2>2. /\ Consumed \in Nat /\ Consumed' = Consumed /\ head \in Nat /\ Consumed <= head
        /\ Len(reserved) = head /\ reserved \in Seq(Messages)
    BY <1>1 DEF IInv, TypeOK, RingInv, Consumed
  <2>3. sequence[SlotOf(head)] = head BY <2>1, <2>2 DEF IInv, RingInv, Window
  <2>4. Payload(s) \in Messages BY <1>1 DEF IInv, TypeOK, SenderInv, Payload, Messages
  <2> QED BY <2>1, <2>2, <2>3, <2>4
<1> DEFINE n == head - Consumed
           e == [msg |-> Payload(s), visible |-> FALSE]
<1>3. QueueBar \in Seq(Entries) /\ Len(QueueBar) = n /\ n \in Nat
      /\ \A i \in 1..n : QueueBar[i] = Entry(Consumed + i - 1)
  BY <1>2, QueueType
<1>4. IInv' BY ReserveHeadInv
<1>5. /\ QueueBar' \in Seq(Entries) /\ Len(QueueBar') = n + 1
      /\ \A i \in 1..(n + 1) : QueueBar'[i] = Entry(Consumed + i - 1)'
  BY <1>1, <1>2, <1>4, QueueTypeNext
<1>6. /\ Append(QueueBar, e) \in Seq(Entries) /\ Len(Append(QueueBar, e)) = n + 1
      /\ Append(QueueBar, e)[n + 1] = e
      /\ \A i \in 1..n : Append(QueueBar, e)[i] = QueueBar[i]
  <2>1. e \in Entries BY <1>2 DEF Entries
  <2> HIDE DEF e, n
  <2> QED BY <1>3, <2>1
<1>7. ASSUME NEW i \in 1..(n + 1) PROVE QueueBar'[i] = Append(QueueBar, e)[i]
  <2>1. QueueBar'[i] = [msg |-> reserved'[Consumed + i - 1 + 1],
                        visible |-> sequence[SlotOf(Consumed + i - 1)] = Consumed + i - 1 + 1]
    BY <1>1, <1>2, <1>5 DEF Entry
  <2>2. CASE i \in 1..n
    <3>1. Consumed + i - 1 + 1 \in 1..Len(reserved) BY <1>2, <2>2
    <3>2. reserved'[Consumed + i - 1 + 1] = reserved[Consumed + i - 1 + 1]
      BY <1>1, <1>2, <3>1
    <3> QED BY <1>3, <1>6, <2>1, <2>2, <3>2 DEF Entry
  <2>3. CASE i = n + 1
    <3>1. Consumed + i - 1 = head BY <1>2, <2>3
    <3>2. reserved'[head + 1] = Payload(s) BY <1>1, <1>2
    <3>3. ~(head = head + 1) BY <1>2
    <3> QED BY <1>2, <1>6, <2>1, <2>3, <3>1, <3>2, <3>3
  <2> QED BY <1>3, <2>2, <2>3
<1>8. QueueBar' = Append(QueueBar, e)
  <2> HIDE DEF e, n
  <2> QED BY <1>5, <1>6, <1>7, SeqEqual
<1>9. CallBar[s] = [state |-> "trying", to |-> FirstOwner, msg |-> Payload(s)]
  BY <1>1, CallOfPlace DEF CallBar
<1>10. CallBar' = [CallBar EXCEPT ![s] = [state |-> "accepted", msg |-> Payload(s)]]
  <2>1. pc'[s] = "write" /\ \A t \in Senders : t # s => pc'[t] = pc[t]
    BY <1>1 DEF IInv, TypeOK
  <2>2. CallOf(s)' = [state |-> "accepted", msg |-> Payload(s)]
    BY <1>1, <2>1 DEF CallOf, Writing, Payload
  <2> QED BY <1>1, <2>1, <2>2, CallBarStep
<1>11. DeliveredBar' = DeliveredBar BY <1>1 DEF DeliveredBar
<1>12. Len(QueueBar) < Slots BY <1>2, <1>3
<1>14. CallBar[s].state = "trying" /\ CallBar[s].to = FirstOwner /\ CallBar[s].msg = Payload(s)
  BY <1>9
<1>15. QueueBar' = Append(QueueBar, [msg |-> CallBar[s].msg, visible |-> FALSE])
  BY <1>8, <1>14
<1>16. CallBar' = [CallBar EXCEPT ![s] = [state |-> "accepted", msg |-> CallBar[s].msg]]
  BY <1>10, <1>14
<1> HIDE DEF e, n
<1> QED BY <1>11, <1>12, <1>14, <1>15, <1>16 DEF Abstract!Accept, Abstract!Trying

\* A sender that reports a full ring does so while the queue is at its capacity.
LEMMA FullRejects ==
  ASSUME IInv, OwnerInv, NEW s \in Senders, ReadSequence(s), pc'[s] = "full"
  PROVE  Abstract!RejectFull(s)
<1>1. /\ pc[s] = "sequence" /\ expected[s] = FirstOwner
      /\ \A t \in Senders : t # s => pc'[t] = pc[t]
      /\ UNCHANGED <<head, tail, rpc, reserved, sequence, received, inbox, expected, sends>>
  BY DEF ReadSequence, ring, reader, OwnerInv, IInv, TypeOK
<1>2. Len(QueueBar) = Slots
  <2>1. position[s] \in Nat /\ position[s] <= head BY <1>1 DEF IInv, TypeOK, SenderInv
  <2>2. sequence[SlotOf(position[s])] \in Nat BY <2>1, Division DEF IInv, TypeOK
  <2>3. sequence[SlotOf(position[s])] < position[s]
    BY <1>1, <2>1, <2>2 DEF ReadSequence, IInv, TypeOK
  <2>4. head - Consumed = Slots BY <2>1, <2>3, SequenceRead
  <2> QED BY <2>4, QueueType
<1>3. CallOf(s)' = [state |-> "failed"] BY DEF CallOf, Writing
<1>4. CallBar' = [CallBar EXCEPT ![s] = [state |-> "failed"]]
  BY <1>1, <1>3, CallBarStep
<1>5. CallBar[s] = [state |-> "trying", to |-> FirstOwner, msg |-> Payload(s)]
  BY <1>1, CallOfPlace DEF CallBar
<1>6. QueueBar' = QueueBar /\ DeliveredBar' = DeliveredBar
  BY <1>1, QueueSame DEF DeliveredBar
<1> QED BY <1>2, <1>4, <1>5, <1>6 DEF Abstract!RejectFull, Abstract!Trying, Abstract!Ends

\* Publishing makes the sender's own entry visible and no other.
LEMMA PublishShows ==
  ASSUME IInv, NEW s \in Senders, Publish(s)
  PROVE  Abstract!Show(s)
<1> DEFINE p == position[s]
           n == head - Consumed
           k == p - Consumed + 1
           e == [msg |-> Payload(s), visible |-> TRUE]
           q == [QueueBar EXCEPT ![k] = e]
<1>1. /\ pc[s] = "publish" /\ pc' = [pc EXCEPT ![s] = "sent"]
      /\ sequence' = [sequence EXCEPT ![SlotOf(p)] = p + 1]
      /\ UNCHANGED <<head, tail, rpc, reserved, received, inbox, expected, sends>>
  BY DEF Publish, reader
<1>2. /\ Consumed \in Nat /\ head \in Nat /\ p \in Nat /\ Consumed <= p /\ p < head
      /\ head <= Consumed + Slots /\ Consumed' = Consumed
      /\ sequence[SlotOf(p)] = p /\ reserved[p + 1] = Payload(s)
      /\ sequence \in [0..(Slots - 1) -> Nat] /\ SlotOf(p) \in 0..(Slots - 1)
  <2>1. p \in Nat BY DEF IInv, TypeOK
  <2>2. SlotOf(p) \in 0..(Slots - 1) BY <2>1, Division
  <2>3. /\ Consumed \in Nat /\ head \in Nat /\ Consumed' = Consumed
        /\ sequence \in [0..(Slots - 1) -> Nat]
    BY <1>1 DEF IInv, TypeOK, Consumed
  <2>4. head <= Consumed + Slots BY DEF IInv, RingInv
  <2>5. /\ Consumed <= p /\ p < head /\ sequence[SlotOf(p)] = p
        /\ reserved[p + 1] = Payload(s)
    BY <1>1 DEF IInv, SenderInv, Writing
  <2> QED BY <2>1, <2>2, <2>3, <2>4, <2>5
<1>3. QueueBar \in Seq(Entries) /\ Len(QueueBar) = n
      /\ \A i \in 1..n : QueueBar[i] = Entry(Consumed + i - 1)
  BY <1>2, QueueType
<1>4. k \in 1..n /\ n \in Nat BY <1>2
<1>5. QueueBar[k] = [msg |-> Payload(s), visible |-> FALSE]
  <2>1. Consumed + k - 1 = p BY <1>2
  <2>2. ~(p = p + 1) BY <1>2
  <2> QED BY <1>2, <1>3, <1>4, <2>1, <2>2 DEF Entry
<1>6. IInv' BY PublishInv
<1>7. /\ QueueBar' \in Seq(Entries) /\ Len(QueueBar') = n
      /\ \A i \in 1..n : QueueBar'[i] = Entry(Consumed + i - 1)'
  BY <1>1, <1>2, <1>6, QueueTypeNext
<1>8. ASSUME NEW i \in 1..n
      PROVE  QueueBar'[i] = q[i]
  <2>1. Consumed + i - 1 \in Nat BY <1>2
  <2>2. QueueBar'[i] = [msg |-> reserved[Consumed + i - 1 + 1],
                        visible |-> sequence'[SlotOf(Consumed + i - 1)] = Consumed + i - 1 + 1]
    BY <1>1, <1>2, <1>7 DEF Entry
  <2>3. CASE i = k
    <3>1. Consumed + i - 1 = p BY <1>2, <2>3
    <3>2. sequence'[SlotOf(p)] = p + 1 BY <1>1, <1>2
    <3>3. QueueBar'[i] = [msg |-> Payload(s), visible |-> TRUE]
      BY <1>2, <2>2, <3>1, <3>2
    <3>4. DOMAIN QueueBar = 1..n BY <1>3, LenProperties
    <3>5. q[k] = e BY <1>4, <3>4
    <3> QED BY <2>3, <3>3, <3>5
  <2>4. CASE i # k
    <3>1. Consumed + i - 1 # p BY <1>2, <2>4
    <3>2. SlotOf(Consumed + i - 1) # SlotOf(p)
      BY <1>2, <2>1, <3>1, SlotDistinct
    <3>3. SlotOf(Consumed + i - 1) \in 0..(Slots - 1) BY <2>1, Division
    <3>4. sequence'[SlotOf(Consumed + i - 1)] = sequence[SlotOf(Consumed + i - 1)]
      BY <1>1, <1>2, <3>2, <3>3
    <3>5. QueueBar'[i] = QueueBar[i] BY <1>3, <2>2, <3>4 DEF Entry
    <3>6. DOMAIN QueueBar = 1..n BY <1>3, LenProperties
    <3>7. q[i] = QueueBar[i] BY <2>4, <3>6
    <3> QED BY <3>5, <3>7
  <2> QED BY <2>3, <2>4
<1>9. QueueBar' = q
  <2>1. e \in Entries
    <3>1. Payload(s) \in Messages BY <1>1 DEF IInv, TypeOK, SenderInv, Payload, Messages
    <3> QED BY <3>1 DEF Entries
  <2>2. q \in Seq(Entries) /\ Len(q) = n
    <3> HIDE DEF e, k, n
    <3> QED BY <1>3, <1>4, <2>1, ExceptSeq
  <2> HIDE DEF q, k, n
  <2> QED BY <1>7, <1>8, <2>2, SeqEqual
<1>10. CallBar[s] = [state |-> "accepted", msg |-> Payload(s)]
  BY <1>1, CallOfPlace DEF CallBar
<1>11. CallBar' = [CallBar EXCEPT ![s] = [state |-> "shown"]]
  <2>1. pc'[s] = "sent" /\ \A t \in Senders : t # s => pc'[t] = pc[t]
    BY <1>1 DEF IInv, TypeOK
  <2>2. CallOf(s)' = [state |-> "shown"] BY <2>1 DEF CallOf, Writing
  <2> QED BY <1>1, <2>1, <2>2, CallBarStep
<1>12. DeliveredBar' = DeliveredBar BY <1>1 DEF DeliveredBar
<1>13. CallBar[s].state = "accepted" /\ CallBar[s].msg = Payload(s) BY <1>10
<1>14. k \in 1..Len(QueueBar) BY <1>3, <1>4
<1>15. QueueBar[k] = [msg |-> CallBar[s].msg, visible |-> FALSE] BY <1>5, <1>13
<1> HIDE DEF k, n
<1>16. \E i \in 1..Len(QueueBar) :
         /\ QueueBar[i] = [msg |-> CallBar[s].msg, visible |-> FALSE]
         /\ QueueBar' = [QueueBar EXCEPT ![i] = [msg |-> CallBar[s].msg, visible |-> TRUE]]
  <2>1. QueueBar' = [QueueBar EXCEPT ![k] = [msg |-> CallBar[s].msg, visible |-> TRUE]]
    BY <1>9, <1>13
  <2> QED BY <1>14, <1>15, <2>1
<1> QED BY <1>11, <1>12, <1>13, <1>16 DEF Abstract!Show, Abstract!Ends

\* Dropping the pin ends the call.
LEMMA UnpinReturns ==
  ASSUME IInv, NEW s \in Senders, Unpin(s)
  PROVE  Abstract!Return(s)
<1>1. /\ pc[s] \in {"refused", "full", "sent"} /\ pc' = [pc EXCEPT ![s] = "idle"]
      /\ UNCHANGED <<head, tail, rpc, reserved, sequence, received, inbox, expected, sends>>
  BY DEF Unpin, reader
<1>2. pc'[s] = "idle" /\ \A t \in Senders : t # s => pc'[t] = pc[t]
  BY <1>1 DEF IInv, TypeOK
<1>3. CallOf(s)' = [state |-> "none"]
  BY <1>2, IdleNext
<1>4. CallBar' = [CallBar EXCEPT ![s] = [state |-> "none"]]
  BY <1>1, <1>2, <1>3, CallBarStep
<1>5. CallBar[s].state \in {"failed", "shown"} BY <1>1, CallOfPlace DEF CallBar
<1>6. QueueBar' = QueueBar /\ DeliveredBar' = DeliveredBar
  BY <1>1, QueueSame DEF DeliveredBar
<1> QED BY <1>4, <1>5, <1>6 DEF Abstract!Return, Abstract!Ends

\* Releasing the slot takes the oldest entry, which is visible by then.
LEMMA ReleaseTakes ==
  ASSUME IInv, ReleaseSlot
  PROVE  Abstract!Take
<1> DEFINE n == head - tail
<1>1. /\ rpc = "release" /\ rpc' = "advance"
      /\ sequence' = [sequence EXCEPT ![SlotOf(tail)] = tail + Slots]
      /\ UNCHANGED <<head, tail, reserved, received, inbox, pc, expected, sends>>
  BY DEF ReleaseSlot, sender
<1>2. /\ Consumed = tail /\ Consumed' = tail + 1 /\ tail \in Nat /\ head \in Nat
      /\ sequence \in [0..(Slots - 1) -> Nat]
  BY <1>1 DEF IInv, TypeOK, Consumed
<1>3. /\ tail < head /\ sequence[SlotOf(tail)] = tail + 1
      /\ inbox = reserved[tail + 1]
  BY <1>1 DEF IInv, ReaderInv
<1>4. head <= tail + Slots BY <1>2 DEF IInv, RingInv
<1>5. /\ QueueBar \in Seq(Entries) /\ Len(QueueBar) = n
      /\ \A i \in 1..n : QueueBar[i] = Entry(tail + i - 1)
  BY <1>2, QueueType
<1>6. n \in Nat /\ n >= 1 BY <1>2, <1>3
<1>7. Head(QueueBar) = [msg |-> inbox, visible |-> TRUE]
  <2>1. tail + 1 - 1 = tail BY <1>2
  <2>2. QueueBar[1] = Entry(tail)
    <3>1. 1 \in 1..n BY <1>6
    <3>2. QueueBar[1] = Entry(tail + 1 - 1) BY <1>5, <3>1
    <3> QED BY <2>1, <3>2
  <2>3. Entry(tail) = [msg |-> inbox, visible |-> TRUE] BY <1>3 DEF Entry
  <2> QED BY <1>5, <2>2, <2>3
<1>8. QueueBar # <<>>
  <2> HIDE DEF n
  <2> QED BY <1>5, <1>6
<1>9. /\ Tail(QueueBar) \in Seq(Entries) /\ Len(Tail(QueueBar)) = n - 1
      /\ \A i \in 1..(n - 1) : Tail(QueueBar)[i] = QueueBar[i + 1]
  <2> HIDE DEF n
  <2> QED BY <1>5, <1>6, <1>8, HeadTailProperties
<1>10. IInv' BY ReleaseSlotInv
<1>11. /\ QueueBar' \in Seq(Entries) /\ Len(QueueBar') = n - 1
       /\ \A i \in 1..(n - 1) : QueueBar'[i] = Entry(tail + 1 + i - 1)'
  <2>1. head - (tail + 1) = n - 1 BY <1>2
  <2> QED BY <1>1, <1>2, <1>10, <2>1, QueueTypeNext
<1>12. ASSUME NEW i \in 1..(n - 1) PROVE QueueBar'[i] = Tail(QueueBar)[i]
  <2>1. /\ tail + i \in Nat /\ tail < tail + i /\ tail + i < tail + Slots
        /\ tail + 1 + i - 1 = tail + i /\ tail + (i + 1) - 1 = tail + i
        /\ i + 1 \in 1..n
    BY <1>2, <1>4
  <2>2. SlotOf(tail + i) # SlotOf(tail) BY <1>2, <2>1, SlotDistinct
  <2>3. SlotOf(tail + i) \in 0..(Slots - 1) BY <2>1, Division
  <2>4. sequence'[SlotOf(tail + i)] = sequence[SlotOf(tail + i)]
    BY <1>1, <1>2, <2>2, <2>3
  <2>5. QueueBar'[i] = [msg |-> reserved[tail + i + 1],
                        visible |-> sequence'[SlotOf(tail + i)] = tail + i + 1]
    BY <1>1, <1>11, <2>1 DEF Entry
  <2>6. QueueBar[i + 1] = [msg |-> reserved[tail + i + 1],
                           visible |-> sequence[SlotOf(tail + i)] = tail + i + 1]
    <3>1. QueueBar[i + 1] = Entry(tail + (i + 1) - 1) BY <1>5, <2>1
    <3> QED BY <2>1, <3>1 DEF Entry
  <2> QED BY <1>9, <2>4, <2>5, <2>6
<1>13. QueueBar' = Tail(QueueBar)
  <2> HIDE DEF n
  <2>1. n - 1 \in Nat BY <1>6
  <2> QED BY <1>9, <1>11, <1>12, <2>1, SeqEqual
<1>14. DeliveredBar' = Append(DeliveredBar, inbox) BY <1>1 DEF DeliveredBar
<1>15. CallBar' = CallBar BY <1>1, CallBarSame
<1>16. Head(QueueBar).visible /\ Head(QueueBar).msg = inbox BY <1>7
<1> QED BY <1>8, <1>13, <1>14, <1>15, <1>16 DEF Abstract!Take

\* Finding and copying the message, and moving tail, are the reader's own.
LEMMA ReaderPrivateStep ==
  ASSUME IInv, FindPublished \/ CopyMessage \/ AdvanceTail
  PROVE  UNCHANGED Abstract!vars
<1>1. /\ UNCHANGED <<head, reserved, sequence, pc, expected, sends>>
      /\ Consumed' = Consumed /\ DeliveredBar' = DeliveredBar
  BY DEF FindPublished, CopyMessage, AdvanceTail, ring, sender, Consumed, DeliveredBar
<1>2. QueueBar' = QueueBar BY <1>1 DEF QueueBar, Entry
<1>3. CallBar' = CallBar BY <1>1, CallBarSame
<1> QED BY <1>1, <1>2, <1>3 DEF Abstract!vars

-----------------------------------------------------------------------------
\* The empty ring is the empty channel.
LEMMA InitRefines == Init => Abstract!Init
<1> SUFFICES ASSUME Init PROVE Abstract!Init
  OBVIOUS
<1>1. head = 0 /\ Consumed = 0 BY DEF Init, Consumed
<1>2. QueueBar = <<>>
  <2>1. QueueBar \in Seq(Entries) /\ Len(QueueBar) = 0
    BY <1>1, InitInv, QueueType
  <2> QED BY <2>1, EmptySeq
<1>3. \A s \in Senders : CallOf(s) = [state |-> "none"]
  BY CallOfPlace DEF Init
<1>4. CallBar = [s \in Senders |-> [state |-> "none"]] BY <1>3 DEF CallBar
<1>5. DeliveredBar = <<>> BY DEF Init, DeliveredBar
<1> QED BY <1>2, <1>4, <1>5 DEF Abstract!Init

\* Every step of the mailbox is a step of the channel or changes nothing in it.
LEMMA StepRefines ==
  IInv /\ OwnerInv /\ [Next]_vars => [Abstract!Next]_(Abstract!vars)
<1> SUFFICES ASSUME IInv, OwnerInv, [Next]_vars
             PROVE  Abstract!Next \/ UNCHANGED Abstract!vars
  OBVIOUS
<1>1. ASSUME NEW s \in Senders, NEW v \in VmIds, Call(s, v) PROVE Abstract!Next
  BY <1>1, CallBegins DEF Abstract!Next
<1>2. ASSUME NEW s \in Senders, SendStep(s)
      PROVE  Abstract!Next \/ UNCHANGED Abstract!vars
  <2>1. CASE Private(s) BY <2>1, PrivateStep
  <2>2. CASE CheckOwner(s)
    <3>1. CASE pc'[s] = "head" BY <2>1, <2>2, <3>1 DEF Private
    <3>2. CASE pc'[s] # "head" BY <2>2, <3>2, RefusalRejects DEF Abstract!Next
    <3> QED BY <3>1, <3>2
  <2>3. CASE ReadSequence(s)
    <3>1. CASE pc'[s] # "full" BY <2>1, <2>3, <3>1 DEF Private
    <3>2. CASE pc'[s] = "full" BY <2>3, <3>2, FullRejects DEF Abstract!Next
    <3> QED BY <3>1, <3>2
  <2>4. CASE ReserveHead(s)
    <3>1. CASE head # position[s] BY <2>1, <2>4, <3>1 DEF Private
    <3>2. CASE head = position[s] BY <2>4, <3>2, ReservationAccepts DEF Abstract!Next
    <3> QED BY <3>1, <3>2
  <2>5. CASE Publish(s) BY <2>5, PublishShows DEF Abstract!Next
  <2>6. CASE Unpin(s) BY <2>6, UnpinReturns DEF Abstract!Next
  <2>7. CASE Pin(s) \/ ReadHead(s) \/ WriteMessage(s) BY <2>1, <2>7 DEF Private
  <2> QED BY <1>2, <2>2, <2>3, <2>4, <2>5, <2>6, <2>7 DEF SendStep
<1>3. CASE ReceiveStep
  BY <1>3, ReleaseTakes, ReaderPrivateStep DEF ReceiveStep, Abstract!Next
<1>4. CASE UNCHANGED vars
  <2>1. UNCHANGED <<head, tail, rpc, reserved, sequence, received, inbox, pc, expected, sends>>
    BY <1>4 DEF vars, ring, sender, reader
  <2>2. CallBar' = CallBar BY <2>1, CallBarSame
  <2>3. DeliveredBar' = DeliveredBar BY <2>1 DEF DeliveredBar
  <2> QED BY <2>1, <2>2, <2>3, QueueSame DEF Abstract!vars
<1> QED BY <1>1, <1>2, <1>3, <1>4 DEF Next

\* Seen through the mapping of MailboxChannel, a run of the ring of warpvm.cuh
\* is a run of the bounded channel that SEND and TRY_RECV promise.
THEOREM Refinement == Spec => ImplementsChannel
<1> SUFFICES Spec => Abstract!Init /\ [][Abstract!Next]_(Abstract!vars)
  BY DEF ImplementsChannel, Abstract!Spec
<1> QED BY InitRefines, StepRefines, Invariance, OwnerInvariance, PTL DEF Spec
=============================================================================
