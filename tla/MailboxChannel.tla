--------------------------- MODULE MailboxChannel ---------------------------
(* The mailbox implements the bounded channel of module Channel.           *)
EXTENDS Mailbox

\* The queue is what lies between the consumed positions and head; an entry
\* is visible once its slot carries the published sequence number.
Entry(p) == [msg |-> reserved[p + 1], visible |-> sequence[SlotOf(p)] = p + 1]
QueueBar == [i \in 1..(head - Consumed) |-> Entry(Consumed + i - 1)]

CallOf(s) ==
  CASE pc[s] = "idle" -> [state |-> "none"]
    [] pc[s] \in {"call", "owner", "head", "sequence", "cas"} ->
         [state |-> "trying", to |-> expected[s], msg |-> Payload(s)]
    [] Writing(s) -> [state |-> "accepted", msg |-> Payload(s)]
    [] pc[s] \in {"refused", "full"} -> [state |-> "failed"]
    [] pc[s] = "sent" -> [state |-> "shown"]
CallBar == [s \in Senders |-> CallOf(s)]

\* Releasing the slot takes the message, before tail has moved.
DeliveredBar == IF rpc = "advance" THEN Append(received, inbox) ELSE received

Abstract ==
  INSTANCE Channel WITH Capacity <- Slots, Owner <- FirstOwner,
    queue <- QueueBar, call <- CallBar, delivered <- DeliveredBar

\* Seen through the mapping, MailboxTrySend and MailboxTryReceive do only what
\* SEND and TRY_RECV promise: accept, reject, show and take one message each.
ImplementsChannel == Abstract!Spec
=============================================================================
