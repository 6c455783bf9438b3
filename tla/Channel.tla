------------------------------ MODULE Channel ------------------------------
(***************************************************************************)
(* What SEND and TRY_RECV promise (runtime/src/gpu/warpvm.cuh and the SEND *)
(* and TRY_RECV cases of interpreter.cuh), with nothing of the ring: a     *)
(* bounded queue into which a message is accepted at once, made visible    *)
(* later, and from which the oldest message is taken once it is visible.   *)
(***************************************************************************)
EXTENDS Naturals, Sequences

CONSTANTS Senders, Capacity, VmIds, Owner, Messages

VARIABLES
  queue,      \* accepted messages, oldest first: [msg, visible]
  call,       \* per sender: "none", "trying", or how its call will end
  delivered   \* messages taken, in order

vars == <<queue, call, delivered>>

Init ==
  /\ queue = <<>>
  /\ call = [s \in Senders |-> [state |-> "none"]]
  /\ delivered = <<>>

Trying(s) == call[s].state = "trying"
Ends(s, how) == call' = [call EXCEPT ![s] = [state |-> how]]

Begin(s, v, m) ==
  /\ call[s].state = "none"
  /\ call' = [call EXCEPT ![s] = [state |-> "trying", to |-> v, msg |-> m]]
  /\ UNCHANGED <<queue, delivered>>

Accept(s) ==
  /\ Trying(s)
  /\ call[s].to = Owner
  /\ Len(queue) < Capacity
  /\ queue' = Append(queue, [msg |-> call[s].msg, visible |-> FALSE])
  /\ call' = [call EXCEPT ![s] = [state |-> "accepted", msg |-> call[s].msg]]
  /\ UNCHANGED delivered

\* Only a full queue turns the owner's own correspondent away.
RejectFull(s) ==
  /\ Trying(s) /\ call[s].to = Owner /\ Len(queue) = Capacity
  /\ Ends(s, "failed")
  /\ UNCHANGED <<queue, delivered>>

RejectOwner(s) ==
  /\ Trying(s) /\ call[s].to # Owner
  /\ Ends(s, "failed")
  /\ UNCHANGED <<queue, delivered>>

\* The call returns true only once its message can be seen.
Show(s) ==
  /\ call[s].state = "accepted"
  /\ \E i \in 1..Len(queue) :
       /\ queue[i] = [msg |-> call[s].msg, visible |-> FALSE]
       /\ queue' = [queue EXCEPT ![i] = [msg |-> call[s].msg, visible |-> TRUE]]
  /\ Ends(s, "shown")
  /\ UNCHANGED delivered

Return(s) ==
  /\ call[s].state \in {"failed", "shown"}
  /\ Ends(s, "none")
  /\ UNCHANGED <<queue, delivered>>

Take ==
  /\ queue # <<>>
  /\ Head(queue).visible
  /\ delivered' = Append(delivered, Head(queue).msg)
  /\ queue' = Tail(queue)
  /\ UNCHANGED call

Next ==
  \/ \E s \in Senders :
       \/ \E v \in VmIds, m \in Messages : Begin(s, v, m)
       \/ Accept(s) \/ RejectFull(s) \/ RejectOwner(s) \/ Show(s) \/ Return(s)
  \/ Take

Spec == Init /\ [][Next]_vars
=============================================================================
