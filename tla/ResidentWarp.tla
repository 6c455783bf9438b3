---------------------------- MODULE ResidentWarp ----------------------------
(***************************************************************************)
(* The device side of one slot's control channel: the warp that stays      *)
(* resident and serves the slot's command word (PersistentKernelBody,      *)
(* RunVmUntilStop and DeactivateVm of runtime/src/gpu/kernel.cu, with      *)
(* ConsumeCmd and CheckInterrupt of runtime/src/gpu/control.cuh).          *)
(*                                                                         *)
(* Every access to a word the host shares is a step.  The program the warp *)
(* executes is abstracted to what it can do to the channel: go on, reach a *)
(* control point, or stop by itself.  HALTED stands for FAULTED too: the   *)
(* warp treats the two alike.                                              *)
(***************************************************************************)
EXTENDS Naturals

CONSTANTS
  MaxVm,   \* bound: the largest logical id
  SeqMod   \* values of a seq word: 2^32 in the code

ASSUME WarpAssumption == MaxVm \in Nat /\ SeqMod \in Nat \ {0, 1}

NoVm  == 0            \* kInvalidVmId
VmIds == 1..MaxVm

Commands == {"None", "Run", "Pause", "Reset", "Exit", "Step", "Deactivate"}
Statuses == {"Idle", "Running", "Paused", "Halted"}

VARIABLES
  shutdown, cmd, status, seq,  \* the slot's words of Control
  resident,    \* states[slot].vm_id, and a descriptor with code, or NoVm
  owner,       \* mailboxes[slot].owner_vm_id
  routes,      \* ids that vm_routes maps to the slot
  warp,        \* where the warp is
  got,         \* the command ConsumeCmd returned
  cold,        \* the warp came from the idle loop, not from a pause
  leaving      \* DeactivateVm's copy of vm_id

channel == <<shutdown, cmd, status, seq>>
binding == <<resident, owner, routes>>
inner   == <<warp, got, cold, leaving>>
warpVars == <<channel, binding, inner>>

Locations ==
  {"poll", "consume", "start", "publish", "running", "pauseSeen", "pausing",
   "step", "stepped", "reset", "withdraw", "route", "owner", "drain", "retire",
   "acknowledge", "leave", "exited"}

WarpInit ==
  /\ shutdown = FALSE /\ cmd = "None" /\ status = "Idle" /\ seq = 0
  /\ resident = NoVm /\ owner = NoVm /\ routes = {}
  /\ warp = "poll" /\ got = "None" /\ cold = TRUE /\ leaving = NoVm

-----------------------------------------------------------------------------
(* The command word.  ConsumeCmd reads it and clears it in two accesses.   *)

ReadCmd ==
  /\ warp = "poll" /\ ~shutdown /\ cmd # "None"
  /\ got' = cmd
  /\ warp' = "consume"
  /\ UNCHANGED <<channel, binding, cold, leaving>>

\* Fault: any command a paused VM does not know resumes it.
DispatchResuming(c) ==
  CASE c = "Run"        -> IF cold THEN "start" ELSE "publish"
    [] c = "Reset"      -> "reset"
    [] c = "Deactivate" -> "withdraw"
    [] c = "Exit"       -> "leave"
    [] c = "Step"       -> IF cold THEN "poll" ELSE "step"
    [] OTHER            -> IF cold THEN "poll" ELSE "publish"

\* What the idle loop (cold) and the pause loop make of a command; the ones
\* they do not serve are dropped.
Dispatch(c) ==
  CASE c = "Run"        -> IF cold THEN "start" ELSE "publish"
    [] c = "Reset"      -> "reset"
    [] c = "Deactivate" -> "withdraw"
    [] c = "Exit"       -> "leave"
    [] c = "Step"       -> IF cold THEN "poll" ELSE "step"
    [] OTHER            -> "poll"

ClearCmd ==
  /\ warp = "consume"
  /\ cmd' = "None"
  /\ warp' = Dispatch(got)
  /\ got' = "None"
  /\ UNCHANGED <<shutdown, status, seq, binding, cold, leaving>>

\* Fault: RUN does not look whether the slot is bound.
StartBlindly ==
  /\ warp = "start"
  /\ warp' = "publish"
  /\ UNCHANGED <<channel, binding, got, cold, leaving>>

\* A cold RUN reloads descriptor and id: an empty slot's warp stays idle.
ColdStart ==
  /\ warp = "start"
  /\ IF resident = NoVm
       THEN warp' = "poll" /\ status' = "Idle"
       ELSE warp' = "publish" /\ UNCHANGED status
  /\ UNCHANGED <<shutdown, cmd, seq, binding, got, cold, leaving>>

PublishRunning ==
  /\ warp = "publish"
  /\ status' = "Running"
  /\ warp' = "running"
  /\ cold' = FALSE
  /\ UNCHANGED <<shutdown, cmd, seq, binding, got, leaving>>

-----------------------------------------------------------------------------
(* Execution: VmRun and the statuses published when it returns             *)

Stop ==
  /\ warp = "running"
  /\ status' = "Halted"
  /\ warp' = "poll" /\ cold' = TRUE
  /\ UNCHANGED <<shutdown, cmd, seq, binding, got, leaving>>

\* A control point consumes PAUSE and no other command: CheckInterrupt.
SeePause ==
  /\ warp = "running" /\ ~shutdown /\ cmd = "Pause"
  /\ warp' = "pauseSeen"
  /\ UNCHANGED <<channel, binding, got, cold, leaving>>

ClearPause ==
  /\ warp = "pauseSeen"
  /\ cmd' = "None"
  /\ warp' = "pausing"
  /\ UNCHANGED <<shutdown, status, seq, binding, got, cold, leaving>>

PublishPaused ==
  /\ warp = "pausing"
  /\ status' = "Paused"
  /\ warp' = "poll"
  /\ UNCHANGED <<shutdown, cmd, seq, binding, got, cold, leaving>>

\* One instruction of a paused VM; it may be the last.
Step ==
  /\ warp = "step"
  /\ \/ status' = "Paused" /\ UNCHANGED cold
     \/ status' = "Halted" /\ cold' = TRUE
  /\ warp' = "stepped"
  /\ UNCHANGED <<shutdown, cmd, seq, binding, got, leaving>>

CountStep ==
  /\ warp = "stepped"
  /\ seq' = (seq + 1) % SeqMod
  /\ warp' = "poll"
  /\ UNCHANGED <<shutdown, cmd, status, binding, got, cold, leaving>>

ResetVm ==
  /\ warp = "reset"
  /\ status' = "Idle"
  /\ warp' = "poll" /\ cold' = TRUE
  /\ UNCHANGED <<shutdown, cmd, seq, binding, got, leaving>>

-----------------------------------------------------------------------------
(* DeactivateVm                                                            *)

ReadResident ==
  /\ warp = "withdraw"
  /\ leaving' = resident
  /\ warp' = "route"
  /\ UNCHANGED <<channel, binding, got, cold>>

WithdrawRoute ==
  /\ warp = "route"
  /\ routes' = routes \ {leaving}
  /\ warp' = "owner"
  /\ UNCHANGED <<channel, resident, owner, got, cold, leaving>>

WithdrawOwner ==
  /\ warp = "owner"
  /\ owner' = NoVm
  /\ warp' = "drain"
  /\ UNCHANGED <<channel, resident, routes, got, cold, leaving>>

\* The last pinned sender leaves, and the ring is cleared (SlotRetirement).
Drained ==
  /\ warp = "drain"
  /\ warp' = "retire"
  /\ UNCHANGED <<channel, binding, got, cold, leaving>>

Retire ==
  /\ warp = "retire"
  /\ resident' = NoVm
  /\ status' = "Idle"
  /\ warp' = "acknowledge"
  /\ UNCHANGED <<shutdown, cmd, seq, owner, routes, got, cold, leaving>>

Acknowledge ==
  /\ warp = "acknowledge"
  /\ seq' = (seq + 1) % SeqMod
  /\ leaving' = NoVm
  /\ warp' = "poll" /\ cold' = TRUE
  /\ UNCHANGED <<shutdown, cmd, status, binding, got>>

-----------------------------------------------------------------------------
\* Fault: control points do not look at shutdown.
LeaveAtPoll ==
  /\ warp \in IF shutdown THEN {"poll", "leave"} ELSE {"leave"}
  /\ status' = "Idle"
  /\ warp' = "exited"
  /\ UNCHANGED <<shutdown, cmd, seq, binding, got, cold, leaving>>

\* Shutdown is seen at the head of each loop and at control points; EXIT,
\* which no host code sends, leaves too.
Leave ==
  /\ warp \in IF shutdown THEN {"poll", "running", "leave"} ELSE {"leave"}
  /\ status' = "Idle"
  /\ warp' = "exited"
  /\ UNCHANGED <<shutdown, cmd, seq, binding, got, cold, leaving>>

Deactivation ==
  ReadResident \/ WithdrawRoute \/ WithdrawOwner \/ Drained \/ Retire \/ Acknowledge

\* What the warp does whatever its program does.
Serve ==
  \/ ReadCmd \/ ClearCmd \/ ColdStart \/ PublishRunning
  \/ SeePause \/ ClearPause \/ PublishPaused
  \/ Step \/ CountStep \/ ResetVm \/ Deactivation \/ Leave

WarpStep == Serve \/ Stop

\* The channel, the binding and the warp's registers have their types.
WarpTypeOK ==
  /\ shutdown \in BOOLEAN /\ cmd \in Commands /\ status \in Statuses /\ seq \in 0..(SeqMod - 1)
  /\ {resident, owner, leaving} \subseteq VmIds \union {NoVm}
  /\ routes \subseteq VmIds
  /\ warp \in Locations /\ got \in Commands /\ cold \in BOOLEAN
=============================================================================
