--------------------------- MODULE SupervisedSlot ---------------------------
(***************************************************************************)
(* One resident slot under the CPU supervisor: the lifecycle calls of      *)
(* runtime/src/host/supervisor.h and the slot operations they use in       *)
(* runtime/src/host/persistent.h, interleaved with the slot's warp         *)
(* (ResidentWarp).  One host thread makes the calls, one at a time.        *)
(*                                                                         *)
(* A call is: Refresh and the lifecycle check; a look at the slot's        *)
(* status; a command; a wait for its effect, which may time out; and, for  *)
(* calls that retire the VM, the retirement and the next binding.  CUDA    *)
(* calls succeed and the id space (65536) is not exhausted here.           *)
(***************************************************************************)
EXTENDS ResidentWarp

CONSTANT Patience   \* the values of patient explored

ASSUME SupervisorAssumption == Patience \subseteq BOOLEAN

Lifecycles == {"EMPTY", "READY", "RUNNING", "STOPPED", "HALTED"}
Operations == {"create", "start", "stop", "resume", "reset", "program", "delete"}
Phases ==
  {"ready", "look", "run", "pause", "deactivate", "resuming", "stopping",
   "draining", "rewrite", "release", "bind", "owner", "route", "clear", "down"}

VARIABLES
  lifecycle,  \* instances_[slot].lifecycle
  tenant,     \* h_vm_ids_[slot]
  op, phase,  \* the call being made, and where it is
  seq0,       \* UnbindSlot's copy of seq
  created,    \* ids the directory has given out
  patient,    \* fixed: waits only time out on a warp that will not answer
  abandoned   \* history: the commands whose wait has timed out

host == <<lifecycle, tenant, op, phase, seq0, created, patient, abandoned>>
vars == <<warpVars, host>>

Init ==
  /\ WarpInit
  /\ lifecycle = "EMPTY" /\ tenant = NoVm
  /\ op = "none" /\ phase = "ready" /\ seq0 = 0
  /\ created = 0 /\ patient \in Patience /\ abandoned = {}

-----------------------------------------------------------------------------
\* Fault: a status taken for a lifecycle.
RefreshedRaw == IF lifecycle = "RUNNING" THEN status ELSE lifecycle

\* Refresh: only a RUNNING lifecycle follows the status word.
Refreshed ==
  IF lifecycle = "RUNNING"
    THEN CASE status = "Paused" -> "STOPPED"
           [] status = "Halted" -> "HALTED"
           [] OTHER             -> "RUNNING"
    ELSE lifecycle

\* The lifecycles in which a call is accepted.
Accepts(o) ==
  CASE o = "create"  -> {"EMPTY"}
    [] o = "start"   -> {"READY"}
    [] o = "stop"    -> {"RUNNING"}
    [] o = "resume"  -> {"STOPPED"}
    [] o = "reset"   -> {"STOPPED", "HALTED"}
    [] o = "program" -> {"READY", "STOPPED", "HALTED"}
    [] o = "delete"  -> {"READY", "RUNNING", "STOPPED", "HALTED"}

\* Find and instances(), and calls refused by the lifecycle, refresh it.
Refresh ==
  /\ phase = "ready" /\ lifecycle # Refreshed
  /\ lifecycle' = Refreshed
  /\ UNCHANGED <<warpVars, tenant, op, phase, seq0, created, patient, abandoned>>

Call(o) ==
  /\ phase = "ready"
  /\ Refreshed \in Accepts(o)
  /\ o = "create" => created < MaxVm
  /\ lifecycle' = Refreshed
  /\ op' = o
  /\ phase' = IF o = "create" THEN "bind" ELSE "look"
  /\ created' = IF o = "create" THEN created + 1 ELSE created
  /\ UNCHANGED <<warpVars, tenant, seq0, patient, abandoned>>

\* The call returns, leaving the lifecycle as given.
Return(l) == lifecycle' = l /\ op' = "none" /\ phase' = "ready"

\* Fault: a running VM is retired without being paused.
LookNoPause ==
  /\ phase = "look"
  /\ \/ op = "start"  /\ status = "Idle"    /\ phase' = "run"
     \/ op = "stop"   /\ status = "Running" /\ phase' = "pause"
     \/ op = "resume" /\ status = "Paused"  /\ phase' = "run"
     \/ op \in {"reset", "program", "delete"} /\ phase' = "deactivate"
  /\ UNCHANGED <<warpVars, lifecycle, op, tenant, seq0, created, patient, abandoned>>

\* The head of StartSlot, StopSlot, ResumeSlot and UnbindSlot.
Look ==
  /\ phase = "look"
  /\ \/ /\ op = "start"
        /\ IF status = "Idle" THEN phase' = "run" /\ UNCHANGED <<lifecycle, op>>
                              ELSE Return(lifecycle)
     \/ /\ op = "stop"
        /\ CASE status = "Paused"  -> Return("STOPPED")
             [] status = "Running" -> phase' = "pause" /\ UNCHANGED <<lifecycle, op>>
             [] OTHER              -> Return(lifecycle)
     \/ /\ op = "resume"
        /\ IF status = "Paused" THEN phase' = "run" /\ UNCHANGED <<lifecycle, op>>
                                ELSE Return(lifecycle)
     \/ /\ op \in {"reset", "program", "delete"}
        /\ phase' = IF status = "Running" THEN "pause" ELSE "deactivate"
        /\ UNCHANGED <<lifecycle, op>>
  /\ UNCHANGED <<warpVars, tenant, seq0, created, patient, abandoned>>

\* vm_start sends RUN and does not wait for it; vm_resume does.
SendRun ==
  /\ phase = "run"
  /\ cmd' = "Run"
  /\ IF op = "start" THEN Return("RUNNING")
                     ELSE phase' = "resuming" /\ UNCHANGED <<lifecycle, op>>
  /\ UNCHANGED <<shutdown, status, seq, binding, inner, tenant, seq0, created, patient, abandoned>>

SendPause ==
  /\ phase = "pause"
  /\ cmd' = "Pause"
  /\ phase' = "stopping"
  /\ UNCHANGED <<shutdown, status, seq, binding, inner, lifecycle, op, tenant,
                 seq0, created, patient, abandoned>>

SendDeactivate ==
  /\ phase = "deactivate"
  /\ seq0' = seq
  /\ cmd' = "Deactivate"
  /\ phase' = "draining"
  /\ UNCHANGED <<shutdown, status, seq, binding, inner, lifecycle, op, tenant,
                 created, patient, abandoned>>

-----------------------------------------------------------------------------
(* Waits: WaitStatus, ResumeSlot's loop and WaitSeq                        *)

Resumed ==
  /\ phase = "resuming" /\ status # "Paused"
  /\ Return(IF status = "Halted" THEN "HALTED" ELSE "RUNNING")
  /\ UNCHANGED <<warpVars, tenant, seq0, created, patient, abandoned>>

\* Fault: PAUSE is not waited for.
StoppedAtOnce ==
  /\ phase = "stopping"
  /\ IF op = "stop" THEN Return("STOPPED")
                    ELSE phase' = "deactivate" /\ UNCHANGED <<lifecycle, op>>
  /\ UNCHANGED <<warpVars, tenant, seq0, created, patient, abandoned>>

Stopped ==
  /\ phase = "stopping" /\ status = "Paused"
  /\ IF op = "stop" THEN Return("STOPPED")
                    ELSE phase' = "deactivate" /\ UNCHANGED <<lifecycle, op>>
  /\ UNCHANGED <<warpVars, tenant, seq0, created, patient, abandoned>>

\* Fault: the acknowledgement is not waited for.
RetiredAtOnce ==
  /\ phase = "draining"
  /\ phase' = "rewrite"
  /\ UNCHANGED <<warpVars, lifecycle, tenant, op, seq0, created, patient, abandoned>>

Retired ==
  /\ phase = "draining" /\ seq # seq0
  /\ phase' = "rewrite"
  /\ UNCHANGED <<warpVars, lifecycle, tenant, op, seq0, created, patient, abandoned>>

\* The warp is where nothing but another command moves it on.
AtRest ==
  \/ warp = "exited"
  \/ warp = "poll" /\ cmd = "None"
  \/ warp = "running" /\ cmd # "Pause"

\* The command each wait is for.
Awaited == [resuming |-> "Run", stopping |-> "Pause", draining |-> "Deactivate"]

\* A wait gives up with the condition still false; its command stays.
Timeout ==
  /\ \/ phase = "resuming" /\ status = "Paused"
     \/ phase = "stopping" /\ status # "Paused"
     \/ phase = "draining" /\ seq = seq0
  /\ patient => AtRest
  /\ abandoned' = abandoned \union {Awaited[phase]}
  /\ Return(lifecycle)
  /\ UNCHANGED <<warpVars, tenant, seq0, created, patient>>

-----------------------------------------------------------------------------
(* UnbindSlot after the acknowledgement, and BindSlot                      *)

\* The host rewrites mailbox, descriptor and state of the slot.
Rewrite ==
  /\ phase = "rewrite"
  /\ owner' = NoVm /\ resident' = NoVm
  /\ phase' = "release"
  /\ UNCHANGED <<channel, routes, inner, lifecycle, op, tenant, seq0, created, patient, abandoned>>

\* ...then its own record and the control words; a deletion ends here.
Release ==
  /\ phase = "release"
  /\ tenant' = NoVm
  /\ cmd' = "None" /\ status' = "Idle"
  /\ IF op = "delete" THEN Return("EMPTY")
                      ELSE phase' = "bind" /\ UNCHANGED <<lifecycle, op>>
  /\ UNCHANGED <<shutdown, seq, binding, inner, seq0, created, patient, abandoned>>

\* A reset and a new program keep the id.  No id outlives its VM here, so the
\* one that is kept is the last created.
Bind ==
  /\ phase = "bind"
  /\ resident' = created
  /\ phase' = "owner"
  /\ UNCHANGED <<channel, owner, routes, inner, lifecycle, op, tenant, seq0, created, patient, abandoned>>

PublishOwner ==
  /\ phase = "owner"
  /\ owner' = created
  /\ tenant' = created
  /\ phase' = "route"
  /\ UNCHANGED <<channel, resident, routes, inner, lifecycle, op, seq0, created, patient, abandoned>>

PublishRoute ==
  /\ phase = "route"
  /\ routes' = routes \union {tenant}
  /\ phase' = "clear"
  /\ UNCHANGED <<channel, resident, owner, inner, lifecycle, op, tenant, seq0, created, patient, abandoned>>

ClearControl ==
  /\ phase = "clear"
  /\ cmd' = "None" /\ status' = "Idle"
  /\ Return("READY")
  /\ UNCHANGED <<shutdown, seq, binding, inner, tenant, seq0, created, patient, abandoned>>

Shutdown ==
  /\ phase = "ready"
  /\ shutdown' = TRUE
  /\ phase' = "down"
  /\ UNCHANGED <<cmd, status, seq, binding, inner, lifecycle, op, tenant, seq0,
                 created, patient, abandoned>>

-----------------------------------------------------------------------------
Send      == SendRun \/ SendPause \/ SendDeactivate
Wait      == Resumed \/ Stopped \/ Retired \/ Timeout
Rebinding == Rewrite \/ Release \/ Bind \/ PublishOwner \/ PublishRoute \/ ClearControl

Host ==
  \/ \E o \in Operations : Call(o)
  \/ Refresh \/ Look \/ Send \/ Wait \/ Rebinding \/ Shutdown

Next == (WarpStep /\ UNCHANGED host) \/ Host

Spec == Init /\ [][Next]_vars

\* Resident warps are scheduled for ever and programs that run on reach
\* control points; a call of the host, once made, proceeds.  Neither the
\* program's end nor a next call is owed.
FairSpec ==
  /\ Spec
  /\ WF_vars(Serve /\ UNCHANGED host)
  /\ WF_vars(Look \/ Send \/ Wait \/ Rebinding)

-----------------------------------------------------------------------------
(* Properties *)

\* The variables of the warp and of the call being made have their types.
TypeOK ==
  /\ WarpTypeOK
  /\ lifecycle \in Lifecycles /\ tenant \in VmIds \union {NoVm}
  /\ op \in Operations \union {"none"} /\ phase \in Phases
  /\ seq0 \in 0..(SeqMod - 1)
  /\ created \in 0..MaxVm /\ patient \in BOOLEAN /\ abandoned \subseteq Commands

Executing ==
  \/ warp \in {"publish", "running", "pauseSeen", "pausing", "step", "stepped"}
  \/ warp = "poll" /\ ~cold
Deactivating == warp \in {"withdraw", "route", "owner", "drain", "retire", "acknowledge"}

\* While the host rewrites a slot its warp is out of it: "once
\* acknowledgement arrives the host owns the slot" (persistent.h:646-649).
HostOwnsSlot ==
  phase \in {"rewrite", "release", "bind", "owner", "route", "clear"} =>
    ~Executing /\ ~Deactivating

\* A READY VM is whole: bound, reachable, at rest, with no command pending.
ReadyIsWhole ==
  lifecycle = "READY" /\ phase = "ready" =>
    /\ tenant # NoVm /\ resident = tenant /\ owner = tenant /\ routes = {tenant}
    /\ warp \in {"poll", "exited"} /\ cold /\ cmd = "None" /\ status = "Idle"

\* Both hold as long as no retirement has timed out.
RetiringIsExclusive ==
  "Deactivate" \notin abandoned => HostOwnsSlot /\ ReadyIsWhole

\* No VM executes that the host does not hold, whatever times out.
ExecutesTenant == Executing => resident # NoVm /\ resident = tenant

\* A VM the supervisor calls STOPPED is paused, and stays so until a call
\* moves it, unless a timed-out RUN or DEACTIVATE was left behind.
StoppedIsPaused ==
  lifecycle = "STOPPED" /\ phase = "ready" /\ abandoned \subseteq {"Pause"} =>
    status = "Paused" /\ ~cold /\ warp \in {"poll", "consume"}

\* ConsumeCmd clears the command it read and no other: a warp consumes each
\* command exactly once (control.cuh:21-22).
NoCommandErased ==
  [][warp = "consume" /\ warp' # "consume" => cmd = got]_vars

\* Before any timeout a command can be lost in one way only: a RUN that
\* vm_start did not wait for meets the DEACTIVATE of the next call, and either
\* is overwritten by it or has its clearing erase it.
OnlyStartLosesCommands ==
  [][abandoned = {} =>
       /\ cmd # "None" /\ cmd' # cmd =>
            cmd' = "None" \/ (cmd = "Run" /\ cmd' = "Deactivate")
       /\ warp = "consume" /\ warp' # "consume" =>
            cmd = got \/ (got = "Run" /\ cmd = "Deactivate")]_vars

\* A supervisor that does nothing but delete gets its slot back, over and
\* over, whatever the earlier calls and their timeouts left behind.
RetriedDeletionEnds ==
  patient /\ <>[](op \in {"none", "delete"}) /\ []<>(op = "delete") => []<>(lifecycle = "EMPTY")

\* After a shutdown the warp leaves the kernel.
ShutdownEnds == shutdown ~> warp = "exited"
=============================================================================
