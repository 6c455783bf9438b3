------------------------ MODULE SupervisedSlotProofs ------------------------
(***************************************************************************)
(* The safety of one slot under the supervisor, for any number of VM ids   *)
(* and any width of the seq word.  The inductive invariant has four parts, *)
(* each on top of those before it: the shape of a call; what holds         *)
(* whatever times out; what holds until a retirement has timed out; what   *)
(* holds while no wait but a PAUSE's, or none at all, has timed out.       *)
(***************************************************************************)
EXTENDS SupervisedSlot, TLAPS

\* No call sends RESET, EXIT or STEP, and none is ever served.
Sent == {"None", "Run", "Pause", "Deactivate"}

\* A call goes through its own phases, from a lifecycle it accepts.
CallShape ==
  /\ cmd \in Sent /\ got \in Sent /\ (warp = "consume" <=> got # "None")
  /\ warp \notin {"reset", "step", "stepped", "leave"}
  /\ op = "none" <=> phase \in {"ready", "down"}
  /\ shutdown => phase = "down"
  /\ phase = "look" => op # "create"
  /\ phase = "run" => op \in {"start", "resume"}
  /\ phase = "resuming" => op = "resume"
  /\ phase \in {"pause", "stopping"} => op \in {"stop", "reset", "program", "delete"}
  /\ phase \in {"deactivate", "draining", "rewrite", "release"} =>
       op \in {"reset", "program", "delete"}
  /\ phase \in {"bind", "owner", "route", "clear"} => op \in {"create", "reset", "program"}
  /\ op = "create" => lifecycle = "EMPTY"
  /\ op = "start" => lifecycle = "READY"
  /\ op = "stop" => lifecycle = "RUNNING"
  /\ op = "resume" => lifecycle = "STOPPED"
  /\ op = "reset" => lifecycle \in {"STOPPED", "HALTED"}
  /\ op = "program" => lifecycle \in {"READY", "STOPPED", "HALTED"}
  /\ op = "delete" => lifecycle # "EMPTY"
  /\ lifecycle # "EMPTY" \/ op # "none" => created >= 1
  /\ phase \in {"route", "clear"} => tenant = created

-----------------------------------------------------------------------------
(* Whatever times out.                                                     *)

\* The retirement of the call being made is acknowledged, or the slot is empty.
Owned ==
  \/ phase \in {"rewrite", "release", "bind", "owner", "route", "clear"}
  \/ phase = "draining" /\ seq # seq0
Vacant == lifecycle = "EMPTY" /\ phase \in {"ready", "down"}

\* The warp is on no way to execution.
Quiet ==
  /\ {cmd, got} \subseteq {"None", "Deactivate"}
  /\ warp \notin {"start", "publish", "running", "pauseSeen", "pausing"}
  /\ warp \in {"poll", "consume"} => cold

TenantInv ==
  /\ phase = "draining" => cmd \in {"None", "Deactivate"}
  /\ Owned \/ Vacant => Quiet
  /\ Vacant => tenant = NoVm
  /\ phase \in {"release", "bind"} => resident = NoVm
  /\ phase = "bind" => tenant = NoVm
  /\ phase = "owner" => resident \in {NoVm, created}
  /\ phase \notin {"release", "bind", "owner"} => resident \in {NoVm, tenant}
  /\ Executing \/ (warp = "consume" /\ ~cold) => resident # NoVm /\ resident = tenant
  /\ warp \in {"running", "pauseSeen", "pausing"} => status = "Running" /\ ~cold
  /\ warp = "start" => cold

-----------------------------------------------------------------------------
(* Until a retirement has timed out.                                       *)

Bound == tenant # NoVm /\ resident = tenant /\ owner = tenant /\ routes = {tenant}

\* Nothing pending, nothing under way.
AtEase == cmd = "None" /\ got = "None" /\ warp \in {"poll", "exited"} /\ cold /\ status = "Idle"

RetireInv ==
  /\ cmd = "Deactivate" \/ got = "Deactivate" \/ Deactivating =>
       phase = "draining" /\ seq = seq0
  /\ Deactivating => cmd = "None"
  /\ Owned \/ Vacant => AtEase
  /\ lifecycle = "READY" /\ phase \in {"ready", "look", "run"} => AtEase
  /\ lifecycle = "READY" => phase \notin {"pause", "stopping"}
  /\ ~Owned /\ ~Vacant /\ ~Deactivating => Bound
  /\ warp \in {"withdraw", "route"} => Bound
  /\ warp = "route" => leaving = tenant
  /\ warp \in {"owner", "drain", "retire", "acknowledge"} => routes = {}
  /\ warp = "acknowledge" => status = "Idle"
  /\ Vacant => routes = {}
  /\ Owned /\ phase \notin {"route", "clear"} => routes = {}
  /\ phase = "route" => routes = {}
  /\ phase = "owner" => resident = created
  /\ phase \in {"route", "clear"} => tenant = created /\ resident = tenant /\ owner = tenant
  /\ phase = "clear" => routes = {tenant}

-----------------------------------------------------------------------------
(* While no wait but a PAUSE's has timed out.                              *)

RunComing == cmd = "Run" \/ got = "Run" \/ warp \in {"start", "publish"}

PauseInv ==
  /\ RunComing =>
       /\ cmd # "Pause" /\ (warp \in {"start", "publish"} => cmd # "Run")
       /\ \/ phase = "resuming" /\ status = "Paused"
          \/ /\ lifecycle = "RUNNING" /\ status = "Idle"
             /\ phase \in {"ready", "look", "deactivate", "draining", "down"}
  /\ status = "Running" => lifecycle = "RUNNING" \/ phase = "resuming"
  /\ phase \in {"pause", "stopping"} => lifecycle = "RUNNING"
  /\ (cmd = "Pause" /\ warp = "running") \/ warp \in {"pauseSeen", "pausing"} =>
       /\ phase \in {"ready", "look", "pause", "stopping", "down"}
       /\ cmd \in {"None", "Pause"}
       /\ lifecycle = "RUNNING"
  /\ lifecycle = "STOPPED" /\ phase \in {"ready", "look", "run", "deactivate"} =>
       status = "Paused"
  /\ status = "Paused"
     /\ phase \in {"ready", "look", "run", "pause", "stopping", "deactivate"} =>
       ~cold /\ warp \in {"poll", "consume"} /\ {cmd, got} \subseteq {"None", "Pause"}

-----------------------------------------------------------------------------
(* While no wait has timed out.                                            *)

LossInv ==
  /\ cmd = "Pause" \/ got = "Pause" \/ warp \in {"pauseSeen", "pausing"} =>
       phase = "stopping"
  /\ warp = "pausing" => cmd = "None"
  /\ status = "Paused" /\ phase = "stopping" => cmd = "None" /\ got = "None"
  /\ phase = "pause" => status # "Paused"
  /\ phase \in {"pause", "run"} => cmd = "None" /\ got = "None"
  /\ got # "None" => cmd = got \/ (got = "Run" /\ cmd = "Deactivate")

IInv ==
  /\ TypeOK /\ CallShape /\ TenantInv
  /\ "Deactivate" \notin abandoned => RetireInv
  /\ abandoned \subseteq {"Pause"} => PauseInv
  /\ abandoned = {} => LossInv
-----------------------------------------------------------------------------
(* What the definitions by cases come to.                                  *)

\* Only a RUNNING lifecycle is refreshed from the status word.
LEMMA RefreshedBy ==
  /\ lifecycle # "RUNNING" => Refreshed = lifecycle
  /\ lifecycle = "RUNNING" /\ status = "Paused" => Refreshed = "STOPPED"
  /\ lifecycle = "RUNNING" /\ status = "Halted" => Refreshed = "HALTED"
  /\ lifecycle = "RUNNING" /\ status \notin {"Paused", "Halted"} => Refreshed = "RUNNING"
BY Zenon DEF Refreshed

\* A call is accepted in these lifecycles.
LEMMA AcceptedIn ==
  /\ Accepts("create") = {"EMPTY"}
  /\ Accepts("start") = {"READY"}
  /\ Accepts("stop") = {"RUNNING"}
  /\ Accepts("resume") = {"STOPPED"}
  /\ Accepts("reset") = {"STOPPED", "HALTED"}
  /\ Accepts("program") = {"READY", "STOPPED", "HALTED"}
  /\ Accepts("delete") = {"READY", "RUNNING", "STOPPED", "HALTED"}
BY Zenon DEF Accepts

\* What the warp makes of the commands that are sent.
LEMMA Dispatched ==
  /\ Dispatch("Run") = IF cold THEN "start" ELSE "publish"
  /\ Dispatch("Deactivate") = "withdraw"
  /\ Dispatch("Pause") = "poll"
  /\ Dispatch("None") = "poll"
BY Zenon DEF Dispatch

\* Look sends the call on to the phase p.
LookTo(p) == phase' = p /\ UNCHANGED <<lifecycle, op>>

\* A call's look at the status word goes on or returns.
LEMMA Looked ==
  ASSUME Look
  PROVE  /\ phase = "look"
         /\ UNCHANGED <<warpVars, tenant, seq0, created, patient, abandoned>>
         /\ \/ op = "start" /\ status = "Idle" /\ LookTo("run")
            \/ op = "start" /\ status # "Idle" /\ Return(lifecycle)
            \/ op = "stop" /\ status = "Paused" /\ Return("STOPPED")
            \/ op = "stop" /\ status = "Running" /\ LookTo("pause")
            \/ op = "stop" /\ status \notin {"Paused", "Running"} /\ Return(lifecycle)
            \/ op = "resume" /\ status = "Paused" /\ LookTo("run")
            \/ op = "resume" /\ status # "Paused" /\ Return(lifecycle)
            \/ op \in {"reset", "program", "delete"} /\ status = "Running" /\ LookTo("pause")
            \/ op \in {"reset", "program", "delete"} /\ status # "Running" /\ LookTo("deactivate")
<1>1. CASE op = "start" BY <1>1, Zenon DEF Look, LookTo
<1>2. CASE op = "stop"
  <2>1. CASE status = "Paused" BY <1>2, <2>1, Zenon DEF Look, LookTo
  <2>2. CASE status = "Running" BY <1>2, <2>2, Zenon DEF Look, LookTo
  <2>3. CASE status \notin {"Paused", "Running"} BY <1>2, <2>3, Zenon DEF Look, LookTo
  <2> QED BY <2>1, <2>2, <2>3
<1>3. CASE op = "resume" BY <1>3, Zenon DEF Look, LookTo
<1>4. CASE op \in {"reset", "program", "delete"} BY <1>4, Zenon DEF Look, LookTo
<1> QED BY <1>1, <1>2, <1>3, <1>4 DEF Look

\* A wait that gives up leaves its command behind.
LEMMA TimedOut ==
  ASSUME Timeout
  PROVE  /\ phase \in {"resuming", "stopping", "draining"}
         /\ phase = "resuming" => abandoned' = abandoned \union {"Run"}
         /\ phase = "stopping" => abandoned' = abandoned \union {"Pause"}
         /\ phase = "draining" => abandoned' = abandoned \union {"Deactivate"}
         /\ Return(lifecycle)
         /\ UNCHANGED <<warpVars, tenant, seq0, created, patient>>
BY DEF Timeout, Awaited

\* The seq word moves with every acknowledgement.
LEMMA SeqMoves ==
  \A x \in 0..(SeqMod - 1) : (x + 1) % SeqMod \in 0..(SeqMod - 1) /\ (x + 1) % SeqMod # x
<1> TAKE x \in 0..(SeqMod - 1)
<1>1. CASE x + 1 < SeqMod BY <1>1, WarpAssumption
<1>2. CASE x + 1 = SeqMod BY <1>2, WarpAssumption
<1> QED BY <1>1, <1>2, WarpAssumption

-----------------------------------------------------------------------------
(* The shape of a call.                                                    *)

\* Initially no call is made and nothing is pending.
LEMMA ShapeInit == Init => TypeOK /\ CallShape
<1> SUFFICES ASSUME Init PROVE TypeOK /\ CallShape
  OBVIOUS
<1> USE DEF Init, WarpInit
<1>1. 0 \in 0..(SeqMod - 1) /\ 0 \in 0..MaxVm BY WarpAssumption
<1>2. WarpTypeOK BY <1>1 DEF WarpTypeOK, Commands, Statuses, Locations
<1>3. TypeOK
  BY <1>1, <1>2, SupervisorAssumption DEF TypeOK, Lifecycles, Operations, Phases
<1>4. CallShape BY DEF CallShape, Sent
<1> QED BY <1>3, <1>4

\* The warp goes through its places and consumes what is sent.
LEMMA ShapeWarp ==
  ASSUME TypeOK, CallShape, WarpStep, UNCHANGED host
  PROVE  TypeOK' /\ CallShape'
<1> USE DEF TypeOK, WarpTypeOK, CallShape, Sent, Commands, Statuses, Locations, host
<1>1. CASE ReadCmd BY <1>1 DEF ReadCmd, channel, binding
<1>2. CASE ClearCmd BY <1>2, Dispatched DEF ClearCmd, binding
<1>3. CASE ColdStart BY <1>3 DEF ColdStart, binding
<1>4. CASE PublishRunning BY <1>4, ZenonT(60) DEF PublishRunning, binding
<1>5. CASE SeePause \/ ClearPause \/ PublishPaused
  BY <1>5 DEF SeePause, ClearPause, PublishPaused, channel, binding
<1>6. CASE Step \/ CountStep \/ ResetVm BY <1>6 DEF Step, CountStep, ResetVm
<1>7. CASE ReadResident \/ WithdrawRoute \/ WithdrawOwner \/ Drained
  BY <1>7 DEF ReadResident, WithdrawRoute, WithdrawOwner, Drained, channel, binding
<1>8. CASE Retire BY <1>8 DEF Retire
<1>9. CASE Acknowledge BY <1>9, SeqMoves DEF Acknowledge, binding
<1>10. CASE Leave
  <2>1. warp \in {"poll", "running"} BY <1>10 DEF Leave
  <2> QED BY <1>10, <2>1 DEF Leave, binding
<1>11. CASE Stop BY <1>11 DEF Stop, binding
<1> QED BY <1>1, <1>2, <1>3, <1>4, <1>5, <1>6, <1>7, <1>8, <1>9, <1>10, <1>11
        DEF WarpStep, Serve, Deactivation

\* The ids the directory gives out.
LEMMA Ids ==
  /\ NoVm \notin VmIds
  /\ \A n \in 0..MaxVm : n \in VmIds \union {NoVm} /\ (n >= 1 <=> n \in VmIds)
  /\ \A n \in 0..MaxVm : n < MaxVm => n + 1 \in 0..MaxVm /\ n + 1 >= 1
BY WarpAssumption DEF VmIds, NoVm

\* A call goes through its phases.
LEMMA ShapeHost ==
  ASSUME TypeOK, CallShape, Host
  PROVE  TypeOK' /\ CallShape'
<1> USE DEF Return
<1>1. ASSUME NEW o \in Operations, Call(o) PROVE TypeOK' /\ CallShape'
  <2>1. /\ phase = "ready" /\ op' = o /\ lifecycle' = Refreshed
        /\ phase' = (IF o = "create" THEN "bind" ELSE "look")
        /\ created' = (IF o = "create" THEN created + 1 ELSE created)
        /\ o = "create" => created < MaxVm
        /\ lifecycle' \in Accepts(o)
        /\ UNCHANGED <<warpVars, tenant, seq0, patient, abandoned>>
    BY <1>1 DEF Call
  <2>2. lifecycle' \in Lifecycles /\ (lifecycle' # "EMPTY" => lifecycle # "EMPTY")
    BY <2>1, RefreshedBy DEF TypeOK, Lifecycles
  <2>3. created' \in 0..MaxVm /\ created' >= created /\ (o = "create" => created' >= 1)
    BY <2>1, Ids DEF TypeOK
  <2>4. TypeOK'
    BY <2>1, <2>2, <2>3 DEF TypeOK, WarpTypeOK, warpVars, channel, binding, inner, Phases
  <2>5. o # "create" => created >= 1
    BY <2>1, <2>2, AcceptedIn DEF CallShape, Operations
  <2>6. /\ o = "create" => lifecycle' = "EMPTY"
        /\ o = "start" => lifecycle' = "READY"
        /\ o = "stop" => lifecycle' = "RUNNING"
        /\ o = "resume" => lifecycle' = "STOPPED"
        /\ o = "reset" => lifecycle' \in {"STOPPED", "HALTED"}
        /\ o = "program" => lifecycle' \in {"READY", "STOPPED", "HALTED"}
        /\ o = "delete" => lifecycle' # "EMPTY"
    BY <2>1, AcceptedIn
  <2>7. CallShape'
    BY <2>1, <2>3, <2>5, <2>6
       DEF CallShape, TypeOK, warpVars, channel, binding, inner, Operations
  <2> QED BY <2>4, <2>7
<1>2. CASE Refresh
  <2>1. /\ phase = "ready" /\ lifecycle' \in Lifecycles
        /\ lifecycle' # "EMPTY" => lifecycle # "EMPTY"
        /\ UNCHANGED <<warpVars, tenant, op, phase, seq0, created, patient, abandoned>>
    BY <1>2, RefreshedBy DEF Refresh, TypeOK, Lifecycles
  <2>2. TypeOK' BY <2>1 DEF TypeOK, WarpTypeOK, warpVars, channel, binding, inner
  <2>3. CallShape' BY <2>1 DEF CallShape, warpVars, channel, binding, inner
  <2> QED BY <2>2, <2>3
<1>3. CASE Look
  <2>1. /\ lifecycle' \in {lifecycle, "STOPPED"} /\ op' \in {op, "none"}
        /\ phase' \in {"ready", "run", "pause", "deactivate"}
        /\ UNCHANGED <<warpVars, tenant, seq0, created, patient, abandoned>>
    BY <1>3, Looked DEF LookTo
  <2>2. TypeOK'
    BY <2>1 DEF TypeOK, WarpTypeOK, warpVars, channel, binding, inner, Phases, Lifecycles
  <2>3. CallShape'
    BY <1>3, Looked DEF LookTo, CallShape, warpVars, channel, binding, inner
  <2> QED BY <2>2, <2>3
<1>4. CASE Send
  <2> USE <1>4 DEF Send, SendRun, SendPause, SendDeactivate, binding, inner
  <2>1. TypeOK' BY ZenonT(60) DEF TypeOK, WarpTypeOK, Phases, Lifecycles, Commands
  <2>2. CallShape' BY DEF CallShape, Sent
  <2> QED BY <2>1, <2>2
<1>5. CASE Resumed \/ Stopped \/ Retired
  <2> USE <1>5 DEF Resumed, Stopped, Retired, warpVars, channel, binding, inner
  <2>1. TypeOK' BY DEF TypeOK, WarpTypeOK, Phases, Lifecycles
  <2>2. CallShape' BY DEF CallShape
  <2> QED BY <2>1, <2>2
<1>6. CASE Timeout
  <2>1. abandoned' \subseteq Commands BY <1>6, TimedOut DEF TypeOK, Commands
  <2>2. TypeOK'
    BY <1>6, <2>1, TimedOut DEF TypeOK, WarpTypeOK, warpVars, channel, binding, inner, Phases
  <2>3. CallShape' BY <1>6, TimedOut DEF CallShape, warpVars, channel, binding, inner
  <2> QED BY <2>2, <2>3
<1>7. CASE Rewrite
  <2> USE <1>7 DEF Rewrite, channel, inner
  <2>1. TypeOK' BY DEF TypeOK, WarpTypeOK, Phases
  <2>2. CallShape' BY DEF CallShape
  <2> QED BY <2>1, <2>2
<1>11. CASE Release \/ ClearControl
  <2> USE <1>11 DEF Release, ClearControl, binding, inner
  <2>1. lifecycle' \in Lifecycles /\ op' \in {op, "none"} /\ phase' \in {"bind", "ready"}
    BY DEF TypeOK, Lifecycles
  <2>2. tenant' \in {tenant, NoVm} BY DEF binding
  <2>3. TypeOK' BY <2>1, <2>2, ZenonT(60) DEF TypeOK, WarpTypeOK, Phases, Commands, Statuses
  <2>4. CallShape' BY DEF CallShape, Sent
  <2> QED BY <2>3, <2>4
<1>8. CASE Bind \/ PublishOwner
  <2> USE <1>8 DEF Bind, PublishOwner, channel, binding, inner
  <2>1. created \in VmIds \union {NoVm} BY Ids DEF TypeOK
  <2>2. TypeOK' BY <2>1 DEF TypeOK, WarpTypeOK, Phases
  <2>3. CallShape' BY DEF CallShape
  <2> QED BY <2>2, <2>3
<1>9. CASE PublishRoute
  <2> USE <1>9 DEF PublishRoute, channel, binding, inner
  <2>1. created >= 1 /\ tenant = created BY DEF CallShape
  <2>2. tenant \in VmIds BY <2>1, Ids DEF TypeOK
  <2>3. TypeOK' BY <2>2 DEF TypeOK, WarpTypeOK, Phases
  <2>4. CallShape' BY DEF CallShape
  <2> QED BY <2>3, <2>4
<1>10. CASE Shutdown
  <2> USE <1>10 DEF Shutdown, binding, inner
  <2>1. TypeOK' BY DEF TypeOK, WarpTypeOK, Phases
  <2>2. CallShape' BY DEF CallShape
  <2> QED BY <2>1, <2>2
<1> QED BY <1>1, <1>2, <1>3, <1>4, <1>5, <1>6, <1>7, <1>8, <1>9, <1>10, <1>11
        DEF Host, Wait, Rebinding

-----------------------------------------------------------------------------
(* Whatever times out.                                                     *)

\* Initially the slot is vacant and its warp polls from cold.
LEMMA TenantInit == Init => TenantInv
BY DEF Init, WarpInit, TenantInv, Owned, Vacant, Quiet, Executing

\* The warp executes the tenant's program only.
LEMMA TenantWarp ==
  ASSUME TypeOK, CallShape, TenantInv, WarpStep, UNCHANGED host
  PROVE  TenantInv'
<1> USE DEF CallShape, Sent, TenantInv, Owned, Vacant, Quiet, Executing, host
<1>1. CASE ReadCmd BY <1>1 DEF ReadCmd, channel, binding
<1>2. CASE ClearCmd BY <1>2, Dispatched DEF ClearCmd, binding
<1>3. CASE ColdStart BY <1>3 DEF ColdStart, binding
<1>4. CASE PublishRunning BY <1>4 DEF PublishRunning, binding
<1>5. CASE SeePause BY <1>5 DEF SeePause, channel, binding
<1>6. CASE ClearPause BY <1>6 DEF ClearPause, binding
<1>7. CASE PublishPaused BY <1>7 DEF PublishPaused, binding
<1>8. CASE Step \/ CountStep \/ ResetVm BY <1>8 DEF Step, CountStep, ResetVm
<1>9. CASE ReadResident \/ Drained BY <1>9 DEF ReadResident, Drained, channel, binding
<1>10. CASE WithdrawRoute BY <1>10 DEF WithdrawRoute, channel
<1>11. CASE WithdrawOwner BY <1>11 DEF WithdrawOwner, channel
<1>12. CASE Retire BY <1>12 DEF Retire
<1>13. CASE Acknowledge BY <1>13 DEF Acknowledge, binding
<1>14. CASE Leave
  <2>1. warp \in {"poll", "running"} BY <1>14 DEF Leave
  <2> QED BY <1>14, <2>1 DEF Leave, binding
<1>15. CASE Stop BY <1>15 DEF Stop, binding
<1> QED BY <1>1, <1>2, <1>3, <1>4, <1>5, <1>6, <1>7, <1>8, <1>9, <1>10, <1>11,
           <1>12, <1>13, <1>14, <1>15 DEF WarpStep, Serve, Deactivation

\* The host binds a slot only while its warp is quiet.
LEMMA TenantHost ==
  ASSUME TypeOK, CallShape, TenantInv, Host
  PROVE  TenantInv'
<1> USE DEF CallShape, Sent, TenantInv, Owned, Vacant, Quiet, Executing, Return
<1>1. ASSUME NEW o \in Operations, Call(o) PROVE TenantInv'
  <2>1. /\ phase = "ready" /\ phase' \in {"bind", "look"}
        /\ phase' = "bind" => lifecycle' = "EMPTY"
        /\ UNCHANGED <<warpVars, tenant, seq0>>
    BY <1>1, AcceptedIn DEF Call
  <2>2. lifecycle' = "EMPTY" => lifecycle = "EMPTY"
    BY <1>1, RefreshedBy DEF Call, TypeOK, Lifecycles
  <2> QED BY <2>1, <2>2 DEF warpVars, channel, binding, inner
<1>2. CASE Refresh
  <2>1. lifecycle' = "EMPTY" => lifecycle = "EMPTY"
    BY <1>2, RefreshedBy DEF Refresh, TypeOK, Lifecycles
  <2> QED BY <1>2, <2>1 DEF Refresh, warpVars, channel, binding, inner
<1>3. CASE Look BY <1>3, Looked DEF LookTo, warpVars, channel, binding, inner
<1>4. CASE SendRun BY <1>4 DEF SendRun, binding, inner
<1>5. CASE SendPause BY <1>5 DEF SendPause, binding, inner
<1>6. CASE SendDeactivate BY <1>6 DEF SendDeactivate, binding, inner
<1>7. CASE Resumed BY <1>7 DEF Resumed, warpVars, channel, binding, inner
<1>8. CASE Stopped BY <1>8 DEF Stopped, warpVars, channel, binding, inner
<1>9. CASE Retired BY <1>9 DEF Retired, warpVars, channel, binding, inner
<1>10. CASE Timeout BY <1>10, TimedOut DEF warpVars, channel, binding, inner
<1>11. CASE Rewrite BY <1>11 DEF Rewrite, channel, inner
<1>12. CASE Release BY <1>12 DEF Release, binding, inner
<1>13. CASE Bind BY <1>13 DEF Bind, channel, inner
<1>14. CASE PublishOwner BY <1>14 DEF PublishOwner, channel, inner
<1>15. CASE PublishRoute BY <1>15 DEF PublishRoute, channel, inner
<1>16. CASE ClearControl BY <1>16 DEF ClearControl, binding, inner
<1>17. CASE Shutdown BY <1>17 DEF Shutdown, binding, inner
<1> QED BY <1>1, <1>2, <1>3, <1>4, <1>5, <1>6, <1>7, <1>8, <1>9, <1>10, <1>11,
           <1>12, <1>13, <1>14, <1>15, <1>16, <1>17 DEF Host, Send, Wait, Rebinding

-----------------------------------------------------------------------------
(* Until a retirement has timed out.                                       *)

\* Initially the slot is vacant and nothing is pending.
LEMMA RetireInit == Init => RetireInv
BY DEF Init, WarpInit, RetireInv, Owned, Vacant, AtEase, Deactivating, Bound

\* The warp takes a binding apart only while the host waits for it.
LEMMA RetireWarp ==
  ASSUME TypeOK, CallShape, TenantInv, RetireInv, WarpStep, UNCHANGED host
  PROVE  RetireInv'
<1> USE DEF CallShape, Sent, RetireInv, Owned, Vacant, Bound, AtEase, Deactivating, host
<1>1. CASE ReadCmd BY <1>1 DEF ReadCmd, channel, binding
<1>2. CASE ClearCmd BY <1>2, Dispatched DEF ClearCmd, binding
<1>3. CASE ColdStart BY <1>3 DEF ColdStart, binding
<1>4. CASE PublishRunning BY <1>4 DEF PublishRunning, binding
<1>5. CASE SeePause BY <1>5 DEF SeePause, channel, binding
<1>6. CASE ClearPause BY <1>6 DEF ClearPause, binding
<1>7. CASE PublishPaused BY <1>7 DEF PublishPaused, binding
<1>8. CASE Step \/ CountStep \/ ResetVm BY <1>8 DEF Step, CountStep, ResetVm
<1>9. CASE ReadResident BY <1>9 DEF ReadResident, channel, binding
<1>10. CASE WithdrawRoute BY <1>10 DEF WithdrawRoute, channel
<1>11. CASE WithdrawOwner BY <1>11 DEF WithdrawOwner, channel
<1>12. CASE Drained BY <1>12 DEF Drained, channel, binding
<1>13. CASE Retire BY <1>13 DEF Retire
<1>14. CASE Acknowledge
  <2>1. seq' # seq BY <1>14, SeqMoves DEF Acknowledge, TypeOK, WarpTypeOK
  <2> QED BY <1>14, <2>1 DEF Acknowledge, binding, TenantInv, Quiet
<1>15. CASE Leave
  <2>1. warp \in {"poll", "running"} BY <1>15 DEF Leave
  <2> QED BY <1>15, <2>1 DEF Leave, binding
<1>16. CASE Stop BY <1>16 DEF Stop, binding
<1> QED BY <1>1, <1>2, <1>3, <1>4, <1>5, <1>6, <1>7, <1>8, <1>9, <1>10, <1>11,
           <1>12, <1>13, <1>14, <1>15, <1>16 DEF WarpStep, Serve, Deactivation

\* The host rewrites and rebinds only an acknowledged slot.
LEMMA RetireHost ==
  ASSUME TypeOK, CallShape, TenantInv, RetireInv, Host, "Deactivate" \notin abandoned'
  PROVE  RetireInv'
<1> USE DEF CallShape, Sent, RetireInv, Owned, Vacant, Bound, AtEase, Deactivating, Return
<1>1. ASSUME NEW o \in Operations, Call(o) PROVE RetireInv'
  <2>1. /\ phase = "ready" /\ phase' = (IF o = "create" THEN "bind" ELSE "look")
        /\ o = "create" => lifecycle' = "EMPTY"
        /\ o # "create" => lifecycle' # "EMPTY"
        /\ UNCHANGED <<warpVars, tenant, seq0>>
    BY <1>1, AcceptedIn DEF Call, Operations
  <2>2. \A l \in {"EMPTY", "READY"} : lifecycle' = l <=> lifecycle = l
    BY <1>1, RefreshedBy DEF Call, TypeOK, Lifecycles
  <2> QED BY <2>1, <2>2 DEF warpVars, channel, binding, inner
<1>2. CASE Refresh
  <2>1. \A l \in {"EMPTY", "READY"} : lifecycle' = l <=> lifecycle = l
    BY <1>2, RefreshedBy DEF Refresh, TypeOK, Lifecycles
  <2> QED BY <1>2, <2>1 DEF Refresh, warpVars, channel, binding, inner
<1>3. CASE Look BY <1>3, Looked DEF LookTo, warpVars, channel, binding, inner
<1>4. CASE SendRun BY <1>4 DEF SendRun, binding, inner
<1>5. CASE SendPause BY <1>5 DEF SendPause, binding, inner
<1>6. CASE SendDeactivate BY <1>6 DEF SendDeactivate, binding, inner
<1>7. CASE Resumed BY <1>7 DEF Resumed, warpVars, channel, binding, inner
<1>8. CASE Stopped BY <1>8 DEF Stopped, warpVars, channel, binding, inner
<1>9. CASE Retired BY <1>9 DEF Retired, warpVars, channel, binding, inner
<1>10. CASE Timeout BY <1>10, TimedOut DEF warpVars, channel, binding, inner
<1>11. CASE Rewrite BY <1>11 DEF Rewrite, channel, inner
<1>12. CASE Release BY <1>12 DEF Release, binding, inner
<1>13. CASE Bind BY <1>13 DEF Bind, channel, inner
<1>14. CASE PublishOwner BY <1>14 DEF PublishOwner, channel, inner
<1>15. CASE PublishRoute BY <1>15 DEF PublishRoute, channel, inner
<1>16. CASE ClearControl
  <2>1. tenant # NoVm BY <1>16 DEF ClearControl, TypeOK, NoVm
  <2> QED BY <1>16, <2>1 DEF ClearControl, binding, inner
<1>17. CASE Shutdown BY <1>17 DEF Shutdown, binding, inner
<1> QED BY <1>1, <1>2, <1>3, <1>4, <1>5, <1>6, <1>7, <1>8, <1>9, <1>10, <1>11,
           <1>12, <1>13, <1>14, <1>15, <1>16, <1>17 DEF Host, Send, Wait, Rebinding

-----------------------------------------------------------------------------
(* While no wait but a PAUSE's has timed out.                              *)

\* Initially nothing runs and nothing is paused.
LEMMA PauseInit == Init => PauseInv
BY DEF Init, WarpInit, PauseInv, RunComing

\* The warp pauses when it is told to and resumes for a RUN only.
LEMMA PauseWarp ==
  ASSUME TypeOK, CallShape, TenantInv, RetireInv, PauseInv, WarpStep, UNCHANGED host
  PROVE  PauseInv'
<1> USE DEF CallShape, Sent, TenantInv, RetireInv, PauseInv, RunComing,
           Owned, Vacant, AtEase, Quiet, Deactivating, Executing, host
<1>1. CASE ReadCmd BY <1>1 DEF ReadCmd, channel, binding
<1>2. CASE ClearCmd
  <2> USE <1>2 DEF ClearCmd, binding
  <2>1. CASE got = "Run" BY <2>1, Dispatched
  <2>2. CASE got = "Pause" BY <2>2, Dispatched
  <2>3. CASE got = "Deactivate" BY <2>3, Dispatched
  <2> QED BY <2>1, <2>2, <2>3
<1>3. CASE ColdStart
  <2>1. warp = "start" /\ resident # NoVm BY <1>3 DEF ColdStart, Bound
  <2>2. warp' = "publish" /\ UNCHANGED <<cmd, status, seq, got, cold>>
    BY <1>3, <2>1 DEF ColdStart
  <2> QED BY <2>1, <2>2
<1>4. CASE PublishRunning BY <1>4 DEF PublishRunning, binding
<1>5. CASE SeePause BY <1>5 DEF SeePause, channel, binding
<1>6. CASE ClearPause BY <1>6 DEF ClearPause, binding
<1>7. CASE PublishPaused BY <1>7 DEF PublishPaused, binding
<1>8. CASE Step \/ CountStep \/ ResetVm BY <1>8 DEF Step, CountStep, ResetVm
<1>9. CASE ReadResident \/ Drained BY <1>9 DEF ReadResident, Drained, channel, binding
<1>10. CASE WithdrawRoute BY <1>10 DEF WithdrawRoute, channel
<1>11. CASE WithdrawOwner BY <1>11 DEF WithdrawOwner, channel
<1>12. CASE Retire BY <1>12 DEF Retire
<1>13. CASE Acknowledge BY <1>13 DEF Acknowledge, binding
<1>14. CASE Leave
  <2>1. warp \in {"poll", "running"} BY <1>14 DEF Leave
  <2> QED BY <1>14, <2>1 DEF Leave, binding
<1>15. CASE Stop BY <1>15 DEF Stop, binding
<1> QED BY <1>1, <1>2, <1>3, <1>4, <1>5, <1>6, <1>7, <1>8, <1>9, <1>10, <1>11,
           <1>12, <1>13, <1>14, <1>15 DEF WarpStep, Serve, Deactivation

\* The host sends what a paused VM is to serve only in a call that moves it.
LEMMA PauseHost ==
  ASSUME TypeOK, CallShape, TenantInv, RetireInv, PauseInv, Host, abandoned' \subseteq {"Pause"}
  PROVE  PauseInv'
<1> USE DEF CallShape, Sent, TenantInv, RetireInv, PauseInv, RunComing,
           Owned, Vacant, AtEase, Quiet, Deactivating, Executing, Return
<1>1. ASSUME NEW o \in Operations, Call(o) PROVE PauseInv'
  <2>1. /\ phase = "ready" /\ phase' \in {"bind", "look"}
        /\ phase' = "bind" => lifecycle' = "EMPTY"
        /\ lifecycle' = Refreshed
        /\ UNCHANGED <<warpVars, tenant, seq0>>
    BY <1>1, AcceptedIn DEF Call, Operations
  <2> QED BY <2>1, RefreshedBy DEF warpVars, channel, binding, inner, TypeOK
<1>2. CASE Refresh BY <1>2, RefreshedBy DEF Refresh, warpVars, channel, binding, inner
<1>3. CASE Look BY <1>3, Looked DEF LookTo, warpVars, channel, binding, inner
<1>4. CASE SendRun BY <1>4 DEF SendRun, binding, inner
<1>5. CASE SendPause BY <1>5 DEF SendPause, binding, inner
<1>6. CASE SendDeactivate BY <1>6 DEF SendDeactivate, binding, inner
<1>7. CASE Resumed BY <1>7 DEF Resumed, warpVars, channel, binding, inner
<1>8. CASE Stopped BY <1>8 DEF Stopped, warpVars, channel, binding, inner
<1>9. CASE Retired BY <1>9 DEF Retired, warpVars, channel, binding, inner
<1>10. CASE Timeout BY <1>10, TimedOut DEF warpVars, channel, binding, inner
<1>11. CASE Rewrite BY <1>11 DEF Rewrite, channel, inner
<1>12. CASE Release BY <1>12 DEF Release, binding, inner
<1>13. CASE Bind BY <1>13 DEF Bind, channel, inner
<1>14. CASE PublishOwner BY <1>14 DEF PublishOwner, channel, inner
<1>15. CASE PublishRoute BY <1>15 DEF PublishRoute, channel, inner
<1>16. CASE ClearControl BY <1>16 DEF ClearControl, binding, inner
<1>17. CASE Shutdown BY <1>17 DEF Shutdown, binding, inner
<1> QED BY <1>1, <1>2, <1>3, <1>4, <1>5, <1>6, <1>7, <1>8, <1>9, <1>10, <1>11,
           <1>12, <1>13, <1>14, <1>15, <1>16, <1>17 DEF Host, Send, Wait, Rebinding

-----------------------------------------------------------------------------
(* While no wait has timed out.                                            *)

\* Initially there is no command to lose.
LEMMA LossInit == Init => LossInv
BY DEF Init, WarpInit, LossInv

\* What the warp clears is what it read, or a DEACTIVATE over a RUN.
LEMMA LossWarp ==
  ASSUME TypeOK, CallShape, TenantInv, RetireInv, PauseInv, LossInv,
         WarpStep, UNCHANGED host
  PROVE  LossInv'
<1> USE DEF CallShape, Sent, TenantInv, RetireInv, PauseInv, LossInv, RunComing,
           Owned, Vacant, AtEase, Quiet, Deactivating, Executing, Bound, host
<1>1. CASE ReadCmd BY <1>1 DEF ReadCmd, channel, binding
<1>2. CASE ClearCmd BY <1>2, Dispatched DEF ClearCmd, binding
<1>3. CASE ColdStart BY <1>3 DEF ColdStart, binding
<1>4. CASE PublishRunning BY <1>4 DEF PublishRunning, binding
<1>5. CASE SeePause BY <1>5 DEF SeePause, channel, binding
<1>6. CASE ClearPause BY <1>6 DEF ClearPause, binding
<1>7. CASE PublishPaused BY <1>7 DEF PublishPaused, binding
<1>8. CASE Step \/ CountStep \/ ResetVm BY <1>8 DEF Step, CountStep, ResetVm
<1>9. CASE ReadResident \/ Drained BY <1>9 DEF ReadResident, Drained, channel, binding
<1>10. CASE WithdrawRoute BY <1>10 DEF WithdrawRoute, channel
<1>11. CASE WithdrawOwner BY <1>11 DEF WithdrawOwner, channel
<1>12. CASE Retire BY <1>12 DEF Retire
<1>13. CASE Acknowledge BY <1>13 DEF Acknowledge, binding
<1>14. CASE Leave
  <2>1. warp \in {"poll", "running"} BY <1>14 DEF Leave
  <2> QED BY <1>14, <2>1 DEF Leave, binding
<1>15. CASE Stop BY <1>15 DEF Stop, binding
<1> QED BY <1>1, <1>2, <1>3, <1>4, <1>5, <1>6, <1>7, <1>8, <1>9, <1>10, <1>11,
           <1>12, <1>13, <1>14, <1>15 DEF WarpStep, Serve, Deactivation

\* The host writes its next command when the last one is served, RUN apart.
LEMMA LossHost ==
  ASSUME TypeOK, CallShape, TenantInv, RetireInv, PauseInv, LossInv,
         Host, abandoned' = {}
  PROVE  LossInv'
<1> USE DEF CallShape, Sent, TenantInv, RetireInv, PauseInv, LossInv, RunComing,
           Owned, Vacant, AtEase, Quiet, Deactivating, Executing, Bound, Return
<1>1. ASSUME NEW o \in Operations, Call(o) PROVE LossInv'
  <2>1. /\ phase = "ready" /\ phase' \in {"bind", "look"}
        /\ UNCHANGED <<warpVars, tenant, seq0>>
    BY <1>1 DEF Call
  <2> QED BY <2>1 DEF warpVars, channel, binding, inner
<1>2. CASE Refresh BY <1>2 DEF Refresh, warpVars, channel, binding, inner
<1>3. CASE Look BY <1>3, Looked DEF LookTo, warpVars, channel, binding, inner
<1>4. CASE SendRun BY <1>4 DEF SendRun, binding, inner
<1>5. CASE SendPause BY <1>5 DEF SendPause, binding, inner
<1>6. CASE SendDeactivate BY <1>6 DEF SendDeactivate, binding, inner
<1>7. CASE Resumed BY <1>7 DEF Resumed, warpVars, channel, binding, inner
<1>8. CASE Stopped BY <1>8 DEF Stopped, warpVars, channel, binding, inner
<1>9. CASE Retired BY <1>9 DEF Retired, warpVars, channel, binding, inner
<1>10. CASE Timeout BY <1>10, TimedOut DEF warpVars, channel, binding, inner
<1>11. CASE Rewrite BY <1>11 DEF Rewrite, channel, inner
<1>12. CASE Release BY <1>12 DEF Release, binding, inner
<1>13. CASE Bind BY <1>13 DEF Bind, channel, inner
<1>14. CASE PublishOwner BY <1>14 DEF PublishOwner, channel, inner
<1>15. CASE PublishRoute BY <1>15 DEF PublishRoute, channel, inner
<1>16. CASE ClearControl BY <1>16 DEF ClearControl, binding, inner
<1>17. CASE Shutdown BY <1>17 DEF Shutdown, binding, inner
<1> QED BY <1>1, <1>2, <1>3, <1>4, <1>5, <1>6, <1>7, <1>8, <1>9, <1>10, <1>11,
           <1>12, <1>13, <1>14, <1>15, <1>16, <1>17 DEF Host, Send, Wait, Rebinding

-----------------------------------------------------------------------------
(* The invariant.                                                          *)

\* The inductive invariant holds initially.
LEMMA InductiveInit == Init => IInv
BY ShapeInit, TenantInit, RetireInit, PauseInit, LossInit DEF IInv

\* Timeouts are never forgotten.
LEMMA AbandonedGrows == [Next]_vars => abandoned \subseteq abandoned'
<1> SUFFICES ASSUME [Next]_vars PROVE abandoned \subseteq abandoned'
  OBVIOUS
<1> USE DEF Return
<1>1. CASE WarpStep /\ UNCHANGED host BY <1>1 DEF host
<1>2. ASSUME NEW o \in Operations, Call(o) PROVE abandoned' = abandoned BY <1>2 DEF Call
<1>3. CASE Refresh BY <1>3 DEF Refresh
<1>4. CASE Look BY <1>4, Looked
<1>5. CASE Send BY <1>5 DEF Send, SendRun, SendPause, SendDeactivate
<1>6. CASE Resumed \/ Stopped \/ Retired BY <1>6 DEF Resumed, Stopped, Retired
<1>7. CASE Timeout BY <1>7, TimedOut
<1>8. CASE Rebinding
  BY <1>8 DEF Rebinding, Rewrite, Release, Bind, PublishOwner, PublishRoute, ClearControl
<1>9. CASE Shutdown BY <1>9 DEF Shutdown
<1>10. CASE UNCHANGED vars BY <1>10 DEF vars, host
<1> QED BY <1>1, <1>2, <1>3, <1>4, <1>5, <1>6, <1>7, <1>8, <1>9, <1>10 DEF Next, Host, Wait

\* Every step of the supervisor, the slot's warp or a stutter preserves it.
LEMMA InductiveStep == IInv /\ [Next]_vars => IInv'
<1> SUFFICES ASSUME IInv, [Next]_vars PROVE IInv'
  OBVIOUS
<1>1. abandoned \subseteq abandoned' BY AbandonedGrows
<1>2. CASE WarpStep /\ UNCHANGED host
  <2>1. TypeOK' /\ CallShape' BY <1>2, ShapeWarp DEF IInv
  <2>2. TenantInv' BY <1>2, TenantWarp DEF IInv
  <2>3. "Deactivate" \notin abandoned' => RetireInv'
    BY <1>1, <1>2, RetireWarp DEF IInv
  <2>4. abandoned' \subseteq {"Pause"} => PauseInv'
    BY <1>1, <1>2, PauseWarp DEF IInv
  <2>5. abandoned' = {} => LossInv' BY <1>1, <1>2, LossWarp DEF IInv
  <2> QED BY <2>1, <2>2, <2>3, <2>4, <2>5 DEF IInv
<1>3. CASE Host
  <2>1. TypeOK' /\ CallShape' BY <1>3, ShapeHost DEF IInv
  <2>2. TenantInv' BY <1>3, TenantHost DEF IInv
  <2>3. "Deactivate" \notin abandoned' => RetireInv'
    BY <1>1, <1>3, RetireHost DEF IInv
  <2>4. abandoned' \subseteq {"Pause"} => PauseInv'
    BY <1>1, <1>3, PauseHost DEF IInv
  <2>5. abandoned' = {} => LossInv' BY <1>1, <1>3, LossHost DEF IInv
  <2> QED BY <2>1, <2>2, <2>3, <2>4, <2>5 DEF IInv
<1>4. CASE UNCHANGED vars
  <2> USE <1>4 DEF vars, host, warpVars, channel, binding, inner
  <2>1. TypeOK' BY DEF IInv, TypeOK, WarpTypeOK
  <2>2. CallShape' BY DEF IInv, CallShape
  <2>3. TenantInv' BY DEF IInv, TenantInv, Owned, Vacant, Quiet, Executing
  <2>4. "Deactivate" \notin abandoned' => RetireInv'
    BY DEF IInv, RetireInv, Owned, Vacant, Bound, AtEase, Deactivating
  <2>5. abandoned' \subseteq {"Pause"} => PauseInv' BY DEF IInv, PauseInv, RunComing
  <2>6. abandoned' = {} => LossInv' BY DEF IInv, LossInv
  <2> QED BY <2>1, <2>2, <2>3, <2>4, <2>5, <2>6 DEF IInv
<1> QED BY <1>2, <1>3, <1>4 DEF Next

\* Every reachable state satisfies the inductive invariant.
THEOREM Invariance == Spec => []IInv
BY InductiveInit, InductiveStep, PTL DEF Spec

-----------------------------------------------------------------------------
(* The properties.                                                         *)

\* The variables of the call and of the warp keep their types.
THEOREM TypeCorrect == Spec => []TypeOK
<1>1. IInv => TypeOK BY DEF IInv
<1> QED BY <1>1, Invariance, PTL

\* No warp executes a VM that the host does not hold, whatever times out:
\* RunVmUntilStop and BindSlot agree on who is resident.
THEOREM TenantExecutes == Spec => []ExecutesTenant
<1>1. IInv => ExecutesTenant BY DEF IInv, TenantInv, ExecutesTenant
<1> QED BY <1>1, Invariance, PTL

\* Until a retirement times out, a slot UnbindSlot rewrites is the host's
\* alone, and one a create, reset or program returns is whole and at rest.
THEOREM RetirementExclusive == Spec => []RetiringIsExclusive
<1>1. IInv => RetiringIsExclusive
  <2> SUFFICES ASSUME IInv, "Deactivate" \notin abandoned
               PROVE  HostOwnsSlot /\ ReadyIsWhole
    BY DEF RetiringIsExclusive
  <2>1. RetireInv BY DEF IInv
  <2>2. HostOwnsSlot
    BY <2>1 DEF RetireInv, HostOwnsSlot, Owned, AtEase, Executing, Deactivating
  <2>3. ReadyIsWhole
    BY <2>1 DEF RetireInv, ReadyIsWhole, Owned, Vacant, Bound, AtEase, Deactivating
  <2> QED BY <2>2, <2>3
<1> QED BY <1>1, Invariance, PTL

\* Unless a RUN or a DEACTIVATE timed out, a STOPPED VM is paused and stays so.
THEOREM StoppedStays == Spec => []StoppedIsPaused
<1>1. IInv => StoppedIsPaused BY DEF IInv, PauseInv, StoppedIsPaused
<1> QED BY <1>1, Invariance, PTL

\* A step loses a command only as the property allows.
LEMMA LossStep ==
  ASSUME IInv, [Next]_vars, abandoned = {}
  PROVE  /\ cmd # "None" /\ cmd' # cmd =>
              cmd' = "None" \/ (cmd = "Run" /\ cmd' = "Deactivate")
         /\ warp = "consume" /\ warp' # "consume" =>
              cmd = got \/ (got = "Run" /\ cmd = "Deactivate")
<1>1. CallShape /\ RetireInv /\ LossInv BY DEF IInv
<1>2. warp = "consume" => cmd = got \/ (got = "Run" /\ cmd = "Deactivate")
  BY <1>1 DEF CallShape, LossInv
<1>3. ASSUME cmd # "None", cmd' # cmd
      PROVE  cmd' = "None" \/ (cmd = "Run" /\ cmd' = "Deactivate")
  <2> USE <1>3 DEF Return
  <2>1. CASE WarpStep
    BY <2>1 DEF WarpStep, Serve, Deactivation, channel, ReadCmd, ClearCmd, ColdStart,
       PublishRunning, SeePause, ClearPause, PublishPaused, Step, CountStep, ResetVm,
       ReadResident, WithdrawRoute, WithdrawOwner, Drained, Retire, Acknowledge, Leave, Stop
  <2>2. CASE SendRun \/ SendPause BY <1>1, <2>2 DEF SendRun, SendPause, LossInv
  <2>3. CASE SendDeactivate
    BY <1>1, <2>3 DEF SendDeactivate, CallShape, Sent, RetireInv, LossInv
  <2>4. CASE Release \/ ClearControl BY <2>4 DEF Release, ClearControl
  <2>5. CASE UNCHANGED channel BY <2>5 DEF channel
  <2>6. ASSUME NEW o \in Operations, Call(o) PROVE UNCHANGED channel
    BY <2>6 DEF Call, warpVars
  <2>7. Look \/ Timeout => UNCHANGED channel BY Looked, TimedOut DEF warpVars
  <2>8. Refresh \/ Resumed \/ Stopped \/ Retired => UNCHANGED channel
    BY DEF Refresh, Resumed, Stopped, Retired, warpVars
  <2>9. Rewrite \/ Bind \/ PublishOwner \/ PublishRoute => UNCHANGED channel
    BY DEF Rewrite, Bind, PublishOwner, PublishRoute
  <2>10. Shutdown \/ UNCHANGED vars => cmd' = cmd
    BY DEF Shutdown, vars, warpVars, channel
  <2> QED BY <2>1, <2>2, <2>3, <2>4, <2>5, <2>6, <2>7, <2>8, <2>9, <2>10
          DEF Next, Host, Send, Wait, Rebinding
<1> QED BY <1>2, <1>3

\* Before any timeout, a command is lost only by a vm_start whose RUN was not
\* waited for.
THEOREM StartLoses == Spec => OnlyStartLosesCommands
<1>1. IInv /\ [Next]_vars =>
        [abandoned = {} =>
           /\ cmd # "None" /\ cmd' # cmd =>
                cmd' = "None" \/ (cmd = "Run" /\ cmd' = "Deactivate")
           /\ warp = "consume" /\ warp' # "consume" =>
                cmd = got \/ (got = "Run" /\ cmd = "Deactivate")]_vars
  BY LossStep
<1> QED BY <1>1, Invariance, PTL DEF Spec, OnlyStartLosesCommands
=============================================================================
