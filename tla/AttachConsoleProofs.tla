------------------------- MODULE AttachConsoleProofs -------------------------
(***************************************************************************)
(* What the console's "paused" and "stepped" mean, for any width of the    *)
(* seq word and whether or not its waits are patient.  The inductive       *)
(* invariant says where the warp can be in each phase of a console line:   *)
(* the first part whatever happens, the second until a command is hurried. *)
(***************************************************************************)
EXTENDS AttachConsole, TLAPS

Lines == {"boot", "none", "pause", "resume", "step", "reset"}

\* What a line goes through.
LineShape ==
  \/ phase = "booting" /\ line = "boot"
  \/ phase = "prompt" /\ line = "none"
  \/ phase = "down" /\ line = "none"
  \/ phase = "ensure" /\ line \in {"step", "reset"}
  \/ phase \in {"pause", "pausing"} /\ line \in {"pause", "step", "reset"}
  \/ phase = "resume" /\ line = "resume"
  \/ phase = "reset" /\ line = "reset"
  \/ phase \in {"step", "stepping"} /\ line = "step"

\* Whatever happens: the words and the warp's place fit each other.
WarpShape ==
  /\ {cmd, got} \subseteq {"None", "Run", "Pause", "Reset", "Step"}
  /\ resident = 1 /\ status \in Statuses /\ cold \in BOOLEAN
  /\ seq \in 0..(SeqMod - 1) /\ seq0 \in 0..(SeqMod - 1)
  /\ shutdown \in BOOLEAN /\ (shutdown <=> phase = "down")
  /\ warp \in {"poll", "consume", "start", "publish", "running", "pauseSeen",
               "pausing", "step", "stepped", "reset", "exited"}
  /\ warp = "exited" => shutdown
  /\ warp = "consume" <=> got # "None"
  /\ warp \in {"running", "pauseSeen", "pausing"} => ~cold /\ status = "Running"
  /\ warp = "start" => cold
  /\ warp = "step" => ~cold
  /\ warp \in {"poll", "consume", "stepped"} /\ ~cold => status = "Paused"
  /\ status = "Paused" => ~cold

-----------------------------------------------------------------------------
(* Until a command is hurried.                                             *)

\* The warp runs or waits, and nothing is asked of it.
Free == cmd = "None" /\ warp \in {"poll", "running"}

\* A VM held at its pause.
Held == cmd = "None" /\ warp = "poll" /\ status = "Paused"

\* At most one command is under way, and it was sent by the line before.
OneCommand ==
  /\ warp \in {"poll", "running", "consume", "start", "publish", "reset"}
  /\ cmd # "Step" /\ (warp = "running" => cmd # "Pause")
  /\ warp = "consume" => cmd = got
  /\ warp \in {"start", "publish", "reset"} => cmd = "None"

PhaseInv ==
  /\ phase \in {"booting", "prompt"} => OneCommand
  /\ phase = "booting" => cmd \in {"Run", "None"} /\ (status # "Idle" => Free)
  /\ phase \in {"ensure", "pause", "resume"} => Free
  /\ phase = "pause" /\ line # "pause" => status # "Paused"
  /\ phase \in {"reset", "step"} => Held
  /\ phase = "pausing" =>
       /\ warp \in {"poll", "consume", "running", "pauseSeen", "pausing"}
       /\ {cmd, got} \subseteq {"None", "Pause"}
       /\ warp = "consume" => cmd = got
       /\ warp = "pausing" => cmd = "None"
       /\ line # "pause" /\ status = "Paused" => Held
  /\ phase = "stepping" =>
       \/ /\ seq = seq0
          /\ \/ warp = "poll" /\ ~cold /\ cmd = "Step"
             \/ warp = "consume" /\ ~cold /\ cmd = "Step" /\ got = "Step"
             \/ warp \in {"step", "stepped"} /\ cmd = "None"
       \/ seq = (seq0 + 1) % SeqMod /\ warp = "poll" /\ cmd = "None"

ConsoleInv == LineShape /\ WarpShape /\ hurried \in BOOLEAN /\ (~hurried => PhaseInv)

-----------------------------------------------------------------------------
USE WarpAssumption

\* The VM is bound and RUN is sent before the launch.
LEMMA InitInv == Init => ConsoleInv
<1> SUFFICES ASSUME Init PROVE ConsoleInv
  OBVIOUS
<1> USE DEF Init
<1>1. LineShape BY DEF LineShape
<1>2. WarpShape
  <2>1. 0 \in 0..(SeqMod - 1) BY WarpAssumption
  <2> QED BY <2>1 DEF WarpShape, Statuses
<1>3. PhaseInv BY DEF PhaseInv, OneCommand
<1> QED BY <1>1, <1>2, <1>3 DEF ConsoleInv

\* The warp's steps keep the invariant, whatever its program does.
LEMMA WarpStepInv ==
  ASSUME ConsoleInv, WarpStep, UNCHANGED console
  PROVE  ConsoleInv'
<1> USE DEF ConsoleInv
<1>1. LineShape' /\ hurried' = hurried BY DEF LineShape, console
<1>2. WarpShape'
  <2> USE DEF WarpShape, Statuses, channel, binding, console
  <2>1. CASE ReadCmd BY <2>1 DEF ReadCmd
  <2>2. CASE ClearCmd BY <2>2 DEF ClearCmd, Dispatch
  <2>3. CASE ColdStart BY <2>3 DEF ColdStart
  <2>4. CASE PublishRunning BY <2>4 DEF PublishRunning
  <2>5. CASE SeePause BY <2>5 DEF SeePause
  <2>6. CASE ClearPause BY <2>6 DEF ClearPause
  <2>7. CASE PublishPaused BY <2>7 DEF PublishPaused
  <2>8. CASE Step
    <3>1. ~cold /\ warp' = "stepped" /\ UNCHANGED <<shutdown, cmd, seq, got, resident, phase, seq0>>
      BY <2>8 DEF Step
    <3>2. CASE status' = "Paused" /\ cold' = cold BY <2>8, <3>1, <3>2 DEF Step
    <3>3. CASE status' = "Halted" /\ cold' = TRUE BY <2>8, <3>1, <3>3 DEF Step
    <3> QED BY <2>8, <3>2, <3>3 DEF Step
  <2>9. CASE CountStep BY <2>9 DEF CountStep
  <2>10. CASE ResetVm BY <2>10 DEF ResetVm
  <2>11. CASE Deactivation BY <2>11 DEF Deactivation, ReadResident, WithdrawRoute, WithdrawOwner, Drained,
                             Retire, Acknowledge
  <2>12. CASE Leave BY <2>12 DEF Leave
  <2>13. CASE Stop BY <2>13 DEF Stop
  <2> QED BY <2>1, <2>2, <2>3, <2>4, <2>5, <2>6, <2>7, <2>8, <2>9, <2>10, <2>11, <2>12, <2>13 DEF WarpStep, Serve
<1>3. ~hurried => PhaseInv'
  <2> SUFFICES ASSUME PhaseInv PROVE PhaseInv'
    OBVIOUS
  <2> USE DEF PhaseInv, OneCommand, Free, Held, WarpShape, channel, console
  <2>1. CASE ReadCmd BY <2>1 DEF ReadCmd
  <2>2. CASE ClearCmd
    <3>1. /\ warp = "consume" /\ warp' = Dispatch(got) /\ cmd' = "None" /\ got' = "None"
          /\ UNCHANGED <<status, seq, cold, line, phase, seq0, hurried>>
      BY <2>2 DEF ClearCmd
    <3>2. CASE phase \in {"booting", "prompt"} BY <3>1, <3>2 DEF Dispatch
    <3>3. CASE phase = "pausing"
      <4>1. warp' = "poll" BY <3>1, <3>3 DEF Dispatch
      <4> QED BY <3>1, <3>3, <4>1
    <3>4. CASE phase = "stepping"
      <4>1. got = "Step" /\ ~cold /\ seq = seq0 BY <3>1, <3>4
      <4>2. warp' = "step" BY <3>1, <4>1 DEF Dispatch
      <4> QED BY <3>1, <3>4, <4>1, <4>2
    <3> QED BY <3>1, <3>2, <3>3, <3>4
  <2>3. CASE ColdStart BY <2>3 DEF ColdStart
  <2>4. CASE PublishRunning BY <2>4 DEF PublishRunning
  <2>5. CASE SeePause
    <3>1. /\ warp = "running" /\ cmd = "Pause" /\ warp' = "pauseSeen"
          /\ UNCHANGED <<cmd, got, status, seq, cold, line, phase, seq0, hurried>>
      BY <2>5 DEF SeePause
    <3> QED BY <3>1
  <2>6. CASE ClearPause BY <2>6 DEF ClearPause
  <2>7. CASE PublishPaused BY <2>7 DEF PublishPaused
  <2>8. CASE Step BY <2>8 DEF Step
  <2>9. CASE CountStep BY <2>9 DEF CountStep
  <2>10. CASE ResetVm BY <2>10 DEF ResetVm
  <2>11. CASE Deactivation BY <2>11 DEF Deactivation, ReadResident, WithdrawRoute, WithdrawOwner, Drained,
                             Retire, Acknowledge
  <2>12. CASE Leave BY <2>12 DEF Leave
  <2>13. CASE Stop BY <2>13 DEF Stop
  <2> QED BY <2>1, <2>2, <2>3, <2>4, <2>5, <2>6, <2>7, <2>8, <2>9, <2>10, <2>11, <2>12, <2>13 DEF WarpStep, Serve
<1> QED BY <1>1, <1>2, <1>3

\* The console's steps keep it.
LEMMA ConsoleStepInv ==
  ASSUME ConsoleInv, Console
  PROVE  ConsoleInv'
<1> USE DEF ConsoleInv, warpVars, channel, inner, Prompt
<1>1. LineShape' /\ hurried' \in BOOLEAN
  <2> USE DEF LineShape
  <2>1. ASSUME NEW l \in {"pause", "resume", "step", "reset"}, Type(l) PROVE LineShape' /\ hurried' \in BOOLEAN
    BY <2>1 DEF Type, Unserved
  <2>2. CASE Ensure BY <2>2 DEF Ensure
  <2>3. CASE Send BY <2>3 DEF Send
  <2>4. CASE Quit BY <2>4 DEF Quit
  <2>5. CASE Booted BY <2>5 DEF Booted
  <2>6. CASE Paused BY <2>6 DEF Paused
  <2>7. CASE Stepped BY <2>7 DEF Stepped
  <2>8. CASE Timeout BY <2>8 DEF Timeout
  <2> QED BY <2>1, <2>2, <2>3, <2>4, <2>5, <2>6, <2>7, <2>8 DEF Console
<1>2. WarpShape'
  <2> USE DEF WarpShape, LineShape, Statuses, binding
  <2>1. ASSUME NEW l \in {"pause", "resume", "step", "reset"}, Type(l) PROVE WarpShape'
    BY <2>1 DEF Type, Unserved
  <2>2. CASE Ensure BY <2>2 DEF Ensure
  <2>3. CASE Send BY <2>3 DEF Send
  <2>4. CASE Quit BY <2>4 DEF Quit
  <2>5. CASE Booted BY <2>5 DEF Booted
  <2>6. CASE Paused BY <2>6 DEF Paused
  <2>7. CASE Stepped BY <2>7 DEF Stepped
  <2>8. CASE Timeout BY <2>8 DEF Timeout
  <2> QED BY <2>1, <2>2, <2>3, <2>4, <2>5, <2>6, <2>7, <2>8 DEF Console
<1>3. ~hurried' => PhaseInv'
  <2> SUFFICES ASSUME ~hurried' PROVE PhaseInv'
    OBVIOUS
  <2> USE DEF PhaseInv, OneCommand, Free, Held, WarpShape, LineShape
  <2>1. ASSUME NEW l \in {"pause", "resume", "step", "reset"}, Type(l) PROVE PhaseInv'
    BY <2>1 DEF Type, Unserved
  <2>2. CASE Ensure BY <2>2 DEF Ensure
  <2>3. CASE Send BY <2>3 DEF Send
  <2>4. CASE Quit BY <2>4 DEF Quit
  <2>5. CASE Booted BY <2>5 DEF Booted
  <2>6. CASE Paused
    <3>1. /\ phase = "pausing" /\ status = "Paused" /\ ~hurried
          /\ UNCHANGED <<cmd, got, warp, status, seq, cold>>
      BY <2>6 DEF Paused
    <3>2. CASE line = "pause" BY <2>6, <3>1, <3>2 DEF Paused
    <3>3. CASE line # "pause"
      <4>1. Held /\ phase' \in {"step", "reset"} BY <2>6, <3>1, <3>3 DEF Paused
      <4> QED BY <3>1, <4>1
    <3> QED BY <3>2, <3>3
  <2>7. CASE Stepped BY <2>7 DEF Stepped
  <2>8. CASE Timeout BY <2>8 DEF Timeout
  <2> QED BY <2>1, <2>2, <2>3, <2>4, <2>5, <2>6, <2>7, <2>8 DEF Console
<1> QED BY <1>1, <1>2, <1>3

\* Every step keeps the invariant.
LEMMA ConsoleNextInv == ConsoleInv /\ [Next]_vars => ConsoleInv'
<1> SUFFICES ASSUME ConsoleInv, [Next]_vars PROVE ConsoleInv'
  OBVIOUS
<1>1. CASE WarpStep /\ UNCHANGED console BY <1>1, WarpStepInv
<1>2. CASE Console BY <1>2, ConsoleStepInv
<1>3. CASE UNCHANGED vars
  BY <1>3 DEF vars, warpVars, channel, binding, inner, console, ConsoleInv, LineShape,
              WarpShape, PhaseInv, OneCommand, Free, Held
<1> QED BY <1>1, <1>2, <1>3 DEF Next

\* Every reachable state of console and warp satisfies the invariant.
THEOREM ConsoleInvariance == Spec => []ConsoleInv
BY InitInv, ConsoleNextInv, PTL DEF Spec

\* CmdAttach's "paused" (main.cu) means that the VM is held at its pause.
THEOREM PausedMeansHeld == Spec => PauseHolds
<1>1. ConsoleInv /\ [Next]_vars =>
        [~hurried' /\ phase = "pausing" /\ phase' # phase =>
           ~cold /\ warp \in {"poll", "consume"} /\ {cmd, got} \subseteq {"None", "Pause"}]_vars
  <2> SUFFICES ASSUME ConsoleInv, Next, ~hurried', phase = "pausing", phase' # phase
               PROVE  ~cold /\ warp \in {"poll", "consume"} /\ {cmd, got} \subseteq {"None", "Pause"}
    BY DEF vars, console
  <2>1. Paused
    BY DEF Next, Console, console, Type, Ensure, Send, Quit, Booted, Stepped, Timeout
  <2>2. ~hurried /\ status = "Paused" BY <2>1 DEF Paused
  <2> QED BY <2>2 DEF ConsoleInv, PhaseInv, WarpShape
<1> QED BY <1>1, ConsoleInvariance, PTL DEF Spec, PauseHolds

\* Step of persistent.h returns after one instruction, with the warp back at
\* its command word.
THEOREM StepIsOne == Spec => StepIsExact
<1>1. ConsoleInv /\ [Next]_vars =>
        [~hurried' /\ phase = "stepping" /\ phase' # phase =>
           seq = (seq0 + 1) % SeqMod /\ warp \in {"poll", "exited"} /\ cmd = "None"]_vars
  <2> SUFFICES ASSUME ConsoleInv, Next, ~hurried', phase = "stepping", phase' # phase
               PROVE  seq = (seq0 + 1) % SeqMod /\ warp \in {"poll", "exited"} /\ cmd = "None"
    BY DEF vars, console
  <2>1. Stepped
    BY DEF Next, Console, console, Type, Ensure, Send, Quit, Booted, Paused, Timeout
  <2>2. ~hurried /\ seq # seq0 BY <2>1 DEF Stepped
  <2> QED BY <2>2 DEF ConsoleInv, PhaseInv
<1> QED BY <1>1, ConsoleInvariance, PTL DEF Spec, StepIsExact
=============================================================================
