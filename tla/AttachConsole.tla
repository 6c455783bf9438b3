--------------------------- MODULE AttachConsole ----------------------------
(***************************************************************************)
(* One VM under the interactive console (CmdAttach of runtime/src/main.cu) *)
(* with the Pause and Step of runtime/src/host/persistent.h, interleaved   *)
(* with its warp (ResidentWarp).  The VM is bound before the launch and is *)
(* never retired.  The wait for each RUN at boot succeeds here or times    *)
(* out like any other.                                                     *)
(***************************************************************************)
EXTENDS ResidentWarp

CONSTANT Patient   \* a wait only times out on a warp that will not answer it

ASSUME ConsoleAssumption == Patient \in BOOLEAN

VARIABLES
  line,    \* the console command being served, or "none"
  phase,   \* where the console is in it
  seq0,    \* Step's copy of seq
  hurried  \* history: resume or reset was followed by a command before it
           \* took effect, or a wait has timed out

console == <<line, phase, seq0, hurried>>
vars    == <<warpVars, console>>

Init ==
  /\ shutdown = FALSE /\ cmd = "Run" /\ status = "Idle" /\ seq = 0
  /\ resident = 1 /\ owner = 1 /\ routes = {1}
  /\ warp = "poll" /\ got = "None" /\ cold = TRUE /\ leaving = NoVm
  /\ line = "boot" /\ phase = "booting" /\ seq0 = 0 /\ hurried = FALSE

-----------------------------------------------------------------------------
Prompt == line' = "none" /\ phase' = "prompt"

\* The last command is still in the word or in the warp's hands.
Unserved == cmd # "None" \/ warp \in {"consume", "start", "publish", "reset"}

Type(l) ==
  /\ phase = "prompt"
  /\ line' = l
  /\ phase' = IF l \in {"step", "reset"} THEN "ensure" ELSE l
  /\ hurried' = (hurried \/ Unserved)
  /\ UNCHANGED <<warpVars, seq0>>

\* ensure_paused
Ensure ==
  /\ phase = "ensure"
  /\ phase' = IF status = "Paused" THEN line ELSE "pause"
  /\ UNCHANGED <<warpVars, line, seq0, hurried>>

\* step n: one Step after another while the VM stays paused.
Send ==
  /\ \/ phase = "pause"  /\ cmd' = "Pause" /\ phase' = "pausing" /\ UNCHANGED <<line, seq0>>
     \/ phase = "resume" /\ cmd' = "Run"   /\ Prompt /\ UNCHANGED seq0
     \/ phase = "reset"  /\ cmd' = "Reset" /\ Prompt /\ UNCHANGED seq0
     \/ phase = "step"   /\ cmd' = "Step"  /\ seq0' = seq /\ phase' = "stepping" /\ UNCHANGED line
  /\ UNCHANGED <<shutdown, status, seq, binding, inner, hurried>>

Quit ==
  /\ phase = "prompt" /\ ~shutdown
  /\ shutdown' = TRUE
  /\ phase' = "down"
  /\ UNCHANGED <<cmd, status, seq, binding, inner, line, seq0, hurried>>

Booted ==
  /\ phase = "booting" /\ status # "Idle"
  /\ Prompt
  /\ UNCHANGED <<warpVars, seq0, hurried>>

\* Fault: PAUSE is not waited for.
PausedAtOnce ==
  /\ phase = "pausing"
  /\ IF line = "pause" THEN Prompt ELSE phase' = line /\ UNCHANGED line
  /\ UNCHANGED <<warpVars, seq0, hurried>>

Paused ==
  /\ phase = "pausing" /\ status = "Paused"
  /\ IF line = "pause" THEN Prompt ELSE phase' = line /\ UNCHANGED line
  /\ UNCHANGED <<warpVars, seq0, hurried>>

\* Fault: completion is looked for in the status, which stays PAUSED.
SteppedByStatus ==
  /\ phase = "stepping" /\ status = "Paused"
  /\ Prompt
  /\ UNCHANGED <<warpVars, seq0, hurried>>

Stepped ==
  /\ phase = "stepping" /\ seq # seq0
  /\ \/ Prompt
     \/ status = "Paused" /\ phase' = "step" /\ UNCHANGED line
  /\ UNCHANGED <<warpVars, seq0, hurried>>

AtRest ==
  \/ warp = "exited"
  \/ warp = "poll" /\ cmd = "None"
  \/ warp = "running" /\ cmd # "Pause"

\* A wait gives up; step n goes on to its next Step all the same if the VM is
\* paused.
Timeout ==
  /\ \/ phase = "booting" /\ status = "Idle"
     \/ phase = "pausing" /\ status # "Paused"
     \/ phase = "stepping" /\ seq = seq0
  /\ Patient => AtRest
  /\ hurried' = TRUE
  /\ \/ Prompt
     \/ phase = "stepping" /\ status = "Paused" /\ phase' = "step" /\ UNCHANGED line
  /\ UNCHANGED <<warpVars, seq0>>

-----------------------------------------------------------------------------
Console ==
  \/ \E l \in {"pause", "resume", "step", "reset"} : Type(l)
  \/ Ensure \/ Send \/ Quit \/ Booted \/ Paused \/ Stepped \/ Timeout

Next == (WarpStep /\ UNCHANGED console) \/ Console

Spec == Init /\ [][Next]_vars

-----------------------------------------------------------------------------
(* Properties *)

\* A VM the console reports paused is held at its pause, with nothing waiting
\* to move it on, if no command was typed too soon and no wait gave up.
PauseHolds ==
  [][~hurried' /\ phase = "pausing" /\ phase' # phase =>
       ~cold /\ warp \in {"poll", "consume"} /\ {cmd, got} \subseteq {"None", "Pause"}]_vars

\* Step reports completion of exactly one instruction, with the warp back at
\* its command word, on the same condition.
StepIsExact ==
  [][~hurried' /\ phase = "stepping" /\ phase' # phase =>
       seq = (seq0 + 1) % SeqMod /\ warp \in {"poll", "exited"} /\ cmd = "None"]_vars
=============================================================================
