# WarpVM: a TLA+ model

WarpVM runs many small virtual machines on one GPU. Each VM is executed by one
warp that stays resident in a persistent kernel; a CPU supervisor controls the
warps through words of pinned host memory, and VMs exchange messages through
mailboxes in device memory. Programs are written in Warp C, which warpc compiles
to assembly and warpvm-as assembles to images. This directory specifies the
protocols between warps and host, the engines that execute an image and the
toolchain that makes one, checks them with TLC on small instances and proves the
safety of the protocols, the agreement of the engines and the assembler with TLAPS.

## The system and its parts

| part | source | state | operations | model |
|---|---|---|---|---|
| VM mailbox | `runtime/src/gpu/warpvm.cuh` | owner, pin count, head, tail, 16 sequenced slots | `MailboxTrySend`, `MailboxTryReceive` | `Mailbox`, `Channel` |
| slot retirement | `gpu/kernel.cu` (`DeactivateVm`), `host/persistent.h` (`UnbindSlot`, `BindSlot`) | routes, owner, pins, the slot's VM | withdraw, drain, clear, acknowledge; install ring, bind | `SlotRetirement` |
| command channel and resident warp | `gpu/control.cuh`, `gpu/kernel.cu` | cmd, status, seq, shutdown; where the warp is | `ConsumeCmd`, `CheckInterrupt`, idle loop, pause loop, `DeactivateVm` | `ResidentWarp` |
| supervisor lifecycle | `host/supervisor.h`, `host/persistent.h` | lifecycle of each VM, the slot's tenant | `VmCreate/Start/Stop/Resume/Reset/SetProgram/Delete`, `Shutdown`, waits and timeouts | `SupervisedSlot` |
| attach console | `main.cu` (`CmdAttach`) | the console line being served | pause, resume, step, reset, quit | `AttachConsole` |
| registry, directory, instances | `host/program_registry.h`, `host/vm_identity.h`, `host/supervisor.h` | loaded programs and reference counts; id to slot and back; VM records; slot records | load, unload, the lifecycle calls and their partial failures | `Population` |
| warp interpreter | `gpu/interpreter.cuh` | per-lane registers, copies of scalars and predicates, call stack, RAM | one instruction (`VmRun`) | `WarpIsa`, `Warp`; `Machine` |
| host interpreter | `host/cpu_interpreter.cpp` | the same, one copy | `CpuVm::Step` | `CpuVm` |
| log ring | `gpu/control.cuh`, `host/persistent.h` | `log_head`, entries | `LogAppend`, `ReadLog` | planned |
| compiled engine | `host/ptx_compiler.cpp` | per-thread registers; generated bodies, slot program ids | what `EmitPtx` accepts, what its code does; control points, dispatch | `CompiledWarp`; control points and dispatch planned |
| command line of the supervisor | `host/supervisor_cli.cu` | names of programs and VMs | its commands | planned |
| image files | `host/wvm_file.h`, `tools/warpvm-asm/src/wvm.rs` | header, code, literals | write, read, load | `Assembler`, `Machine` |
| assembler, disassembler | `tools/warpvm-asm` | code, labels, constants, literal pool, jump fixups | assembling, decoding, disassembling | `Assembler` |
| warpc compiler | `tools/warpc` | tokens, tree, types, homes of locals, registers and masks in use | lexing, parsing, checking, allocation, code generation | `WarpcLexer` to `WarpcCodegen`, composed in `Toolchain` |
| viewer, benchmarks, samples | `host/view_sdl.cu`, `host/life_bench.cu`, `programs`, `testprojects`, `tests` | | | left out: drawing, measurement, data |

How they interact. The supervisor (one host thread) writes a command word per
slot and reads status and seq; the slot's warp polls the word between
instructions at control points and in its idle and pause loops. Neither side
locks anything. SEND, executed by any warp, looks up the route of an id, pins
the target's mailbox, checks its owner and reserves a ring position. To retire
a VM its warp withdraws route and owner, waits for the pins to go and
acknowledges by moving seq; the host then rewrites the slot's memory while
other warps run on. The registry's counts and the directory live on the host
only, but decide which slot is bound to which program and id. The toolchain
meets the rest in two places: the image file, and the interpreter, whose per-lane
copies of scalars and masks only warpc keeps equal.

What is hard here: the accesses of warps and host interleave word by word; a
command word holds one command; waits give up after two seconds and leave their
command behind; an acknowledgement is only a changed counter; a pin count is
overwritten by a memory copy; calls that do several things fail between them.
The compiler is sequential, but what it computes has to be right in all
combinations: registers saved over a call, masks nested in three predicates,
values proved uniform and then kept once for all lanes. `hazards` in PROJECT.json lists each one at its line.

## Modules

* **Mailbox** follows `MailboxTrySend` and `MailboxTryReceive` one shared access
  at a time: `Pin`, `CheckOwner`, `ReadHead`, `ReadSequence`, `ReserveHead` (the
  compare-and-swap), `WriteMessage`, `Publish`, `Unpin`; `FindPublished`,
  `CopyMessage`, `ReleaseSlot`, `AdvanceTail`. `pc` and `position` are the
  sender's registers, `reserved` and `received` are history. The pin count keeps
  the width of its word (`WordMod`). Positions are natural numbers, in the code
  32-bit words compared by signed difference; `Word` and `Difference` say what the code
  makes of them, and `WordsTellPositions` that it decides alike for any sender that does
  not sleep through half of all words. What happens to one that does is not modelled.
* **Channel** is what the mailbox promises: a bounded queue in which a message
  is accepted at one moment, becomes visible at a later one, and is taken in the
  order of acceptance. **MailboxChannel** maps the ring to it.
* **MailboxProofs** holds the inductive invariant of the ring and what follows from
  it, the order of one sender's messages, the pin count, the comparison of
  positions as words and the refinement of `Channel`.
* **SlotRetirement** extends Mailbox with the slot's routes, the steps of
  `DeactivateVm` and the host's `UnbindSlot`/`BindSlot`. `InstallRing` is the
  `cudaMemcpy` of a whole empty mailbox; `lostPins` is history: the pins it
  overwrote. Here the host waits as long as it takes. **SlotRetirementProofs**
  proves its safety properties.
* **ResidentWarp** is the device side of the command channel. A host command is
  read and cleared in two steps (`ReadCmd`, `ClearCmd`), as in `ConsumeCmd`; a
  control point does the same for PAUSE (`SeePause`, `ClearPause`). `cold` tells
  the idle loop from the pause loop. HALTED stands for FAULTED too. What the
  program computes is abstracted: it goes on, or stops.
* **SupervisedSlot** extends ResidentWarp with the supervisor's calls: `Call`
  (refresh and lifecycle check), `Look` (the status read), `SendRun`,
  `SendPause`, `SendDeactivate`, the waits and `Timeout`, then the rewriting of
  the slot. `abandoned` is history: the commands whose wait has given up.
  `patient` is fixed per behaviour: with it a wait gives up only when the warp
  has come to rest without answering; without it, at any moment. **SupervisedSlotProofs**
  proves its safety properties.
* **AttachConsole** extends ResidentWarp with the interactive console instead;
  its VM is never retired. `hurried` is history: a command was typed before the
  last one took effect, or a wait gave up. **AttachConsoleProofs** proves both of
  its properties.
* **Population** makes each supervisor call one step and gives it every outcome
  its parts can have: a retirement can time out or fail in its copies, a binding
  can fail before or after it has occupied the slot. `stranded` is history: the
  slots of which a binding failed. **PopulationProofs** proves its safety properties.
* **WarpIsa** says what an instruction computes from the registers it reads: one
  member of each class of opcodes that the engines treat alike stands for its
  class. Words count modulo `Base`; addresses are RAM, video or unmapped.
* **Warp** is `VmRun`: each lane has its own vector registers and its own copy of
  scalars and predicates, and evaluates the guard on its copy. Faults of lanes
  become the warp's after the instruction (`Resolved`, `Retired`). A branch that
  lanes decide differently leaves the warp DIVERGED, of which nothing is known.
  A SEND fails or not, a TRY_RECV finds a word or none: `Mailbox` says when.
* **CpuVm** is `CpuVm::Step`: one copy of everything, lanes visited in order.
* **CompiledWarp** is what `EmitPtx` accepts (`Accepted`) and what its code does:
  `%t9`, `%p2`, votes masked by the guard and merged under it.
* **Engines** runs the warp's interpreter and one `peer` in step, any instruction
  at any pc, which covers every program without enumerating programs. `Portable`
  is the discipline under which they must agree. `shared` is history: the
  predicates that code alone shows to be one mask for all lanes (the last write
  was unguarded and computed from shared ones). **EnginesProofs** proves all of
  its properties.
* **MCEngines** lists the instructions, **MCSlotRetirement** adds the symmetry set
  and **MCMailbox** joins the ring to its abstraction; the other protocol modules
  are run as they are.

The toolchain is functional code, so its modules are operators, and one state
machine at the end composes them. The compiler's modules extend each other in the
order given; `Assembler` rests on `Words` only, so that it can be proved about.

* **Words**: words of `WordBits` bits, signed and unsigned, and the small folds the
  others use.
* **WarpcLexer** and **WarpcParser** (`lexer.rs`, `parser.rs`, `ast.rs`): a text to
  tokens to a tree, by the precedence climbing of the parser. A diagnostic is a
  token of its own kind, or a parse that is not `ok`.
* **WarpcTypes** and **WarpcSema** (`sema.rs`): types, conversions, intrinsics and
  their uniformity; then the checker as one pass over the tree that threads the
  record of what the Rust structure `Analyzer` holds: scopes, locals,
  the depth of divergent branches, the stack of switches, the call edges. Inlining
  and folding are part of it, as in the code. `err` is the first rule that fails.
* **WarpcAlloc** (`codegen.rs`, first part): lifetimes of locals, their homes and
  spills, and the backward pass that decides what is live over each call.
* **WarpcCodegen** (`codegen.rs`): one operator for each method, from the typed tree
  to assembly statements, threading the record of the Rust structure
  `Generator`: free registers, protected values, the current mask, frame size;
  `FunctionWithLimit` and the retries around it.
* **Assembler** (`assemble.rs`, `isa.rs`, `disasm.rs`, `wvm.rs`): statements to words
  in one pass with jump fixups and the literal pool, words back to statements, the
  file around them. A word is a record of its fields. The pass is a recursive
  function over the statements, taken thirty at a time so that TLC's own recursion
  stays flat. **AssemblerProofs** proves what is said under Proofs.
* **Machine** (`interpreter.cuh`, `kernel.cu`, `wvm_file.h`): loading an image, and the
  opcodes warpc emits on a warp, with each lane's own copies of scalars and masks. Messages
  may arrive between any two instructions. Its steps have no fault for an operand that
  does not exist: `OperandFault` says what the code tests, and **MachineProofs** that no
  assembled program needs it.
* **WarpcMeaning** translates no code: it evaluates the syntax tree for all lanes at once
  by what `docs/warpc.md` says of the language, with no registers, frames or jumps.
  It is the reference that the compiled program is compared with.
* **Toolchain** (`lib.rs`): a job goes from its text, or an assembly listing, to its end
  on the warp. The phases are functions of the text, so their results are tables
  (`Compiled`, `Assembled`, `Parsed`, `Meanings`) which are constants only for TLC to evaluate
  them once; `TablesAssumption` says, and TLC checks, that they are the definitions'
  values.
* **MCToolchain** holds the programs.

Definitions marked `Fault:` are plausible mistakes in the operation that follows
them; they are used by no specification. Replacing the operation by one of them
must break the property it is listed with in PROJECT.json.

## Runs

| run | expected | question |
|---|---|---|
| `mailbox` | pass | Do two warps, three sends each, on two slots (three laps) ever tear, lose, repeat or reorder a message, or report a full ring that is not? Does the ring implement `Channel`, and is every accepted message received? Do positions kept in words decide as positions would? The inductive invariant is checked too. |
| `slot_retirement` | pass | Through three tenancies of a slot: which guarantees of pins and owner check survive, and does a drain end? |
| `stray_mail` | violation | Can a message reach the mailbox of a replacement VM? |
| `supervised_slot` | pass | What holds of the supervisor's calls when waits give up, and do deletion and shutdown end? |
| `shared_slot` | violation | Does the host own the slot after an acknowledgement? |
| `erased_command` | violation | Does the warp consume each command exactly once? |
| `attach_console` | pass | Do "paused" and "stepped" mean what they say? |
| `population` | pass | Are counts, tables and records exact whatever fails? |
| `unloaded_program` | violation | Is the program of a bound slot always loaded? |
| `engines` | pass | Do the lanes of a warp stay together, and do the three engines agree? |
| `aliased_load` | violation | Do compiled and interpreted code agree on every load? |
| `toolchain` | pass | Does a Warp C program, compiled, assembled, loaded and run, do what its source means, and is a program that breaks a rule refused with a diagnostic? |

Bounds. Two ring slots are the least the algorithm allows and make every third
reservation reuse a slot; two senders compete for each position, and with three
sends each one can sleep while the other goes round the ring once and more
(with a third warp its two sends more reach no new case and three times the states).
Words count modulo 6, so that the six positions wrap and a position and the entry found can lie
on two sides of it.
Three tenancies are needed for a lost pin to do harm: it is
lost in the first recycling and missed in the second. `SeqMod = 4` is more than
the completions that can fall within one wait. Two creations per slot show a
successor; a third adds only a longer id. In `Population` two slots and two
programs let one VM hold what another exchanges, three ids let a slot be reused
after a failed creation.

In `engines` two lanes are enough for copies to differ, for a fault in one
lane and not in the other and for a shuffle; words are bits, which a sum wraps
and an address can miss; the call stack holds one address, so a second call and
a second return fault; two words of code have a backward, a self and a forward
jump and an end to run off. Guarded instructions write p0 only and p1 stays
shared. Video memory is empty there (behind `~LoadsTwice` it is just more
memory) and takes the place of the unmapped address in `aliased_load`.

In `toolchain` a warp has four lanes (two for a mask to be mixed, four for masks nested
twice to differ from each other) and words have 16 bits, so that sums and shifts wrap and signs differ. Immediates
end at 255, the literal pool at 32 words and code at 500, which the programs and
listings cross from both sides; the call stack has the eight entries of the code,
RAM 1024 words, which holds the deepest frames, and the framebuffer is four by
four. Inlining has its own limits of 6 and 48. The programs take each binary
operator on each pair of types that converts differently, on both signs and
on constants, each statement under and outside masks, calls with live values of every
home, inlining, spilling until the retry, pointers, structures, globals, messages; an
illegal one for each rule; trees of each pair of levels of precedence; and listings with
every form of operand, or with one fault. The bound is the set of programs: it is an argument about these, and about
each interleaving of their instructions with arriving messages, not about all.

Deadlock is not checked in any run: senders, creations and console lines are
bounded, after which the models stop, a warp that has left its kernel is done,
a program halts or faults, and a job ends with it or with a diagnostic.

Fairness. Every resident warp keeps being scheduled by the GPU for as long as
the kernel runs (the kernel is launched with no more blocks than fit at once),
so a sender's and the owner's next step is weakly fair. A program that runs on
reaches a control point (every backward jump polls, and CALL without one runs
into the depth of the call stack), so serving the command word is weakly fair
too; that a program halts, or that a user makes a call, is not assumed. A host
call once made proceeds. In `Toolchain` the tools are run and the warp
takes its next instruction; that a message ever arrives is not assumed.

## What the runs found

Each item is a run with expectation `violation`, listed in `findings`.

1. `stray_mail`. `UnbindSlot` installs the empty ring by copying a whole
   `Mailbox`, so `in_flight_sends` is set to zero although a late sender may hold
   a pin. `PinsAreExact` says by how much the count is wrong from then on. The
   next drain may pass while a sender is beyond its owner check, and that sender
   publishes into its successor's ring. `MailStaysWithItsVm` shows that nothing
   else does: in a tenancy whose ring overwrote no pin, mail stays put. The same
   count, taken below zero by the late sender, keeps a later drain from ever
   ending, which is why `RetirementEnds` excepts an overwritten pin.
2. `shared_slot`. The acknowledgement of a retirement is any change of seq. When
   a retirement times out because its DEACTIVATE met a program that was already
   running, it is served at the next halt; a retry sends another, takes the
   first acknowledgement for its own and rewrites the slot under the warp.
3. `erased_command`. `ConsumeCmd` reads and clears in two accesses and
   `vm_start` does not wait, so the DEACTIVATE of an immediate `vm_delete` can be
   erased. `OnlyStartLosesCommands` shows that before any timeout this is the
   only pair of commands that can meet.
4. `unloaded_program`. A replacement whose route cannot be published leaves the
   slot's record at the new program, whose reference is given back.
5. `aliased_load`. The generated LOAD compares its address register with the RAM
   bound, loads, and only then compares it with the video bounds. If the
   destination is the address register, the second comparison sees the loaded
   word, and a word that is a video address is followed. warpc never emits such
   a load; assembly may. `~LoadsTwice` keeps it out of `engines`.

What `engines` makes precise without a finding of its own: `interpreter.cuh:7-8`
says that predicate masks and scalars are uniform values that stay in sync in
all lanes. They do not. A guarded comparison replaces the copies of the active
lanes only, and the copies of one mask differ from then on (notes.md section 4
knows of this for scalars). What holds is weaker: shared masks are the same in
all lanes (`Lockstep`), and the lane's own bit of its own copy is always the bit
that the one mask of the other engines has (`CpuAgrees`, `PtxAgrees`). Code that
branches on a mask written under a guard, or reads it with ALL, is outside
`Portable`, and so is a guarded scalar write, of which `EmitPtx` accepts only
S_GET. Known differences that the properties except: the memory that a
faulting access leaves (the host stops at the first faulting lane), the pc of a
compiled program that ran off its code, and illegal guards, which the warp
executes before it faults.

The console has a relative of 3 (`resume` and `reset` do not wait for their
command), which is why its properties speak of lines that are not `hurried`.

### Programs that warpc compiles wrongly

`CompiledAsMeant` holds for all programs of `toolchain` but those of kind
"miscompiled", of which it asserts the contrary, so that a correction of the code, or of
the model, shows. Each is a small program that warpc accepts:

* a local assigned in a `switch` without `default` and live over an earlier call is
  not saved: the liveness pass joins the cases only, not the way past them
  (`codegen.rs:432-448`; `docs/warpc.md:244-254` has every live value saved);
* a parameter whose address is taken is overwritten by its own address before it is stored
  (`codegen.rs:911-917`);
* a compound assignment evaluates its target twice, so `a[i++] += 3` moves `i` by two
  (`codegen.rs:2365`);
* under a mask, `a < 3 ? (b > 2) : 7` loses its condition: it waits in p1, which
  a comparison or a signed shift in an arm uses (`codegen.rs:1938`);
* a frame larger than an immediate is allocated with a long `S_ADD_I`, for which the
  assembler takes s7 as scratch, and s7 is the stack pointer
  (`assemble.rs:25-27`, `551`; `docs/warpc.md:237`);
* a helper that is inlined finds a local of its caller where it names a global
  (`sema.rs:1717`; `docs/warpc.md:80-82` says that shadowing is kept);
* constant expressions are folded unsigned, so `int g = -7 / 2;` is not -3
  (`sema.rs:2673`; `docs/warpc.md:181`);
* a `case` inside a masked `if` is accepted, and its jump skips the mask
  (`sema.rs:1165`).

Other things met while translating: an assignment to an array name is accepted and stores
into its first element; a frame that runs into the globals is not noticed; `ADD r1, r15, 5000` overwrites its operand (r15 is the default
scratch register); and the disassembler's claim to reproduce every word
(`disasm.rs:3-6`) needs words whose guard is at most 8 and whose unused fields are
zero, which is what the assembler emits, and jumps no further than the largest
immediate: a label after the last word of a full program is at 4096, its JMP is
written `JMP #-4096`, and the assembler refuses a negative address
(`assemble.rs:298-304`; `LongJumpsRefused`). A `.word` that happens to be a load
of a literal the pool has not got assembles into nothing either.

## Proofs

TLC checks each inductive invariant first, as an invariant of a run or of a run
made for it; then TLAPS proves it for every value of the constants. Listed are the
theorems a reader will look for; each is a property of a run, but for instances
of any size.

**The ring** (`MailboxProofs`), for every
set of senders, every ring of at least two slots, every number of sends and
every word width. Assumptions: two slots (with one, the sequence number of a
published entry is that of a free one), the set of senders is finite (only for
the count), ids and the invalid id differ, `Slots` divides the number of words (else
a position and its word would not share a slot; 16 divides 2^32).

* `Invariance`: `IInv` is an invariant; `TypeCorrect`.
* `Exclusion`: no message is torn. `InOrder`: what is received is a prefix of
  what was accepted. `SenderOrdered`: one sender's messages keep their order.
* `FullIsHonest`: a SEND is refused for a full ring only when it is full.
* `PinsExact`: the pin word counts the pins, modulo its width.
* `WordsTellApart`: comparing words decides as comparing positions does, however often
  they have come round, for senders that do not oversleep. The entry a sender finds
  is less than a lap from its position and head, and a signed difference is
  exact within half of all words.
* `Refinement`: the ring implements `Channel`.

At any moment the ring is a window of `Slots` positions from the
first one not consumed; each slot carries the sequence number of its position in
the window, or that plus one when published (`RingInv`). A sender that writes
holds a reserved, unpublished position in the window that no other holds
(`SenderInv`), so the consumer cannot pass it. The subtle part is a sender about
to swap head: its position was free when it read the sequence number, and the
conjunct that it is still inside the window if head has not moved is what makes
the swap safe and what `SlotsAreExclusive` alone does not say. Lemmas on `%`
(`SlotDistinct`, `SlotNextLap`, `SlotCovered`) say when two positions share a
slot; one lemma per action keeps the invariant. The pins are counted by adding or
taking one of a finite set, and `WordAdd` carries that to the word. For the refinement
the queue is the reserved positions from the first not consumed to head; there
is one lemma for each step that the channel sees, and `OwnerInv` says what
position the owner is at.

**A slot through its tenancies** (`SlotRetirementProofs`), for every number of
tenancies from one, with the assumptions of the ring, ids that are numbers
from one, and fewer senders than the pin word can count (there are at most
`kMaxVms` = 256 warps, `control.cuh:15`).

* `PinsArithmetic`: the pin word is short by exactly the pins overwritten.
* `RingClearedAlone`: while none is missing, the ring is cleared with no sender in it.
* `MailDelivered`: in a tenancy whose ring overwrote no pin, a VM receives what
  was sent to it and nothing else.
* `RefusalIsLate`: a refused SEND is one that a retirement overtook.
* `RetirementTypes`.

`RetirementInv` has a part that always holds, whatever a copy overwrote
(where route, owner and tenant may stand at each step of host and warp, and the
arithmetic of the pin word), and a part that holds while `lostPins` is zero: then
the invariant of the ring itself, carried over from `MailboxProofs` lemma by lemma, and the fact
that a sender past its owner check is pinned, which a drained count of zero
turns into an empty ring. The proof shows where the code needs the assumption that fails
in `stray_mail`: only `InstallRing` can make `lostPins` anything but zero.

**The supervisor's calls** (`SupervisedSlotProofs`), for every `SeqMod` of at least two
and every number of creations.

* `TenantExecutes`: no VM executes that the host does not hold, whatever times out.
* `RetirementExclusive`: until a DEACTIVATE times out, the host owns a slot it
  rewrites and a READY VM is whole. `StoppedStays`: a VM called STOPPED is paused.
  `StartLoses`: before any timeout, a command is lost only where a RUN that nobody
  waited for meets a DEACTIVATE.
* `TypeCorrect`.

The invariant has four layers, each true for longer than the next. `CallShape` and
`TenantInv` relate the phase of the call to the record and the slot, whatever
times out. `RetireInv` holds until a wait for a DEACTIVATE gives up: a changed
seq then means this DEACTIVATE was served, because nothing else that
would change it can be outstanding. `PauseInv` holds until anything but a PAUSE
times out, `LossInv` before any timeout at all.

**Tables and counts** (`PopulationProofs`), for every finite set of slots and
programs and every bound on ids, whatever fails in each call.

* `ReferencesExact`: a program's count is the number of VMs defined on it, and each of
  those programs is loaded. `DirectoryExact`: the directory's two tables are inverse
  to each other and name the VMs there are. `RecordsAgreement`: the supervisor's and the
  runtime's records agree, but for slots of which a binding failed.
* `Invariance`, `TypeCorrect`.

Each call is one step with several outcomes. One lemma for each part of a call
(`UnbindResult`, `BindResult`, `RebindResult`) says what a state may become, so each
call is a short combination of them; counting is by one more or one
fewer in a finite set.

**The console** (`AttachConsoleProofs`), for every width of the seq word, whether
or not waits are patient.

* `PausedMeansHeld`: "paused" is said only of a VM held at its pause.
* `StepIsOne`: a reported step is one instruction, its warp back at the command word.
* `ConsoleInvariance`: the invariant both rest on.

Both are about a console that does not hurry the warp, and the invariant is split
there. `LineShape` and `WarpShape` hold whatever happens: which phases a line goes
through, and where the warp can be with what in its command word. `PhaseInv`
holds until a command is hurried: at most one command is under way, the one the
line before sent, and once a phase waits for nothing any more the warp runs free
(`Free`) or is held (`Held`). A changed seq can then only be the answer to the command
whose wait is looking at it.

**The engines** (`EnginesProofs`), for every number of lanes, registers, scalars
and predicates, every word width, every memory, length of code and depth of the
call stack, and every set of instructions. Assumptions (`IsaAssumption`): lanes
fit in a word, no address is both RAM and video, an instruction's register
fields name registers, literals are words.

* `StaysInLockstep`: code that keeps to `Portable` never sends two lanes to
  different instructions, and every lane has the same scalars.
* `HostAgrees`: `CpuVm::Step` is where `VmRun` is, with the same registers and memory.
* `CompiledAgrees`: the generated code does what `VmRun` does, messages and faults
  included, unless a load goes through its own destination (`LoadsTwice`).
* `InterpretersAgree`: with such loads the first two still hold, so in
  `aliased_load` it is the compiled engine that is alone.
* `EnginesInvariance`, `TypeCorrect`.

An instruction is seen as what it does to a machine's control (pc, calls, frames,
verdict) and what to its data. Equal controls have equal successors
(`SameControl`), so agreement comes down to which lanes are active and what they
write. The invariant has three layers. `WarpInv` is about the warp alone: types,
scalars equal in all lanes, and the masks in `shared` too; that is why a branch,
which `Portable` lets test only shared masks, goes one way, and a vote or a scalar
write gives all lanes one value. `CpuSame` says that a lane's own bit of its own
copy of a mask is its bit of the host's one mask. The copies themselves may differ,
so this is all that can be said; it is enough because a lane's guard reads its
own bit only. `PtxSame` says the same of the generated code's `%m`, which is one mask in all
threads because every vote is merged back whole. The set of active
lanes is then one set for the three (`Active`, `ActiveMask`, `T9`). Two
conditions of the runs are used, and at one place each: without `StoresRace` a STORE leaves a
memory that does not depend on the order of lanes, and without `LoadsTwice` the
generated bounds test, made after the load, looks at the address
that was loaded. Calls and faults take one lemma for each class of opcodes
and engine.

**The assembler** (`AssemblerProofs`), for every listing, image, word width, largest
immediate of at least 15 and limits on code and literals (`EncodingAssumption`: a
register's number, a literal's and a lane's fit an immediate; `SizesAssumption`).
`Canonical` describes a word field by field: a register of the class its
operand has, a mask's number below four, a guard of at most eight, zero where the
instruction has no field.

* `WordRoundTrips`: the text the disassembler gives a canonical word is encoded as
  that word.
* `ImagesRoundTrip`: the disassembly of any image of such words, and of words without a
  text, assembles to the same code and literals.
* `ProgramsAssembled`: whatever the parser can make of a text, if the assembler accepts it
  then code and pool are within their limits, literals are distinct, words are canonical
  or data of the listing (`DataWords`), and every load of a literal finds it. `ProgramsRoundTrip`
  composes the two with the image file, with one condition left, `InReach`, on
  jumps; `LongJumpsRefused` is why.
* `FilesRoundTrip`: the reader gives back what the writer wrote, and refuses it cut short.

There is one lemma for each encoder (`FixedRoundTrips`, `Bin3Register`, `MovEncoded`, ...),
since a mnemonic decides which one sees it, and one for the arithmetic of the field
they share (`SignExtension`). A pass is described by the sequence of assemblers before
and after each statement (`Passage`), and `PassIsPassage` shows that the recursive
functions of `Pass` compute its last; so a property of the pass is an induction over a
number, not over data. For `ImagesRoundTrip` the assembler after n statements is known
exactly (`AfterConstants`, `AfterWords`). For `ProgramsAssembled` it satisfies `Sound`:
words readable, fixups at jumps only, and each load noted with a literal that is there
or checked at the end. The `.word` directive is restricted to words that have no text
or are canonical and load no literal, which is where the claim would fail. The
proof found that the model accepted a `.const` beyond a word, which the code refuses
(`assemble.rs:355-358`); two listings of `MCToolchain` now cross that bound.

**A warp on an assembled program** (`MachineProofs`), for every listing the parser can
make, every number of lanes up to a word's bits, and every size of word, memory, code and
stack, with the assumptions of the assembler. `MachineSpec` is `MachineInit` and steps
that load a file the assembler wrote, run an instruction, or bring a message of words.

* `WarpSafe`: the warp stays within what it was given (`MachineOK`): the program that was
  assembled is the one that runs; the program counter and all return addresses are in it
  and the calls in their stack; registers are words and masks are sets of lanes, in every
  lane's copy; memory was written only where RAM or the framebuffer is; what it sent fits a
  mailbox entry. The program counter may be one past the code, where the next fetch fails.
* `NoOperandFaults`: no instruction of such a program has a guard, mask, scalar register
  or literal that does not exist, so `kFaultOperand` is for images from elsewhere.

This joins what is proved of the parts: a listing that is accepted makes canonical words
(`ProgramsAssembled`), the file gives them back (`ProgramsRoundTrip`), and a canonical word
names registers of the size its opcode needs (`FieldsOf`, `CanonicalIsLegal`) so an
instruction finds the operands it reads. `MachineOK` is inductive because of that first
part: without the program in it nothing bounds a jump's fields or a literal's index. It is
silent about data words, which a program could run into only by falling or jumping into its
`.word` directives; the theorem is for programs that do not. There is one lemma for each
kind of instruction. Under them are that words are closed under the operators
(`OperatorWord`, `AluWord`, `ReducedWord`), which needs bitwise sums and reductions to be
read as functions over a count of bits and lanes (`Recursion`), and that a partial write
leaves a bank of registers one (`WriteKept`).

Model-checked only: liveness (`AcceptedIsReceived`, `RetirementEnds`,
`RetriedDeletionEnds`, `ShutdownEnds`, `Finishes`), which is out of the prover's reach,
and the properties of `Toolchain`, which reaches the compiler's operators, recursive over
trees. `ImageRoundTrips` is checked there for what the compiler emits; `ImagesRoundTrip`
says the same of any image, about the assembler alone.

## Not modelled

* The text of diagnostics and their places; the tree and uniformity dumps and the
  statistics that warpc writes as comments; the command lines of the tools. No property
  is about them.
* `parse.rs`, which reads assembly statements from text: warpc and the
  disassembler are composed with the assembler as statements.
* The bytes of an image file, and damage to them; the loader's checks are in the
  model, but only images the tools wrote reach them.
* RAND, CLOCK and the log's contents; the instruction budget and trace of the
  host interpreter.
* The log ring, the supervisor's command line, the control points of generated code
  and the dispatch over programs (see Plan).
* The viewer, the benchmarks and the runtime's other sub-commands: drawing,
  measurement and printing.
* Theorems about the compiler: its operators are recursive over trees, which is out of
  the prover's reach, as is liveness.

## Plan

In this order:

1. `CompiledPopulation`: the control points of resident generated code, which
   differ from the interpreter's (the poll publishes progress at every backward
   jump), and the wrapper's dispatch over program ids, composed with the
   selector that `BindSlot` publishes last.
2. `LogRing`: appends of many warps against `ReadLog`.
3. The supervisor's command line: names of programs and VMs, and what a failed
   command leaves of them.
4. A ring on words from the start, to see what a sender that oversleeps does.

Runs are kept few: a new question about an existing module joins its run before
it gets one of its own.
