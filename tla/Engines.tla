------------------------------- MODULE Engines -------------------------------
(***************************************************************************)
(* The engines that run a WarpVM program, side by side: the interpreter of *)
(* the warp and one other, its peer - the interpreter of the host or the   *)
(* compiled warp - on the same instructions, messages and verdicts of the  *)
(* mailboxes, as the equivalence tests of runtime/src/main.cu run them for *)
(* a few programs.                                                         *)
(*                                                                         *)
(* Code keeps to the discipline Portable, as what warpc emits does: legal  *)
(* guards and literals, no guarded scalar, no two lanes that store         *)
(* different words to one address, and branches on predicates that no      *)
(* guarded instruction wrote.  Next leaves out the one load on which the   *)
(* engines are known to differ, LoadingNext has it too.                    *)
(***************************************************************************)
EXTENDS Warp, CpuVm, CompiledWarp

VARIABLES
  peer,    \* the engine compared with the warp's interpreter
  shared   \* the predicates that a reader of the code can tell to be one mask
           \* for all lanes

vars == <<warp, cpu, ptx, peer, shared>>

Init == WarpInit /\ CpuInit /\ PtxInit /\ peer \in {"cpu", "ptx"} /\ shared = Preds

-----------------------------------------------------------------------------
(* The discipline *)

WritesPredicate(i) == i.op \in PredicateOps \union {"TRY_RECV"}

\* The predicates that an instruction computes a predicate from.
Sources(i) ==
  CASE i.op \in {"NOTMASK", "ALL"} -> {i.rs1}
    [] i.op = "ANDMASK" -> {i.rs1, i.lo}
    [] OTHER -> {}

\* The predicates that an instruction reads as a whole mask, not by the bit of
\* the lane.
WholeMasks(i) ==
  CASE i.op \in {"JMP_IF_ANY", "JMP_IF_ALL"} -> {GuardPredicate(i.guard)}
    [] i.op = "ALL" -> {i.rs1}
    [] OTHER -> {}

StoresRace(i) ==
  i.op = "STORE" /\ \E l, k \in Active(i) :
    /\ warp.v[l][i.rd] = warp.v[k][i.rd]
    /\ warp.v[l][i.rs1] # warp.v[k][i.rs1]

Portable(i) ==
  /\ IF peer = "cpu" THEN i.op \notin {"SEND", "TRY_RECV"} ELSE Accepted(i)
  /\ ~IllegalGuard(i)
  /\ i.op = "LDW" => i.lo < Len(Literals)
  /\ i.op \in {"JMP_IF_ANY", "JMP_IF_ALL"} => i.guard # 0
  /\ i.op \in ScalarOps => i.guard = 0
  /\ ~BadField(i) => WholeMasks(i) \subseteq shared
  /\ ~StoresRace(i)

\* A compiled load through its own destination that finds a video address.
LoadsTwice(i) ==
  peer = "ptx" /\ i.op = "LOAD" /\ i.rd = i.rs1 /\ \E l \in Active(i) :
    warp.v[l][i.rs1] \in Ram /\ warp.mem[warp.v[l][i.rs1]] \in Video

Sharing(i) ==
  IF warp.pc >= CodeLength \/ ~WritesPredicate(i) \/ BadField(i) THEN shared
  ELSE IF i.guard = 0 /\ Sources(i) \subseteq shared THEN shared \union {i.rd}
  ELSE shared \ {i.rd}

-----------------------------------------------------------------------------
Turn(i, accepted, message) ==
  /\ VmRun(i, accepted, message)
  /\ shared' = Sharing(i)
  /\ \/ peer = "cpu" /\ Step(i) /\ UNCHANGED ptx
     \/ peer = "ptx" /\ PtxStep(i, accepted, message) /\ UNCHANGED cpu
  /\ UNCHANGED peer

\* What a mailbox may answer, to the instructions that ask it.
Verdicts(i) == IF i.op = "SEND" THEN BOOLEAN ELSE {TRUE}
Inbox(i)    == IF i.op = "TRY_RECV" THEN Messages ELSE {NoMessage}

AnyTurn(i) ==
  \E accepted \in Verdicts(i), message \in Inbox(i) : Turn(i, accepted, message)

Next        == \E i \in Instructions : Portable(i) /\ ~LoadsTwice(i) /\ AnyTurn(i)
LoadingNext == \E i \in Instructions : Portable(i) /\ AnyTurn(i)

Spec        == Init /\ [][Next]_vars
LoadingSpec == Init /\ [][LoadingNext]_vars

-----------------------------------------------------------------------------
(* Properties *)

\* The three machines have their types: words wrap, a mask names lanes, the pc
\* and the return addresses are in the code or just past it, and the call stack
\* never outgrows its registers.
TypeOK ==
  /\ \A w \in {warp, ptx, cpu} :
       /\ w.v \in [Lanes -> [Regs -> Words]] /\ w.mem \in [Memory -> Words]
       /\ w.pc \in 0..CodeLength /\ w.stack \in Seq(0..CodeLength)
       /\ Len(w.stack) <= CallDepth /\ w.flips \in Words
       /\ w.status \in {"RUNNING", "HALTED", "FAULTED", "DIVERGED"}
       /\ w.fault \in {"OK", "OPCODE", "OPERAND", "JUMP", "MEM", "STACK", "MSG"}
       /\ w.fault # "OK" <=> w.status = "FAULTED"
  /\ \A l \in Lanes :
       /\ {warp.s[l], ptx.s[l], cpu.s} \subseteq [Scalars -> Words]
       /\ {warp.p[l], ptx.m[l], cpu.p} \subseteq [Preds -> SUBSET Lanes]
  /\ peer \in {"cpu", "ptx"} /\ shared \subseteq Preds

\* The opcode stream is uniform: code that keeps to the discipline never sends
\* two lanes to different instructions, because the masks it branches on are
\* the same in all lanes, even if other masks are not.
Lockstep ==
  /\ warp.status # "DIVERGED"
  /\ \A l, k \in Lanes : /\ warp.s[l] = warp.s[k]
                         /\ \A q \in shared : warp.p[l][q] = warp.p[k][q]

\* The host's interpreter is where the warp's interpreter is: same pc, calls,
\* frames and verdict, same registers and memory unless a fault interrupted an
\* access; and every lane's own bit of its own copy of a predicate is the bit of
\* the one mask of the host, also where the copies are no longer the same mask.
CpuAgrees ==
  peer = "cpu" =>
    /\ cpu.status = warp.status /\ cpu.fault = warp.fault
    /\ cpu.pc = warp.pc /\ cpu.stack = warp.stack /\ cpu.flips = warp.flips
    /\ warp.fault # "MEM" => cpu.v = warp.v /\ cpu.mem = warp.mem
    /\ \A l \in Lanes : warp.s[l] = cpu.s
    /\ \A l \in Lanes, q \in Preds : l \in warp.p[l][q] <=> l \in cpu.p[q]

\* Compiled and interpreted execution are equivalent (project_spec_01_04.md:61):
\* an accepted program, compiled, does in every lane what the interpreter does,
\* messages and faults included; only the pc of a program that ran off its code
\* may differ.
PtxAgrees ==
  peer = "ptx" =>
    /\ ptx.status = warp.status /\ ptx.fault = warp.fault
    /\ warp.fault # "JUMP" => ptx.pc = warp.pc
    /\ ptx.stack = warp.stack /\ ptx.flips = warp.flips
    /\ ptx.v = warp.v /\ ptx.mem = warp.mem /\ ptx.s = warp.s
    /\ \A l, k \in Lanes : ptx.m[l] = ptx.m[k]
    /\ \A l \in Lanes, q \in Preds : l \in warp.p[l][q] <=> l \in ptx.m[l][q]
=============================================================================
