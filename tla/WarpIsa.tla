------------------------------- MODULE WarpIsa -------------------------------
(***************************************************************************)
(* What an instruction of the warp computes from the registers it reads    *)
(* (runtime/src/gpu/interpreter.cuh), for the modules of the engines that  *)
(* run it: Warp, CpuVm and CompiledWarp.                                   *)
(*                                                                         *)
(* One member of each class of opcodes that the engines treat alike stands *)
(* for its class: ADD for lane-wise arithmetic, CMP_LT for the             *)
(* comparisons, REDUCE_MAX for the reductions, ALL for ANY and ALL,        *)
(* ANDMASK for ORMASK, SHUFFLE for the other lane permutations.  Words     *)
(* count modulo Base (2^32 in the code).                                   *)
(***************************************************************************)
EXTENDS Naturals, Sequences

CONSTANTS
  LaneCount,    \* lanes of the warp: 32 in the code
  RegCount,     \* vector registers: 16
  ScalarCount,  \* scalar registers: 8
  PredCount,    \* predicate registers: 4
  Base,         \* words count modulo Base: 2^32
  Ram, Video,   \* mapped addresses: the rest of the words fault
  Literals,     \* the literal pool
  CodeLength,   \* words of code
  CallDepth,    \* return addresses that fit: 8
  Instructions  \* the instructions that code may hold

Lanes   == 0..(LaneCount - 1)
Regs    == 0..(RegCount - 1)
Scalars == 0..(ScalarCount - 1)
Preds   == 0..(PredCount - 1)
Words   == 0..(Base - 1)
Memory  == Ram \union Video

VectorOps    == {"MOV_I", "ADD", "LANEID", "SHUFFLE", "REDUCE_MAX", "LDW", "S_BCAST"}
PredicateOps == {"CMP_LT", "BALLOT", "NOTMASK", "ANDMASK", "ALL", "S_CMP_LT"}
ScalarOps    == {"S_MOV_I", "S_ADD_I", "S_GET"}
NoOps        == {"NOP", "LOG", "YIELD"}
OtherOps     == {"LOAD", "STORE", "SEND", "TRY_RECV", "FLIP", "JMP", "JMP_IF_ANY",
                 "JMP_IF_ALL", "CALL", "RET", "HALT", "UNASSIGNED"}

\* An instruction word: guard is 0, a predicate (1..PredCount), a predicate
\* inverted, or illegal; lo is rs2, an immediate or a target.
InstructionWords ==
  [op : VectorOps \union PredicateOps \union ScalarOps \union NoOps \union OtherOps,
   guard : Nat, rd : Nat, rs1 : Nat, lo : Nat]

\* The fields that name vector registers: four bits, so they all name one.
VectorFields(i) ==
  CASE i.op \in {"ADD", "SHUFFLE", "SEND"}           -> {i.rd, i.rs1, i.lo}
    [] i.op \in {"REDUCE_MAX", "LOAD", "STORE"}      -> {i.rd, i.rs1}
    [] i.op \in {"MOV_I", "LANEID", "LDW", "S_BCAST"} -> {i.rd}
    [] i.op \in {"CMP_LT", "TRY_RECV"}               -> {i.rs1, i.lo}
    [] i.op \in {"BALLOT", "S_GET"}                  -> {i.rs1}
    [] OTHER                                         -> {}

ASSUME IsaAssumption ==
  /\ {LaneCount, RegCount, ScalarCount, PredCount, Base} \subseteq Nat \ {0}
  /\ {CodeLength, CallDepth} \subseteq Nat
  /\ Memory \subseteq Words /\ Ram \intersect Video = {}
  /\ LaneCount <= Base
  /\ Literals \in Seq(Words)
  /\ Instructions \subseteq InstructionWords
  /\ \A i \in Instructions : VectorFields(i) \subseteq Regs

\* What the mailbox may have for a TRY_RECV: one word stands for a message's
\* payload and header.
NoMessage == Base
Messages  == Words \union {NoMessage}

-----------------------------------------------------------------------------
(* The guard field                                                         *)

IllegalGuard(i)   == i.guard > 2 * PredCount
GuardPredicate(g) == (g - 1) % PredCount
Inverted(g)       == g > PredCount

-----------------------------------------------------------------------------
(* What an instruction computes: V holds the lanes' vector registers, P and S
   the predicates and the scalars that one lane sees.                      *)

Imm(i) == i.lo % Base

VectorValue(i, V, S, l) ==
  CASE i.op = "MOV_I"      -> Imm(i)
    [] i.op = "ADD"        -> (V[l][i.rs1] + V[l][i.lo]) % Base
    [] i.op = "LANEID"     -> l
    [] i.op = "SHUFFLE"    -> V[V[l][i.lo] % LaneCount][i.rs1]
    [] i.op = "REDUCE_MAX" -> CHOOSE x \in {V[k][i.rs1] : k \in Lanes} :
                                \A k \in Lanes : V[k][i.rs1] <= x
    [] i.op = "LDW"        -> Literals[i.lo + 1]
    [] i.op = "S_BCAST"    -> S[i.rs1]

\* Comparisons and BALLOT look at every lane whatever the guard.
Mask(i, V, P, S) ==
  CASE i.op = "CMP_LT"   -> {k \in Lanes : V[k][i.rs1] < V[k][i.lo]}
    [] i.op = "BALLOT"   -> {k \in Lanes : V[k][i.rs1] # 0}
    [] i.op = "NOTMASK"  -> Lanes \ P[i.rs1]
    [] i.op = "ANDMASK"  -> P[i.rs1] \intersect P[i.lo]
    [] i.op = "ALL"      -> IF P[i.rs1] = Lanes THEN Lanes ELSE {}
    [] i.op = "S_CMP_LT" -> IF S[i.rs1] < S[i.lo] THEN Lanes ELSE {}

\* Fault: the sum does not wrap.
ScalarValueWide(i, V, S) ==
  CASE i.op = "S_MOV_I" -> Imm(i)
    [] i.op = "S_ADD_I" -> S[i.rs1] + Imm(i)
    [] i.op = "S_GET"   -> V[0][i.rs1]

ScalarValue(i, V, S) ==
  CASE i.op = "S_MOV_I" -> Imm(i)
    [] i.op = "S_ADD_I" -> (S[i.rs1] + Imm(i)) % Base
    [] i.op = "S_GET"   -> V[0][i.rs1]

\* A lane's registers after it received a message.
Received(i, regs, message) == [regs EXCEPT ![i.rs1] = message, ![i.lo] = message]

\* A predicate or scalar field that names no register.  The register fields of
\* vectors cannot be bad.
BadField(i) ==
  \/ i.op \in PredicateOps \union {"TRY_RECV"} /\ i.rd \notin Preds
  \/ i.op \in {"NOTMASK", "ANDMASK", "ALL"} /\ i.rs1 \notin Preds
  \/ i.op = "ANDMASK" /\ i.lo \notin Preds
  \/ i.op \in ScalarOps /\ i.rd \notin Scalars
  \/ i.op \in {"S_ADD_I", "S_CMP_LT", "S_BCAST"} /\ i.rs1 \notin Scalars
  \/ i.op = "S_CMP_LT" /\ i.lo \notin Scalars

\* The address that lane l accesses.
Address(i, V, l) == IF i.op = "LOAD" THEN V[l][i.rs1] ELSE V[l][i.rd]

\* The lanes of A whose access is mapped, and what a STORE by them may leave in
\* memory: where two lanes store to one word, either may come last.
Mapped(i, V, A) == {l \in A : Address(i, V, l) \in Memory}

Stored(i, V, mem, A) ==
  LET Writers(a) == {l \in Mapped(i, V, A) : V[l][i.rd] = a}
  IN  {m \in [Memory -> Words] :
         \A a \in Memory : IF Writers(a) = {} THEN m[a] = mem[a]
                                              ELSE \E l \in Writers(a) : m[a] = V[l][i.rs1]}
=============================================================================
