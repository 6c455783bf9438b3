---------------------------- MODULE EnginesProofs ----------------------------
(***************************************************************************)
(* The engines do the same, for every number of lanes and registers, every *)
(* word width, memory, length of code and call stack, and every set of     *)
(* instructions: the warp stays in lockstep, and its peer agrees with it.  *)
(*                                                                         *)
(* First what instructions compute from registers (for all engines), then  *)
(* what each leaves of its machine, class of opcodes by class, as a pair   *)
(* of control (pc, calls, frames, verdict) and data.  Equal controls have  *)
(* equal successors, so that agreement is about data: which lanes are      *)
(* active, and what they write.                                            *)
(***************************************************************************)
EXTENDS Engines, SequenceTheorems, WellFoundedInduction, TLAPS

\* The numbers among the constants.
LEMMA ConstantTypes ==
  /\ LaneCount \in Nat \ {0} /\ RegCount \in Nat \ {0} /\ ScalarCount \in Nat \ {0}
  /\ PredCount \in Nat \ {0} /\ Base \in Nat \ {0}
  /\ CodeLength \in Nat /\ CallDepth \in Nat /\ LaneCount <= Base
  /\ Memory \subseteq Words /\ Literals \in Seq(Words)
BY IsaAssumption

\* What an instruction's fields are.
LEMMA FieldTypes ==
  ASSUME NEW i \in Instructions
  PROVE  /\ i.op \in VectorOps \union PredicateOps \union ScalarOps \union NoOps \union OtherOps
         /\ i.guard \in Nat /\ i.rd \in Nat /\ i.rs1 \in Nat /\ i.lo \in Nat
         /\ VectorFields(i) \subseteq Regs
BY IsaAssumption DEF InstructionWords

\* A remainder is a word.
LEMMA WordOf == \A x \in Nat : x % Base \in Words
BY ConstantTypes DEF Words

\* A nonempty set of words has a greatest element.
LEMMA GreatestWord ==
  ASSUME NEW S, S \subseteq Words, S # {}
  PROVE  \E x \in S : \A y \in S : y <= x
<1> DEFINE T == {n \in Nat : \E x \in S : n = Base - x}
<1>1. \A x \in S : x \in Nat /\ Base - x \in Nat BY ConstantTypes DEF Words
<1>2. T \subseteq Nat /\ T # {} BY <1>1
<1>3. PICK n \in T : \A m \in T : ~(<<m, n>> \in OpToRel(<, Nat))
  <2> HIDE DEF T
  <2> QED BY <1>2, NatLessThanWellFounded, WFMin
<1>4. \A m \in T : ~(m < n) BY <1>2, <1>3 DEF OpToRel
<1>5. PICK x \in S : n = Base - x OBVIOUS
<1>6. ASSUME NEW y \in S PROVE y <= x
  <2>1. Base - y \in T BY <1>1
  <2>2. ~(Base - y < Base - x) BY <1>4, <1>5, <2>1
  <2> QED BY <1>1, <2>2, ConstantTypes
<1> QED BY <1>6

\* A lane's guard.
LEMMA GuardType ==
  ASSUME NEW g \in Nat, g # 0
  PROVE  GuardPredicate(g) \in Preds
BY ConstantTypes DEF GuardPredicate, Preds

-----------------------------------------------------------------------------
VectorFiles == [Lanes -> [Regs -> Words]]
ScalarFiles == [Scalars -> Words]
MaskFiles == [Preds -> SUBSET Lanes]

\* What an instruction writes into a vector register is a word.
LEMMA VectorValueType ==
  ASSUME NEW i \in Instructions, i.op \in VectorOps, ~BadField(i),
         i.op = "LDW" => i.lo < Len(Literals),
         NEW V \in VectorFiles, NEW S \in ScalarFiles, NEW l \in Lanes
  PROVE  VectorValue(i, V, S, l) \in Words
<1> USE FieldTypes, ConstantTypes DEF VectorFiles, ScalarFiles
<1>1. CASE i.op = "MOV_I" BY <1>1, WordOf DEF VectorValue, Imm
<1>2. CASE i.op = "ADD"
  <2>1. i.rs1 \in Regs /\ i.lo \in Regs BY <1>2 DEF VectorFields
  <2> DEFINE sum == V[l][i.rs1] + V[l][i.lo]
  <2>2. sum \in Nat BY <2>1 DEF Words
  <2>3. sum % Base \in Words
    <3> HIDE DEF sum
    <3> QED BY <2>2, WordOf
  <2> QED BY <1>2, <2>3 DEF VectorValue
<1>3. CASE i.op = "LANEID" BY <1>3 DEF VectorValue, Lanes, Words
<1>4. CASE i.op = "SHUFFLE"
  <2>1. i.rs1 \in Regs /\ i.lo \in Regs BY <1>4 DEF VectorFields
  <2>2. V[l][i.lo] \in Nat BY <2>1 DEF Words
  <2>3. V[l][i.lo] % LaneCount \in Lanes BY <2>2 DEF Lanes
  <2> QED BY <1>4, <2>1, <2>3 DEF VectorValue
<1>5. CASE i.op = "REDUCE_MAX"
  <2>1. i.rs1 \in Regs BY <1>5 DEF VectorFields
  <2> DEFINE W == {V[k][i.rs1] : k \in Lanes}
  <2>2. W \subseteq Words /\ W # {} BY <2>1
  <2>3. \E x \in W : \A y \in W : y <= x
    <3> HIDE DEF W
    <3> QED BY <2>2, GreatestWord
  <2>4. \E x \in W : \A k \in Lanes : V[k][i.rs1] <= x BY <2>3
  <2>5. (CHOOSE x \in W : \A k \in Lanes : V[k][i.rs1] <= x) \in W BY <2>4
  <2> QED BY <1>5, <2>2, <2>5 DEF VectorValue
<1>6. CASE i.op = "LDW" BY <1>6 DEF VectorValue
<1>7. CASE i.op = "S_BCAST"
  <2>1. i.rs1 \in Scalars BY <1>7 DEF BadField
  <2> QED BY <1>7, <2>1 DEF VectorValue
<1> QED BY <1>1, <1>2, <1>3, <1>4, <1>5, <1>6, <1>7 DEF VectorOps

\* What it writes into a predicate is a set of lanes.
LEMMA MaskType ==
  ASSUME NEW i \in Instructions, i.op \in PredicateOps, ~BadField(i),
         NEW V, NEW P \in MaskFiles, NEW S
  PROVE  Mask(i, V, P, S) \in SUBSET Lanes
<1> USE DEF MaskFiles, Mask
<1>1. CASE i.op \in {"CMP_LT", "BALLOT"} BY <1>1
<1>2. CASE i.op = "NOTMASK" BY <1>2
<1>3. CASE i.op = "ANDMASK" BY <1>3 DEF BadField
<1>4. CASE i.op = "ALL" BY <1>4
<1>5. CASE i.op = "S_CMP_LT" BY <1>5
<1> QED BY <1>1, <1>2, <1>3, <1>4, <1>5 DEF PredicateOps

\* What it writes into a scalar is a word.
LEMMA ScalarValueType ==
  ASSUME NEW i \in Instructions, i.op \in ScalarOps, ~BadField(i),
         NEW V \in VectorFiles, NEW S \in ScalarFiles
  PROVE  ScalarValue(i, V, S) \in Words
<1> USE FieldTypes, ConstantTypes DEF VectorFiles, ScalarFiles
<1>1. CASE i.op = "S_MOV_I" BY <1>1, WordOf DEF ScalarValue, Imm
<1>2. CASE i.op = "S_ADD_I"
  <2>1. i.rs1 \in Scalars BY <1>2 DEF BadField
  <2>2. Imm(i) \in Words BY WordOf DEF Imm
  <2> DEFINE sum == S[i.rs1] + Imm(i)
  <2>3. sum \in Nat BY <2>1, <2>2 DEF Words
  <2>4. sum % Base \in Words
    <3> HIDE DEF sum
    <3> QED BY <2>3, WordOf
  <2> QED BY <1>2, <2>4 DEF ScalarValue
<1>3. CASE i.op = "S_GET"
  <2>1. i.rs1 \in Regs BY <1>3 DEF VectorFields
  <2>2. 0 \in Lanes BY DEF Lanes
  <2> QED BY <1>3, <2>1, <2>2 DEF ScalarValue
<1> QED BY <1>1, <1>2, <1>3 DEF ScalarOps

-----------------------------------------------------------------------------
(* Machines: what their steps have in common.                              *)

\* The interpreters' machines have predicates p, the compiled one m.
Machine(x) ==
  x = [v |-> x.v, s |-> x.s, p |-> x.p, mem |-> x.mem, pc |-> x.pc, stack |-> x.stack,
       flips |-> x.flips, status |-> x.status, fault |-> x.fault]
Compiled(x) ==
  x = [v |-> x.v, s |-> x.s, m |-> x.m, mem |-> x.mem, pc |-> x.pc, stack |-> x.stack,
       flips |-> x.flips, status |-> x.status, fault |-> x.fault]

Control(x) == <<x.pc, x.stack, x.flips, x.status, x.fault>>
Data(x)    == <<x.v, x.s, x.p, x.mem>>
PtxData(x) == <<x.v, x.s, x.m, x.mem>>

\* Where a step leaves the control.
Advanced(x)   == <<x.pc + 1, x.stack, x.flips, x.status, x.fault>>
Stopped(x, c) == <<x.pc, x.stack, x.flips, "FAULTED", c>>
At(x, t)      == <<t, x.stack, x.flips, x.status, x.fault>>

\* The pc goes on and nothing else changes.
LEMMA Advancing ==
  ASSUME NEW x, Machine(x), NEW y, y = [x EXCEPT !.pc = @ + 1]
  PROVE  Machine(y) /\ Control(y) = Advanced(x) /\ Data(y) = Data(x)
<1> DEFINE e == x.pc + 1
<1>1. y = [x EXCEPT !.pc = e] OBVIOUS
<1>2. Advanced(x) = <<e, x.stack, x.flips, x.status, x.fault>> BY DEF Advanced
<1> HIDE DEF e
<1> QED BY <1>1, <1>2 DEF Machine, Control, Data

\* A fault sets status and code and nothing else.
LEMMA Stopping ==
  ASSUME NEW x, Machine(x), NEW c, NEW y, y = [x EXCEPT !.status = "FAULTED", !.fault = c]
  PROVE  Machine(y) /\ Control(y) = Stopped(x, c) /\ Data(y) = Data(x)
BY DEF Machine, Control, Data, Stopped

\* The pc moves and nothing else changes.
LEMMA Moving ==
  ASSUME NEW x, Machine(x), NEW t, NEW y, y = [x EXCEPT !.pc = t]
  PROVE  Machine(y) /\ Control(y) = At(x, t) /\ Data(y) = Data(x)
BY DEF Machine, Control, Data, At

\* Replacing one of the register files or the memory changes nothing else.
LEMMA Writing ==
  ASSUME NEW x, Machine(x), NEW e
  PROVE  /\ \A y : y = [x EXCEPT !.v = e] =>
              Machine(y) /\ Control(y) = Control(x) /\ Data(y) = <<e, x.s, x.p, x.mem>>
         /\ \A y : y = [x EXCEPT !.s = e] =>
              Machine(y) /\ Control(y) = Control(x) /\ Data(y) = <<x.v, e, x.p, x.mem>>
         /\ \A y : y = [x EXCEPT !.p = e] =>
              Machine(y) /\ Control(y) = Control(x) /\ Data(y) = <<x.v, x.s, e, x.mem>>
         /\ \A y : y = [x EXCEPT !.mem = e] =>
              Machine(y) /\ Control(y) = Control(x) /\ Data(y) = <<x.v, x.s, x.p, e>>
BY DEF Machine, Control, Data

\* TRY_RECV replaces two.
LEMMA WritingTwo ==
  ASSUME NEW x, Machine(x), NEW e, NEW f, NEW y, y = [x EXCEPT !.p = e, !.v = f]
  PROVE  Machine(y) /\ Control(y) = Control(x) /\ Data(y) = <<f, x.s, e, x.mem>>
BY DEF Machine, Control, Data

\* Advancing, for the compiled machine.
LEMMA CompiledAdvancing ==
  ASSUME NEW x, Compiled(x), NEW y, y = [x EXCEPT !.pc = @ + 1]
  PROVE  Compiled(y) /\ Control(y) = Advanced(x) /\ PtxData(y) = PtxData(x)
<1> DEFINE e == x.pc + 1
<1>1. y = [x EXCEPT !.pc = e] OBVIOUS
<1>2. Advanced(x) = <<e, x.stack, x.flips, x.status, x.fault>> BY DEF Advanced
<1> HIDE DEF e
<1> QED BY <1>1, <1>2 DEF Compiled, Control, PtxData

\* Stopping, for the compiled machine.
LEMMA CompiledStopping ==
  ASSUME NEW x, Compiled(x), NEW c, NEW y, y = [x EXCEPT !.status = "FAULTED", !.fault = c]
  PROVE  Compiled(y) /\ Control(y) = Stopped(x, c) /\ PtxData(y) = PtxData(x)
BY DEF Compiled, Control, PtxData, Stopped

\* Moving, for the compiled machine.
LEMMA CompiledMoving ==
  ASSUME NEW x, Compiled(x), NEW t, NEW y, y = [x EXCEPT !.pc = t]
  PROVE  Compiled(y) /\ Control(y) = At(x, t) /\ PtxData(y) = PtxData(x)
BY DEF Compiled, Control, PtxData, At

\* Writing, for the compiled machine.
LEMMA CompiledWriting ==
  ASSUME NEW x, Compiled(x), NEW e
  PROVE  /\ \A y : y = [x EXCEPT !.v = e] =>
              Compiled(y) /\ Control(y) = Control(x) /\ PtxData(y) = <<e, x.s, x.m, x.mem>>
         /\ \A y : y = [x EXCEPT !.s = e] =>
              Compiled(y) /\ Control(y) = Control(x) /\ PtxData(y) = <<x.v, e, x.m, x.mem>>
         /\ \A y : y = [x EXCEPT !.m = e] =>
              Compiled(y) /\ Control(y) = Control(x) /\ PtxData(y) = <<x.v, x.s, e, x.mem>>
         /\ \A y : y = [x EXCEPT !.mem = e] =>
              Compiled(y) /\ Control(y) = Control(x) /\ PtxData(y) = <<x.v, x.s, x.m, e>>
BY DEF Compiled, Control, PtxData

\* WritingTwo, for the compiled machine.
LEMMA CompiledWritingTwo ==
  ASSUME NEW x, Compiled(x), NEW e, NEW f, NEW y, y = [x EXCEPT !.m = e, !.v = f]
  PROVE  Compiled(y) /\ Control(y) = Control(x) /\ PtxData(y) = <<f, x.s, e, x.mem>>
BY DEF Compiled, Control, PtxData

-----------------------------------------------------------------------------
(* The warp                                                                *)

Frame(x) ==
  /\ x.v \in VectorFiles /\ x.mem \in [Memory -> Words]
  /\ x.pc \in 0..CodeLength /\ x.stack \in Seq(0..CodeLength)
  /\ Len(x.stack) <= CallDepth /\ x.flips \in Words
  /\ x.status \in {"RUNNING", "HALTED", "FAULTED"}
  /\ x.fault \in {"OK", "OPCODE", "OPERAND", "JUMP", "MEM", "STACK", "MSG"}
  /\ x.fault # "OK" <=> x.status = "FAULTED"

Uniform ==
  \A l, k \in Lanes : /\ warp.s[l] = warp.s[k]
                      /\ \A q \in shared : warp.p[l][q] = warp.p[k][q]

WarpInv ==
  /\ Machine(warp) /\ Frame(warp)
  /\ warp.s \in [Lanes -> ScalarFiles] /\ warp.p \in [Lanes -> MaskFiles]
  /\ shared \subseteq Preds /\ Uniform

\* With a legal guard an instruction retires to the next one.
LEMMA Retiring ==
  ASSUME NEW x, Machine(x), NEW i, ~IllegalGuard(i), NEW y, y = Retired(i, x)
  PROVE  Machine(y) /\ Control(y) = Advanced(x) /\ Data(y) = Data(x)
BY Advancing DEF Retired, Resolved

\* An instruction that wrote a register file retires to the next one.
LEMMA RetiringWrite ==
  ASSUME NEW x, NEW z, Machine(z), Control(z) = Control(x), NEW i, ~IllegalGuard(i),
         NEW y, y = Retired(i, z)
  PROVE  Machine(y) /\ Control(y) = Advanced(x) /\ Data(y) = Data(z)
BY Retiring DEF Control, Advanced

\* What an instruction leaves in the registers of the warp.
NewVectors(i) == Written(i, warp.v, [l \in Lanes |->
                   [warp.v[l] EXCEPT ![i.rd] = VectorValue(i, warp.v, warp.s[l], l)]])
NewMasks(i)   == Written(i, warp.p, [l \in Lanes |->
                   [warp.p[l] EXCEPT ![i.rd] = Mask(i, warp.v, warp.p[l], warp.s[l])]])
NewScalars(i) == Written(i, warp.s, [l \in Lanes |->
                   [warp.s[l] EXCEPT ![i.rd] = ScalarValue(i, warp.v, warp.s[l])]])
NewLoads(i)   == [l \in Lanes |->
                   IF l \in Mapped(i, warp.v, Active(i))
                     THEN [warp.v[l] EXCEPT ![i.rd] = warp.mem[warp.v[l][i.rs1]]]
                     ELSE warp.v[l]]

AllMapped(i) == Mapped(i, warp.v, Active(i)) = Active(i)

\* What vector, predicate and scalar instructions leave.
LEMMA WarpWrites ==
  ASSUME NEW i \in Instructions, Machine(warp), ~IllegalGuard(i)
  PROVE  /\ VectorOp(i) /\ (i.op = "LDW" => i.lo < Len(Literals)) =>
              /\ Machine(warp') /\ Control(warp') = Advanced(warp)
              /\ Data(warp') = <<NewVectors(i), warp.s, warp.p, warp.mem>>
         /\ PredicateOp(i) =>
              /\ Machine(warp') /\ Control(warp') = Advanced(warp)
              /\ Data(warp') = <<warp.v, warp.s, NewMasks(i), warp.mem>>
         /\ ScalarOp(i) =>
              /\ Machine(warp') /\ Control(warp') = Advanced(warp)
              /\ Data(warp') = <<warp.v, NewScalars(i), warp.p, warp.mem>>
<1>1. ASSUME VectorOp(i), i.op = "LDW" => i.lo < Len(Literals)
      PROVE  /\ Machine(warp') /\ Control(warp') = Advanced(warp)
             /\ Data(warp') = <<NewVectors(i), warp.s, warp.p, warp.mem>>
  <2> DEFINE z == [warp EXCEPT !.v = NewVectors(i)]
  <2>1. warp' = Retired(i, z)
    BY <1>1, FieldTypes, ConstantTypes DEF VectorOp, NewVectors
  <2>2. Machine(z) /\ Control(z) = Control(warp)
        /\ Data(z) = <<NewVectors(i), warp.s, warp.p, warp.mem>>
    BY Writing
  <2> HIDE DEF z
  <2> QED BY <2>1, <2>2, RetiringWrite
<1>2. ASSUME PredicateOp(i)
      PROVE  /\ Machine(warp') /\ Control(warp') = Advanced(warp)
             /\ Data(warp') = <<warp.v, warp.s, NewMasks(i), warp.mem>>
  <2> DEFINE z == [warp EXCEPT !.p = NewMasks(i)]
  <2>1. warp' = Retired(i, z) BY <1>2 DEF PredicateOp, NewMasks
  <2>2. Machine(z) /\ Control(z) = Control(warp)
        /\ Data(z) = <<warp.v, warp.s, NewMasks(i), warp.mem>>
    BY Writing
  <2> HIDE DEF z
  <2> QED BY <2>1, <2>2, RetiringWrite
<1>3. ASSUME ScalarOp(i)
      PROVE  /\ Machine(warp') /\ Control(warp') = Advanced(warp)
             /\ Data(warp') = <<warp.v, NewScalars(i), warp.p, warp.mem>>
  <2> DEFINE z == [warp EXCEPT !.s = NewScalars(i)]
  <2>1. warp' = Retired(i, z) BY <1>3 DEF ScalarOp, NewScalars
  <2>2. Machine(z) /\ Control(z) = Control(warp)
        /\ Data(z) = <<warp.v, NewScalars(i), warp.p, warp.mem>>
    BY Writing
  <2> HIDE DEF z
  <2> QED BY <2>1, <2>2, RetiringWrite
<1> QED BY <1>1, <1>2, <1>3

\* What LOAD and STORE leave; the mapped lanes have completed theirs.
LEMMA WarpMemory ==
  ASSUME NEW i \in Instructions, Machine(warp), ~IllegalGuard(i), MemoryOp(i)
  PROVE  /\ Machine(warp')
         /\ Control(warp') = IF AllMapped(i) THEN Advanced(warp) ELSE Stopped(warp, "MEM")
         /\ \/ i.op = "LOAD" /\ Data(warp') = <<NewLoads(i), warp.s, warp.p, warp.mem>>
            \/ /\ i.op = "STORE"
               /\ \E m \in Stored(i, warp.v, warp.mem, Active(i)) :
                    Data(warp') = <<warp.v, warp.s, warp.p, m>>
<1>1. ASSUME NEW x, Machine(x), Control(x) = Control(warp),
             warp' = IF AllMapped(i) THEN Retired(i, x) ELSE Faulted(x, "MEM")
      PROVE  /\ Machine(warp') /\ Data(warp') = Data(x)
             /\ Control(warp') = IF AllMapped(i) THEN Advanced(warp) ELSE Stopped(warp, "MEM")
  <2>1. CASE AllMapped(i) BY <1>1, <2>1, Retiring DEF Control, Advanced
  <2>2. CASE ~AllMapped(i)
    <3>1. /\ Machine(warp') /\ Data(warp') = Data(x)
          /\ Control(warp') = Stopped(x, "MEM")
      BY <1>1, <2>2, Stopping DEF Faulted
    <3> QED BY <1>1, <2>2, <3>1 DEF Control, Stopped
  <2> QED BY <2>1, <2>2
<1>2. CASE i.op = "LOAD"
  <2> DEFINE x == [warp EXCEPT !.v = NewLoads(i)]
  <2>1. warp' = IF AllMapped(i) THEN Retired(i, x) ELSE Faulted(x, "MEM")
    BY <1>2 DEF MemoryOp, AllMapped, NewLoads
  <2>2. Machine(x) /\ Control(x) = Control(warp)
        /\ Data(x) = <<NewLoads(i), warp.s, warp.p, warp.mem>>
    BY Writing
  <2> HIDE DEF x
  <2> QED BY <1>1, <1>2, <2>1, <2>2
<1>3. CASE i.op = "STORE"
  <2>1. PICK m \in Stored(i, warp.v, warp.mem, Active(i)) :
          warp' = IF AllMapped(i) THEN Retired(i, [warp EXCEPT !.mem = m])
                                  ELSE Faulted([warp EXCEPT !.mem = m], "MEM")
    BY <1>3 DEF MemoryOp, AllMapped
  <2> DEFINE x == [warp EXCEPT !.mem = m]
  <2>2. Machine(x) /\ Control(x) = Control(warp)
        /\ Data(x) = <<warp.v, warp.s, warp.p, m>>
    BY Writing
  <2> HIDE DEF x
  <2>3. warp' = IF AllMapped(i) THEN Retired(i, x) ELSE Faulted(x, "MEM") BY <2>1 DEF x
  <2> QED BY <1>1, <1>3, <2>2, <2>3
<1> QED BY <1>2, <1>3 DEF MemoryOp

\* Lane 0 got a message.
Got(i, message) == 0 \in Active(i) /\ message # NoMessage

ReceivedMasks(i, message) == Written(i, warp.p, [l \in Lanes |->
  [warp.p[l] EXCEPT ![i.rd] = IF Got(i, message) THEN Lanes ELSE {}]])
ReceivedWords(i, message) ==
  IF Got(i, message)
    THEN Written(i, warp.v, [l \in Lanes |-> Received(i, warp.v[l], message)])
    ELSE warp.v

\* What TRY_RECV leaves.
LEMMA WarpReceives ==
  ASSUME NEW i \in Instructions, NEW message, Machine(warp), ~IllegalGuard(i),
         TryRecv(i, message)
  PROVE  /\ Machine(warp') /\ Control(warp') = Advanced(warp)
         /\ Data(warp') = <<ReceivedWords(i, message), warp.s, ReceivedMasks(i, message), warp.mem>>
<1> DEFINE e == ReceivedMasks(i, message)
           f == ReceivedWords(i, message)
           x == [warp EXCEPT !.p = e, !.v = f]
<1>1. warp' = Retired(i, x) BY DEF TryRecv, ReceivedMasks, ReceivedWords, Got
<1> HIDE DEF e, f
<1>2. Machine(x) /\ Control(x) = Control(warp) /\ Data(x) = <<f, warp.s, e, warp.mem>>
  BY WritingTwo
<1> HIDE DEF x
<1>3. Machine(warp') /\ Control(warp') = Advanced(x) /\ Data(warp') = Data(x)
  BY <1>1, <1>2, Retiring
<1> QED BY <1>2, <1>3 DEF Control, Advanced, e, f

\* FLIP counts a frame, unless it is guarded.
LEMMA WarpFlips ==
  ASSUME NEW i \in Instructions, Machine(warp), ~IllegalGuard(i), Flip(i)
  PROVE  /\ Machine(warp') /\ Data(warp') = Data(warp)
         /\ Control(warp') =
              IF i.guard # 0 THEN Stopped(warp, "OPERAND")
              ELSE <<warp.pc + 1, warp.stack, (warp.flips + 1) % Base, warp.status, warp.fault>>
<1>1. CASE i.guard # 0 BY <1>1, Stopping DEF Flip, Faulted
<1>2. CASE i.guard = 0
  <2> DEFINE e == (warp.flips + 1) % Base
             x == [warp EXCEPT !.flips = e]
  <2>1. warp' = Retired(i, x) BY <1>2 DEF Flip
  <2> HIDE DEF e
  <2>2. Machine(x) /\ Control(x) = <<warp.pc, warp.stack, e, warp.status, warp.fault>>
        /\ Data(x) = Data(warp)
    BY DEF Machine, Control, Data
  <2> HIDE DEF x
  <2>3. Machine(warp') /\ Control(warp') = Advanced(x) /\ Data(warp') = Data(x)
    BY <2>1, <2>2, Retiring
  <2>4. Advanced(x) = <<warp.pc + 1, warp.stack, e, warp.status, warp.fault>>
    BY <2>2 DEF Control, Advanced
  <2> QED BY <1>2, <2>2, <2>3, <2>4 DEF e
<1> QED BY <1>1, <1>2

\* Messages, branches and the rest leave the registers alone.
LEMMA WarpSends ==
  ASSUME NEW i \in Instructions, NEW accepted, Machine(warp), ~IllegalGuard(i),
         Send(i, accepted)
  PROVE  /\ Machine(warp') /\ Data(warp') = Data(warp)
         /\ Control(warp') = IF 0 \in Active(i) /\ ~accepted THEN Stopped(warp, "MSG")
                                                             ELSE Advanced(warp)
<1>1. CASE 0 \in Active(i) /\ ~accepted BY <1>1, Stopping DEF Send, Faulted
<1>2. CASE ~(0 \in Active(i) /\ ~accepted) BY <1>2, Retiring DEF Send
<1> QED BY <1>1, <1>2

\* A jump goes to its target if that is in the code.
LEMMA Jumping ==
  ASSUME NEW i \in Instructions, Machine(warp), ~IllegalGuard(i), NEW y, y = JumpTo(i)
  PROVE  /\ Machine(y) /\ Data(y) = Data(warp)
         /\ Control(y) = IF i.lo >= CodeLength THEN Stopped(warp, "JUMP") ELSE At(warp, i.lo)
<1>1. CASE i.lo >= CodeLength BY <1>1, Stopping DEF JumpTo, Faulted
<1>2. CASE ~(i.lo >= CodeLength) BY <1>2, Moving DEF JumpTo, Resolved
<1> QED BY <1>1, <1>2

Jumped(i) == IF i.lo >= CodeLength THEN Stopped(warp, "JUMP") ELSE At(warp, i.lo)

\* Lane 0 takes the branch; where the mask is shared, so does every lane.
Takes(i) == IF i.op = "JMP_IF_ANY" THEN BranchMask(0, i) # {} ELSE BranchMask(0, i) = Lanes

\* A branch on one mask takes all lanes or none: the warp does not diverge.
LEMMA WarpBranches ==
  ASSUME NEW i \in Instructions, Machine(warp), ~IllegalGuard(i), JumpIf(i),
         \A l \in Lanes : BranchMask(l, i) = BranchMask(0, i)
  PROVE  /\ Machine(warp') /\ Data(warp') = Data(warp)
         /\ Control(warp') = IF Takes(i) THEN Jumped(i) ELSE Advanced(warp)
<1> DEFINE taken == {l \in Lanes : IF i.op = "JMP_IF_ANY" THEN BranchMask(l, i) # {}
                                                        ELSE BranchMask(l, i) = Lanes}
<1>1. 0 \in Lanes BY ConstantTypes DEF Lanes
<1>2. CASE Takes(i)
  <2>1. taken = Lanes BY <1>2 DEF Takes
  <2>2. warp' = JumpTo(i) BY <1>1, <2>1 DEF JumpIf
  <2> QED BY <1>2, <2>2, Jumping DEF Jumped
<1>3. CASE ~Takes(i)
  <2>1. taken = {} BY <1>3 DEF Takes
  <2>2. warp' = Retired(i, warp) BY <2>1 DEF JumpIf
  <2> QED BY <1>3, <2>2, Retiring
<1> QED BY <1>2, <1>3

\* CALL remembers the pc that follows.
LEMMA WarpCalls ==
  ASSUME NEW i \in Instructions, Machine(warp), ~IllegalGuard(i), Call(i)
  PROVE  /\ Machine(warp') /\ Data(warp') = Data(warp)
         /\ Control(warp') =
              IF i.lo >= CodeLength THEN Stopped(warp, "JUMP")
              ELSE IF Len(warp.stack) >= CallDepth THEN Stopped(warp, "STACK")
              ELSE <<i.lo, Append(warp.stack, warp.pc + 1), warp.flips, warp.status, warp.fault>>
<1>1. CASE i.lo >= CodeLength BY <1>1, Jumping DEF Call
<1>2. CASE ~(i.lo >= CodeLength) /\ Len(warp.stack) >= CallDepth
  BY <1>2, Stopping DEF Call, Faulted
<1>3. CASE ~(i.lo >= CodeLength) /\ ~(Len(warp.stack) >= CallDepth)
  <2> DEFINE x == [warp EXCEPT !.pc = i.lo]
             e == Append(warp.stack, warp.pc + 1)
  <2>1. Machine(x) /\ Control(x) = At(warp, i.lo) /\ Data(x) = Data(warp) BY Moving
  <2>2. x.stack = warp.stack BY <2>1 DEF Control, At
  <2>3. warp' = [x EXCEPT !.stack = Append(@, warp.pc + 1)]
    BY <1>3 DEF Call, JumpTo, Resolved
  <2> HIDE DEF x
  <2>4. warp' = [x EXCEPT !.stack = e] BY <2>2, <2>3
  <2> HIDE DEF e
  <2>5. /\ Machine(warp') /\ Data(warp') = Data(x)
        /\ Control(warp') = <<x.pc, e, x.flips, x.status, x.fault>>
    BY <2>1, <2>4 DEF Machine, Data, Control
  <2>6. /\ x.pc = i.lo /\ x.flips = warp.flips
        /\ x.status = warp.status /\ x.fault = warp.fault
    BY <2>1 DEF Control, At
  <2> QED BY <1>3, <2>1, <2>5, <2>6 DEF e
<1> QED BY <1>1, <1>2, <1>3

\* RET takes the last one remembered.
LEMMA WarpReturns ==
  ASSUME NEW i \in Instructions, Machine(warp), ~IllegalGuard(i), Ret(i)
  PROVE  /\ Machine(warp') /\ Data(warp') = Data(warp)
         /\ Control(warp') =
              IF warp.stack = <<>> THEN Stopped(warp, "STACK")
              ELSE <<warp.stack[Len(warp.stack)], SubSeq(warp.stack, 1, Len(warp.stack) - 1),
                     warp.flips, warp.status, warp.fault>>
<1>1. CASE warp.stack = <<>> BY <1>1, Stopping DEF Ret, Faulted
<1>2. CASE warp.stack # <<>>
  <2> DEFINE e == warp.stack[Len(warp.stack)]
             f == SubSeq(warp.stack, 1, Len(warp.stack) - 1)
  <2>1. warp' = [warp EXCEPT !.pc = e, !.stack = f] BY <1>2 DEF Ret, Resolved
  <2> HIDE DEF e, f
  <2>2. /\ Machine(warp') /\ Data(warp') = Data(warp)
        /\ Control(warp') = <<e, f, warp.flips, warp.status, warp.fault>>
    BY <2>1 DEF Machine, Data, Control
  <2> QED BY <1>2, <2>2 DEF e, f
<1> QED BY <1>1, <1>2

\* HALT stops without a fault.
LEMMA WarpHalts ==
  ASSUME NEW i \in Instructions, Machine(warp), ~IllegalGuard(i), Halt(i)
  PROVE  /\ Machine(warp') /\ Data(warp') = Data(warp)
         /\ Control(warp') = <<warp.pc, warp.stack, warp.flips, "HALTED", warp.fault>>
<1>1. warp' = [warp EXCEPT !.status = "HALTED"] BY DEF Halt, Resolved
<1> QED BY <1>1 DEF Machine, Data, Control

-----------------------------------------------------------------------------
(* Types                                                                   *)

Codes == {"OPCODE", "OPERAND", "JUMP", "MEM", "STACK", "MSG"}

Flipped(x) == <<x.pc + 1, x.stack, (x.flips + 1) % Base, x.status, x.fault>>
Called(x, t) == <<t, Append(x.stack, x.pc + 1), x.flips, x.status, x.fault>>
Returned(x) == <<x.stack[Len(x.stack)], SubSeq(x.stack, 1, Len(x.stack) - 1),
                 x.flips, x.status, x.fault>>
Halted(x) == <<x.pc, x.stack, x.flips, "HALTED", x.fault>>

\* A control with the right parts is all that a frame needs besides its data.
LEMMA FrameFrom ==
  ASSUME NEW y, y.v \in VectorFiles, y.mem \in [Memory -> Words],
         NEW pc \in 0..CodeLength, NEW stack \in Seq(0..CodeLength), Len(stack) <= CallDepth,
         NEW flips \in Words, NEW status \in {"RUNNING", "HALTED", "FAULTED"},
         NEW fault \in {"OK", "OPCODE", "OPERAND", "JUMP", "MEM", "STACK", "MSG"},
         fault # "OK" <=> status = "FAULTED",
         Control(y) = <<pc, stack, flips, status, fault>>
  PROVE  Frame(y)
<1>1. y.pc = pc /\ y.stack = stack /\ y.flips = flips /\ y.status = status /\ y.fault = fault
  BY DEF Control
<1> QED BY <1>1 DEF Frame

\* Wherever a step leaves the control, it has its type.
LEMMA ControlTypes ==
  ASSUME NEW x, Frame(x), x.pc < CodeLength, x.status = "RUNNING",
         NEW y, y.v \in VectorFiles, y.mem \in [Memory -> Words]
  PROVE  /\ Control(y) = Advanced(x) => Frame(y)
         /\ \A c \in Codes : Control(y) = Stopped(x, c) => Frame(y)
         /\ \A t \in 0..CodeLength : Control(y) = At(x, t) => Frame(y)
         /\ Control(y) = Flipped(x) => Frame(y)
         /\ \A t \in 0..CodeLength :
              Len(x.stack) < CallDepth /\ Control(y) = Called(x, t) => Frame(y)
         /\ x.stack # <<>> /\ Control(y) = Returned(x) => Frame(y)
         /\ Control(y) = Halted(x) => Frame(y)
<1>1. /\ x.pc \in 0..CodeLength /\ x.pc + 1 \in 0..CodeLength
      /\ x.stack \in Seq(0..CodeLength) /\ Len(x.stack) <= CallDepth
      /\ x.flips \in Words /\ x.fault = "OK"
  BY ConstantTypes DEF Frame
<1>2. Control(y) = Advanced(x) => Frame(y) BY <1>1, FrameFrom DEF Advanced
<1>3. ASSUME NEW c \in Codes, Control(y) = Stopped(x, c) PROVE Frame(y)
  <2>1. c # "OK" /\ c \in {"OK", "OPCODE", "OPERAND", "JUMP", "MEM", "STACK", "MSG"}
    BY DEF Codes
  <2> QED BY <1>1, <1>3, <2>1, FrameFrom DEF Stopped
<1>4. ASSUME NEW t \in 0..CodeLength, Control(y) = At(x, t) PROVE Frame(y)
  BY <1>1, <1>4, FrameFrom DEF At
<1>5. ASSUME Control(y) = Flipped(x) PROVE Frame(y)
  <2> DEFINE e == x.flips + 1
  <2>1. e \in Nat BY <1>1, ConstantTypes DEF Words
  <2>2. Flipped(x) = <<x.pc + 1, x.stack, e % Base, x.status, x.fault>> BY DEF Flipped
  <2> HIDE DEF e
  <2>3. e % Base \in Words BY <2>1, WordOf
  <2> QED BY <1>1, <1>5, <2>2, <2>3, FrameFrom
<1>6. ASSUME NEW t \in 0..CodeLength, Len(x.stack) < CallDepth, Control(y) = Called(x, t)
      PROVE  Frame(y)
  <2> DEFINE e == Append(x.stack, x.pc + 1)
  <2>1. e \in Seq(0..CodeLength) /\ Len(e) = Len(x.stack) + 1
    BY <1>1, AppendProperties
  <2>2. Len(e) <= CallDepth
    <3>1. Len(x.stack) \in Nat BY <1>1, LenProperties
    <3> QED BY <1>6, <2>1, <3>1, ConstantTypes
  <2>3. Called(x, t) = <<t, e, x.flips, x.status, x.fault>> BY DEF Called
  <2> HIDE DEF e
  <2> QED BY <1>1, <1>6, <2>1, <2>2, <2>3, FrameFrom
<1>7. ASSUME x.stack # <<>>, Control(y) = Returned(x)
      PROVE  Frame(y)
  <2> DEFINE n == Len(x.stack)
             e == SubSeq(x.stack, 1, n - 1)
             f == x.stack[n]
  <2>1. n \in Nat \ {0}
    <3>1. \A q \in Seq(0..CodeLength) : q # <<>> => Len(q) \in Nat \ {0} BY EmptySeq, Zenon
    <3> QED BY <1>1, <1>7, <3>1, Zenon
  <2>2. \A k \in 1..n : x.stack[k] \in 0..CodeLength BY <1>1, ElementOfSeq, Zenon
  <2>3. n <= CallDepth /\ CallDepth \in Nat BY <1>1, ConstantTypes
  <2> HIDE DEF n
  <2>4. f \in 0..CodeLength BY <2>1, <2>2
  <2>5. e \in Seq(0..CodeLength) /\ Len(e) <= CallDepth
    <3>1. \A k \in 1..(n - 1) : x.stack[k] \in 0..CodeLength BY <2>1, <2>2
    <3>2. e \in Seq(0..CodeLength) /\ Len(e) = n - 1 BY <2>1, <3>1, SubSeqProperties
    <3> QED BY <2>1, <2>3, <3>2
  <2>6. Returned(x) = <<f, e, x.flips, x.status, x.fault>> BY DEF Returned, n
  <2> HIDE DEF e, f
  <2> QED BY <1>1, <1>7, <2>4, <2>5, <2>6, FrameFrom
<1>8. Control(y) = Halted(x) => Frame(y) BY <1>1, FrameFrom DEF Halted
<1> QED BY <1>2, <1>3, <1>4, <1>5, <1>6, <1>7, <1>8

\* A lane's registers are a function and stay one.
LEMMA WrittenTypes ==
  ASSUME NEW i, NEW S, NEW old \in [Lanes -> S], NEW new, \A l \in Active(i) : new[l] \in S
  PROVE  Written(i, old, new) \in [Lanes -> S]
BY DEF Written

\* What the warp's instructions write has the types of the registers.
LEMMA WarpWriteTypes ==
  ASSUME NEW i \in Instructions, WarpInv, ~BadField(i)
  PROVE  /\ i.op \in VectorOps /\ (i.op = "LDW" => i.lo < Len(Literals)) =>
              NewVectors(i) \in VectorFiles
         /\ i.op \in PredicateOps => NewMasks(i) \in [Lanes -> MaskFiles]
         /\ i.op \in ScalarOps => NewScalars(i) \in [Lanes -> ScalarFiles]
<1>1. ASSUME i.op \in VectorOps, i.op = "LDW" => i.lo < Len(Literals)
      PROVE  NewVectors(i) \in VectorFiles
  <2>1. ASSUME NEW l \in Lanes
        PROVE  [warp.v[l] EXCEPT ![i.rd] = VectorValue(i, warp.v, warp.s[l], l)] \in [Regs -> Words]
    <3>1. VectorValue(i, warp.v, warp.s[l], l) \in Words
      BY <1>1, VectorValueType DEF WarpInv, Frame
    <3> QED BY <3>1 DEF WarpInv, Frame, VectorFiles
  <2> QED BY <2>1 DEF NewVectors, Written, WarpInv, Frame, VectorFiles
<1>2. ASSUME i.op \in PredicateOps PROVE NewMasks(i) \in [Lanes -> MaskFiles]
  <2>1. ASSUME NEW l \in Lanes
        PROVE  [warp.p[l] EXCEPT ![i.rd] = Mask(i, warp.v, warp.p[l], warp.s[l])] \in MaskFiles
    <3>1. Mask(i, warp.v, warp.p[l], warp.s[l]) \in SUBSET Lanes
      BY <1>2, MaskType DEF WarpInv
    <3> QED BY <3>1 DEF WarpInv, MaskFiles
  <2> QED BY <2>1 DEF NewMasks, Written, WarpInv
<1>3. ASSUME i.op \in ScalarOps PROVE NewScalars(i) \in [Lanes -> ScalarFiles]
  <2>1. ASSUME NEW l \in Lanes
        PROVE  [warp.s[l] EXCEPT ![i.rd] = ScalarValue(i, warp.v, warp.s[l])] \in ScalarFiles
    <3>1. ScalarValue(i, warp.v, warp.s[l]) \in Words
      BY <1>3, ScalarValueType DEF WarpInv, Frame
    <3> QED BY <3>1 DEF WarpInv, ScalarFiles
  <2> QED BY <2>1 DEF NewScalars, Written, WarpInv
<1> QED BY <1>1, <1>2, <1>3

\* A mapped address holds a word.
LEMMA WarpLoadTypes ==
  ASSUME NEW i \in Instructions, WarpInv, i.op = "LOAD"
  PROVE  NewLoads(i) \in VectorFiles
<1>1. ASSUME NEW l \in Mapped(i, warp.v, Active(i)) PROVE warp.mem[warp.v[l][i.rs1]] \in Words
  BY <1>1 DEF Mapped, Address, WarpInv, Frame
<1>2. ASSUME NEW l \in Mapped(i, warp.v, Active(i))
      PROVE  [warp.v[l] EXCEPT ![i.rd] = warp.mem[warp.v[l][i.rs1]]] \in [Regs -> Words]
  BY <1>1, <1>2 DEF Mapped, Active, WarpInv, Frame, VectorFiles
<1> QED BY <1>2 DEF NewLoads, WarpInv, Frame, VectorFiles

\* A message is a word.
LEMMA WarpReceiveTypes ==
  ASSUME NEW i \in Instructions, NEW message \in Messages, WarpInv
  PROVE  /\ ReceivedWords(i, message) \in VectorFiles
         /\ ReceivedMasks(i, message) \in [Lanes -> MaskFiles]
<1>1. Got(i, message) => message \in Words BY DEF Got, Messages
<1>2. ASSUME NEW l \in Lanes, message \in Words
      PROVE  Received(i, warp.v[l], message) \in [Regs -> Words]
  BY <1>2 DEF Received, WarpInv, Frame, VectorFiles
<1>3. ReceivedWords(i, message) \in VectorFiles
  BY <1>1, <1>2 DEF ReceivedWords, Written, WarpInv, Frame, VectorFiles
<1>4. ReceivedMasks(i, message) \in [Lanes -> MaskFiles]
  BY DEF ReceivedMasks, Written, WarpInv, MaskFiles
<1> QED BY <1>3, <1>4

-----------------------------------------------------------------------------
(* The warp keeps its invariant                                            *)

\* Branches test shared masks: the lanes go together.
LEMMA OneWay ==
  ASSUME NEW i \in Instructions, WarpInv, Portable(i), JumpIf(i)
  PROVE  \A l \in Lanes : BranchMask(l, i) = BranchMask(0, i)
<1>1. GuardPredicate(i.guard) \in shared
  BY DEF Portable, JumpIf, WholeMasks, BadField, PredicateOps, ScalarOps
<1>2. 0 \in Lanes BY ConstantTypes DEF Lanes
<1>3. \A l \in Lanes : warp.p[l][GuardPredicate(i.guard)] = warp.p[0][GuardPredicate(i.guard)]
  BY <1>1, <1>2 DEF WarpInv, Uniform
<1> QED BY <1>3 DEF BranchMask

\* Only an executed write of a predicate changes what is shared.
LEMMA KeepsSharing ==
  ASSUME NEW i, shared' = Sharing(i), warp.pc >= CodeLength \/ ~WritesPredicate(i) \/ BadField(i)
  PROVE  shared' = shared
BY DEF Sharing

\* A step that writes no register.
LEMMA KeepsRegisters ==
  ASSUME WarpInv, Machine(warp'), Data(warp') = Data(warp), shared' = shared,
         Frame(warp')
  PROVE  WarpInv'
<1>1. warp'.s = warp.s /\ warp'.p = warp.p BY DEF Data
<1> QED BY <1>1 DEF WarpInv, Uniform

\* ControlTypes for the warp, where it goes on, faults or jumps.
LEMMA WarpFrame ==
  ASSUME NEW i \in Instructions, WarpInv, warp.status = "RUNNING", warp.pc < CodeLength,
         warp'.v \in VectorFiles, warp'.mem \in [Memory -> Words]
  PROVE  /\ Control(warp') = Advanced(warp) => Frame(warp')
         /\ \A c \in Codes : Control(warp') = Stopped(warp, c) => Frame(warp')
         /\ Control(warp') = Jumped(i) => Frame(warp')
<1>1. Control(warp') = Advanced(warp) => Frame(warp') BY ControlTypes DEF WarpInv
<1>2. \A c \in Codes : Control(warp') = Stopped(warp, c) => Frame(warp')
  BY ControlTypes DEF WarpInv
<1>3. \A t \in 0..CodeLength : Control(warp') = At(warp, t) => Frame(warp')
  BY ControlTypes DEF WarpInv
<1>4. "JUMP" \in Codes BY DEF Codes
<1>5. i.lo >= CodeLength \/ i.lo \in 0..CodeLength BY FieldTypes, ConstantTypes
<1> QED BY <1>1, <1>2, <1>3, <1>4, <1>5 DEF Jumped

\* Instructions that write no register, other than calls and returns.
LEMMA WarpControls ==
  ASSUME NEW i \in Instructions, NEW accepted, WarpInv, Portable(i),
         warp.status = "RUNNING", warp.pc < CodeLength, shared' = Sharing(i),
         Send(i, accepted) \/ Flip(i) \/ Jump(i) \/ JumpIf(i) \/ Halt(i) \/ Nothing(i) \/ Bad(i)
  PROVE  WarpInv'
<1>1. Machine(warp) /\ ~IllegalGuard(i) BY DEF WarpInv, Portable
<1>2. shared' = shared
  BY KeepsSharing DEF Send, Flip, Jump, JumpIf, Halt, Nothing, Bad, WritesPredicate, PredicateOps,
     NoOps
<1>3. SUFFICES Machine(warp') /\ Data(warp') = Data(warp) /\ Frame(warp')
  BY <1>2, KeepsRegisters
<1>4. Data(warp') = Data(warp) => warp'.v \in VectorFiles /\ warp'.mem \in [Memory -> Words]
  BY DEF Data, WarpInv, Frame
<1>5. CASE Send(i, accepted)
  <2>1. "MSG" \in Codes BY DEF Codes
  <2> QED BY <1>1, <1>4, <1>5, <2>1, WarpSends, WarpFrame
<1>6. CASE Flip(i)
  <2>1. "OPERAND" \in Codes BY DEF Codes
  <2>2. /\ Machine(warp') /\ Data(warp') = Data(warp)
        /\ Control(warp') = Stopped(warp, "OPERAND") \/ Control(warp') = Flipped(warp)
    BY <1>1, <1>6, WarpFlips DEF Flipped
  <2> QED BY <1>4, <2>1, <2>2, WarpFrame, ControlTypes DEF WarpInv
<1>7. CASE Jump(i)
  <2>1. Machine(warp') /\ Data(warp') = Data(warp) /\ Control(warp') = Jumped(i)
    BY <1>1, <1>7, Jumping DEF Jump, Jumped
  <2> QED BY <1>4, <2>1, WarpFrame
<1>8. CASE JumpIf(i)
  <2>1. /\ Machine(warp') /\ Data(warp') = Data(warp)
        /\ Control(warp') = Jumped(i) \/ Control(warp') = Advanced(warp)
    BY <1>1, <1>8, OneWay, WarpBranches
  <2> QED BY <1>4, <2>1, WarpFrame
<1>9. CASE Halt(i)
  <2>1. Machine(warp') /\ Data(warp') = Data(warp) /\ Control(warp') = Halted(warp)
    BY <1>1, <1>9, WarpHalts DEF Halted
  <2> QED BY <1>4, <2>1, ControlTypes DEF WarpInv
<1>10. CASE Nothing(i)
  <2>1. Machine(warp') /\ Data(warp') = Data(warp) /\ Control(warp') = Advanced(warp)
    BY <1>1, <1>10, Retiring DEF Nothing
  <2> QED BY <1>4, <2>1, WarpFrame
<1>11. CASE Bad(i)
  <2>1. PICK c \in Codes : warp' = Faulted(warp, c) BY <1>11 DEF Bad, Codes
  <2>2. Machine(warp') /\ Data(warp') = Data(warp) /\ Control(warp') = Stopped(warp, c)
    BY <1>1, <2>1, Stopping DEF Faulted
  <2> QED BY <1>4, <2>2, WarpFrame
<1> QED BY <1>5, <1>6, <1>7, <1>8, <1>9, <1>10, <1>11

\* Calls and returns keep the warp's invariant.
LEMMA WarpCallsAndReturns ==
  ASSUME NEW i \in Instructions, WarpInv, Portable(i),
         warp.status = "RUNNING", warp.pc < CodeLength, shared' = Sharing(i),
         Call(i) \/ Ret(i)
  PROVE  WarpInv'
<1>1. Machine(warp) /\ ~IllegalGuard(i) BY DEF WarpInv, Portable
<1>2. shared' = shared
  BY KeepsSharing DEF Call, Ret, WritesPredicate, PredicateOps
<1>3. SUFFICES Machine(warp') /\ Data(warp') = Data(warp) /\ Frame(warp')
  BY <1>2, KeepsRegisters
<1>4. Data(warp') = Data(warp) => warp'.v \in VectorFiles /\ warp'.mem \in [Memory -> Words]
  BY DEF Data, WarpInv, Frame
<1>5. "JUMP" \in Codes /\ "STACK" \in Codes BY DEF Codes
<1>6. CASE Call(i)
  <2>1. /\ Machine(warp') /\ Data(warp') = Data(warp)
        /\ \/ Control(warp') \in {Stopped(warp, "JUMP"), Stopped(warp, "STACK")}
           \/ /\ ~(i.lo >= CodeLength) /\ ~(Len(warp.stack) >= CallDepth)
              /\ Control(warp') = Called(warp, i.lo)
    BY <1>1, <1>6, WarpCalls DEF Called
  <2>2. ~(i.lo >= CodeLength) => i.lo \in 0..CodeLength BY FieldTypes, ConstantTypes
  <2>3. ~(Len(warp.stack) >= CallDepth) => Len(warp.stack) < CallDepth
    BY ConstantTypes, LenProperties DEF WarpInv, Frame
  <2> QED BY <1>4, <1>5, <2>1, <2>2, <2>3, WarpFrame, ControlTypes DEF WarpInv
<1>7. CASE Ret(i)
  <2>1. /\ Machine(warp') /\ Data(warp') = Data(warp)
        /\ \/ Control(warp') = Stopped(warp, "STACK")
           \/ warp.stack # <<>> /\ Control(warp') = Returned(warp)
    BY <1>1, <1>7, WarpReturns DEF Returned
  <2> QED BY <1>4, <1>5, <2>1, WarpFrame, ControlTypes DEF WarpInv
<1> QED BY <1>6, <1>7

\* Where all lanes are active, or none of them writes the mask, the lanes agree.
LEMMA WarpWritesKeep ==
  ASSUME NEW i \in Instructions, WarpInv, Portable(i),
         warp.status = "RUNNING", warp.pc < CodeLength, shared' = Sharing(i),
         VectorOp(i) \/ PredicateOp(i) \/ ScalarOp(i)
  PROVE  WarpInv'
<1>1. Machine(warp) /\ ~IllegalGuard(i) /\ ~BadField(i)
  BY DEF WarpInv, Portable, VectorOp, PredicateOp, ScalarOp
<1>2. i.guard = 0 => Active(i) = Lanes BY DEF Active, GuardActive
<1>3. CASE VectorOp(i)
  <2>1. i.op \in VectorOps /\ (i.op = "LDW" => i.lo < Len(Literals)) BY <1>3 DEF VectorOp, Portable
  <2>2. /\ Machine(warp') /\ Control(warp') = Advanced(warp)
        /\ Data(warp') = <<NewVectors(i), warp.s, warp.p, warp.mem>>
    BY <1>1, <1>3, <2>1, WarpWrites
  <2>3. NewVectors(i) \in VectorFiles BY <1>1, <2>1, WarpWriteTypes
  <2>4. /\ warp'.v \in VectorFiles /\ warp'.mem \in [Memory -> Words]
        /\ warp'.s = warp.s /\ warp'.p = warp.p
    BY <2>2, <2>3 DEF Data, WarpInv, Frame
  <2>5. shared' = shared BY <2>1, KeepsSharing DEF WritesPredicate, PredicateOps, VectorOps
  <2> QED BY <2>2, <2>4, <2>5, WarpFrame DEF WarpInv, Uniform
<1>4. CASE ScalarOp(i)
  <2>1. i.op \in ScalarOps BY <1>4 DEF ScalarOp
  <2>2. /\ Machine(warp') /\ Control(warp') = Advanced(warp)
        /\ Data(warp') = <<warp.v, NewScalars(i), warp.p, warp.mem>>
    BY <1>1, <1>4, WarpWrites
  <2>3. NewScalars(i) \in [Lanes -> ScalarFiles] BY <1>1, <2>1, WarpWriteTypes
  <2>4. /\ warp'.v \in VectorFiles /\ warp'.mem \in [Memory -> Words]
        /\ warp'.s = NewScalars(i) /\ warp'.p = warp.p
    BY <2>2, <2>3 DEF Data, WarpInv, Frame
  <2>5. shared' = shared BY <2>1, KeepsSharing DEF WritesPredicate, PredicateOps, ScalarOps
  <2>6. \A l, k \in Lanes : NewScalars(i)[l] = NewScalars(i)[k]
    <3>1. Active(i) = Lanes BY <1>2, <2>1 DEF Portable
    <3>2. \A l, k \in Lanes : warp.s[l] = warp.s[k] BY DEF WarpInv, Uniform
    <3> QED BY <3>1, <3>2 DEF NewScalars, Written
  <2>7. Frame(warp') BY <2>2, <2>4, WarpFrame
  <2> QED BY <2>2, <2>3, <2>4, <2>5, <2>6, <2>7 DEF WarpInv, Uniform
<1>5. CASE PredicateOp(i)
  <2>1. i.op \in PredicateOps BY <1>5 DEF PredicateOp
  <2>2. /\ Machine(warp') /\ Control(warp') = Advanced(warp)
        /\ Data(warp') = <<warp.v, warp.s, NewMasks(i), warp.mem>>
    BY <1>1, <1>5, WarpWrites
  <2>3. NewMasks(i) \in [Lanes -> MaskFiles] BY <1>1, <2>1, WarpWriteTypes
  <2>4. /\ warp'.v \in VectorFiles /\ warp'.mem \in [Memory -> Words]
        /\ warp'.s = warp.s /\ warp'.p = NewMasks(i)
    BY <2>2, <2>3 DEF Data, WarpInv, Frame
  <2>5. i.rd \in Preds BY <1>1, <2>1 DEF BadField
  <2>6. shared' = IF i.guard = 0 /\ Sources(i) \subseteq shared THEN shared \union {i.rd}
                                                               ELSE shared \ {i.rd}
    BY <1>1, <2>1, ConstantTypes DEF Sharing, WritesPredicate, WarpInv, Frame
  <2>7. \A l, k \in Lanes, q \in shared \ {i.rd} : NewMasks(i)[l][q] = NewMasks(i)[k][q]
    <3>1. \A l \in Lanes, q \in shared \ {i.rd} : NewMasks(i)[l][q] = warp.p[l][q]
      BY DEF NewMasks, Written, WarpInv, MaskFiles
    <3> QED BY <3>1 DEF WarpInv, Uniform
  <2>8. ASSUME i.guard = 0, Sources(i) \subseteq shared, NEW l \in Lanes, NEW k \in Lanes
        PROVE  NewMasks(i)[l][i.rd] = NewMasks(i)[k][i.rd]
    <3>1. \A j \in Lanes : NewMasks(i)[j][i.rd] = Mask(i, warp.v, warp.p[j], warp.s[j])
      BY <1>2, <2>5, <2>8 DEF NewMasks, Written, WarpInv, MaskFiles
    <3>2. warp.s[l] = warp.s[k] BY DEF WarpInv, Uniform
    <3>3. \A q \in Sources(i) : warp.p[l][q] = warp.p[k][q] BY <2>8 DEF WarpInv, Uniform
    <3>4. Mask(i, warp.v, warp.p[l], warp.s[l]) = Mask(i, warp.v, warp.p[k], warp.s[k])
      BY <2>1, <3>2, <3>3 DEF Mask, Sources, PredicateOps
    <3> QED BY <3>1, <3>4
  <2>9. Frame(warp') BY <2>2, <2>4, WarpFrame
  <2>10. shared' \subseteq Preds BY <2>5, <2>6 DEF WarpInv
  <2>11. Uniform'
    <3>1. \A l, k \in Lanes : warp'.s[l] = warp'.s[k] BY <2>4 DEF WarpInv, Uniform
    <3>2. \A l, k \in Lanes, q \in shared' : warp'.p[l][q] = warp'.p[k][q]
      BY <2>4, <2>6, <2>7, <2>8
    <3> QED BY <3>1, <3>2 DEF Uniform
  <2> QED BY <2>2, <2>3, <2>4, <2>9, <2>10, <2>11 DEF WarpInv
<1> QED BY <1>3, <1>4, <1>5

\* Accesses to memory keep the warp's invariant, whichever lanes fault.
LEMMA WarpAccessKeeps ==
  ASSUME NEW i \in Instructions, WarpInv, Portable(i),
         warp.status = "RUNNING", warp.pc < CodeLength, shared' = Sharing(i), MemoryOp(i)
  PROVE  WarpInv'
<1>1. Machine(warp) /\ ~IllegalGuard(i) BY DEF WarpInv, Portable
<1>2. shared' = shared BY KeepsSharing DEF MemoryOp, WritesPredicate, PredicateOps
<1>3. /\ Machine(warp')
      /\ Control(warp') \in {Advanced(warp), Stopped(warp, "MEM")}
      /\ \/ i.op = "LOAD" /\ Data(warp') = <<NewLoads(i), warp.s, warp.p, warp.mem>>
         \/ /\ i.op = "STORE"
            /\ \E m \in Stored(i, warp.v, warp.mem, Active(i)) :
                 Data(warp') = <<warp.v, warp.s, warp.p, m>>
  BY <1>1, WarpMemory
<1>4. /\ warp'.v \in VectorFiles /\ warp'.mem \in [Memory -> Words]
      /\ warp'.s = warp.s /\ warp'.p = warp.p
  <2>1. i.op = "LOAD" => NewLoads(i) \in VectorFiles BY WarpLoadTypes
  <2>2. \A m \in Stored(i, warp.v, warp.mem, Active(i)) : m \in [Memory -> Words] BY DEF Stored
  <2> QED BY <1>3, <2>1, <2>2 DEF Data, WarpInv, Frame
<1>5. Frame(warp')
  <2>1. "MEM" \in Codes BY DEF Codes
  <2> QED BY <1>3, <1>4, <2>1, WarpFrame
<1> QED BY <1>2, <1>3, <1>4, <1>5 DEF WarpInv, Uniform

\* So does a message: an unguarded TRY_RECV leaves one mask in all lanes.
LEMMA WarpReceivesKeeps ==
  ASSUME NEW i \in Instructions, NEW message \in Messages, WarpInv, Portable(i),
         warp.status = "RUNNING", warp.pc < CodeLength, shared' = Sharing(i),
         TryRecv(i, message)
  PROVE  WarpInv'
<1>1. Machine(warp) /\ ~IllegalGuard(i) /\ ~BadField(i) /\ i.op = "TRY_RECV"
  BY DEF WarpInv, Portable, TryRecv
<1>2. i.rd \in Preds BY <1>1 DEF BadField
<1>3. shared' = IF i.guard = 0 THEN shared \union {i.rd} ELSE shared \ {i.rd}
  BY <1>1, ConstantTypes DEF Sharing, WritesPredicate, Sources, WarpInv, Frame
<1>4. /\ Machine(warp') /\ Control(warp') = Advanced(warp)
      /\ Data(warp') = <<ReceivedWords(i, message), warp.s, ReceivedMasks(i, message), warp.mem>>
  BY <1>1, WarpReceives
<1>5. /\ ReceivedWords(i, message) \in VectorFiles
      /\ ReceivedMasks(i, message) \in [Lanes -> MaskFiles]
  BY WarpReceiveTypes
<1>6. /\ warp'.v \in VectorFiles /\ warp'.mem \in [Memory -> Words]
      /\ warp'.s = warp.s /\ warp'.p = ReceivedMasks(i, message)
  BY <1>4, <1>5 DEF Data, WarpInv, Frame
<1>7. Frame(warp') BY <1>4, <1>6, WarpFrame
<1>8. \A l, k \in Lanes, q \in shared \ {i.rd} :
        ReceivedMasks(i, message)[l][q] = ReceivedMasks(i, message)[k][q]
  <2>1. \A l \in Lanes, q \in shared \ {i.rd} : ReceivedMasks(i, message)[l][q] = warp.p[l][q]
    BY DEF ReceivedMasks, Written, WarpInv, MaskFiles
  <2> QED BY <2>1 DEF WarpInv, Uniform
<1>9. ASSUME i.guard = 0, NEW l \in Lanes, NEW k \in Lanes
      PROVE  ReceivedMasks(i, message)[l][i.rd] = ReceivedMasks(i, message)[k][i.rd]
  <2>1. Active(i) = Lanes BY <1>9 DEF Active, GuardActive
  <2> QED BY <1>2, <2>1 DEF ReceivedMasks, Written, WarpInv, MaskFiles
<1>10. Uniform'
  <2>1. \A l, k \in Lanes : warp'.s[l] = warp'.s[k] BY <1>6 DEF WarpInv, Uniform
  <2>2. \A l, k \in Lanes, q \in shared' : warp'.p[l][q] = warp'.p[k][q]
    BY <1>3, <1>6, <1>8, <1>9
  <2> QED BY <2>1, <2>2 DEF Uniform
<1>11. shared' \subseteq Preds BY <1>2, <1>3 DEF WarpInv
<1> QED BY <1>4, <1>5, <1>6, <1>7, <1>10, <1>11 DEF WarpInv

\* A turn of the warp keeps its invariant, whatever its peer does.
LEMMA WarpStep ==
  ASSUME NEW i \in Instructions, NEW accepted, NEW message \in Messages, WarpInv, Portable(i),
         VmRun(i, accepted, message), shared' = Sharing(i)
  PROVE  WarpInv'
<1>1. warp.status = "RUNNING" BY DEF VmRun
<1>2. CASE warp.pc >= CodeLength
  <2>1. warp' = Faulted(warp, "JUMP") BY <1>2 DEF VmRun
  <2>2. Machine(warp') /\ Data(warp') = Data(warp) /\ Control(warp') = Stopped(warp, "JUMP")
    BY <2>1, Stopping DEF Faulted, WarpInv
  <2>3. Frame(warp') BY <2>2 DEF Control, Stopped, Data, Frame, WarpInv
  <2>4. shared' = shared BY <1>2, KeepsSharing
  <2> QED BY <2>2, <2>3, <2>4, KeepsRegisters
<1>3. CASE warp.pc < CodeLength
  <2>1. Execute(i, accepted, message) BY <1>3, ConstantTypes DEF VmRun, WarpInv, Frame
  <2> QED BY <1>1, <1>3, <2>1, WarpControls, WarpCallsAndReturns, WarpWritesKeep, WarpAccessKeeps,
             WarpReceivesKeeps DEF Execute
<1> QED BY <1>2, <1>3, ConstantTypes DEF WarpInv, Frame

-----------------------------------------------------------------------------
(* The interpreter of the host                                             *)

CpuTypes ==
  /\ Machine(cpu) /\ Frame(cpu)
  /\ cpu.s \in ScalarFiles /\ cpu.p \in MaskFiles

CpuSame ==
  /\ Control(cpu) = Control(warp)
  /\ warp.fault # "MEM" => cpu.v = warp.v /\ cpu.mem = warp.mem
  /\ \A l \in Lanes : warp.s[l] = cpu.s
  /\ \A l \in Lanes, q \in Preds : l \in warp.p[l][q] <=> l \in cpu.p[q]

\* Where the controls of two machines agree, so does every next control.
LEMMA SameControl ==
  ASSUME NEW x, NEW y, Control(x) = Control(y)
  PROVE  /\ Advanced(x) = Advanced(y) /\ Flipped(x) = Flipped(y)
         /\ Returned(x) = Returned(y) /\ Halted(x) = Halted(y)
         /\ \A c : Stopped(x, c) = Stopped(y, c)
         /\ \A t : At(x, t) = At(y, t) /\ Called(x, t) = Called(y, t)
         /\ x.pc = y.pc /\ x.stack = y.stack /\ x.flips = y.flips
         /\ x.status = y.status /\ x.fault = y.fault
<1>1. /\ x.pc = y.pc /\ x.stack = y.stack /\ x.flips = y.flips
      /\ x.status = y.status /\ x.fault = y.fault
  BY DEF Control
<1> QED BY <1>1 DEF Advanced, Flipped, Returned, Halted, Stopped, At, Called

\* While both run they hold the same words, and the same lanes are active.
LEMMA CpuRuns ==
  ASSUME NEW i \in Instructions, WarpInv, CpuTypes, CpuSame, Portable(i),
         peer = "cpu", warp.status = "RUNNING", warp.pc < CodeLength, Step(i)
  PROVE  /\ cpu.v = warp.v /\ cpu.mem = warp.mem /\ warp.fault = "OK"
         /\ i.op \notin {"SEND", "TRY_RECV"}
         /\ cpu' = IF BadField(i) THEN CpuFault(cpu, "OPERAND") ELSE CpuExecuted(i)
         /\ ActiveMask(i) = Active(i)
<1>1. cpu.v = warp.v /\ cpu.mem = warp.mem /\ warp.fault = "OK" BY DEF WarpInv, Frame, CpuSame
<1>2. i.op \notin {"SEND", "TRY_RECV"} /\ ~IllegalGuard(i) BY DEF Portable
<1>3. cpu.pc = warp.pc BY DEF CpuSame, Control
<1>4. ~(cpu.pc >= CodeLength) BY <1>3, ConstantTypes DEF WarpInv, Frame
<1>5. cpu' = IF BadField(i) THEN CpuFault(cpu, "OPERAND") ELSE CpuExecuted(i)
  BY <1>2, <1>4 DEF Step
<1>6. i.guard \in Nat BY FieldTypes
<1>7. CASE i.guard = 0 BY <1>1, <1>2, <1>5, <1>7 DEF ActiveMask, Active, GuardActive
<1>8. CASE i.guard # 0
  <2> DEFINE q == GuardPredicate(i.guard)
  <2>1. q \in Preds BY <1>6, <1>8, GuardType
  <2> HIDE DEF q
  <2>2. cpu.p[q] \subseteq Lanes BY <2>1 DEF CpuTypes, MaskFiles
  <2>3. \A l \in Lanes : GuardActive(l, i.guard) <=> ((l \in cpu.p[q]) # Inverted(i.guard))
    <3>1. \A l \in Lanes : GuardActive(l, i.guard) <=> ((l \in warp.p[l][q]) # Inverted(i.guard))
      BY <1>8, Zenon DEF GuardActive, q
    <3>2. \A l \in Lanes : (l \in warp.p[l][q]) = (l \in cpu.p[q]) BY <2>1 DEF CpuSame
    <3> QED BY <3>1, <3>2, Zenon
  <2>4. CASE Inverted(i.guard)
    <3>1. ActiveMask(i) = Lanes \ cpu.p[q] BY <1>8, <2>4 DEF ActiveMask, q
    <3>2. \A l \in Lanes : GuardActive(l, i.guard) <=> l \notin cpu.p[q]
      BY <2>3, <2>4
    <3> QED BY <1>1, <1>2, <1>5, <3>1, <3>2 DEF Active
  <2>5. CASE ~Inverted(i.guard)
    <3>1. ActiveMask(i) = cpu.p[q] BY <1>8, <2>5 DEF ActiveMask, q
    <3>2. \A l \in Lanes : GuardActive(l, i.guard) <=> l \in cpu.p[q]
      BY <1>6, <2>3, <2>5, ConstantTypes DEF Inverted
    <3> QED BY <1>1, <1>2, <1>5, <2>2, <3>1, <3>2 DEF Active
  <2> QED BY <2>4, <2>5
<1> QED BY <1>7, <1>8

\* A step of both that writes no register.
LEMMA CpuStays ==
  ASSUME CpuTypes, CpuSame, cpu.v = warp.v, cpu.mem = warp.mem, WarpInv',
         Machine(cpu'), Data(cpu') = Data(cpu), Data(warp') = Data(warp),
         Control(cpu') = Control(warp')
  PROVE  CpuTypes' /\ CpuSame'
<1>1. /\ cpu'.v = cpu.v /\ cpu'.s = cpu.s /\ cpu'.p = cpu.p /\ cpu'.mem = cpu.mem
      /\ warp'.v = warp.v /\ warp'.s = warp.s /\ warp'.p = warp.p /\ warp'.mem = warp.mem
  BY DEF Data
<1>2. Frame(cpu')
  <2>1. Frame(warp') BY DEF WarpInv
  <2>2. cpu'.v = warp'.v /\ cpu'.mem = warp'.mem BY <1>1
  <2> QED BY <2>1, <2>2 DEF Control, Frame
<1> QED BY <1>1, <1>2 DEF CpuTypes, CpuSame

\* Both run off the code together.
LEMMA CpuRunsOff ==
  ASSUME NEW i \in Instructions, NEW accepted, NEW message, WarpInv, CpuTypes, CpuSame, WarpInv',
         warp.status = "RUNNING", warp.pc >= CodeLength, VmRun(i, accepted, message), Step(i)
  PROVE  CpuTypes' /\ CpuSame'
<1>1. cpu.pc = warp.pc BY DEF CpuSame, Control
<1>2. cpu.v = warp.v /\ cpu.mem = warp.mem BY DEF WarpInv, Frame, CpuSame
<1>3. Machine(warp') /\ Data(warp') = Data(warp) /\ Control(warp') = Stopped(warp, "JUMP")
  BY Stopping DEF VmRun, Faulted, WarpInv
<1>4. Machine(cpu') /\ Data(cpu') = Data(cpu) /\ Control(cpu') = Stopped(cpu, "JUMP")
  BY <1>1, Stopping DEF Step, CpuFault, CpuTypes
<1>5. Stopped(cpu, "JUMP") = Stopped(warp, "JUMP") BY SameControl DEF CpuSame
<1> QED BY <1>2, <1>3, <1>4, <1>5, CpuStays

\* The branch mask of a lane of the warp is the active mask of the host.
LEMMA CpuBranches ==
  ASSUME NEW i \in Instructions, WarpInv, CpuSame, CpuTypes, Portable(i), JumpIf(i)
  PROVE  BranchMask(0, i) = ActiveMask(i)
<1> DEFINE q == GuardPredicate(i.guard)
<1>1. q \in shared /\ i.guard # 0 /\ ~IllegalGuard(i)
  BY DEF Portable, JumpIf, WholeMasks, BadField, PredicateOps, ScalarOps
<1>2. 0 \in Lanes BY ConstantTypes DEF Lanes
<1> HIDE DEF q
<1>3. \A k \in Lanes : k \in warp.p[0][q] <=> k \in cpu.p[q]
  BY <1>1, <1>2 DEF WarpInv, Uniform, CpuSame
<1>4. warp.p[0][q] \subseteq Lanes /\ cpu.p[q] \subseteq Lanes
  BY <1>1, <1>2 DEF WarpInv, CpuTypes, MaskFiles
<1>5. warp.p[0][q] = cpu.p[q] BY <1>3, <1>4
<1> QED BY <1>1, <1>5 DEF BranchMask, ActiveMask, q

\* A jump of the host goes where one of the warp goes.
LEMMA CpuJumping ==
  ASSUME NEW i \in Instructions, CpuTypes, NEW y, y = CpuJump(i)
  PROVE  /\ Machine(y) /\ Data(y) = Data(cpu)
         /\ Control(y) = IF i.lo >= CodeLength THEN Stopped(cpu, "JUMP") ELSE At(cpu, i.lo)
<1>1. CASE i.lo >= CodeLength BY <1>1, Stopping DEF CpuJump, CpuFault, CpuTypes
<1>2. CASE ~(i.lo >= CodeLength) BY <1>2, Moving DEF CpuJump, CpuTypes
<1> QED BY <1>1, <1>2

\* Instructions that write no register keep the agreement of host and warp.
LEMMA CpuControls ==
  ASSUME NEW i \in Instructions, WarpInv, CpuTypes, CpuSame, WarpInv', Portable(i),
         peer = "cpu", warp.status = "RUNNING", warp.pc < CodeLength, Step(i),
         Flip(i) \/ Jump(i) \/ JumpIf(i) \/ Halt(i) \/ Nothing(i) \/ Bad(i)
  PROVE  CpuTypes' /\ CpuSame'
<1> USE DEF VectorOps, PredicateOps, ScalarOps, NoOps
<1>1. Machine(warp) /\ Machine(cpu) /\ ~IllegalGuard(i) BY DEF WarpInv, CpuTypes, Portable
<1>2. /\ cpu.v = warp.v /\ cpu.mem = warp.mem
      /\ cpu' = IF BadField(i) THEN CpuFault(cpu, "OPERAND") ELSE CpuExecuted(i)
      /\ ActiveMask(i) = Active(i)
  BY CpuRuns
<1>3. SUFFICES /\ Machine(cpu') /\ Data(cpu') = Data(cpu) /\ Data(warp') = Data(warp)
               /\ Control(cpu') = Control(warp')
  BY <1>2, CpuStays
<1>4. Control(cpu) = Control(warp) BY DEF CpuSame
<1>5. CASE Flip(i)
  <2>1. i.op = "FLIP" /\ ~BadField(i) BY <1>5 DEF Flip, BadField
  <2>2. /\ Machine(warp') /\ Data(warp') = Data(warp)
        /\ Control(warp') = IF i.guard # 0 THEN Stopped(warp, "OPERAND") ELSE Flipped(warp)
    BY <1>1, <1>5, WarpFlips DEF Flipped
  <2>3. CASE i.guard # 0
    <3>1. cpu' = CpuFault(cpu, "OPERAND") BY <1>2, <2>1, <2>3 DEF CpuExecuted
    <3>2. Machine(cpu') /\ Data(cpu') = Data(cpu) /\ Control(cpu') = Stopped(cpu, "OPERAND")
      BY <1>1, <3>1, Stopping DEF CpuFault
    <3> QED BY <1>4, <2>2, <2>3, <3>2, SameControl
  <2>4. CASE i.guard = 0
    <3> DEFINE e == (cpu.flips + 1) % Base
               x == [cpu EXCEPT !.flips = e]
    <3>1. cpu' = [x EXCEPT !.pc = @ + 1] BY <1>2, <2>1, <2>4 DEF CpuExecuted, CpuNext
    <3> HIDE DEF e
    <3>2. /\ Machine(x) /\ Data(x) = Data(cpu)
          /\ Control(x) = <<cpu.pc, cpu.stack, e, cpu.status, cpu.fault>>
      BY <1>1 DEF Machine, Data, Control
    <3> HIDE DEF x
    <3>3. Machine(cpu') /\ Control(cpu') = Advanced(x) /\ Data(cpu') = Data(x)
      BY <3>1, <3>2, Advancing
    <3>4. Advanced(x) = Flipped(cpu) BY <3>2 DEF Control, Advanced, Flipped, e
    <3> QED BY <1>4, <2>2, <2>4, <3>2, <3>3, <3>4, SameControl
  <2> QED BY <2>3, <2>4
<1>6. CASE Jump(i)
  <2>1. i.op = "JMP" /\ ~BadField(i) BY <1>6 DEF Jump, BadField
  <2>2. Machine(warp') /\ Data(warp') = Data(warp) /\ Control(warp') = Jumped(i)
    BY <1>1, <1>6, Jumping DEF Jump, Jumped
  <2>3. cpu' = CpuJump(i) BY <1>2, <2>1 DEF CpuExecuted
  <2> QED BY <1>4, <2>2, <2>3, CpuJumping, SameControl DEF Jumped
<1>7. CASE JumpIf(i)
  <2>1. i.op \in {"JMP_IF_ANY", "JMP_IF_ALL"} /\ ~BadField(i) BY <1>7 DEF JumpIf, BadField
  <2>2. /\ Machine(warp') /\ Data(warp') = Data(warp)
        /\ Control(warp') = IF Takes(i) THEN Jumped(i) ELSE Advanced(warp)
    BY <1>1, <1>7, OneWay, WarpBranches
  <2>3. BranchMask(0, i) = ActiveMask(i) BY <1>7, CpuBranches
  <2>4. cpu' = IF Takes(i) THEN CpuJump(i) ELSE CpuNext(cpu)
    BY <1>2, <2>1, <2>3 DEF CpuExecuted, Takes
  <2>5. CASE Takes(i)
    BY <1>4, <2>2, <2>4, <2>5, CpuJumping, SameControl DEF Jumped
  <2>6. CASE ~Takes(i)
    BY <1>1, <1>4, <2>2, <2>4, <2>6, Advancing, SameControl DEF CpuNext
  <2> QED BY <2>5, <2>6
<1>8. CASE Halt(i)
  <2>1. i.op = "HALT" /\ ~BadField(i) BY <1>8 DEF Halt, BadField
  <2>2. Machine(warp') /\ Data(warp') = Data(warp) /\ Control(warp') = Halted(warp)
    BY <1>1, <1>8, WarpHalts DEF Halted
  <2>3. cpu' = [cpu EXCEPT !.status = "HALTED"] BY <1>2, <2>1 DEF CpuExecuted
  <2>4. Machine(cpu') /\ Data(cpu') = Data(cpu) /\ Control(cpu') = Halted(cpu)
    BY <1>1, <2>3 DEF Machine, Data, Control, Halted
  <2> QED BY <1>4, <2>2, <2>4, SameControl
<1>9. CASE Nothing(i)
  <2>1. i.op \in NoOps /\ ~BadField(i) BY <1>9 DEF Nothing, BadField
  <2>2. Machine(warp') /\ Data(warp') = Data(warp) /\ Control(warp') = Advanced(warp)
    BY <1>1, <1>9, Retiring DEF Nothing
  <2>3. cpu' = CpuNext(cpu) BY <1>2, <2>1 DEF CpuExecuted
  <2> QED BY <1>1, <1>4, <2>2, <2>3, Advancing, SameControl DEF CpuNext
<1>10. CASE Bad(i)
  <2>1. PICK c : warp' = Faulted(warp, c) /\ cpu' = CpuFault(cpu, c)
    BY <1>2, <1>10 DEF Bad, CpuExecuted, BadField
  <2>2. Machine(warp') /\ Data(warp') = Data(warp) /\ Control(warp') = Stopped(warp, c)
    BY <1>1, <2>1, Stopping DEF Faulted
  <2>3. Machine(cpu') /\ Data(cpu') = Data(cpu) /\ Control(cpu') = Stopped(cpu, c)
    BY <1>1, <2>1, Stopping DEF CpuFault
  <2> QED BY <1>4, <2>2, <2>3, SameControl
<1> QED BY <1>5, <1>6, <1>7, <1>8, <1>9, <1>10

\* Calls and returns keep the agreement of host and warp.
LEMMA CpuCallsAndReturns ==
  ASSUME NEW i \in Instructions, WarpInv, CpuTypes, CpuSame, WarpInv', Portable(i),
         peer = "cpu", warp.status = "RUNNING", warp.pc < CodeLength, Step(i),
         Call(i) \/ Ret(i)
  PROVE  CpuTypes' /\ CpuSame'
<1> USE DEF VectorOps, PredicateOps, ScalarOps, NoOps
<1>1. Machine(warp) /\ Machine(cpu) /\ ~IllegalGuard(i) BY DEF WarpInv, CpuTypes, Portable
<1>2. /\ cpu.v = warp.v /\ cpu.mem = warp.mem
      /\ cpu' = IF BadField(i) THEN CpuFault(cpu, "OPERAND") ELSE CpuExecuted(i)
  BY CpuRuns
<1>3. SUFFICES /\ Machine(cpu') /\ Data(cpu') = Data(cpu) /\ Data(warp') = Data(warp)
               /\ Control(cpu') = Control(warp')
  BY <1>2, CpuStays
<1>4. Control(cpu) = Control(warp) /\ cpu.stack = warp.stack BY DEF CpuSame, Control
<1>5. ASSUME NEW c \in Codes, cpu' = CpuFault(cpu, c)
      PROVE  Machine(cpu') /\ Data(cpu') = Data(cpu) /\ Control(cpu') = Stopped(warp, c)
  <2>1. Machine(cpu') /\ Data(cpu') = Data(cpu) /\ Control(cpu') = Stopped(cpu, c)
    BY <1>1, <1>5, Stopping DEF CpuFault
  <2> QED BY <1>4, <2>1, SameControl
<1>6. "JUMP" \in Codes /\ "STACK" \in Codes BY DEF Codes
<1>7. CASE Call(i)
  <2>1. i.op = "CALL" /\ ~BadField(i) BY <1>7 DEF Call, BadField
  <2>2. /\ Machine(warp') /\ Data(warp') = Data(warp)
        /\ Control(warp') = IF i.lo >= CodeLength THEN Stopped(warp, "JUMP")
                            ELSE IF Len(warp.stack) >= CallDepth THEN Stopped(warp, "STACK")
                            ELSE Called(warp, i.lo)
    BY <1>1, <1>7, WarpCalls DEF Called
  <2>3. CASE i.lo >= CodeLength
    <3>1. cpu' = CpuFault(cpu, "JUMP") BY <1>2, <2>1, <2>3 DEF CpuExecuted, CpuJump
    <3> QED BY <1>5, <1>6, <2>2, <2>3, <3>1
  <2>4. CASE ~(i.lo >= CodeLength) /\ Len(warp.stack) >= CallDepth
    <3>1. cpu' = CpuFault(cpu, "STACK") BY <1>2, <1>4, <2>1, <2>4 DEF CpuExecuted
    <3> QED BY <1>5, <1>6, <2>2, <2>4, <3>1
  <2>5. CASE ~(i.lo >= CodeLength) /\ ~(Len(warp.stack) >= CallDepth)
    <3> DEFINE x == [cpu EXCEPT !.pc = i.lo]
               e == Append(cpu.stack, cpu.pc + 1)
    <3>1. Machine(x) /\ Control(x) = At(cpu, i.lo) /\ Data(x) = Data(cpu) BY <1>1, Moving
    <3>2. x.stack = cpu.stack BY <3>1 DEF Control, At
    <3>3. cpu' = [x EXCEPT !.stack = Append(@, cpu.pc + 1)]
      BY <1>2, <1>4, <2>1, <2>5 DEF CpuExecuted, CpuJump
    <3> HIDE DEF x
    <3>4. cpu' = [x EXCEPT !.stack = e] BY <3>2, <3>3
    <3> HIDE DEF e
    <3>5. /\ Machine(cpu') /\ Data(cpu') = Data(x)
          /\ Control(cpu') = <<x.pc, e, x.flips, x.status, x.fault>>
      BY <3>1, <3>4 DEF Machine, Data, Control
    <3>6. Control(cpu') = Called(cpu, i.lo) BY <3>1, <3>5 DEF Control, At, Called, e
    <3> QED BY <1>4, <2>2, <2>5, <3>1, <3>5, <3>6, SameControl
  <2> QED BY <2>3, <2>4, <2>5
<1>8. CASE Ret(i)
  <2>1. i.op = "RET" /\ ~BadField(i) BY <1>8 DEF Ret, BadField
  <2>2. /\ Machine(warp') /\ Data(warp') = Data(warp)
        /\ Control(warp') = IF warp.stack = <<>> THEN Stopped(warp, "STACK") ELSE Returned(warp)
    BY <1>1, <1>8, WarpReturns DEF Returned
  <2>3. CASE warp.stack = <<>>
    <3>1. cpu' = CpuFault(cpu, "STACK") BY <1>2, <1>4, <2>1, <2>3 DEF CpuExecuted
    <3> QED BY <1>5, <1>6, <2>2, <2>3, <3>1
  <2>4. CASE warp.stack # <<>>
    <3> DEFINE e == cpu.stack[Len(cpu.stack)]
               f == SubSeq(cpu.stack, 1, Len(cpu.stack) - 1)
    <3>1. cpu' = [cpu EXCEPT !.pc = e, !.stack = f] BY <1>2, <1>4, <2>1, <2>4 DEF CpuExecuted
    <3> HIDE DEF e, f
    <3>2. /\ Machine(cpu') /\ Data(cpu') = Data(cpu)
          /\ Control(cpu') = <<e, f, cpu.flips, cpu.status, cpu.fault>>
      BY <1>1, <3>1 DEF Machine, Data, Control
    <3>3. Control(cpu') = Returned(cpu) BY <3>2 DEF Returned, e, f
    <3> QED BY <1>4, <2>2, <2>4, <3>2, <3>3, SameControl
  <2> QED BY <2>3, <2>4
<1> QED BY <1>7, <1>8

\* A step that leaves both with the same registers.
LEMMA CpuFollows ==
  ASSUME WarpInv', Machine(cpu'), Control(cpu') = Control(warp'),
         cpu'.v = warp'.v, cpu'.mem = warp'.mem, \A l \in Lanes : warp'.s[l] = cpu'.s,
         cpu'.p \in MaskFiles, \A l \in Lanes, q \in Preds : l \in warp'.p[l][q] <=> l \in cpu'.p[q]
  PROVE  CpuTypes' /\ CpuSame'
<1>1. Frame(warp') BY DEF WarpInv
<1>2. Frame(cpu') BY <1>1 DEF Control, Frame
<1>3. cpu'.s \in ScalarFiles
  <2>1. 0 \in Lanes BY ConstantTypes DEF Lanes
  <2>2. warp'.s[0] \in ScalarFiles BY <2>1 DEF WarpInv
  <2> QED BY <2>1, <2>2
<1> QED BY <1>2, <1>3 DEF CpuTypes, CpuSame

\* The host goes on after a write, to where the warp goes.
LEMMA CpuAdvances ==
  ASSUME NEW z, Machine(z), Control(z) = Control(cpu), Control(cpu) = Control(warp),
         cpu' = CpuNext(z)
  PROVE  Machine(cpu') /\ Control(cpu') = Advanced(warp) /\ Data(cpu') = Data(z)
<1>1. Machine(cpu') /\ Control(cpu') = Advanced(z) /\ Data(cpu') = Data(z)
  BY Advancing DEF CpuNext
<1>2. Control(z) = Control(warp) OBVIOUS
<1> QED BY <1>1, <1>2, SameControl

\* Vector instructions: lane after lane on the host, all at once on the warp.
LEMMA CpuVectors ==
  ASSUME NEW i \in Instructions, WarpInv, CpuTypes, CpuSame, WarpInv', Portable(i),
         peer = "cpu", warp.status = "RUNNING", warp.pc < CodeLength, Step(i), VectorOp(i)
  PROVE  CpuTypes' /\ CpuSame'
<1>1. i.op \in VectorOps /\ ~BadField(i) /\ (i.op = "LDW" => ~(i.lo >= Len(Literals)))
  BY FieldTypes, ConstantTypes DEF VectorOp, Portable
<1>2. Machine(warp) /\ Machine(cpu) /\ ~IllegalGuard(i) BY DEF WarpInv, CpuTypes, Portable
<1>3. /\ cpu.v = warp.v /\ cpu.mem = warp.mem /\ ActiveMask(i) = Active(i)
      /\ cpu' = CpuExecuted(i)
  BY <1>1, CpuRuns
<1>4. /\ Machine(warp') /\ Control(warp') = Advanced(warp)
      /\ Data(warp') = <<NewVectors(i), warp.s, warp.p, warp.mem>>
  BY <1>1, <1>2, WarpWrites, FieldTypes, ConstantTypes
<1> DEFINE e == [l \in Lanes |->
                   IF l \in ActiveMask(i)
                     THEN [cpu.v[l] EXCEPT ![i.rd] = VectorValue(i, cpu.v, cpu.s, l)]
                     ELSE cpu.v[l]]
           z == [cpu EXCEPT !.v = e]
<1>5. cpu' = CpuNext(z)
  <2>1. cpu' = CpuNext(CpuWriteVector(i))
    BY <1>1, <1>3 DEF CpuExecuted, VectorOps, PredicateOps, ScalarOps, NoOps
  <2>2. CpuWriteVector(i) = z BY DEF CpuWriteVector
  <2> QED BY <2>1, <2>2
<1>6. e = NewVectors(i)
  <2>1. \A l \in Lanes : warp.s[l] = cpu.s BY DEF CpuSame
  <2> QED BY <1>3, <2>1 DEF NewVectors, Written
<1> HIDE DEF e
<1>7. Machine(z) /\ Control(z) = Control(cpu) /\ Data(z) = <<e, cpu.s, cpu.p, cpu.mem>>
  BY <1>2, Writing
<1> HIDE DEF z
<1>8. Control(cpu) = Control(warp) BY DEF CpuSame
<1>9. Machine(cpu') /\ Control(cpu') = Advanced(warp) /\ Data(cpu') = Data(z)
  BY <1>5, <1>7, <1>8, CpuAdvances
<1>10. /\ cpu'.v = warp'.v /\ cpu'.mem = warp'.mem
       /\ cpu'.s = cpu.s /\ warp'.s = warp.s /\ cpu'.p = cpu.p /\ warp'.p = warp.p
  BY <1>3, <1>4, <1>6, <1>7, <1>9 DEF Data
<1>11. cpu'.p \in MaskFiles /\ (\A l \in Lanes : warp'.s[l] = cpu'.s)
       /\ \A l \in Lanes, q \in Preds : l \in warp'.p[l][q] <=> l \in cpu'.p[q]
  BY <1>10 DEF CpuTypes, CpuSame
<1> QED BY <1>4, <1>9, <1>10, <1>11, CpuFollows

\* Scalar instructions: one scalar on the host, a copy in each lane of the warp.
LEMMA CpuScalars ==
  ASSUME NEW i \in Instructions, WarpInv, CpuTypes, CpuSame, WarpInv', Portable(i),
         peer = "cpu", warp.status = "RUNNING", warp.pc < CodeLength, Step(i), ScalarOp(i)
  PROVE  CpuTypes' /\ CpuSame'
<1>1. i.op \in ScalarOps /\ ~BadField(i) /\ i.guard = 0 BY DEF ScalarOp, Portable
<1>2. Machine(warp) /\ Machine(cpu) /\ ~IllegalGuard(i) BY DEF WarpInv, CpuTypes, Portable
<1>3. /\ cpu.v = warp.v /\ cpu.mem = warp.mem /\ ActiveMask(i) = Active(i)
      /\ cpu' = CpuExecuted(i)
  BY <1>1, CpuRuns
<1>4. /\ Machine(warp') /\ Control(warp') = Advanced(warp)
      /\ Data(warp') = <<warp.v, NewScalars(i), warp.p, warp.mem>>
  BY <1>2, WarpWrites
<1>5. ActiveMask(i) = Lanes /\ 0 \in Lanes BY <1>1, ConstantTypes DEF ActiveMask, Lanes
<1> DEFINE e == [cpu.s EXCEPT ![i.rd] = ScalarValue(i, cpu.v, cpu.s)]
           z == [cpu EXCEPT !.s = e]
<1>6. cpu' = CpuNext(z)
  <2>1. cpu' = CpuNext(CpuWriteScalar(i))
    BY <1>1, <1>3 DEF CpuExecuted, VectorOps, PredicateOps, ScalarOps, NoOps
  <2>2. CpuWriteScalar(i) = z BY <1>5 DEF CpuWriteScalar
  <2> QED BY <2>1, <2>2
<1>7. \A l \in Lanes : NewScalars(i)[l] = e
  <2>1. \A l \in Lanes : warp.s[l] = cpu.s BY DEF CpuSame
  <2> QED BY <1>3, <1>5, <2>1 DEF NewScalars, Written
<1> HIDE DEF e
<1>8. Machine(z) /\ Control(z) = Control(cpu) /\ Data(z) = <<cpu.v, e, cpu.p, cpu.mem>>
  BY <1>2, Writing
<1> HIDE DEF z
<1>9. Control(cpu) = Control(warp) BY DEF CpuSame
<1>10. Machine(cpu') /\ Control(cpu') = Advanced(warp) /\ Data(cpu') = Data(z)
  BY <1>6, <1>8, <1>9, CpuAdvances
<1>11. /\ cpu'.v = warp'.v /\ cpu'.mem = warp'.mem
       /\ cpu'.s = e /\ warp'.s = NewScalars(i) /\ cpu'.p = cpu.p /\ warp'.p = warp.p
  BY <1>3, <1>4, <1>8, <1>10 DEF Data
<1>12. cpu'.p \in MaskFiles /\ (\A l \in Lanes : warp'.s[l] = cpu'.s)
       /\ \A l \in Lanes, q \in Preds : l \in warp'.p[l][q] <=> l \in cpu'.p[q]
  BY <1>7, <1>11 DEF CpuTypes, CpuSame
<1> QED BY <1>4, <1>10, <1>11, <1>12, CpuFollows

\* A predicate that the lanes share is the one of the host.
LEMMA SharedMask ==
  ASSUME WarpInv, CpuTypes, CpuSame, NEW q \in shared, NEW l \in Lanes
  PROVE  warp.p[l][q] = cpu.p[q]
<1>1. \A k \in Lanes : k \in warp.p[l][q] <=> k \in cpu.p[q] BY DEF WarpInv, Uniform, CpuSame
<1>2. warp.p[l][q] \subseteq Lanes /\ cpu.p[q] \subseteq Lanes
  BY DEF WarpInv, CpuTypes, MaskFiles
<1> QED BY <1>1, <1>2

\* The bit of a lane in the mask that it computes is its bit in the host's.
LEMMA CpuBits ==
  ASSUME NEW i \in Instructions, WarpInv, CpuTypes, CpuSame, Portable(i), ~BadField(i),
         i.op \in PredicateOps, cpu.v = warp.v, NEW l \in Lanes
  PROVE  l \in Mask(i, warp.v, warp.p[l], warp.s[l]) <=> l \in Mask(i, cpu.v, cpu.p, cpu.s)
<1>1. warp.s[l] = cpu.s BY DEF CpuSame
<1>2. \A q \in Preds : l \in warp.p[l][q] <=> l \in cpu.p[q] BY DEF CpuSame
<1>3. CASE i.op \in {"CMP_LT", "BALLOT", "S_CMP_LT"} BY <1>1, <1>3 DEF Mask
<1>4. CASE i.op = "NOTMASK"
  <2>1. i.rs1 \in Preds BY <1>4 DEF BadField
  <2> QED BY <1>2, <1>4, <2>1 DEF Mask
<1>5. CASE i.op = "ANDMASK"
  <2>1. i.rs1 \in Preds /\ i.lo \in Preds BY <1>5 DEF BadField
  <2> QED BY <1>2, <1>5, <2>1 DEF Mask
<1>6. CASE i.op = "ALL"
  <2>1. i.rs1 \in shared BY <1>6 DEF Portable, WholeMasks
  <2>2. warp.p[l][i.rs1] = cpu.p[i.rs1] BY <2>1, SharedMask
  <2> QED BY <1>6, <2>2 DEF Mask
<1> QED BY <1>3, <1>4, <1>5, <1>6 DEF PredicateOps

\* Predicate instructions: the host merges bits into its one mask, each active
\* lane of the warp replaces its copy.
LEMMA CpuPredicates ==
  ASSUME NEW i \in Instructions, WarpInv, CpuTypes, CpuSame, WarpInv', Portable(i),
         peer = "cpu", warp.status = "RUNNING", warp.pc < CodeLength, Step(i), PredicateOp(i)
  PROVE  CpuTypes' /\ CpuSame'
<1>1. i.op \in PredicateOps /\ ~BadField(i) BY DEF PredicateOp
<1>2. Machine(warp) /\ Machine(cpu) /\ ~IllegalGuard(i) BY DEF WarpInv, CpuTypes, Portable
<1>3. /\ cpu.v = warp.v /\ cpu.mem = warp.mem /\ ActiveMask(i) = Active(i)
      /\ cpu' = CpuExecuted(i)
  BY <1>1, CpuRuns
<1>4. /\ Machine(warp') /\ Control(warp') = Advanced(warp)
      /\ Data(warp') = <<warp.v, warp.s, NewMasks(i), warp.mem>>
  BY <1>2, WarpWrites
<1>5. i.rd \in Preds BY <1>1 DEF BadField
<1> DEFINE bits == Mask(i, cpu.v, cpu.p, cpu.s)
           new == (cpu.p[i.rd] \ ActiveMask(i)) \union (bits \intersect ActiveMask(i))
           e == [cpu.p EXCEPT ![i.rd] = new]
           z == [cpu EXCEPT !.p = e]
<1>6. cpu' = CpuNext(z)
  <2>1. cpu' = CpuNext(WritePred(i, bits))
    BY <1>1, <1>3 DEF CpuExecuted, VectorOps, PredicateOps, ScalarOps, NoOps
  <2>2. WritePred(i, bits) = z BY DEF WritePred
  <2> QED BY <2>1, <2>2
<1>7. e \in MaskFiles
  <2>1. Active(i) \subseteq Lanes BY DEF Active
  <2>2. new \subseteq Lanes BY <1>3, <1>5, <2>1 DEF CpuTypes, MaskFiles
  <2> QED BY <2>2 DEF CpuTypes, MaskFiles
<1>8. ASSUME NEW l \in Lanes, NEW q \in Preds
      PROVE  l \in NewMasks(i)[l][q] <=> l \in e[q]
  <2>1. l \in warp.p[l][q] <=> l \in cpu.p[q] BY DEF CpuSame
  <2>2. l \in Mask(i, warp.v, warp.p[l], warp.s[l]) <=> l \in bits BY <1>1, <1>3, CpuBits
  <2> HIDE DEF bits
  <2>3. NewMasks(i)[l][q] = IF l \in Active(i) /\ q = i.rd
                              THEN Mask(i, warp.v, warp.p[l], warp.s[l]) ELSE warp.p[l][q]
    BY DEF NewMasks, Written, WarpInv, MaskFiles
  <2>4. e[q] = IF q = i.rd THEN new ELSE cpu.p[q] BY DEF CpuTypes, MaskFiles
  <2> QED BY <1>3, <2>1, <2>2, <2>3, <2>4
<1> HIDE DEF e
<1>9. Machine(z) /\ Control(z) = Control(cpu) /\ Data(z) = <<cpu.v, cpu.s, e, cpu.mem>>
  BY <1>2, Writing
<1> HIDE DEF z
<1>10. Control(cpu) = Control(warp) BY DEF CpuSame
<1>11. Machine(cpu') /\ Control(cpu') = Advanced(warp) /\ Data(cpu') = Data(z)
  BY <1>6, <1>9, <1>10, CpuAdvances
<1>12. /\ cpu'.v = warp'.v /\ cpu'.mem = warp'.mem
       /\ cpu'.s = cpu.s /\ warp'.s = warp.s /\ cpu'.p = e /\ warp'.p = NewMasks(i)
  BY <1>3, <1>4, <1>9, <1>11 DEF Data
<1>13. \A l \in Lanes : warp'.s[l] = cpu'.s BY <1>12 DEF CpuSame
<1> QED BY <1>4, <1>7, <1>8, <1>11, <1>12, <1>13, CpuFollows

\* The host reaches every active lane exactly when the warp faults in none.
LEMMA CpuReaches ==
  ASSUME NEW i \in Instructions, cpu.v = warp.v, ActiveMask(i) = Active(i)
  PROVE  /\ CpuReached(i) \subseteq Mapped(i, warp.v, Active(i))
         /\ CpuReached(i) = ActiveMask(i) <=> AllMapped(i)
         /\ AllMapped(i) => CpuReached(i) = Active(i)
<1>1. CpuReached(i) \subseteq Mapped(i, warp.v, Active(i)) BY DEF CpuReached
<1>2. Mapped(i, warp.v, Active(i)) \subseteq Active(i) BY DEF Mapped
<1>3. AllMapped(i) => CpuReached(i) = Active(i) BY DEF CpuReached, AllMapped
<1>4. CpuReached(i) = Active(i) => AllMapped(i) BY <1>1, <1>2 DEF AllMapped
<1> QED BY <1>1, <1>3, <1>4

\* What the host leaves in the registers and in memory.
CpuLoads(i) ==
  [l \in Lanes |-> IF l \in CpuReached(i)
                     THEN [cpu.v[l] EXCEPT ![i.rd] = cpu.mem[cpu.v[l][i.rs1]]] ELSE cpu.v[l]]
LastWriter(i, a) ==
  CHOOSE l \in CpuReached(i) : /\ cpu.v[l][i.rd] = a
                               /\ \A k \in CpuReached(i) : cpu.v[k][i.rd] = a => k <= l
CpuStores(i) ==
  [a \in Memory |-> IF \E l \in CpuReached(i) : cpu.v[l][i.rd] = a
                      THEN cpu.v[LastWriter(i, a)][i.rs1] ELSE cpu.mem[a]]

\* Of the lanes that store to an address, one is the last.
LEMMA LastWriterIsOne ==
  ASSUME NEW i \in Instructions, CpuReached(i) \subseteq Lanes,
         NEW a, \E l \in CpuReached(i) : cpu.v[l][i.rd] = a
  PROVE  LastWriter(i, a) \in CpuReached(i) /\ cpu.v[LastWriter(i, a)][i.rd] = a
<1> DEFINE S == {l \in CpuReached(i) : cpu.v[l][i.rd] = a}
<1>1. S \subseteq Words /\ S # {} BY ConstantTypes DEF Lanes, Words
<1>2. \E l \in S : \A k \in S : k <= l
  <2> HIDE DEF S
  <2> QED BY <1>1, GreatestWord
<1>3. \E l \in CpuReached(i) : /\ cpu.v[l][i.rd] = a
                               /\ \A k \in CpuReached(i) : cpu.v[k][i.rd] = a => k <= l
  BY <1>2
<1> QED BY <1>3 DEF LastWriter

\* What the host leaves of an access are words, also when it stopped midway.
LEMMA CpuAccessTypes ==
  ASSUME NEW i \in Instructions, WarpInv, CpuTypes, cpu.v = warp.v, ActiveMask(i) = Active(i)
  PROVE  /\ i.op = "LOAD" => CpuLoads(i) \in VectorFiles
         /\ i.op = "STORE" => CpuStores(i) \in [Memory -> Words]
<1>1. CpuReached(i) \subseteq Lanes /\ CpuReached(i) \subseteq Mapped(i, warp.v, Active(i))
  BY CpuReaches DEF Mapped, Active
<1>2. ASSUME i.op = "LOAD" PROVE CpuLoads(i) \in VectorFiles
  <2>1. ASSUME NEW l \in CpuReached(i)
        PROVE  [cpu.v[l] EXCEPT ![i.rd] = cpu.mem[cpu.v[l][i.rs1]]] \in [Regs -> Words]
    <3>1. cpu.v[l][i.rs1] \in Memory BY <1>1, <1>2, <2>1 DEF Mapped, Address
    <3>2. cpu.mem[cpu.v[l][i.rs1]] \in Words BY <3>1 DEF CpuTypes, Frame
    <3> QED BY <1>1, <3>2 DEF CpuTypes, Frame, VectorFiles
  <2> QED BY <2>1 DEF CpuLoads, CpuTypes, Frame, VectorFiles
<1>3. ASSUME i.op = "STORE" PROVE CpuStores(i) \in [Memory -> Words]
  <2>1. i.rs1 \in Regs BY <1>3, FieldTypes DEF VectorFields
  <2>2. ASSUME NEW a \in Memory, \E l \in CpuReached(i) : cpu.v[l][i.rd] = a
        PROVE  cpu.v[LastWriter(i, a)][i.rs1] \in Words
    <3>1. LastWriter(i, a) \in Lanes BY <1>1, <2>2, LastWriterIsOne
    <3> QED BY <2>1, <3>1 DEF CpuTypes, Frame, VectorFiles
  <2> QED BY <2>2 DEF CpuStores, CpuTypes, Frame
<1> QED BY <1>2, <1>3

\* Memory that no two lanes stored different words to has one content.
LEMMA OneContent ==
  ASSUME NEW i \in Instructions, ~StoresRace(i), i.op = "STORE", AllMapped(i),
         cpu.v = warp.v, cpu.mem = warp.mem, ActiveMask(i) = Active(i),
         NEW m \in Stored(i, warp.v, warp.mem, Active(i))
  PROVE  m = CpuStores(i)
<1>1. CpuReached(i) = Active(i) /\ Mapped(i, warp.v, Active(i)) = Active(i)
  BY CpuReaches DEF AllMapped
<1>2. Active(i) \subseteq Lanes BY DEF Active
<1>3. ASSUME NEW a \in Memory PROVE m[a] = CpuStores(i)[a]
  <2> DEFINE W == {l \in Active(i) : warp.v[l][i.rd] = a}
  <2>1. IF W = {} THEN m[a] = warp.mem[a] ELSE \E l \in W : m[a] = warp.v[l][i.rs1]
    BY <1>1 DEF Stored
  <2>2. CASE W = {} BY <1>1, <2>1, <2>2 DEF CpuStores
  <2>3. CASE W # {}
    <3>1. PICK l \in W : m[a] = warp.v[l][i.rs1] BY <2>1, <2>3
    <3>2. \E k \in CpuReached(i) : cpu.v[k][i.rd] = a BY <1>1, <3>1
    <3>3. LastWriter(i, a) \in Active(i) /\ warp.v[LastWriter(i, a)][i.rd] = a
      BY <1>1, <1>2, <3>2, LastWriterIsOne
    <3>4. warp.v[l][i.rs1] = warp.v[LastWriter(i, a)][i.rs1] BY <3>1, <3>3 DEF StoresRace
    <3> QED BY <3>1, <3>2, <3>4 DEF CpuStores
  <2> QED BY <2>2, <2>3
<1>4. m \in [Memory -> Words] BY DEF Stored
<1> QED BY <1>3, <1>4 DEF CpuStores

\* An access that faults leaves the two with what each had done by then.
LEMMA CpuAccessFaults ==
  ASSUME WarpInv', CpuTypes, CpuSame, Machine(cpu'), Control(cpu') = Stopped(cpu, "MEM"),
         Control(warp') = Stopped(warp, "MEM"),
         cpu'.v \in VectorFiles, cpu'.mem \in [Memory -> Words],
         cpu'.s = cpu.s, cpu'.p = cpu.p, warp'.s = warp.s, warp'.p = warp.p
  PROVE  CpuTypes' /\ CpuSame'
<1>1. Control(cpu') = Control(warp') BY SameControl DEF CpuSame
<1>2. Frame(warp') BY DEF WarpInv
<1>3. Frame(cpu') BY <1>1, <1>2 DEF Control, Frame
<1>4. warp'.fault = "MEM" BY DEF Control, Stopped
<1> QED BY <1>1, <1>3, <1>4 DEF CpuTypes, CpuSame

\* One access, of a LOAD (e = CpuLoads) or a STORE: z is the host after it.
LEMMA CpuAccesses ==
  ASSUME NEW i \in Instructions, CpuTypes, CpuSame, WarpInv', cpu.v = warp.v,
         ActiveMask(i) = Active(i), NEW z, Machine(z), Control(z) = Control(cpu),
         z.s = cpu.s, z.p = cpu.p, z.v \in VectorFiles, z.mem \in [Memory -> Words],
         cpu' = IF CpuReached(i) = ActiveMask(i) THEN CpuNext(z) ELSE CpuFault(z, "MEM"),
         Control(warp') = IF AllMapped(i) THEN Advanced(warp) ELSE Stopped(warp, "MEM"),
         warp'.s = warp.s, warp'.p = warp.p,
         AllMapped(i) => z.v = warp'.v /\ z.mem = warp'.mem
  PROVE  CpuTypes' /\ CpuSame'
<1>1. CpuReached(i) = ActiveMask(i) <=> AllMapped(i) BY CpuReaches
<1>2. Control(cpu) = Control(warp) BY DEF CpuSame
<1>3. CASE AllMapped(i)
  <2>1. Machine(cpu') /\ Control(cpu') = Advanced(warp) /\ Data(cpu') = Data(z)
    BY <1>1, <1>2, <1>3, CpuAdvances
  <2>2. /\ cpu'.v = warp'.v /\ cpu'.mem = warp'.mem /\ cpu'.s = cpu.s /\ cpu'.p = cpu.p
    BY <1>3, <2>1 DEF Data
  <2>3. cpu'.p \in MaskFiles /\ (\A l \in Lanes : warp'.s[l] = cpu'.s)
        /\ \A l \in Lanes, q \in Preds : l \in warp'.p[l][q] <=> l \in cpu'.p[q]
    BY <2>2 DEF CpuTypes, CpuSame
  <2>4. Control(cpu') = Control(warp') BY <1>3, <2>1
  <2> QED BY <2>1, <2>2, <2>3, <2>4, CpuFollows
<1>4. CASE ~AllMapped(i)
  <2>1. cpu' = CpuFault(z, "MEM") BY <1>1, <1>4
  <2>2. Machine(cpu') /\ Control(cpu') = Stopped(z, "MEM") /\ Data(cpu') = Data(z)
    BY <2>1, Stopping DEF CpuFault
  <2>3. Stopped(z, "MEM") = Stopped(cpu, "MEM") BY SameControl
  <2>4. /\ cpu'.v \in VectorFiles /\ cpu'.mem \in [Memory -> Words]
        /\ cpu'.s = cpu.s /\ cpu'.p = cpu.p
    BY <2>2 DEF Data
  <2> QED BY <1>4, <2>2, <2>3, <2>4, CpuAccessFaults
<1> QED BY <1>3, <1>4

\* LOAD and STORE keep the agreement, but for what a fault interrupts.
LEMMA CpuMemoryOp ==
  ASSUME NEW i \in Instructions, WarpInv, CpuTypes, CpuSame, WarpInv', Portable(i),
         peer = "cpu", warp.status = "RUNNING", warp.pc < CodeLength, Step(i), MemoryOp(i)
  PROVE  CpuTypes' /\ CpuSame'
<1>1. i.op \in {"LOAD", "STORE"} /\ ~BadField(i)
  BY DEF MemoryOp, BadField, PredicateOps, ScalarOps
<1>2. Machine(warp) /\ Machine(cpu) /\ ~IllegalGuard(i) /\ ~StoresRace(i)
  BY DEF WarpInv, CpuTypes, Portable
<1>3. /\ cpu.v = warp.v /\ cpu.mem = warp.mem /\ ActiveMask(i) = Active(i)
      /\ cpu' = CpuExecuted(i)
  BY <1>1, CpuRuns
<1>4. /\ Control(warp') = IF AllMapped(i) THEN Advanced(warp) ELSE Stopped(warp, "MEM")
      /\ \/ i.op = "LOAD" /\ Data(warp') = <<NewLoads(i), warp.s, warp.p, warp.mem>>
         \/ /\ i.op = "STORE"
            /\ \E m \in Stored(i, warp.v, warp.mem, Active(i)) :
                 Data(warp') = <<warp.v, warp.s, warp.p, m>>
  BY <1>2, WarpMemory
<1>5. warp'.s = warp.s /\ warp'.p = warp.p BY <1>4 DEF Data
<1>6. cpu' = CpuMemory(i)
  BY <1>1, <1>3 DEF CpuExecuted, VectorOps, PredicateOps, ScalarOps, NoOps
<1>7. CASE i.op = "LOAD"
  <2> DEFINE z == [cpu EXCEPT !.v = CpuLoads(i)]
  <2>1. cpu' = IF CpuReached(i) = ActiveMask(i) THEN CpuNext(z) ELSE CpuFault(z, "MEM")
    BY <1>6, <1>7 DEF CpuMemory, CpuLoads
  <2>2. /\ Machine(z) /\ Control(z) = Control(cpu)
        /\ Data(z) = <<CpuLoads(i), cpu.s, cpu.p, cpu.mem>>
    BY <1>2, Writing
  <2> HIDE DEF z
  <2>3. CpuLoads(i) \in VectorFiles BY <1>3, <1>7, CpuAccessTypes
  <2>4. AllMapped(i) => CpuLoads(i) = NewLoads(i)
    BY <1>3, CpuReaches DEF CpuLoads, NewLoads, AllMapped
  <2>5. warp'.v = NewLoads(i) /\ warp'.mem = warp.mem BY <1>4, <1>7 DEF Data
  <2>6. z.v = CpuLoads(i) /\ z.s = cpu.s /\ z.p = cpu.p /\ z.mem = cpu.mem BY <2>2 DEF Data
  <2>7. z.mem \in [Memory -> Words] BY <2>6 DEF CpuTypes, Frame
  <2> QED BY <1>3, <1>4, <1>5, <2>1, <2>2, <2>3, <2>4, <2>5, <2>6, <2>7, CpuAccesses
<1>8. CASE i.op = "STORE"
  <2> DEFINE z == [cpu EXCEPT !.mem = CpuStores(i)]
  <2>1. cpu' = IF CpuReached(i) = ActiveMask(i) THEN CpuNext(z) ELSE CpuFault(z, "MEM")
    BY <1>6, <1>8 DEF CpuMemory, CpuStores, LastWriter
  <2>2. /\ Machine(z) /\ Control(z) = Control(cpu)
        /\ Data(z) = <<cpu.v, cpu.s, cpu.p, CpuStores(i)>>
    BY <1>2, Writing
  <2> HIDE DEF z
  <2>3. CpuStores(i) \in [Memory -> Words] BY <1>3, <1>8, CpuAccessTypes
  <2>4. PICK m \in Stored(i, warp.v, warp.mem, Active(i)) :
          Data(warp') = <<warp.v, warp.s, warp.p, m>>
    BY <1>4, <1>8
  <2>5. AllMapped(i) => m = CpuStores(i) BY <1>2, <1>3, <1>8, OneContent
  <2>6. warp'.v = warp.v /\ warp'.mem = m BY <2>4 DEF Data
  <2>7. z.v = cpu.v /\ z.s = cpu.s /\ z.p = cpu.p /\ z.mem = CpuStores(i) BY <2>2 DEF Data
  <2>8. z.v \in VectorFiles BY <2>7 DEF CpuTypes, Frame
  <2> QED BY <1>3, <1>4, <1>5, <2>1, <2>2, <2>3, <2>5, <2>6, <2>7, <2>8, CpuAccesses
<1> QED BY <1>1, <1>7, <1>8

\* A turn of both keeps the host's types and its agreement with the warp.
LEMMA CpuStep ==
  ASSUME NEW i \in Instructions, NEW accepted, NEW message, WarpInv, CpuTypes, CpuSame, WarpInv',
         Portable(i), peer = "cpu", VmRun(i, accepted, message), Step(i)
  PROVE  CpuTypes' /\ CpuSame'
<1>1. warp.status = "RUNNING" BY DEF VmRun
<1>2. CASE warp.pc >= CodeLength BY <1>1, <1>2, CpuRunsOff
<1>3. CASE warp.pc < CodeLength
  <2>1. Execute(i, accepted, message) BY <1>3, ConstantTypes DEF VmRun, WarpInv, Frame
  <2>2. ~Send(i, accepted) /\ ~TryRecv(i, message) BY DEF Portable, Send, TryRecv
  <2> QED BY <1>1, <1>3, <2>1, <2>2, CpuControls, CpuCallsAndReturns, CpuVectors, CpuPredicates,
             CpuScalars, CpuMemoryOp DEF Execute
<1> QED BY <1>2, <1>3, ConstantTypes DEF WarpInv, Frame

-----------------------------------------------------------------------------
(* The compiled warp                                                       *)

PtxTypes ==
  /\ Compiled(ptx) /\ Frame(ptx)
  /\ ptx.s \in [Lanes -> ScalarFiles] /\ ptx.m \in [Lanes -> MaskFiles]

PtxSame ==
  /\ ptx.status = warp.status /\ ptx.fault = warp.fault
  /\ warp.fault # "JUMP" => ptx.pc = warp.pc
  /\ ptx.stack = warp.stack /\ ptx.flips = warp.flips
  /\ ptx.v = warp.v /\ ptx.mem = warp.mem /\ ptx.s = warp.s
  /\ \A l, k \in Lanes : ptx.m[l] = ptx.m[k]
  /\ \A l \in Lanes, q \in Preds : l \in warp.p[l][q] <=> l \in ptx.m[l][q]

\* While both run every thread's active mask is the warp's set of active lanes.
LEMMA PtxRuns ==
  ASSUME NEW i \in Instructions, NEW accepted, NEW message, WarpInv, PtxTypes, PtxSame,
         Portable(i), warp.status = "RUNNING", warp.pc < CodeLength,
         PtxStep(i, accepted, message)
  PROVE  /\ Control(ptx) = Control(warp) /\ Accepted(i)
         /\ ptx' \in PtxExecuted(i, accepted, message)
         /\ P2(i) = Active(i) /\ \A l \in Lanes : T9(l, i) = Active(i)
<1>1. Control(ptx) = Control(warp) BY DEF WarpInv, Frame, PtxSame, Control
<1>2. ptx.pc = warp.pc BY <1>1, SameControl
<1>3. Accepted(i) /\ ptx' \in PtxExecuted(i, accepted, message)
  BY <1>2, ConstantTypes DEF PtxStep, WarpInv, Frame
<1>4. i.guard \in Nat BY FieldTypes
<1>5. \A l \in Lanes : T9(l, i) = Active(i)
  <2>1. CASE i.guard = 0 BY <2>1 DEF T9, Active, GuardActive
  <2>2. CASE i.guard # 0
    <3> DEFINE q == GuardPredicate(i.guard)
    <3>1. q \in Preds BY <1>4, <2>2, GuardType
    <3>2. TAKE l \in Lanes
    <3>3. ptx.m[l][q] \subseteq Lanes BY <3>1 DEF PtxTypes, MaskFiles
    <3>4. \A k \in Lanes : k \in warp.p[k][q] <=> k \in ptx.m[l][q]
      BY <3>1 DEF PtxSame
    <3>5. \A k \in Lanes : GuardActive(k, i.guard) <=> ((k \in warp.p[k][q]) # Inverted(i.guard))
      BY <2>2, Zenon DEF GuardActive
    <3>6. \A k \in Lanes : GuardActive(k, i.guard) <=> ((k \in ptx.m[l][q]) # Inverted(i.guard))
      <4>1. \A k \in Lanes : (k \in warp.p[k][q]) = (k \in ptx.m[l][q]) BY <3>4
      <4> HIDE DEF q
      <4> QED BY <3>5, <4>1, Zenon
    <3>7. CASE Inverted(i.guard)
      <4>1. T9(l, i) = Lanes \ ptx.m[l][q] BY <2>2, <3>7 DEF T9
      <4>2. \A k \in Lanes : GuardActive(k, i.guard) <=> k \notin ptx.m[l][q] BY <3>6, <3>7
      <4> QED BY <4>1, <4>2 DEF Active
    <3>8. CASE ~Inverted(i.guard)
      <4>1. T9(l, i) = ptx.m[l][q] BY <2>2, <3>8 DEF T9
      <4>2. \A k \in Lanes : GuardActive(k, i.guard) <=> k \in ptx.m[l][q]
        <5> HIDE DEF q
        <5> QED BY <1>4, <3>6, <3>8, ConstantTypes DEF Inverted
      <4> QED BY <3>3, <4>1, <4>2 DEF Active
    <3> QED BY <3>7, <3>8
  <2> QED BY <2>1, <2>2
<1>6. P2(i) = Active(i) BY <1>5 DEF P2, Active
<1> QED BY <1>1, <1>3, <1>5, <1>6

\* A step that leaves both with the same registers.
LEMMA PtxFollows ==
  ASSUME WarpInv', Compiled(ptx'), Control(ptx') = Control(warp'),
         ptx'.v = warp'.v, ptx'.mem = warp'.mem, ptx'.s = warp'.s,
         ptx'.m \in [Lanes -> MaskFiles], \A l, k \in Lanes : ptx'.m[l] = ptx'.m[k],
         \A l \in Lanes, q \in Preds : l \in warp'.p[l][q] <=> l \in ptx'.m[l][q]
  PROVE  PtxTypes' /\ PtxSame'
<1>1. Frame(warp') /\ warp'.s \in [Lanes -> ScalarFiles] BY DEF WarpInv
<1>2. Frame(ptx') BY <1>1 DEF Control, Frame
<1> QED BY <1>1, <1>2 DEF PtxTypes, PtxSame, Control

\* A step of both that writes no register.
LEMMA PtxStays ==
  ASSUME PtxTypes, PtxSame, WarpInv', Compiled(ptx'), Control(ptx') = Control(warp'),
         PtxData(ptx') = PtxData(ptx), Data(warp') = Data(warp)
  PROVE  PtxTypes' /\ PtxSame'
<1>1. /\ ptx'.v = ptx.v /\ ptx'.s = ptx.s /\ ptx'.m = ptx.m /\ ptx'.mem = ptx.mem
      /\ warp'.v = warp.v /\ warp'.s = warp.s /\ warp'.p = warp.p /\ warp'.mem = warp.mem
  BY DEF Data, PtxData
<1>2. /\ ptx'.v = warp'.v /\ ptx'.mem = warp'.mem /\ ptx'.s = warp'.s
      /\ ptx'.m \in [Lanes -> MaskFiles] /\ \A l, k \in Lanes : ptx'.m[l] = ptx'.m[k]
      /\ \A l \in Lanes, q \in Preds : l \in warp'.p[l][q] <=> l \in ptx'.m[l][q]
  BY <1>1 DEF PtxTypes, PtxSame
<1> QED BY <1>2, PtxFollows

\* A thread that runs off the code faults at any pc.
LEMMA PtxRunsOff ==
  ASSUME NEW i \in Instructions, NEW accepted, NEW message, WarpInv, PtxTypes, PtxSame, WarpInv',
         warp.status = "RUNNING", warp.pc >= CodeLength, VmRun(i, accepted, message),
         PtxStep(i, accepted, message)
  PROVE  PtxTypes' /\ PtxSame'
<1>1. Control(ptx) = Control(warp) BY DEF WarpInv, Frame, PtxSame, Control
<1>2. ptx.pc = warp.pc BY <1>1, SameControl
<1>3. Machine(warp') /\ Data(warp') = Data(warp) /\ Control(warp') = Stopped(warp, "JUMP")
  BY Stopping DEF VmRun, Faulted, WarpInv
<1>4. PICK stale \in 0..CodeLength : ptx' = [PtxFault(ptx, "JUMP") EXCEPT !.pc = stale]
  BY <1>2 DEF PtxStep
<1> DEFINE x == PtxFault(ptx, "JUMP")
<1>5. Compiled(x) /\ Control(x) = Stopped(ptx, "JUMP") /\ PtxData(x) = PtxData(ptx)
  BY CompiledStopping DEF PtxTypes, PtxFault
<1>6. ptx' = [x EXCEPT !.pc = stale] BY <1>4
<1> HIDE DEF x
<1>7. Compiled(ptx') /\ Control(ptx') = At(x, stale) /\ PtxData(ptx') = PtxData(x)
  BY <1>5, <1>6, CompiledMoving
<1>8. /\ ptx'.pc = stale /\ ptx'.stack = ptx.stack /\ ptx'.flips = ptx.flips
      /\ ptx'.status = "FAULTED" /\ ptx'.fault = "JUMP"
  BY <1>5, <1>7 DEF Control, At, Stopped
<1>9. /\ ptx'.v = ptx.v /\ ptx'.s = ptx.s /\ ptx'.m = ptx.m /\ ptx'.mem = ptx.mem
      /\ warp'.v = warp.v /\ warp'.s = warp.s /\ warp'.p = warp.p /\ warp'.mem = warp.mem
  BY <1>3, <1>5, <1>7 DEF Data, PtxData
<1>10. /\ warp'.stack = warp.stack /\ warp'.flips = warp.flips
       /\ warp'.status = "FAULTED" /\ warp'.fault = "JUMP"
  BY <1>3 DEF Control, Stopped
<1>11. PtxTypes' BY <1>7, <1>8, <1>9 DEF PtxTypes, Frame
<1>12. PtxSame' BY <1>8, <1>9, <1>10 DEF PtxSame
<1> QED BY <1>11, <1>12

\* The compiled warp goes on after a write, to where the warp goes.
LEMMA PtxAdvances ==
  ASSUME NEW z, Compiled(z), Control(z) = Control(warp), NEW y, y = PtxNext(z)
  PROVE  Compiled(y) /\ Control(y) = Advanced(warp) /\ PtxData(y) = PtxData(z)
<1>1. Compiled(y) /\ Control(y) = Advanced(z) /\ PtxData(y) = PtxData(z)
  BY CompiledAdvancing DEF PtxNext
<1> QED BY <1>1, SameControl

\* The compiled warp stops where the warp stops.
LEMMA PtxStops ==
  ASSUME NEW z, Compiled(z), Control(z) = Control(warp), NEW c, NEW y, y = PtxFault(z, c)
  PROVE  Compiled(y) /\ Control(y) = Stopped(warp, c) /\ PtxData(y) = PtxData(z)
<1>1. Compiled(y) /\ Control(y) = Stopped(z, c) /\ PtxData(y) = PtxData(z)
  BY CompiledStopping DEF PtxFault
<1> QED BY <1>1, SameControl

\* The compiled warp jumps where the warp jumps.
LEMMA PtxMoves ==
  ASSUME NEW z, Compiled(z), Control(z) = Control(warp), NEW t, NEW y, y = [z EXCEPT !.pc = t]
  PROVE  Compiled(y) /\ Control(y) = At(warp, t) /\ PtxData(y) = PtxData(z)
<1>1. Compiled(y) /\ Control(y) = At(z, t) /\ PtxData(y) = PtxData(z)
  BY CompiledMoving
<1> QED BY <1>1, SameControl

\* The branch mask of a lane of the warp is the active mask of every thread.
LEMMA PtxBranches ==
  ASSUME NEW i \in Instructions, WarpInv, PtxSame, PtxTypes, Portable(i), JumpIf(i)
  PROVE  \A l \in Lanes : BranchMask(0, i) = T9(l, i)
<1> DEFINE q == GuardPredicate(i.guard)
<1>1. q \in shared /\ i.guard # 0 /\ ~IllegalGuard(i)
  BY DEF Portable, JumpIf, WholeMasks, BadField, PredicateOps, ScalarOps
<1>2. 0 \in Lanes BY ConstantTypes DEF Lanes
<1> HIDE DEF q
<1>3. TAKE l \in Lanes
<1>4. \A k \in Lanes : k \in warp.p[0][q] <=> k \in ptx.m[l][q]
  BY <1>1, <1>2 DEF WarpInv, Uniform, PtxSame
<1>5. warp.p[0][q] \subseteq Lanes /\ ptx.m[l][q] \subseteq Lanes
  BY <1>1, <1>2 DEF WarpInv, PtxTypes, MaskFiles
<1>6. warp.p[0][q] = ptx.m[l][q] BY <1>4, <1>5
<1> QED BY <1>1, <1>6 DEF BranchMask, T9, q

\* Instructions that write no register keep the agreement of compiled and
\* interpreted warp.
LEMMA PtxControls ==
  ASSUME NEW i \in Instructions, NEW accepted, NEW message, WarpInv, PtxTypes, PtxSame, WarpInv',
         Portable(i), warp.status = "RUNNING", warp.pc < CodeLength,
         PtxStep(i, accepted, message),
         Send(i, accepted) \/ Flip(i) \/ Jump(i) \/ JumpIf(i) \/ Halt(i) \/ Nothing(i) \/ Bad(i)
  PROVE  PtxTypes' /\ PtxSame'
<1> USE DEF VectorOps, PredicateOps, ScalarOps, NoOps
<1>1. Machine(warp) /\ Compiled(ptx) /\ ~IllegalGuard(i) BY DEF WarpInv, PtxTypes, Portable
<1>2. /\ Control(ptx) = Control(warp) /\ Accepted(i)
      /\ ptx' \in PtxExecuted(i, accepted, message) /\ P2(i) = Active(i)
  BY PtxRuns
<1>3. SUFFICES /\ Compiled(ptx') /\ PtxData(ptx') = PtxData(ptx) /\ Data(warp') = Data(warp)
               /\ Control(ptx') = Control(warp')
  BY PtxStays
<1>4. CASE Send(i, accepted)
  <2>1. i.op = "SEND" BY <1>4 DEF Send
  <2>2. /\ Data(warp') = Data(warp)
        /\ Control(warp') = IF 0 \in Active(i) /\ ~accepted THEN Stopped(warp, "MSG")
                                                            ELSE Advanced(warp)
    BY <1>1, <1>4, WarpSends
  <2>3. ptx' = IF 0 \in Active(i) /\ ~accepted THEN PtxFault(ptx, "MSG") ELSE PtxNext(ptx)
    BY <1>2, <2>1 DEF PtxExecuted
  <2>4. CASE 0 \in Active(i) /\ ~accepted BY <1>1, <1>2, <2>2, <2>3, <2>4, PtxStops
  <2>5. CASE ~(0 \in Active(i) /\ ~accepted) BY <1>1, <1>2, <2>2, <2>3, <2>5, PtxAdvances
  <2> QED BY <2>4, <2>5
<1>5. CASE Flip(i)
  <2>1. i.op = "FLIP" /\ i.guard = 0 BY <1>2, <1>5 DEF Flip, Accepted
  <2>2. Data(warp') = Data(warp) /\ Control(warp') = Flipped(warp)
    BY <1>1, <1>5, <2>1, WarpFlips DEF Flipped
  <2> DEFINE e == (ptx.flips + 1) % Base
             x == [ptx EXCEPT !.flips = e]
  <2>3. ptx' = [x EXCEPT !.pc = @ + 1] BY <1>2, <2>1 DEF PtxExecuted, PtxNext
  <2> HIDE DEF e
  <2>4. /\ Compiled(x) /\ PtxData(x) = PtxData(ptx)
        /\ Control(x) = <<ptx.pc, ptx.stack, e, ptx.status, ptx.fault>>
    BY <1>1 DEF Compiled, PtxData, Control
  <2> HIDE DEF x
  <2>5. Compiled(ptx') /\ Control(ptx') = Advanced(x) /\ PtxData(ptx') = PtxData(x)
    BY <2>3, <2>4, CompiledAdvancing
  <2>6. Advanced(x) = Flipped(ptx) BY <2>4 DEF Control, Advanced, Flipped, e
  <2>7. Flipped(ptx) = Flipped(warp) BY <1>2, SameControl
  <2> QED BY <2>2, <2>4, <2>5, <2>6, <2>7
<1>6. CASE Jump(i)
  <2>1. i.op = "JMP" /\ i.lo < CodeLength BY <1>2, <1>6 DEF Jump, Accepted
  <2>2. Data(warp') = Data(warp) /\ Control(warp') = At(warp, i.lo)
    BY <1>1, <1>6, <2>1, Jumping, FieldTypes, ConstantTypes DEF Jump
  <2>3. ptx' = [ptx EXCEPT !.pc = i.lo] BY <1>2, <2>1 DEF PtxExecuted
  <2> QED BY <1>1, <1>2, <2>2, <2>3, PtxMoves
<1>7. CASE JumpIf(i)
  <2>1. i.op \in {"JMP_IF_ANY", "JMP_IF_ALL"} /\ i.lo < CodeLength
    BY <1>2, <1>7 DEF JumpIf, Accepted
  <2>2. ~(i.lo >= CodeLength) BY <2>1, FieldTypes, ConstantTypes
  <2>3. /\ Data(warp') = Data(warp)
        /\ Control(warp') = IF Takes(i) THEN At(warp, i.lo) ELSE Advanced(warp)
    BY <1>1, <1>7, <2>2, OneWay, WarpBranches DEF Jumped
  <2>4. \A l \in Lanes : BranchMask(0, i) = T9(l, i) BY <1>7, PtxBranches
  <2> DEFINE taken == {l \in Lanes : IF i.op = "JMP_IF_ANY" THEN T9(l, i) # {}
                                                          ELSE T9(l, i) = Lanes}
  <2>5. ptx' = PtxJumpIf(i) BY <1>2, <2>1 DEF PtxExecuted
  <2>6. CASE Takes(i)
    <3>1. taken = Lanes /\ taken # {} BY <2>4, <2>6, ConstantTypes DEF Takes, Lanes
    <3>2. ptx' = [ptx EXCEPT !.pc = i.lo] BY <2>5, <3>1 DEF PtxJumpIf
    <3> QED BY <1>1, <1>2, <2>3, <2>6, <3>2, PtxMoves
  <2>7. CASE ~Takes(i)
    <3>1. taken = {} BY <2>4, <2>7 DEF Takes
    <3>2. ptx' = PtxNext(ptx) BY <2>5, <3>1 DEF PtxJumpIf
    <3> QED BY <1>1, <1>2, <2>3, <2>7, <3>2, PtxAdvances
  <2> QED BY <2>6, <2>7
<1>8. CASE Halt(i)
  <2>1. i.op = "HALT" BY <1>8 DEF Halt
  <2>2. Data(warp') = Data(warp) /\ Control(warp') = Halted(warp)
    BY <1>1, <1>8, WarpHalts DEF Halted
  <2>3. ptx' = [ptx EXCEPT !.status = "HALTED"] BY <1>2, <2>1 DEF PtxExecuted
  <2>4. Compiled(ptx') /\ PtxData(ptx') = PtxData(ptx) /\ Control(ptx') = Halted(ptx)
    BY <1>1, <2>3 DEF Compiled, PtxData, Control, Halted
  <2> QED BY <1>2, <2>2, <2>4, SameControl
<1>9. CASE Nothing(i)
  <2>1. i.op \in NoOps BY <1>9 DEF Nothing
  <2>2. Data(warp') = Data(warp) /\ Control(warp') = Advanced(warp)
    BY <1>1, <1>9, Retiring DEF Nothing
  <2>3. ptx' = PtxNext(ptx) BY <1>2, <2>1 DEF PtxExecuted
  <2> QED BY <1>1, <1>2, <2>2, <2>3, PtxAdvances
<1>10. CASE Bad(i) BY <1>2, <1>10 DEF Bad, Accepted
<1> QED BY <1>4, <1>5, <1>6, <1>7, <1>8, <1>9, <1>10

\* Calls and returns keep the agreement of compiled and interpreted warp.
LEMMA PtxCallsAndReturns ==
  ASSUME NEW i \in Instructions, NEW accepted, NEW message, WarpInv, PtxTypes, PtxSame, WarpInv',
         Portable(i), warp.status = "RUNNING", warp.pc < CodeLength,
         PtxStep(i, accepted, message), Call(i) \/ Ret(i)
  PROVE  PtxTypes' /\ PtxSame'
<1> USE DEF VectorOps, PredicateOps, ScalarOps, NoOps
<1>1. Machine(warp) /\ Compiled(ptx) /\ ~IllegalGuard(i) BY DEF WarpInv, PtxTypes, Portable
<1>2. /\ Control(ptx) = Control(warp) /\ Accepted(i)
      /\ ptx' \in PtxExecuted(i, accepted, message)
  BY PtxRuns
<1>3. SUFFICES /\ Compiled(ptx') /\ PtxData(ptx') = PtxData(ptx) /\ Data(warp') = Data(warp)
               /\ Control(ptx') = Control(warp')
  BY PtxStays
<1>4. ptx.stack = warp.stack BY <1>2, SameControl
<1>5. CASE Call(i)
  <2>1. i.op = "CALL" /\ ~(i.lo >= CodeLength)
    BY <1>2, <1>5, FieldTypes, ConstantTypes DEF Call, Accepted
  <2>2. /\ Data(warp') = Data(warp)
        /\ Control(warp') = IF Len(warp.stack) >= CallDepth THEN Stopped(warp, "STACK")
                                                            ELSE Called(warp, i.lo)
    BY <1>1, <1>5, <2>1, WarpCalls DEF Called
  <2>3. CASE Len(warp.stack) >= CallDepth
    <3>1. ptx' = PtxFault(ptx, "STACK") BY <1>2, <1>4, <2>1, <2>3 DEF PtxExecuted
    <3> QED BY <1>1, <1>2, <2>2, <2>3, <3>1, PtxStops
  <2>4. CASE ~(Len(warp.stack) >= CallDepth)
    <3> DEFINE e == Append(ptx.stack, ptx.pc + 1)
    <3>1. ptx' = [ptx EXCEPT !.pc = i.lo, !.stack = Append(@, ptx.pc + 1)]
      BY <1>2, <1>4, <2>1, <2>4 DEF PtxExecuted
    <3>2. ptx' = [ptx EXCEPT !.pc = i.lo, !.stack = e] BY <3>1
    <3> HIDE DEF e
    <3>3. /\ Compiled(ptx') /\ PtxData(ptx') = PtxData(ptx)
          /\ Control(ptx') = <<i.lo, e, ptx.flips, ptx.status, ptx.fault>>
      BY <1>1, <3>2 DEF Compiled, PtxData, Control
    <3>4. Control(ptx') = Called(ptx, i.lo) BY <3>3 DEF Called, e
    <3>5. Called(ptx, i.lo) = Called(warp, i.lo) BY <1>2, SameControl
    <3> QED BY <2>2, <2>4, <3>3, <3>4, <3>5
  <2> QED BY <2>3, <2>4
<1>6. CASE Ret(i)
  <2>1. i.op = "RET" BY <1>6 DEF Ret
  <2>2. /\ Data(warp') = Data(warp)
        /\ Control(warp') = IF warp.stack = <<>> THEN Stopped(warp, "STACK") ELSE Returned(warp)
    BY <1>1, <1>6, WarpReturns DEF Returned
  <2>3. CASE warp.stack = <<>>
    <3>1. ptx' = PtxFault(ptx, "STACK") BY <1>2, <1>4, <2>1, <2>3 DEF PtxExecuted
    <3> QED BY <1>1, <1>2, <2>2, <2>3, <3>1, PtxStops
  <2>4. CASE warp.stack # <<>>
    <3> DEFINE e == ptx.stack[Len(ptx.stack)]
               f == SubSeq(ptx.stack, 1, Len(ptx.stack) - 1)
    <3>1. ptx' = [ptx EXCEPT !.pc = e, !.stack = f] BY <1>2, <1>4, <2>1, <2>4 DEF PtxExecuted
    <3> HIDE DEF e, f
    <3>2. /\ Compiled(ptx') /\ PtxData(ptx') = PtxData(ptx)
          /\ Control(ptx') = <<e, f, ptx.flips, ptx.status, ptx.fault>>
      BY <1>1, <3>1 DEF Compiled, PtxData, Control
    <3>3. Control(ptx') = Returned(ptx) BY <3>2 DEF Returned, e, f
    <3>4. Returned(ptx) = Returned(warp) BY <1>2, SameControl
    <3> QED BY <2>2, <2>4, <3>2, <3>3, <3>4
  <2> QED BY <2>3, <2>4
<1> QED BY <1>5, <1>6

\* Vectors and scalars: every thread writes what its lane of the warp writes.
LEMMA PtxWrites ==
  ASSUME NEW i \in Instructions, NEW accepted, NEW message, WarpInv, PtxTypes, PtxSame, WarpInv',
         Portable(i), warp.status = "RUNNING", warp.pc < CodeLength,
         PtxStep(i, accepted, message), VectorOp(i) \/ ScalarOp(i)
  PROVE  PtxTypes' /\ PtxSame'
<1> USE DEF VectorOps, PredicateOps, ScalarOps, NoOps
<1>1. Machine(warp) /\ Compiled(ptx) /\ ~IllegalGuard(i) BY DEF WarpInv, PtxTypes, Portable
<1>2. /\ Control(ptx) = Control(warp) /\ Accepted(i)
      /\ ptx' \in PtxExecuted(i, accepted, message) /\ P2(i) = Active(i)
  BY PtxRuns
<1>3. ptx.v = warp.v /\ ptx.s = warp.s /\ ptx.mem = warp.mem BY DEF PtxSame
<1>4. ASSUME ptx'.m = ptx.m, warp'.p = warp.p
      PROVE  /\ ptx'.m \in [Lanes -> MaskFiles] /\ \A l, k \in Lanes : ptx'.m[l] = ptx'.m[k]
             /\ \A l \in Lanes, q \in Preds : l \in warp'.p[l][q] <=> l \in ptx'.m[l][q]
  BY <1>4 DEF PtxTypes, PtxSame
<1>5. CASE VectorOp(i)
  <2>1. i.op \in VectorOps /\ (i.op = "LDW" => i.lo < Len(Literals))
    BY <1>5 DEF VectorOp, Portable
  <2>2. /\ Control(warp') = Advanced(warp)
        /\ Data(warp') = <<NewVectors(i), warp.s, warp.p, warp.mem>>
    BY <1>1, <1>5, <2>1, WarpWrites
  <2> DEFINE e == [l \in Lanes |->
                     IF l \in P2(i)
                       THEN [ptx.v[l] EXCEPT ![i.rd] = VectorValue(i, ptx.v, ptx.s[l], l)]
                       ELSE ptx.v[l]]
             z == [ptx EXCEPT !.v = e]
  <2>3. ptx' = PtxNext(z)
    <3>1. ptx' = PtxNext(PtxVector(i)) BY <1>2, <2>1 DEF PtxExecuted
    <3>2. PtxVector(i) = z BY DEF PtxVector
    <3> QED BY <3>1, <3>2
  <2>4. e = NewVectors(i) BY <1>2, <1>3 DEF NewVectors, Written
  <2> HIDE DEF e
  <2>5. Compiled(z) /\ Control(z) = Control(ptx) /\ PtxData(z) = <<e, ptx.s, ptx.m, ptx.mem>>
    BY <1>1, CompiledWriting
  <2> HIDE DEF z
  <2>6. Compiled(ptx') /\ Control(ptx') = Advanced(warp) /\ PtxData(ptx') = PtxData(z)
    BY <1>2, <2>3, <2>5, PtxAdvances
  <2>7. /\ ptx'.v = warp'.v /\ ptx'.mem = warp'.mem /\ ptx'.s = warp'.s
        /\ ptx'.m = ptx.m /\ warp'.p = warp.p
    BY <1>3, <2>2, <2>4, <2>5, <2>6 DEF Data, PtxData
  <2> QED BY <1>4, <2>2, <2>6, <2>7, PtxFollows
<1>6. CASE ScalarOp(i)
  <2>1. i.op \in ScalarOps BY <1>6 DEF ScalarOp
  <2>2. /\ Control(warp') = Advanced(warp)
        /\ Data(warp') = <<warp.v, NewScalars(i), warp.p, warp.mem>>
    BY <1>1, <1>6, WarpWrites
  <2> DEFINE e == [l \in Lanes |->
                     IF l \in P2(i)
                       THEN [ptx.s[l] EXCEPT ![i.rd] = ScalarValue(i, ptx.v, ptx.s[l])]
                       ELSE ptx.s[l]]
             z == [ptx EXCEPT !.s = e]
  <2>3. ptx' = PtxNext(z)
    <3>1. ptx' = PtxNext(PtxScalar(i)) BY <1>2, <2>1 DEF PtxExecuted
    <3>2. PtxScalar(i) = z BY DEF PtxScalar
    <3> QED BY <3>1, <3>2
  <2>4. e = NewScalars(i) BY <1>2, <1>3 DEF NewScalars, Written
  <2> HIDE DEF e
  <2>5. Compiled(z) /\ Control(z) = Control(ptx) /\ PtxData(z) = <<ptx.v, e, ptx.m, ptx.mem>>
    BY <1>1, CompiledWriting
  <2> HIDE DEF z
  <2>6. Compiled(ptx') /\ Control(ptx') = Advanced(warp) /\ PtxData(ptx') = PtxData(z)
    BY <1>2, <2>3, <2>5, PtxAdvances
  <2>7. /\ ptx'.v = warp'.v /\ ptx'.mem = warp'.mem /\ ptx'.s = warp'.s
        /\ ptx'.m = ptx.m /\ warp'.p = warp.p
    BY <1>3, <2>2, <2>4, <2>5, <2>6 DEF Data, PtxData
  <2> QED BY <1>4, <2>2, <2>6, <2>7, PtxFollows
<1> QED BY <1>5, <1>6

\* The bit of a lane in the mask that its thread computes is its bit in the
\* mask that it computes interpreted, and the threads compute one mask.
LEMMA PtxMaskBits ==
  ASSUME NEW i \in Instructions, WarpInv, PtxTypes, PtxSame, Portable(i), ~BadField(i),
         i.op \in PredicateOps, NEW l \in Lanes
  PROVE  /\ l \in Mask(i, warp.v, warp.p[l], warp.s[l]) <=> l \in Mask(i, ptx.v, ptx.m[l], ptx.s[l])
         /\ \A k \in Lanes : Mask(i, ptx.v, ptx.m[l], ptx.s[l]) = Mask(i, ptx.v, ptx.m[k], ptx.s[k])
<1>1. warp.s[l] = ptx.s[l] /\ warp.v = ptx.v BY DEF PtxSame
<1>2. \A q \in Preds : l \in warp.p[l][q] <=> l \in ptx.m[l][q] BY DEF PtxSame
<1>3. \A k \in Lanes : ptx.m[l] = ptx.m[k] /\ ptx.s[l] = ptx.s[k]
  BY DEF PtxSame, WarpInv, Uniform
<1>4. CASE i.op \in {"CMP_LT", "BALLOT", "S_CMP_LT"} BY <1>1, <1>3, <1>4 DEF Mask
<1>5. CASE i.op = "NOTMASK"
  <2>1. i.rs1 \in Preds BY <1>5 DEF BadField
  <2> QED BY <1>2, <1>3, <1>5, <2>1 DEF Mask
<1>6. CASE i.op = "ANDMASK"
  <2>1. i.rs1 \in Preds /\ i.lo \in Preds BY <1>6 DEF BadField
  <2> QED BY <1>2, <1>3, <1>6, <2>1 DEF Mask
<1>7. CASE i.op = "ALL"
  <2>1. i.rs1 \in shared BY <1>7 DEF Portable, WholeMasks
  <2>2. \A k \in Lanes : k \in warp.p[l][i.rs1] <=> k \in ptx.m[l][i.rs1]
    BY <2>1 DEF WarpInv, Uniform, PtxSame
  <2>3. warp.p[l][i.rs1] \subseteq Lanes /\ ptx.m[l][i.rs1] \subseteq Lanes
    BY <2>1 DEF WarpInv, PtxTypes, MaskFiles
  <2>4. warp.p[l][i.rs1] = ptx.m[l][i.rs1] BY <2>2, <2>3
  <2> QED BY <1>3, <1>7, <2>4 DEF Mask
<1> QED BY <1>4, <1>5, <1>6, <1>7 DEF PredicateOps

\* The masks that the threads keep after they wrote bits under the active mask.
Merges(i, bits) ==
  [l \in Lanes |-> [ptx.m[l] EXCEPT
     ![i.rd] = (ptx.m[l][i.rd] \ Active(i)) \union (bits[l] \intersect Active(i))]]

\* The masks that the warp keeps after its active lanes wrote one each.
Replaces(i, mask) ==
  Written(i, warp.p, [l \in Lanes |-> [warp.p[l] EXCEPT ![i.rd] = mask[l]]])

\* If the masks written agree in each active lane's own bit, so do those kept, and
\* the threads still keep one.
LEMMA Merging ==
  ASSUME NEW i \in Instructions, WarpInv, PtxTypes, PtxSame, i.rd \in Preds,
         NEW bits, \A l, k \in Lanes : bits[l] = bits[k],
         NEW mask, \A l \in Active(i) : l \in mask[l] <=> l \in bits[l]
  PROVE  /\ Merges(i, bits) \in [Lanes -> MaskFiles]
         /\ \A l, k \in Lanes : Merges(i, bits)[l] = Merges(i, bits)[k]
         /\ \A l \in Lanes, q \in Preds :
              l \in Replaces(i, mask)[l][q] <=> l \in Merges(i, bits)[l][q]
<1>1. Active(i) \subseteq Lanes BY DEF Active
<1>2. Merges(i, bits) \in [Lanes -> MaskFiles]
  <2>1. ASSUME NEW l \in Lanes PROVE ptx.m[l][i.rd] \subseteq Lanes
    BY DEF PtxTypes, MaskFiles
  <2> QED BY <1>1, <2>1 DEF Merges, PtxTypes, MaskFiles
<1>3. \A l, k \in Lanes : Merges(i, bits)[l] = Merges(i, bits)[k]
  <2>1. \A l, k \in Lanes : ptx.m[l] = ptx.m[k] BY DEF PtxSame
  <2> QED BY <2>1 DEF Merges
<1>4. ASSUME NEW l \in Lanes, NEW q \in Preds
      PROVE  l \in Replaces(i, mask)[l][q] <=> l \in Merges(i, bits)[l][q]
  <2>1. l \in warp.p[l][q] <=> l \in ptx.m[l][q] BY DEF PtxSame
  <2>2. Replaces(i, mask)[l][q] = IF l \in Active(i) /\ q = i.rd THEN mask[l] ELSE warp.p[l][q]
    BY DEF Replaces, Written, WarpInv, MaskFiles
  <2>3. Merges(i, bits)[l][q] =
          IF q = i.rd THEN (ptx.m[l][q] \ Active(i)) \union (bits[l] \intersect Active(i))
                      ELSE ptx.m[l][q]
    BY DEF Merges, PtxTypes, MaskFiles
  <2> QED BY <2>1, <2>2, <2>3
<1> QED BY <1>2, <1>3, <1>4

\* Predicate instructions: votes of the active lanes, merged under the active mask.
LEMMA PtxPredicates ==
  ASSUME NEW i \in Instructions, NEW accepted, NEW message, WarpInv, PtxTypes, PtxSame, WarpInv',
         Portable(i), warp.status = "RUNNING", warp.pc < CodeLength,
         PtxStep(i, accepted, message), PredicateOp(i)
  PROVE  PtxTypes' /\ PtxSame'
<1>1. Machine(warp) /\ Compiled(ptx) /\ ~IllegalGuard(i) BY DEF WarpInv, PtxTypes, Portable
<1>2. /\ Control(ptx) = Control(warp) /\ Accepted(i)
      /\ ptx' \in PtxExecuted(i, accepted, message) /\ P2(i) = Active(i)
      /\ \A l \in Lanes : T9(l, i) = Active(i)
  BY PtxRuns
<1>3. ptx.v = warp.v /\ ptx.s = warp.s /\ ptx.mem = warp.mem BY DEF PtxSame
<1>4. i.op \in PredicateOps /\ ~BadField(i) /\ i.rd \in Preds BY DEF PredicateOp, BadField
<1>5. /\ Control(warp') = Advanced(warp)
      /\ Data(warp') = <<warp.v, warp.s, NewMasks(i), warp.mem>>
  BY <1>1, WarpWrites
<1> DEFINE bits == [l \in Lanes |-> PtxBits(i, l)]
           mask == [l \in Lanes |-> Mask(i, warp.v, warp.p[l], warp.s[l])]
           z == [ptx EXCEPT !.m = Merges(i, bits)]
<1>6. ptx' = PtxNext(z)
  <2>1. ptx' = PtxNext(PtxPredicate(i))
    BY <1>2, <1>4 DEF PtxExecuted, VectorOps, PredicateOps, ScalarOps, NoOps
  <2>2. PtxPredicate(i) = z
    <3>1. CASE i.op = "S_CMP_LT"
      <4>1. Active(i) = Lanes BY <1>2, <3>1 DEF Accepted, Active, GuardActive
      <4>2. \A l \in Lanes : ptx.m[l][i.rd] \subseteq Lanes /\ PtxBits(i, l) \subseteq Lanes
        BY <1>4, <3>1 DEF PtxTypes, MaskFiles, PtxBits, Mask
      <4>3. \A l \in Lanes :
              (ptx.m[l][i.rd] \ Active(i)) \union (bits[l] \intersect Active(i)) = PtxBits(i, l)
        BY <4>1, <4>2
      <4>4. Merges(i, bits) = [l \in Lanes |-> [ptx.m[l] EXCEPT ![i.rd] = PtxBits(i, l)]]
        BY <4>3 DEF Merges
      <4> QED BY <3>1, <4>4 DEF PtxPredicate
    <3>2. CASE i.op # "S_CMP_LT"
      <4>1. Merges(i, bits) = [l \in Lanes |-> Merged(i, l, PtxBits(i, l))]
        BY <1>2 DEF Merges, Merged
      <4> QED BY <3>2, <4>1 DEF PtxPredicate
    <3> QED BY <3>1, <3>2
  <2> QED BY <2>1, <2>2
<1>7. \A l, k \in Lanes : bits[l] = bits[k] BY <1>4, PtxMaskBits DEF PtxBits
<1>8. \A l \in Active(i) : l \in mask[l] <=> l \in bits[l]
  <2>1. ASSUME NEW l \in Active(i) PROVE l \in mask[l] <=> l \in bits[l]
    <3>1. l \in Lanes BY DEF Active
    <3>2. l \in mask[l] <=> l \in Mask(i, ptx.v, ptx.m[l], ptx.s[l]) BY <1>4, <3>1, PtxMaskBits
    <3>3. l \in bits[l] <=> l \in Mask(i, ptx.v, ptx.m[l], ptx.s[l])
      BY <1>2, <3>1 DEF PtxBits
    <3> QED BY <3>2, <3>3
  <2> QED BY <2>1
<1>9. NewMasks(i) = Replaces(i, mask) BY DEF NewMasks, Replaces
<1> HIDE DEF bits, mask
<1>10. /\ Merges(i, bits) \in [Lanes -> MaskFiles]
       /\ \A l, k \in Lanes : Merges(i, bits)[l] = Merges(i, bits)[k]
       /\ \A l \in Lanes, q \in Preds : l \in NewMasks(i)[l][q] <=> l \in Merges(i, bits)[l][q]
  BY <1>4, <1>7, <1>8, <1>9, Merging
<1>11. Compiled(z) /\ Control(z) = Control(ptx)
       /\ PtxData(z) = <<ptx.v, ptx.s, Merges(i, bits), ptx.mem>>
  BY <1>1, CompiledWriting
<1> HIDE DEF z
<1>12. Compiled(ptx') /\ Control(ptx') = Advanced(warp) /\ PtxData(ptx') = PtxData(z)
  BY <1>2, <1>6, <1>11, PtxAdvances
<1>13. /\ ptx'.v = warp'.v /\ ptx'.mem = warp'.mem /\ ptx'.s = warp'.s
       /\ ptx'.m = Merges(i, bits) /\ warp'.p = NewMasks(i)
  BY <1>3, <1>5, <1>11, <1>12 DEF Data, PtxData
<1> QED BY <1>5, <1>10, <1>12, <1>13, PtxFollows

\* TRY_RECV: the threads merge all bits or none and take the words.
LEMMA PtxReceives ==
  ASSUME NEW i \in Instructions, NEW accepted, NEW message, WarpInv, PtxTypes, PtxSame, WarpInv',
         Portable(i), warp.status = "RUNNING", warp.pc < CodeLength,
         PtxStep(i, accepted, message), TryRecv(i, message)
  PROVE  PtxTypes' /\ PtxSame'
<1>1. Machine(warp) /\ Compiled(ptx) /\ ~IllegalGuard(i) BY DEF WarpInv, PtxTypes, Portable
<1>2. /\ Control(ptx) = Control(warp)
      /\ ptx' \in PtxExecuted(i, accepted, message) /\ P2(i) = Active(i)
      /\ \A l \in Lanes : T9(l, i) = Active(i)
  BY PtxRuns
<1>3. ptx.v = warp.v /\ ptx.s = warp.s /\ ptx.mem = warp.mem BY DEF PtxSame
<1>4. i.op = "TRY_RECV" /\ i.rd \in Preds BY DEF TryRecv, BadField
<1>5. /\ Control(warp') = Advanced(warp)
      /\ Data(warp') = <<ReceivedWords(i, message), warp.s, ReceivedMasks(i, message), warp.mem>>
  BY <1>1, WarpReceives
<1> DEFINE bits == [l \in Lanes |-> IF Got(i, message) THEN Lanes ELSE {}]
           words == [l \in Lanes |-> IF Got(i, message) /\ l \in Active(i)
                                       THEN Received(i, ptx.v[l], message) ELSE ptx.v[l]]
           z == [ptx EXCEPT !.m = Merges(i, bits), !.v = words]
<1>6. ptx' = PtxNext(z)
  <2>1. ptx' = PtxNext(PtxTryRecv(i, message))
    BY <1>2, <1>4 DEF PtxExecuted, VectorOps, PredicateOps, ScalarOps, NoOps
  <2>2. Merges(i, bits) =
          [l \in Lanes |-> Merged(i, l, IF Got(i, message) THEN Lanes ELSE {})]
    BY <1>2 DEF Merges, Merged
  <2>3. PtxTryRecv(i, message) = z BY <1>2, <2>2 DEF PtxTryRecv, Got
  <2> QED BY <2>1, <2>3
<1>7. ReceivedMasks(i, message) = Replaces(i, bits) BY DEF ReceivedMasks, Replaces
<1>8. words = ReceivedWords(i, message)
  <2>1. warp.v = [l \in Lanes |-> warp.v[l]] BY DEF WarpInv, Frame, VectorFiles
  <2>2. CASE Got(i, message) BY <1>3, <2>2 DEF ReceivedWords, Written
  <2>3. CASE ~Got(i, message) BY <1>3, <2>1, <2>3 DEF ReceivedWords
  <2> QED BY <2>2, <2>3
<1>9. \A l, k \in Lanes : bits[l] = bits[k] OBVIOUS
<1> HIDE DEF bits, words
<1>10. /\ Merges(i, bits) \in [Lanes -> MaskFiles]
       /\ \A l, k \in Lanes : Merges(i, bits)[l] = Merges(i, bits)[k]
       /\ \A l \in Lanes, q \in Preds :
            l \in ReceivedMasks(i, message)[l][q] <=> l \in Merges(i, bits)[l][q]
  BY <1>4, <1>7, <1>9, Merging
<1>11. Compiled(z) /\ Control(z) = Control(ptx)
       /\ PtxData(z) = <<words, ptx.s, Merges(i, bits), ptx.mem>>
  BY <1>1, CompiledWritingTwo
<1> HIDE DEF z
<1>12. Compiled(ptx') /\ Control(ptx') = Advanced(warp) /\ PtxData(ptx') = PtxData(z)
  BY <1>2, <1>6, <1>11, PtxAdvances
<1>13. /\ ptx'.v = warp'.v /\ ptx'.mem = warp'.mem /\ ptx'.s = warp'.s
       /\ ptx'.m = Merges(i, bits) /\ warp'.p = ReceivedMasks(i, message)
  BY <1>3, <1>5, <1>8, <1>11, <1>12 DEF Data, PtxData
<1> QED BY <1>5, <1>10, <1>12, <1>13, PtxFollows

\* Where no two lanes store different words to an address, a STORE leaves one
\* memory.
LEMMA StoresOnce ==
  ASSUME NEW i, ~StoresRace(i), i.op = "STORE",
         NEW m \in Stored(i, warp.v, warp.mem, Active(i)),
         NEW n \in Stored(i, warp.v, warp.mem, Active(i))
  PROVE  m = n
<1>1. ASSUME NEW a \in Memory PROVE m[a] = n[a]
  <2> DEFINE W == {l \in Mapped(i, warp.v, Active(i)) : warp.v[l][i.rd] = a}
  <2>1. /\ IF W = {} THEN m[a] = warp.mem[a] ELSE \E l \in W : m[a] = warp.v[l][i.rs1]
        /\ IF W = {} THEN n[a] = warp.mem[a] ELSE \E l \in W : n[a] = warp.v[l][i.rs1]
    BY DEF Stored
  <2>2. \A l, k \in W : warp.v[l][i.rs1] = warp.v[k][i.rs1] BY DEF Mapped, StoresRace
  <2> QED BY <2>1, <2>2
<1>2. m \in [Memory -> Words] /\ n \in [Memory -> Words] BY DEF Stored
<1> QED BY <1>1, <1>2

\* LOAD and STORE keep the agreement: no load follows what it has just loaded.
LEMMA PtxMemoryOp ==
  ASSUME NEW i \in Instructions, NEW accepted, NEW message, WarpInv, PtxTypes, PtxSame, WarpInv',
         Portable(i), ~LoadsTwice(i), peer = "ptx", warp.status = "RUNNING", warp.pc < CodeLength,
         PtxStep(i, accepted, message), MemoryOp(i)
  PROVE  PtxTypes' /\ PtxSame'
<1>1. Machine(warp) /\ Compiled(ptx) /\ ~IllegalGuard(i) /\ ~StoresRace(i)
  BY DEF WarpInv, PtxTypes, Portable
<1>2. /\ Control(ptx) = Control(warp)
      /\ ptx' \in PtxExecuted(i, accepted, message) /\ P2(i) = Active(i)
  BY PtxRuns
<1>3. ptx.v = warp.v /\ ptx.s = warp.s /\ ptx.mem = warp.mem BY DEF PtxSame
<1>4. /\ Control(warp') = IF AllMapped(i) THEN Advanced(warp) ELSE Stopped(warp, "MEM")
      /\ \/ i.op = "LOAD" /\ Data(warp') = <<NewLoads(i), warp.s, warp.p, warp.mem>>
         \/ /\ i.op = "STORE"
            /\ \E m \in Stored(i, warp.v, warp.mem, Active(i)) :
                 Data(warp') = <<warp.v, warp.s, warp.p, m>>
  BY <1>1, WarpMemory
<1>5. ptx' \in PtxMemory(i)
  BY <1>2 DEF MemoryOp, PtxExecuted, VectorOps, PredicateOps, ScalarOps, NoOps
<1>6. ASSUME NEW z, Compiled(z), Control(z) = Control(ptx),
             PtxData(z) = <<warp'.v, warp'.s, ptx.m, warp'.mem>>, warp'.p = warp.p,
             ptx' = IF AllMapped(i) THEN PtxNext(z) ELSE PtxFault(z, "MEM")
      PROVE  PtxTypes' /\ PtxSame'
  <2>1. Compiled(ptx') /\ Control(ptx') = Control(warp') /\ PtxData(ptx') = PtxData(z)
    <3>1. CASE AllMapped(i) BY <1>2, <1>4, <1>6, <3>1, PtxAdvances
    <3>2. CASE ~AllMapped(i) BY <1>2, <1>4, <1>6, <3>2, PtxStops
    <3> QED BY <3>1, <3>2
  <2>2. /\ ptx'.v = warp'.v /\ ptx'.mem = warp'.mem /\ ptx'.s = warp'.s /\ ptx'.m = ptx.m
    BY <1>6, <2>1 DEF PtxData
  <2>3. /\ ptx'.m \in [Lanes -> MaskFiles] /\ \A l, k \in Lanes : ptx'.m[l] = ptx'.m[k]
        /\ \A l \in Lanes, q \in Preds : l \in warp'.p[l][q] <=> l \in ptx'.m[l][q]
    BY <1>6, <2>2 DEF PtxTypes, PtxSame
  <2> QED BY <2>1, <2>2, <2>3, PtxFollows
<1>7. CASE i.op = "LOAD"
  <2> DEFINE e == [l \in Lanes |-> IF l \in Mapped(i, ptx.v, P2(i))
                                     THEN [ptx.v[l] EXCEPT ![i.rd] = PtxLoaded(i, l)]
                                     ELSE ptx.v[l]]
             z == [ptx EXCEPT !.v = e]
  <2>1. ptx' = IF AllMapped(i) THEN PtxNext(z) ELSE PtxFault(z, "MEM")
    BY <1>2, <1>3, <1>5, <1>7 DEF PtxMemory, AllMapped
  <2>2. e = NewLoads(i)
    <3>1. \A l \in Active(i) : PtxLoaded(i, l) = warp.mem[warp.v[l][i.rs1]]
      BY <1>3, <1>7 DEF PtxLoaded, LoadsTwice
    <3>2. Mapped(i, warp.v, Active(i)) \subseteq Active(i) BY DEF Mapped
    <3> QED BY <1>2, <1>3, <3>1, <3>2 DEF NewLoads
  <2> HIDE DEF e
  <2>3. Compiled(z) /\ Control(z) = Control(ptx) /\ PtxData(z) = <<e, ptx.s, ptx.m, ptx.mem>>
    BY <1>1, CompiledWriting
  <2> HIDE DEF z
  <2>4. warp'.v = e /\ warp'.s = ptx.s /\ warp'.mem = ptx.mem /\ warp'.p = warp.p
    BY <1>3, <1>4, <1>7, <2>2 DEF Data
  <2> QED BY <1>6, <2>1, <2>3, <2>4
<1>8. CASE i.op = "STORE"
  <2>1. PICK m \in Stored(i, warp.v, warp.mem, Active(i)) :
          ptx' = IF AllMapped(i) THEN PtxNext([ptx EXCEPT !.mem = m])
                                 ELSE PtxFault([ptx EXCEPT !.mem = m], "MEM")
    BY <1>2, <1>3, <1>5, <1>8 DEF PtxMemory, AllMapped
  <2>2. PICK n \in Stored(i, warp.v, warp.mem, Active(i)) :
          Data(warp') = <<warp.v, warp.s, warp.p, n>>
    BY <1>4, <1>8
  <2>3. m = n BY <1>1, <1>8, StoresOnce
  <2> DEFINE z == [ptx EXCEPT !.mem = m]
  <2>4. Compiled(z) /\ Control(z) = Control(ptx) /\ PtxData(z) = <<ptx.v, ptx.s, ptx.m, m>>
    BY <1>1, CompiledWriting
  <2>5. ptx' = IF AllMapped(i) THEN PtxNext(z) ELSE PtxFault(z, "MEM") BY <2>1
  <2> HIDE DEF z
  <2>6. warp'.v = ptx.v /\ warp'.s = ptx.s /\ warp'.mem = m /\ warp'.p = warp.p
    BY <1>3, <2>2, <2>3 DEF Data
  <2> QED BY <1>6, <2>4, <2>5, <2>6
<1> QED BY <1>7, <1>8 DEF MemoryOp

\* A turn of both keeps the compiled warp's types and its agreement.
LEMMA PtxTurn ==
  ASSUME NEW i \in Instructions, NEW accepted, NEW message, WarpInv, PtxTypes, PtxSame, WarpInv',
         Portable(i), ~LoadsTwice(i), peer = "ptx", VmRun(i, accepted, message),
         PtxStep(i, accepted, message)
  PROVE  PtxTypes' /\ PtxSame'
<1>1. warp.status = "RUNNING" BY DEF VmRun
<1>2. CASE warp.pc >= CodeLength BY <1>1, <1>2, PtxRunsOff
<1>3. CASE warp.pc < CodeLength
  <2>1. Execute(i, accepted, message) BY <1>3, ConstantTypes DEF VmRun, WarpInv, Frame
  <2> QED BY <1>1, <1>3, <2>1, PtxControls, PtxCallsAndReturns, PtxWrites, PtxPredicates,
             PtxMemoryOp, PtxReceives DEF Execute
<1> QED BY <1>2, <1>3, ConstantTypes DEF WarpInv, Frame

-----------------------------------------------------------------------------
(* The invariant of the engines                                            *)

EnginesInv ==
  /\ WarpInv /\ CpuTypes /\ PtxTypes
  /\ peer \in {"cpu", "ptx"}
  /\ peer = "cpu" => CpuSame
  /\ peer = "ptx" => PtxSame

\* All engines start alike, with nothing in the registers.
LEMMA InitInv == Init => EnginesInv
<1> SUFFICES ASSUME Init PROVE EnginesInv OBVIOUS
<1> USE DEF Init, WarpInit, CpuInit, PtxInit
<1>1. 0 \in Words /\ 0 \in 0..CodeLength /\ 0 <= CallDepth BY ConstantTypes DEF Words
<1>2. <<>> \in Seq(0..CodeLength) /\ Len(<<>>) = 0 BY EmptySeq
<1>3. /\ Machine(warp) /\ Machine(cpu) /\ Compiled(ptx) BY DEF Machine, Compiled
<1>4. Frame(warp) BY <1>1, <1>2 DEF Frame, VectorFiles
<1>5. Frame(cpu) BY <1>1, <1>2 DEF Frame, VectorFiles
<1>6. Frame(ptx) BY <1>1, <1>2 DEF Frame, VectorFiles
<1>7. WarpInv BY <1>1, <1>3, <1>4 DEF WarpInv, Uniform, ScalarFiles, MaskFiles
<1>8. CpuTypes BY <1>1, <1>3, <1>5 DEF CpuTypes, ScalarFiles, MaskFiles
<1>9. PtxTypes BY <1>1, <1>3, <1>6 DEF PtxTypes, ScalarFiles, MaskFiles
<1>10. CpuSame BY DEF CpuSame, Control
<1>11. PtxSame BY DEF PtxSame
<1> QED BY <1>7, <1>8, <1>9, <1>10, <1>11 DEF EnginesInv

\* Every turn keeps the invariant, whatever the mailbox answers.
LEMMA NextInv == EnginesInv /\ [Next]_vars => EnginesInv'
<1> SUFFICES ASSUME EnginesInv, [Next]_vars PROVE EnginesInv' OBVIOUS
<1>1. CASE Next
  <2>1. PICK i \in Instructions : Portable(i) /\ ~LoadsTwice(i) /\ AnyTurn(i) BY <1>1 DEF Next
  <2>2. PICK accepted \in Verdicts(i), message \in Inbox(i) : Turn(i, accepted, message)
    BY <2>1 DEF AnyTurn
  <2>3. message \in Messages BY DEF Inbox, Messages
  <2>4. VmRun(i, accepted, message) /\ shared' = Sharing(i) /\ peer' = peer BY <2>2 DEF Turn
  <2>5. WarpInv' BY <2>1, <2>3, <2>4, WarpStep DEF EnginesInv
  <2>6. CASE peer = "cpu"
    <3>1. Step(i) /\ ptx' = ptx BY <2>2, <2>6 DEF Turn
    <3>2. CpuTypes' /\ CpuSame' BY <2>1, <2>4, <2>5, <2>6, <3>1, CpuStep DEF EnginesInv
    <3>3. PtxTypes' BY <3>1 DEF EnginesInv, PtxTypes, Compiled, Frame
    <3> QED BY <2>4, <2>5, <2>6, <3>2, <3>3 DEF EnginesInv
  <2>7. CASE peer = "ptx"
    <3>1. PtxStep(i, accepted, message) /\ cpu' = cpu BY <2>2, <2>7 DEF Turn
    <3>2. PtxTypes' /\ PtxSame' BY <2>1, <2>4, <2>5, <2>7, <3>1, PtxTurn DEF EnginesInv
    <3>3. CpuTypes' BY <3>1 DEF EnginesInv, CpuTypes, Machine, Frame
    <3> QED BY <2>4, <2>5, <2>7, <3>2, <3>3 DEF EnginesInv
  <2> QED BY <2>6, <2>7 DEF EnginesInv
<1>2. CASE UNCHANGED vars
  BY <1>2 DEF vars, EnginesInv, WarpInv, CpuTypes, PtxTypes, CpuSame, PtxSame, Machine, Compiled,
     Frame, Uniform, Control
<1> QED BY <1>1, <1>2

\* The invariant of the engines holds for every size of the machine and every
\* set of instructions.
THEOREM EnginesInvariance == Spec => []EnginesInv
BY InitInv, NextInv, PTL DEF Spec

\* The machines keep their types: words wrap, the pc and the return addresses stay
\* in the code or just past it, the call stack fits its registers.
THEOREM TypeCorrect == Spec => []TypeOK
<1>1. EnginesInv => TypeOK
  BY DEF EnginesInv, WarpInv, CpuTypes, PtxTypes, Frame, TypeOK, VectorFiles, ScalarFiles, MaskFiles
<1> QED BY <1>1, EnginesInvariance, PTL

\* Code that keeps to the discipline never sends two lanes of VmRun to different
\* instructions, however its guards desynchronise the lanes' predicates.
THEOREM StaysInLockstep == Spec => []Lockstep
<1>1. EnginesInv => Lockstep BY DEF EnginesInv, WarpInv, Frame, Uniform, Lockstep
<1> QED BY <1>1, EnginesInvariance, PTL

\* CpuVm::Step is where VmRun is after every instruction, with the same registers
\* and memory unless a fault interrupted an access.
THEOREM HostAgrees == Spec => []CpuAgrees
<1>1. EnginesInv => CpuAgrees
  <2>1. CpuSame => /\ cpu.status = warp.status /\ cpu.fault = warp.fault
                   /\ cpu.pc = warp.pc /\ cpu.stack = warp.stack /\ cpu.flips = warp.flips
    BY SameControl DEF CpuSame
  <2> QED BY <2>1 DEF EnginesInv, CpuSame, CpuAgrees
<1> QED BY <1>1, EnginesInvariance, PTL

\* The code EmitPtx generates does in every lane what VmRun does, messages and
\* faults included, for every program without a load through its own destination
\* that finds a video address.
THEOREM CompiledAgrees == Spec => []PtxAgrees
<1>1. EnginesInv => PtxAgrees BY DEF EnginesInv, PtxSame, PtxAgrees
<1> QED BY <1>1, EnginesInvariance, PTL

-----------------------------------------------------------------------------
(* Programs that may load through a load's own destination.                *)

\* What is left of the invariant when the compiled warp may disagree.
InterpretersInv ==
  /\ WarpInv /\ CpuTypes
  /\ peer \in {"cpu", "ptx"}
  /\ peer = "cpu" => CpuSame

\* No turn disturbs the two interpreters, the loads that EmitPtx compiles
\* differently included.
LEMMA LoadingNextInv == InterpretersInv /\ [LoadingNext]_vars => InterpretersInv'
<1> SUFFICES ASSUME InterpretersInv, [LoadingNext]_vars PROVE InterpretersInv' OBVIOUS
<1>1. CASE LoadingNext
  <2>1. PICK i \in Instructions : Portable(i) /\ AnyTurn(i) BY <1>1 DEF LoadingNext
  <2>2. PICK accepted \in Verdicts(i), message \in Inbox(i) : Turn(i, accepted, message)
    BY <2>1 DEF AnyTurn
  <2>3. message \in Messages BY DEF Inbox, Messages
  <2>4. VmRun(i, accepted, message) /\ shared' = Sharing(i) /\ peer' = peer BY <2>2 DEF Turn
  <2>5. WarpInv' BY <2>1, <2>3, <2>4, WarpStep DEF InterpretersInv
  <2>6. CASE peer = "cpu"
    <3>1. Step(i) BY <2>2, <2>6 DEF Turn
    <3>2. CpuTypes' /\ CpuSame' BY <2>1, <2>4, <2>5, <2>6, <3>1, CpuStep DEF InterpretersInv
    <3> QED BY <2>4, <2>5, <3>2 DEF InterpretersInv
  <2>7. CASE peer = "ptx"
    <3>1. cpu' = cpu BY <2>2, <2>7 DEF Turn
    <3>2. CpuTypes' BY <3>1 DEF InterpretersInv, CpuTypes, Machine, Frame
    <3> QED BY <2>4, <2>5, <2>7, <3>2 DEF InterpretersInv
  <2> QED BY <2>6, <2>7 DEF InterpretersInv
<1>2. CASE UNCHANGED vars
  BY <1>2 DEF vars, InterpretersInv, WarpInv, CpuTypes, CpuSame, Machine, Frame, Uniform, Control
<1> QED BY <1>1, <1>2

\* VmRun and CpuVm::Step agree, in lockstep, on such programs too: where compiled
\* and interpreted execution differ it is the compiled one that is alone.
THEOREM InterpretersAgree == LoadingSpec => [](Lockstep /\ CpuAgrees)
<1>1. Init => InterpretersInv BY InitInv DEF EnginesInv, InterpretersInv
<1>2. InterpretersInv => Lockstep /\ CpuAgrees
  <2>1. WarpInv => Lockstep BY DEF WarpInv, Frame, Uniform, Lockstep
  <2>2. CpuSame => /\ cpu.status = warp.status /\ cpu.fault = warp.fault
                   /\ cpu.pc = warp.pc /\ cpu.stack = warp.stack /\ cpu.flips = warp.flips
    BY SameControl DEF CpuSame
  <2> QED BY <2>1, <2>2 DEF InterpretersInv, CpuSame, CpuAgrees
<1> QED BY <1>1, <1>2, LoadingNextInv, PTL DEF LoadingSpec
=============================================================================
