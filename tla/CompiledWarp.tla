---------------------------- MODULE CompiledWarp ----------------------------
(***************************************************************************)
(* What the PTX that EmitPtx generates for an instruction does             *)
(* (runtime/src/host/ptx_compiler.cpp).  A thread keeps its lane's vector  *)
(* registers and its own %s and %m registers; the active mask %t9 and the  *)
(* lane's bit of it, %p2, come from the thread's own %m.  A program with   *)
(* an instruction that EmitPtx rejects never runs.  The control polls are  *)
(* ResidentWarp's.                                                         *)
(***************************************************************************)
EXTENDS WarpIsa

VARIABLE ptx

PtxInit ==
  ptx = [v |-> [l \in Lanes |-> [r \in Regs |-> 0]],
         s |-> [l \in Lanes |-> [k \in Scalars |-> 0]],
         m |-> [l \in Lanes |-> [k \in Preds |-> {}]],
         mem |-> [a \in Memory |-> 0],
         pc |-> 0, stack |-> <<>>, flips |-> 0,
         status |-> "RUNNING", fault |-> "OK"]

\* What EmitPtx does not reject.  Of the scalar opcodes only S_GET and S_BCAST
\* may be guarded.
Accepted(i) ==
  /\ ~IllegalGuard(i) /\ ~BadField(i)
  /\ i.op \in {"S_MOV_I", "S_ADD_I", "S_CMP_LT", "FLIP", "CALL", "RET"} => i.guard = 0
  /\ i.op = "LDW" => i.lo < Len(Literals)
  /\ i.op \in {"JMP", "JMP_IF_ANY", "JMP_IF_ALL", "CALL"} => i.lo < CodeLength
  /\ i.op \in {"JMP_IF_ANY", "JMP_IF_ALL"} => i.guard # 0
  /\ i.op \notin {"UNASSIGNED", "LOG"}

\* %t9 in lane l's thread, and the lanes whose %p2 is set.
T9(l, i) ==
  IF i.guard = 0 THEN Lanes
  ELSE IF Inverted(i.guard) THEN Lanes \ ptx.m[l][GuardPredicate(i.guard)]
                            ELSE ptx.m[l][GuardPredicate(i.guard)]

P2(i) == {l \in Lanes : l \in T9(l, i)}

PtxFault(x, code) == [x EXCEPT !.status = "FAULTED", !.fault = code]
PtxNext(x)        == [x EXCEPT !.pc = @ + 1]

\* The votes count active lanes only; the bits are merged under %t9.
PtxBits(i, l) ==
  IF i.op \in {"CMP_LT", "BALLOT"}
    THEN Mask(i, ptx.v, ptx.m[l], ptx.s[l]) \intersect P2(i)
    ELSE Mask(i, ptx.v, ptx.m[l], ptx.s[l])

\* Fault: the bits of inactive lanes are lost.
MergedLosing(i, l, bits) == [ptx.m[l] EXCEPT ![i.rd] = bits \intersect T9(l, i)]

Merged(i, l, bits) ==
  [ptx.m[l] EXCEPT ![i.rd] = (@ \ T9(l, i)) \union (bits \intersect T9(l, i))]

PtxPredicate(i) ==
  IF i.op = "S_CMP_LT"
    THEN [ptx EXCEPT !.m = [l \in Lanes |-> [@[l] EXCEPT ![i.rd] = PtxBits(i, l)]]]
    ELSE [ptx EXCEPT !.m = [l \in Lanes |-> Merged(i, l, PtxBits(i, l))]]

PtxVector(i) ==
  [ptx EXCEPT !.v = [l \in Lanes |->
     IF l \in P2(i) THEN [@[l] EXCEPT ![i.rd] = VectorValue(i, ptx.v, ptx.s[l], l)] ELSE @[l]]]

PtxScalar(i) ==
  [ptx EXCEPT !.s = [l \in Lanes |->
     IF l \in P2(i) THEN [@[l] EXCEPT ![i.rd] = ScalarValue(i, ptx.v, ptx.s[l])] ELSE @[l]]]

\* RAM is tried first, and then the address register is compared with the bounds
\* of the video memory; if the load has replaced it, it is the loaded word that
\* is compared, and followed.
PtxLoaded(i, l) ==
  LET word == ptx.mem[ptx.v[l][i.rs1]]
  IN  IF i.rd = i.rs1 /\ ptx.v[l][i.rs1] \in Ram /\ word \in Video THEN ptx.mem[word] ELSE word

\* As in the interpreter, lanes with a mapped address complete the access.
PtxMemory(i) ==
  LET good == Mapped(i, ptx.v, P2(i))
      Outcome(x) == IF good = P2(i) THEN PtxNext(x) ELSE PtxFault(x, "MEM")
  IN  IF i.op = "LOAD"
        THEN {Outcome([ptx EXCEPT !.v = [l \in Lanes |->
                IF l \in good THEN [@[l] EXCEPT ![i.rd] = PtxLoaded(i, l)] ELSE @[l]]])}
        ELSE {Outcome([ptx EXCEPT !.mem = m]) : m \in Stored(i, ptx.v, ptx.mem, P2(i))}

PtxTryRecv(i, message) ==
  LET got == 0 \in P2(i) /\ message # NoMessage
  IN  [ptx EXCEPT
         !.m = [l \in Lanes |-> Merged(i, l, IF got THEN Lanes ELSE {})],
         !.v = [l \in Lanes |-> IF got /\ l \in P2(i) THEN Received(i, @[l], message) ELSE @[l]]]

PtxJumpIf(i) ==
  LET taken == {l \in Lanes : IF i.op = "JMP_IF_ANY" THEN T9(l, i) # {} ELSE T9(l, i) = Lanes}
  IN  IF taken = {} THEN PtxNext(ptx)
      ELSE IF taken = Lanes THEN [ptx EXCEPT !.pc = i.lo]
      ELSE [ptx EXCEPT !.status = "DIVERGED"]

\* The states an accepted instruction may leave.
PtxExecuted(i, accepted, message) ==
  CASE i.op \in VectorOps -> {PtxNext(PtxVector(i))}
    [] i.op \in PredicateOps -> {PtxNext(PtxPredicate(i))}
    [] i.op \in ScalarOps -> {PtxNext(PtxScalar(i))}
    [] i.op \in {"LOAD", "STORE"} -> PtxMemory(i)
    [] i.op = "SEND" -> {IF 0 \in P2(i) /\ ~accepted THEN PtxFault(ptx, "MSG") ELSE PtxNext(ptx)}
    [] i.op = "TRY_RECV" -> {PtxNext(PtxTryRecv(i, message))}
    [] i.op = "FLIP" -> {PtxNext([ptx EXCEPT !.flips = (@ + 1) % Base])}
    [] i.op = "JMP" -> {[ptx EXCEPT !.pc = i.lo]}
    [] i.op \in {"JMP_IF_ANY", "JMP_IF_ALL"} -> {PtxJumpIf(i)}
    [] i.op = "CALL" -> {IF Len(ptx.stack) >= CallDepth THEN PtxFault(ptx, "STACK")
                         ELSE [ptx EXCEPT !.pc = i.lo, !.stack = Append(@, ptx.pc + 1)]}
    [] i.op = "RET" -> {IF ptx.stack = <<>> THEN PtxFault(ptx, "STACK")
                        ELSE [ptx EXCEPT !.pc = ptx.stack[Len(ptx.stack)],
                                         !.stack = SubSeq(@, 1, Len(@) - 1)]}
    [] i.op = "HALT" -> {[ptx EXCEPT !.status = "HALTED"]}
    [] i.op \in NoOps -> {PtxNext(ptx)}

\* A thread that runs off the code faults at the pc its scratch register %t7
\* happens to hold (one that returns past it, at that pc: it is among them).
PtxStep(i, accepted, message) ==
  /\ ptx.status = "RUNNING"
  /\ IF ptx.pc >= CodeLength
       THEN \E stale \in 0..CodeLength : ptx' = [PtxFault(ptx, "JUMP") EXCEPT !.pc = stale]
       ELSE Accepted(i) /\ ptx' \in PtxExecuted(i, accepted, message)
=============================================================================
