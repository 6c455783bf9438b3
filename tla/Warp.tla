-------------------------------- MODULE Warp --------------------------------
(***************************************************************************)
(* The interpreter a resident warp runs (VmRun in                          *)
(* runtime/src/gpu/interpreter.cuh): every lane executes the instruction   *)
(* at its pc, on its own slice of the vector registers and on its own copy *)
(* of the scalars and of the predicates.  The guard is evaluated by each   *)
(* lane on its own copy.                                                   *)
(*                                                                         *)
(* Code is not fixed: any of Instructions may be at any pc, which covers   *)
(* every program at once.  pc and call stack are the copy all lanes agree  *)
(* on; when a branch sends lanes to different pcs the warp is DIVERGED and *)
(* what it does next is undefined.  The control points are ResidentWarp's, *)
(* the mailbox is Mailbox's: here a SEND just fails or not, and a TRY_RECV *)
(* finds a message or none.                                                *)
(***************************************************************************)
EXTENDS WarpIsa

VARIABLE warp

WarpInit ==
  warp = [v |-> [l \in Lanes |-> [r \in Regs |-> 0]],
          s |-> [l \in Lanes |-> [k \in Scalars |-> 0]],
          p |-> [l \in Lanes |-> [k \in Preds |-> {}]],
          mem |-> [a \in Memory |-> 0],
          pc |-> 0, stack |-> <<>>, flips |-> 0,
          status |-> "RUNNING", fault |-> "OK"]

GuardActive(l, g) ==
  g = 0 \/ (l \in warp.p[l][GuardPredicate(g)]) # Inverted(g)

Active(i) == {l \in Lanes : GuardActive(l, i.guard)}

\* The mask a branch tests, as lane l sees it.
BranchMask(l, i) ==
  IF i.guard = 0 \/ IllegalGuard(i) THEN {}
  ELSE IF Inverted(i.guard) THEN Lanes \ warp.p[l][GuardPredicate(i.guard)]
                            ELSE warp.p[l][GuardPredicate(i.guard)]

-----------------------------------------------------------------------------
Faulted(w, code) == [w EXCEPT !.status = "FAULTED", !.fault = code]

\* An illegal guard faults, but only after the instruction was executed.
Resolved(i, w) == IF IllegalGuard(i) THEN Faulted(w, "OPERAND") ELSE w

Retired(i, w) == Resolved(i, IF IllegalGuard(i) THEN w ELSE [w EXCEPT !.pc = @ + 1])

\* Each active lane writes its copy, all the others keep theirs.
Written(i, old, new) == [l \in Lanes |-> IF l \in Active(i) THEN new[l] ELSE old[l]]

VectorOp(i) ==
  /\ i.op \in VectorOps /\ ~BadField(i)
  /\ LET new == [l \in Lanes |->
                  [warp.v[l] EXCEPT ![i.rd] = VectorValue(i, warp.v, warp.s[l], l)]]
     IN  IF i.op = "LDW" /\ i.lo >= Len(Literals) /\ Active(i) # {}
           THEN warp' = Faulted(warp, "OPERAND")
           ELSE warp' = Retired(i, [warp EXCEPT !.v = Written(i, @, new)])

\* Fault: the lanes are not balloted, each sets only its own bit.
PredicateWithoutBallot(i) ==
  /\ i.op \in PredicateOps /\ ~BadField(i)
  /\ LET new == [l \in Lanes |->
                  [warp.p[l] EXCEPT ![i.rd] =
                     Mask(i, warp.v, warp.p[l], warp.s[l]) \intersect {l}]]
     IN  warp' = Retired(i, [warp EXCEPT !.p = Written(i, @, new)])

\* Each lane replaces its copy of the whole mask.
PredicateOp(i) ==
  /\ i.op \in PredicateOps /\ ~BadField(i)
  /\ LET new == [l \in Lanes |->
                  [warp.p[l] EXCEPT ![i.rd] = Mask(i, warp.v, warp.p[l], warp.s[l])]]
     IN  warp' = Retired(i, [warp EXCEPT !.p = Written(i, @, new)])

ScalarOp(i) ==
  /\ i.op \in ScalarOps /\ ~BadField(i)
  /\ LET new == [l \in Lanes |->
                  [warp.s[l] EXCEPT ![i.rd] = ScalarValue(i, warp.v, warp.s[l])]]
     IN  warp' = Retired(i, [warp EXCEPT !.s = Written(i, @, new)])

\* The lanes whose address is mapped complete their access even when others
\* fault; the lowest faulting lane's code is the warp's.
MemoryOp(i) ==
  LET good == Mapped(i, warp.v, Active(i))
      Outcome(w) ==
        IF good = Active(i) THEN Retired(i, w)
        ELSE Faulted(w, IF IllegalGuard(i) /\ 0 \notin Active(i) \ good
                          THEN "OPERAND" ELSE "MEM")
  IN  \/ /\ i.op = "LOAD"
         /\ warp' = Outcome([warp EXCEPT !.v = [l \in Lanes |->
              IF l \in good THEN [@[l] EXCEPT ![i.rd] = warp.mem[warp.v[l][i.rs1]]] ELSE @[l]]])
      \/ /\ i.op = "STORE"
         /\ \E m \in Stored(i, warp.v, warp.mem, Active(i)) :
              warp' = Outcome([warp EXCEPT !.mem = m])

\* Lane 0 posts; its error faults every lane.
Send(i, accepted) ==
  /\ i.op = "SEND"
  /\ warp' = IF 0 \in Active(i) /\ ~accepted THEN Faulted(warp, "MSG") ELSE Retired(i, warp)

\* Lane 0 consumes a message, if there is one and lane 0 is active.
TryRecv(i, message) ==
  /\ i.op = "TRY_RECV" /\ ~BadField(i)
  /\ LET got == 0 \in Active(i) /\ message # NoMessage
         bits  == [l \in Lanes |-> [warp.p[l] EXCEPT ![i.rd] = IF got THEN Lanes ELSE {}]]
         words == [l \in Lanes |-> Received(i, warp.v[l], message)]
     IN  warp' = Retired(i, [warp EXCEPT
                   !.p = Written(i, @, bits),
                   !.v = IF got THEN Written(i, @, words) ELSE @])

Flip(i) ==
  /\ i.op = "FLIP"
  /\ warp' = IF i.guard # 0 THEN Faulted(warp, "OPERAND")
                            ELSE Retired(i, [warp EXCEPT !.flips = (@ + 1) % Base])

-----------------------------------------------------------------------------
JumpTo(i) ==
  IF i.lo >= CodeLength THEN Faulted(warp, "JUMP") ELSE Resolved(i, [warp EXCEPT !.pc = i.lo])

Jump(i) == i.op = "JMP" /\ warp' = JumpTo(i)

\* Every lane decides on its own copy of the mask.
JumpIf(i) ==
  /\ i.op \in {"JMP_IF_ANY", "JMP_IF_ALL"}
  /\ LET taken == {l \in Lanes : IF i.op = "JMP_IF_ANY" THEN BranchMask(l, i) # {}
                                                         ELSE BranchMask(l, i) = Lanes}
     IN  warp' = IF taken = {} THEN Retired(i, warp)
                 ELSE IF taken = Lanes \/ i.lo >= CodeLength THEN JumpTo(i)
                 ELSE [warp EXCEPT !.status = "DIVERGED"]

Call(i) ==
  /\ i.op = "CALL"
  /\ warp' = IF i.lo >= CodeLength THEN JumpTo(i)
             ELSE IF Len(warp.stack) >= CallDepth THEN Faulted(warp, "STACK")
             ELSE [JumpTo(i) EXCEPT !.stack = Append(@, warp.pc + 1)]

Ret(i) ==
  /\ i.op = "RET"
  /\ warp' = IF warp.stack = <<>> THEN Faulted(warp, "STACK")
             ELSE Resolved(i, [warp EXCEPT
                    !.pc = warp.stack[Len(warp.stack)],
                    !.stack = SubSeq(@, 1, Len(@) - 1)])

Halt(i) ==
  /\ i.op = "HALT"
  /\ warp' = Resolved(i, [warp EXCEPT !.status = "HALTED"])

Nothing(i) == i.op \in NoOps /\ warp' = Retired(i, warp)

Bad(i) ==
  \/ i.op = "UNASSIGNED" /\ warp' = Faulted(warp, "OPCODE")
  \/ BadField(i) /\ warp' = Faulted(warp, "OPERAND")

Execute(i, accepted, message) ==
  \/ VectorOp(i) \/ PredicateOp(i) \/ ScalarOp(i) \/ MemoryOp(i)
  \/ Send(i, accepted) \/ TryRecv(i, message) \/ Flip(i)
  \/ Jump(i) \/ JumpIf(i) \/ Call(i) \/ Ret(i) \/ Halt(i) \/ Nothing(i) \/ Bad(i)

\* One turn of VmRun's loop.
VmRun(i, accepted, message) ==
  /\ warp.status = "RUNNING"
  /\ IF warp.pc >= CodeLength THEN warp' = Faulted(warp, "JUMP")
                              ELSE Execute(i, accepted, message)
=============================================================================
