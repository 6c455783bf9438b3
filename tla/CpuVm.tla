------------------------------- MODULE CpuVm -------------------------------
(***************************************************************************)
(* The interpreter of the host (CpuVm::Step in                             *)
(* runtime/src/host/cpu_interpreter.cpp): one copy of scalars and          *)
(* predicates, a guard evaluated once to the mask of active lanes, lanes   *)
(* visited one after another.  Messages are outside its scope and fault.   *)
(***************************************************************************)
EXTENDS WarpIsa

VARIABLE cpu

CpuInit ==
  cpu = [v |-> [l \in Lanes |-> [r \in Regs |-> 0]],
         s |-> [k \in Scalars |-> 0],
         p |-> [k \in Preds |-> {}],
         mem |-> [a \in Memory |-> 0],
         pc |-> 0, stack |-> <<>>, flips |-> 0,
         status |-> "RUNNING", fault |-> "OK"]

ActiveMask(i) ==
  IF i.guard = 0 THEN Lanes
  ELSE IF Inverted(i.guard) THEN Lanes \ cpu.p[GuardPredicate(i.guard)]
                            ELSE cpu.p[GuardPredicate(i.guard)]

CpuFault(c, code) == [c EXCEPT !.status = "FAULTED", !.fault = code]
CpuNext(c)        == [c EXCEPT !.pc = @ + 1]

\* Fault: the whole mask is replaced.
WritePredWhole(i, bits) ==
  [cpu EXCEPT !.p[i.rd] = IF ActiveMask(i) = {} THEN @ ELSE bits]

\* The bits of active lanes are replaced, the others kept.
WritePred(i, bits) ==
  [cpu EXCEPT !.p[i.rd] = (@ \ ActiveMask(i)) \union (bits \intersect ActiveMask(i))]

CpuWriteVector(i) ==
  [cpu EXCEPT !.v = [l \in Lanes |->
     IF l \in ActiveMask(i) THEN [@[l] EXCEPT ![i.rd] = VectorValue(i, cpu.v, cpu.s, l)]
                            ELSE @[l]]]

\* Lane 0 decides for a scalar.
CpuWriteScalar(i) ==
  IF 0 \in ActiveMask(i) THEN [cpu EXCEPT !.s[i.rd] = ScalarValue(i, cpu.v, cpu.s)] ELSE cpu

\* Lanes access memory in order, and none after the first that faults.
CpuReached(i) ==
  {l \in Mapped(i, cpu.v, ActiveMask(i)) : 0..l \intersect ActiveMask(i)
                                              \subseteq Mapped(i, cpu.v, ActiveMask(i))}

CpuMemory(i) ==
  LET lanes == CpuReached(i)
      Outcome(c) == IF lanes = ActiveMask(i) THEN CpuNext(c) ELSE CpuFault(c, "MEM")
      Last(a) == CHOOSE l \in lanes : /\ cpu.v[l][i.rd] = a
                                      /\ \A k \in lanes : cpu.v[k][i.rd] = a => k <= l
  IN  IF i.op = "LOAD"
        THEN Outcome([cpu EXCEPT !.v = [l \in Lanes |->
               IF l \in lanes THEN [@[l] EXCEPT ![i.rd] = cpu.mem[cpu.v[l][i.rs1]]] ELSE @[l]]])
        ELSE Outcome([cpu EXCEPT !.mem = [a \in Memory |->
               IF \E l \in lanes : cpu.v[l][i.rd] = a THEN cpu.v[Last(a)][i.rs1] ELSE @[a]]])

CpuJump(i) == IF i.lo >= CodeLength THEN CpuFault(cpu, "JUMP") ELSE [cpu EXCEPT !.pc = i.lo]

\* The state after an instruction that names registers and has a legal guard.
CpuExecuted(i) ==
  CASE i.op \in VectorOps ->
         IF i.op = "LDW" /\ i.lo >= Len(Literals) THEN CpuFault(cpu, "OPERAND")
                                                  ELSE CpuNext(CpuWriteVector(i))
    [] i.op \in PredicateOps -> CpuNext(WritePred(i, Mask(i, cpu.v, cpu.p, cpu.s)))
    [] i.op \in ScalarOps -> CpuNext(CpuWriteScalar(i))
    [] i.op \in {"LOAD", "STORE"} -> CpuMemory(i)
    [] i.op \in {"SEND", "TRY_RECV"} -> CpuFault(cpu, "MSG")
    [] i.op = "FLIP" -> IF i.guard # 0 THEN CpuFault(cpu, "OPERAND")
                                       ELSE CpuNext([cpu EXCEPT !.flips = (@ + 1) % Base])
    [] i.op = "JMP" -> CpuJump(i)
    [] i.op = "JMP_IF_ANY" -> IF ActiveMask(i) # {} THEN CpuJump(i) ELSE CpuNext(cpu)
    [] i.op = "JMP_IF_ALL" -> IF ActiveMask(i) = Lanes THEN CpuJump(i) ELSE CpuNext(cpu)
    [] i.op = "CALL" -> IF i.lo >= CodeLength THEN CpuJump(i)
                        ELSE IF Len(cpu.stack) >= CallDepth THEN CpuFault(cpu, "STACK")
                        ELSE [CpuJump(i) EXCEPT !.stack = Append(@, cpu.pc + 1)]
    [] i.op = "RET" -> IF cpu.stack = <<>> THEN CpuFault(cpu, "STACK")
                       ELSE [cpu EXCEPT !.pc = cpu.stack[Len(cpu.stack)],
                                        !.stack = SubSeq(@, 1, Len(@) - 1)]
    [] i.op = "HALT" -> [cpu EXCEPT !.status = "HALTED"]
    [] i.op = "UNASSIGNED" -> CpuFault(cpu, "OPCODE")
    [] i.op \in NoOps -> CpuNext(cpu)

Step(i) ==
  /\ cpu.status = "RUNNING"
  /\ cpu' = IF cpu.pc >= CodeLength THEN CpuFault(cpu, "JUMP")
            ELSE IF IllegalGuard(i) THEN CpuFault(cpu, "OPERAND")
            ELSE IF BadField(i) THEN CpuFault(cpu, IF i.op = "TRY_RECV" THEN "MSG" ELSE "OPERAND")
            ELSE CpuExecuted(i)
=============================================================================
