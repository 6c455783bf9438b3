------------------------------ MODULE Machine ------------------------------
(***************************************************************************)
(* One warp of the GPU interpreter (interpreter.cuh), running an image the *)
(* toolchain made: the opcodes the compiler emits, over all lanes.         *)
(*                                                                         *)
(* The lanes share the program counter, the call stack and the RAM.  Each  *)
(* lane has its own copy of the scalar registers and of the predicate      *)
(* masks; an instruction writes the copies of the active lanes only, so    *)
(* nothing but the compiler keeps the copies equal.                        *)
(***************************************************************************)
EXTENDS Assembler

VARIABLES image,     \* [code, lits], the loaded program
          status,    \* "idle", "running", "halted" or "faulted"
          pc,        \* index of the next word, from 0
          calls,     \* return addresses
          vregs,     \* vregs[r][l]: vector register r of lane l
          sregs,     \* sregs[k][l]: lane l's copy of scalar register k
          masks,     \* masks[k][l]: lane l's copy of mask k, a set of lanes
          ram,       \* the words of RAM and framebuffer written so far
          inbox,     \* messages delivered and not received
          received,  \* what each TRY_RECV gave: <<>> or <<message>>
          sent,      \* messages sent
          flips      \* frames published

machine == <<image, status, pc, calls, vregs, sregs, masks, ram, inbox, received, sent, flips>>

Lanes == 0..LANES - 1

Peeked(m, a)   == IF a \in DOMAIN m THEN m[a] ELSE 0
Addressable(a) == a < RAM_SIZE_WORDS \/ a \in VIDEO_BASE..VIDEO_BASE + VIDEO_WIDTH * VIDEO_WIDTH - 1

(* The instruction at pc, and its active lanes: each lane looks up its own *)
(* bit in its own copy of the mask.                                        *)
w == image.code[pc + 1]
GuardActive(l, guard) ==
    guard = 0 \/ (l \in masks[(guard - 1) % 4][l]) # (guard >= 5)
Active == {l \in Lanes : GuardActive(l, w.guard)}

Fetch(ops) == status = "running" /\ pc < Len(image.code) /\ w.op \in ops

rs2    == w.lo % 16
ImmOf  == Wrap(SignExt(w.lo))

(* The new value of a register bank for the active lanes.                  *)
Write(bank, r, value) == [bank EXCEPT ![r] = [l \in Lanes |-> IF l \in Active THEN value[l] ELSE @[l]]]

Advances == pc' = pc + 1
Stops(how) == status' = how /\ UNCHANGED pc

----------------------------------------------------------------------------
(* What kFaultOperand is for.  The assembler makes no such instruction, so *)
(* the steps below have no such fault.                                     *)
BadPredField(f)   == f >= 4
BadScalarField(f) == f >= 8
MaskOps           == {"NOTMASK", "ANDMASK", "ORMASK", "ANY", "ALL"}
OperandFault(d, literals) ==
    \/ d.guard > 8
    \/ d.op = "FLIP" /\ d.guard # 0
    \/ BadPredField(d.rd) /\ d.op \in DOMAIN Compares \cup Range(Compares) \cup MaskOps
                                      \cup {"BALLOT", "TRY_RECV", "S_CMP_LT", "S_CMP_LT_I"}
    \/ BadPredField(d.rs1) /\ d.op \in MaskOps
    \/ BadPredField(d.lo % 16) /\ d.op \in {"ANDMASK", "ORMASK"}
    \/ BadScalarField(d.rd) /\ d.op \in {"S_MOV", "S_MOV_I", "S_ADD", "S_ADD_I", "S_LDW", "S_GET"}
    \/ BadScalarField(d.rs1) /\ d.op \in {"S_MOV", "S_ADD", "S_ADD_I", "S_CMP_LT", "S_CMP_LT_I", "S_BCAST"}
    \/ BadScalarField(d.lo % 16) /\ d.op \in {"S_ADD", "S_CMP_LT"}
    \/ d.op \in {"LDW", "S_LDW"} /\ d.lo >= Len(literals)

----------------------------------------------------------------------------
(* Lane-wise arithmetic; a division by zero gives zero.                    *)
Alu == [ADD |-> "+", SUB |-> "-", MUL |-> "*", DIV |-> "/", MOD |-> "%", AND |-> "&", OR |-> "|",
        XOR |-> "^", SHL |-> "<<", SHR |-> ">>"]
CmpOp == [CMP_EQ |-> "==", CMP_NE |-> "!=", CMP_LT |-> "<", CMP_LE |-> "<=", CMP_GT |-> ">", CMP_GE |-> ">="]

RegisterForm(op) ==
    CASE op \in Range(WithImmediate) -> Bin3(op)
      [] op \in Range(Compares) -> SourceName(op)
      [] OTHER -> op

SecondOperand(l) == IF w.op = RegisterForm(w.op) THEN vregs[rs2][l] ELSE ImmOf

AluResult(op, a, b) ==
    CASE op = "MIN" -> IF a < b THEN a ELSE b
      [] op = "MAX" -> IF a > b THEN a ELSE b
      [] op \in {"DIV", "MOD"} /\ b = 0 -> 0
      [] OTHER -> COp(Alu[op], FALSE, a, b)

(* A reduction joins the values of all lanes.                              *)
Joined(op, a, b) == CASE op = "REDUCE_ADD" -> Wrap(a + b)
                      [] op = "REDUCE_MIN" -> IF a < b THEN a ELSE b
                      [] op = "REDUCE_MAX" -> IF a > b THEN a ELSE b
                      [] op = "REDUCE_AND" -> And(a, b)
                      [] op = "REDUCE_OR" -> Or(a, b)
                      [] op = "REDUCE_XOR" -> Xor(a, b)
Reduced(op, f) == LET upto[l \in Lanes] == IF l = 0 THEN f[0] ELSE Joined(op, upto[l - 1], f[l])
                  IN  upto[LANES - 1]

Negated(a)     == Wrap(-a)

Reductions == {"REDUCE_ADD", "REDUCE_MIN", "REDUCE_MAX", "REDUCE_AND", "REDUCE_OR", "REDUCE_XOR"}
VM_ID == 5

(* Shuffles and reductions read the registers of all lanes, active or not. *)
VectorResult(l) ==
    LET a == vregs[w.rs1][l]
    IN  CASE w.op = "MOV" -> a
          [] w.op = "MOV_I" -> ImmOf
          [] w.op = "NEG" -> Negated(a)
          [] w.op = "NOT" -> Not(a)
          [] w.op = "ABS" -> Magnitude(a)
          [] w.op = "LANEID" -> l
          [] w.op = "VMID" -> VM_ID
          [] w.op = "BROADCAST" -> vregs[w.rs1][w.lo % LANES]
          [] w.op = "SHUFFLE" -> vregs[w.rs1][vregs[rs2][l] % LANES]
          [] w.op = "SHUFFLE_XOR" -> vregs[w.rs1][Xor(l, w.lo) % LANES]
          [] w.op \in Reductions -> Reduced(w.op, vregs[w.rs1])
          [] w.op = "S_BCAST" -> sregs[w.rs1][l]
          [] w.op = "LDW" -> image.lits[w.lo + 1]
          [] OTHER -> AluResult(RegisterForm(w.op), a, SecondOperand(l))

VectorOps == {"MOV", "MOV_I", "NEG", "NOT", "ABS", "LANEID", "VMID", "BROADCAST", "SHUFFLE", "SHUFFLE_XOR",
              "S_BCAST", "LDW", "MIN", "MAX"}
             \cup DOMAIN Alu \cup Range(WithImmediate) \cup Reductions

VectorOp == /\ Fetch(VectorOps) /\ Advances
            /\ vregs' = Write(vregs, w.rd, [l \in Lanes |-> VectorResult(l)])
            /\ UNCHANGED <<image, status, calls, sregs, masks, ram, inbox, received, sent, flips>>

(* A comparison votes over all lanes; the active ones store the vote.      *)
MaskResult(l) ==
    CASE w.op = "NOTMASK" -> Lanes \ masks[w.rs1][l]
      [] w.op = "ANDMASK" -> masks[w.rs1][l] \cap masks[rs2][l]
      [] w.op = "BALLOT" -> {m \in Lanes : vregs[w.rs1][m] # 0}
      [] OTHER -> {m \in Lanes : COp(CmpOp[RegisterForm(w.op)], FALSE, vregs[w.rs1][m], SecondOperand(m)) = 1}

PredicateOp == /\ Fetch(DOMAIN Compares \cup Range(Compares) \cup {"NOTMASK", "ANDMASK", "BALLOT"}) /\ Advances
               /\ masks' = Write(masks, w.rd, [l \in Lanes |-> MaskResult(l)])
               /\ UNCHANGED <<image, status, calls, vregs, sregs, ram, inbox, received, sent, flips>>

(* S_GET takes the value of lane 0.                                        *)
ScalarResult(l) ==
    CASE w.op = "S_MOV_I" -> ImmOf
      [] w.op = "S_LDW" -> image.lits[w.lo + 1]
      [] w.op = "S_ADD" -> Wrap(sregs[w.rs1][l] + sregs[rs2][l])
      [] w.op = "S_ADD_I" -> Wrap(sregs[w.rs1][l] + ImmOf)
      [] w.op = "S_GET" -> vregs[w.rs1][0]

ScalarOp == /\ Fetch({"S_MOV_I", "S_LDW", "S_ADD", "S_ADD_I", "S_GET"}) /\ Advances
            /\ sregs' = Write(sregs, w.rd, [l \in Lanes |-> ScalarResult(l)])
            /\ UNCHANGED <<image, status, calls, vregs, masks, ram, inbox, received, sent, flips>>

----------------------------------------------------------------------------
(* Memory.  An address outside RAM and framebuffer in any active lane      *)
(* faults the VM; the other lanes have done their access.                  *)
Load ==
    LET address(l) == vregs[w.rs1][l]
    IN  /\ Fetch({"LOAD"})
        /\ vregs' = Write(vregs, w.rd, [l \in Lanes |-> IF Addressable(address(l)) THEN Peeked(ram, address(l)) ELSE vregs[w.rd][l]])
        /\ IF \A l \in Active : Addressable(address(l)) THEN Advances /\ UNCHANGED status ELSE Stops("faulted")
        /\ UNCHANGED <<image, calls, sregs, masks, ram, inbox, received, sent, flips>>

(* Of several lanes that write one word any may be the last.               *)
Writers(lanes, a) == {l \in lanes : vregs[w.rd][l] = a}
LastWriters(lanes) ==
    LET addresses == {vregs[w.rd][l] : l \in lanes}
    IN  IF \A l, m \in lanes : vregs[w.rd][l] = vregs[w.rd][m] => vregs[w.rs1][l] = vregs[w.rs1][m]
        THEN {[a \in addresses |-> Min(Writers(lanes, a))]}
        ELSE {f \in [addresses -> lanes] : \A a \in addresses : f[a] \in Writers(lanes, a)}

Store ==
    /\ Fetch({"STORE"})
    /\ \E last \in LastWriters({l \in Active : Addressable(vregs[w.rd][l])}) :
          ram' = [a \in DOMAIN ram \cup DOMAIN last |->
                    IF a \in DOMAIN last THEN vregs[w.rs1][last[a]] ELSE ram[a]]
    /\ IF \A l \in Active : Addressable(vregs[w.rd][l]) THEN Advances /\ UNCHANGED status ELSE Stops("faulted")
    /\ UNCHANGED <<image, calls, vregs, sregs, masks, inbox, received, sent, flips>>

(* Messages: lane 0 sends and receives.  A full or missing mailbox faults  *)
(* the sender.                                                             *)
Message == [dest |-> vregs[w.rd][0], type |-> vregs[w.rs1][0] % 2^(WordBits \div 2), payload |-> vregs[rs2][0]]

Send ==
    /\ Fetch({"SEND"})
    /\ \/ Advances /\ sent' = (IF 0 \in Active THEN Append(sent, Message) ELSE sent) /\ UNCHANGED status
       \/ 0 \in Active /\ Stops("faulted") /\ UNCHANGED sent
    /\ UNCHANGED <<image, calls, vregs, sregs, masks, ram, inbox, received, flips>>

TryRecv ==
    LET got  == 0 \in Active /\ inbox # <<>>
        mail == Head(inbox)
        both == Write(Write(vregs, w.rs1, [l \in Lanes |-> mail.payload]), rs2, [l \in Lanes |-> mail.meta])
    IN  /\ Fetch({"TRY_RECV"}) /\ Advances
        /\ masks' = Write(masks, w.rd, [l \in Lanes |-> IF got THEN Lanes ELSE {}])
        /\ vregs' = IF got THEN both ELSE vregs
        /\ inbox' = IF got THEN Tail(inbox) ELSE inbox
        /\ received' = Append(received, IF got THEN <<mail>> ELSE <<>>)
        /\ UNCHANGED <<image, status, calls, sregs, ram, sent, flips>>

Flip == /\ Fetch({"FLIP"}) /\ Advances
        /\ flips' = flips + 1
        /\ UNCHANGED <<image, status, calls, vregs, sregs, masks, ram, inbox, received, sent>>

----------------------------------------------------------------------------
(* Control flow.  The guard field of JMP_IF_ANY selects a mask; here it is *)
(* lane 0's copy that decides.                                             *)
GuardMask(l, guard) ==
    LET m == masks[(guard - 1) % 4][l]
    IN  IF guard \notin 1..8 THEN {} ELSE IF guard >= 5 THEN Lanes \ m ELSE m

JumpsTo(target) == IF target < Len(image.code) THEN pc' = target /\ UNCHANGED status ELSE Stops("faulted")

Jump == /\ Fetch({"JMP"}) /\ JumpsTo(w.lo)
        /\ UNCHANGED <<image, calls, vregs, sregs, masks, ram, inbox, received, sent, flips>>

JumpIfAny == /\ Fetch({"JMP_IF_ANY"})
             /\ \/ GuardMask(0, w.guard) # {} /\ JumpsTo(w.lo)
                \/ GuardMask(0, w.guard) = {} /\ Advances /\ UNCHANGED status
             /\ UNCHANGED <<image, calls, vregs, sregs, masks, ram, inbox, received, sent, flips>>

Call == /\ Fetch({"CALL"})
        /\ IF Len(calls) < CALL_STACK THEN JumpsTo(w.lo) /\ calls' = Append(calls, pc + 1)
           ELSE Stops("faulted") /\ UNCHANGED calls
        /\ UNCHANGED <<image, vregs, sregs, masks, ram, inbox, received, sent, flips>>

Ret == /\ Fetch({"RET"})
       /\ IF calls # <<>> THEN pc' = Last(calls) /\ calls' = Front(calls) /\ UNCHANGED status
          ELSE Stops("faulted") /\ UNCHANGED calls
       /\ UNCHANGED <<image, vregs, sregs, masks, ram, inbox, received, sent, flips>>

Halt == /\ Fetch({"HALT"}) /\ Stops("halted")
        /\ UNCHANGED <<image, calls, vregs, sregs, masks, ram, inbox, received, sent, flips>>

(* The warp as the host resets it before it runs a program.                *)
ResetRegisters ==
    /\ pc = 0 /\ calls = <<>> /\ ram = <<>> /\ inbox = <<>> /\ received = <<>> /\ sent = <<>> /\ flips = 0
    /\ vregs = [r \in 0..15 |-> [l \in Lanes |-> 0]]
    /\ sregs = [k \in 0..7 |-> [l \in Lanes |-> 0]]
    /\ masks = [k \in 0..3 |-> [l \in Lanes |-> {}]]

MachineInit == image = [code |-> <<>>, lits |-> <<>>] /\ status = "idle" /\ ResetRegisters

(* The loader takes the code and the literals of an image file.            *)
LoadImage(bytes) == /\ status = "idle"
                   /\ ParseFile(bytes).err = ""
                   /\ image' = [code |-> ParseFile(bytes).code, lits |-> ParseFile(bytes).lits]
                   /\ status' = "running"
                   /\ UNCHANGED <<pc, calls, vregs, sregs, masks, ram, inbox, received, sent, flips>>

(* A message arrives.                                                      *)
Deliver(m) == /\ inbox' = Append(inbox, m)
              /\ UNCHANGED <<image, status, pc, calls, vregs, sregs, masks, ram, received, sent, flips>>

MachineStep == \/ VectorOp \/ PredicateOp \/ ScalarOp
               \/ Load \/ Store
               \/ Send \/ TryRecv \/ Flip
               \/ Jump \/ JumpIfAny \/ Call \/ Ret \/ Halt
=============================================================================
