--------------------------- MODULE AssemblerProofs ---------------------------
(***************************************************************************)
(* What assembler, disassembler and image file keep of a program, for any  *)
(* listing, any width of immediates and any limits.                        *)
(***************************************************************************)
EXTENDS Assembler, SequenceTheorems, WellFoundedInduction, TLAPS

(* The fields of a code word, and the values the registers have.           *)
Regs       == 0..15
Scalars    == 0..7
Predicates == 0..3
LoField    == 0..LoMod - 1
Literal    == 0..WordMod - 1

AluNames       == {"ADD", "SUB", "MUL", "AND", "OR", "XOR", "SHL", "SHR"}
AluImmNames    == {"ADD_I", "SUB_I", "MUL_I", "AND_I", "OR_I", "XOR_I", "SHL_I", "SHR_I"}
CompareNames   == {"CMP_EQ", "CMP_NE", "CMP_LT", "CMP_LE", "CMP_GT", "CMP_GE"}
CompareImmNames == {"CMP_EQ_I", "CMP_NE_I", "CMP_LT_I", "CMP_LE_I", "CMP_GT_I", "CMP_GE_I"}
Branches       == {"JMP", "CALL", "JMP_IF_ANY", "JMP_IF_ALL"}
LiteralLoads   == {"LDW", "S_LDW"}

(* The fields of an instruction that has only operands of the classes.     *)
InClass(class, n) == class = "r" \/ n < (IF class = "s" THEN 8 ELSE 4)
FixedFields(d) ==
    LET fields == <<d.rd, d.rs1, d.lo>>
    IN  \A n \in 1..3 : IF n <= Len(Operands(d.op))
                        THEN fields[n] \in Regs /\ InClass(Operands(d.op)[n], fields[n])
                        ELSE fields[n] = 0
Mnemonics == Fixed \cup Bare \cup AluNames \cup AluImmNames \cup RegisterOnly \cup CompareNames
             \cup CompareImmNames \cup LiteralLoads \cup Branches
             \cup {"MOV", "MOV_I", "BROADCAST", "SHUFFLE_XOR", "LOG", "LOG_I", "S_MOV_I", "S_ADD_I", "S_CMP_LT_I"}

(* A word as decode sees it: the name of an instruction, or a number that  *)
(* is no instruction's, and the fields.                                    *)
CodeWord == [op : Mnemonics \cup Nat, guard : 0..15, rd : Regs, rs1 : Regs, lo : LoField]
(* The words the assembler writes: a field holds what its class allows,    *)
(* and 0 where the instruction has no such field.                          *)
Canonical(d) ==
    /\ d \in CodeWord /\ d.op \in Mnemonics /\ d.guard \in 0..8
    /\ d.op \in Fixed => FixedFields(d)
    /\ d.op = "FLIP" => d.guard = 0
    /\ d.op \in Bare => d.rd = 0 /\ d.rs1 = 0 /\ d.lo = 0
    /\ d.op = "MOV" => d.lo = 0
    /\ d.op \in AluNames \cup RegisterOnly \cup CompareNames \cup {"LOG"} => d.lo \in Regs
    /\ d.op \in CompareNames \cup CompareImmNames \cup {"S_CMP_LT_I"} => d.rd \in Predicates
    /\ d.op \in {"BROADCAST", "SHUFFLE_XOR"} => d.lo \in 0..LANES - 1
    /\ d.op \in LiteralLoads \cup {"MOV_I", "S_MOV_I"} => d.rs1 = 0
    /\ d.op \in {"LOG", "LOG_I"} => d.rd = 0
    /\ d.op \in {"S_LDW", "S_MOV_I", "S_ADD_I"} => d.rd \in Scalars
    /\ d.op \in {"S_ADD_I", "S_CMP_LT_I"} => d.rs1 \in Scalars
    /\ d.op \in Branches => d.rd = 0 /\ d.rs1 = 0
    /\ d.op \in {"JMP_IF_ANY", "JMP_IF_ALL"} => d.guard \in 1..4

(* A jump the assembler can be told of in numbers: it refuses a negative   *)
(* target, and the disassembler writes a large one as negative.            *)
InReach(d) == d.op \in Branches => d.lo <= IMM_MAX

----------------------------------------------------------------------------
(* The arithmetic of the field that holds immediates.                      *)

\* LoMod is twice the range of an immediate; fields of registers fit it.
LEMMA LoModFacts ==
  /\ IMM_MAX \in Nat /\ IMM_MAX >= 15 /\ LoMod = 2 * IMM_MAX + 2
  /\ LoMod \in Nat /\ LoMod > 15 /\ IMM_MIN = -IMM_MAX - 1 /\ LANES \in Nat /\ LANES <= IMM_MAX + 1
BY EncodingAssumption, SizesAssumption, WordBitsAssumption DEF LoMod, IMM_MIN

\* A field keeps a value of its range.
LEMMA LoSmall == \A v \in LoField : v % LoMod = v
BY LoModFacts DEF LoField

\* A value of any size leaves a value of the field's range.
LEMMA LoRange == \A v \in Int : v % LoMod \in LoField
BY LoModFacts DEF LoField

\* A negative immediate is written as its complement.
LEMMA LoNegative == \A v \in IMM_MIN..(-1) : v % LoMod = v + LoMod
<1> SUFFICES ASSUME NEW v \in IMM_MIN..(-1) PROVE v % LoMod = v + LoMod
  OBVIOUS
<1> DEFINE q == v \div LoMod
           r == v % LoMod
           M == LoMod
<1>1. M \in Nat /\ M > 0 /\ v \in Int /\ v < 0 /\ v + M > 0 BY LoModFacts
<1>2. q \in Int /\ r \in 0..(M - 1) /\ v = M * q + r BY <1>1
<1> HIDE DEF q, r, M
<1>3. CASE q >= 0
  <2>1. M * q >= 0 BY <1>1, <1>2, <1>3
  <2> QED BY <1>1, <1>2, <2>1
<1>4. CASE q <= -2
  <2>1. M * (q + 2) <= 0 BY <1>1, <1>2, <1>4
  <2>2. M * q + 2 * M <= 0 BY <1>1, <1>2, <2>1
  <2> QED BY <1>1, <1>2, <2>2
<1>5. CASE q = -1
  <2>1. v = r - M BY <1>1, <1>2, <1>5
  <2> QED BY <1>1, <1>2, <2>1 DEF r, M
<1> QED BY <1>2, <1>3, <1>4, <1>5

\* sign_ext13 gives back an immediate that enc_i writes as the same field.
LEMMA SignExtension ==
  \A lo \in LoField : SignExt(lo) \in IMM_MIN..IMM_MAX /\ SignExt(lo) % LoMod = lo
<1> SUFFICES ASSUME NEW lo \in LoField
             PROVE  SignExt(lo) \in IMM_MIN..IMM_MAX /\ SignExt(lo) % LoMod = lo
  OBVIOUS
<1>1. CASE lo > IMM_MAX
  <2>1. SignExt(lo) = lo - LoMod BY <1>1 DEF SignExt
  <2>2. lo - LoMod \in IMM_MIN..(-1) BY <1>1, LoModFacts DEF LoField
  <2>3. (lo - LoMod) % LoMod = (lo - LoMod) + LoMod BY <2>2, LoNegative
  <2> QED BY <2>1, <2>2, <2>3, LoModFacts DEF LoField
<1>2. CASE ~(lo > IMM_MAX)
  <2>1. SignExt(lo) = lo BY <1>2 DEF SignExt
  <2> QED BY <1>2, <2>1, LoSmall, LoModFacts DEF LoField
<1> QED BY <1>1, <1>2

----------------------------------------------------------------------------
(* The instruction set: which encoder an instruction has.                  *)
\* The names in the two tables of immediate forms.
LEMMA TableNames ==
  /\ DOMAIN WithImmediate = AluNames /\ Range(WithImmediate) = AluImmNames
  /\ DOMAIN Compares = CompareNames /\ Range(Compares) = CompareImmNames
<1>1. DOMAIN WithImmediate = AluNames BY DEF WithImmediate, AluNames
<1>2. Range(WithImmediate) = AluImmNames BY DEF WithImmediate, AluImmNames, Range
<1>3. DOMAIN Compares = CompareNames BY DEF Compares, CompareNames
<1>4. Range(Compares) = CompareImmNames BY DEF Compares, CompareImmNames, Range
<1> QED BY <1>1, <1>2, <1>3, <1>4

\* An immediate form is that of one instruction, whose name is also read.
LEMMA AluForms ==
  /\ \A m \in AluNames : Bin3(m) = m /\ Bin3(WithImmediate[m]) = m
  /\ \A m \in RegisterOnly : Bin3(m) = m
  /\ \A m \in AluImmNames : \E n \in AluNames : WithImmediate[n] = m
  /\ \A m \in AluNames : WithImmediate[m] \in AluImmNames
<1>1. \A m, n \in AluNames : WithImmediate[m] # n /\ (WithImmediate[m] = WithImmediate[n] => m = n)
  BY DEF WithImmediate, AluNames
<1>2. \A m \in AluNames, n \in RegisterOnly : m # n /\ WithImmediate[m] # n
  BY DEF WithImmediate, AluNames, RegisterOnly
<1>3. ASSUME NEW m \in AluNames PROVE Bin3(m) = m /\ Bin3(WithImmediate[m]) = m
  <2>1. \A b \in AluNames \cup RegisterOnly : (m = b \/ (b \in AluNames /\ m = WithImmediate[b])) <=> b = m
    BY <1>1, <1>2
  <2>2. \A b \in AluNames \cup RegisterOnly :
           (WithImmediate[m] = b \/ (b \in AluNames /\ WithImmediate[m] = WithImmediate[b])) <=> b = m
    BY <1>1, <1>2
  <2> QED BY <2>1, <2>2, TableNames DEF Bin3
<1>4. ASSUME NEW m \in RegisterOnly PROVE Bin3(m) = m
  BY <1>2, TableNames DEF Bin3
<1>5. \A m \in AluImmNames : \E n \in AluNames : WithImmediate[n] = m
  BY DEF WithImmediate, AluNames, AluImmNames
<1>6. \A m \in AluNames : WithImmediate[m] \in AluImmNames
  BY DEF WithImmediate, AluNames, AluImmNames
<1> QED BY <1>3, <1>4, <1>5, <1>6

\* The name a comparison with an immediate has in the source.
LEMMA CompareForms ==
  /\ \A m \in CompareNames : Compares[m] \in CompareImmNames /\ SourceName(Compares[m]) = m
  /\ \A m \in CompareImmNames : SourceName(m) \in CompareNames /\ Compares[SourceName(m)] = m
  /\ \A m : m \notin CompareImmNames => SourceName(m) = m
<1>1. \A m, n \in CompareNames : Compares[m] = Compares[n] => m = n
  BY DEF Compares, CompareNames
<1>2. \A m \in CompareNames : Compares[m] \in CompareImmNames
  BY DEF Compares, CompareNames, CompareImmNames
<1>3. \A m \in CompareImmNames : \E n \in CompareNames : Compares[n] = m
  BY DEF Compares, CompareNames, CompareImmNames
<1> QED BY <1>1, <1>2, <1>3, TableNames DEF SourceName

\* instr: the encoder of each instruction.
LEMMA EncoderOf ==
  ASSUME NEW a, NEW i
  PROVE  /\ i.m \in Bare => Instr(a, i) = EmitWord(a, Word(i.m, ParseGuard(i), 0, 0, 0))
         /\ i.m \in {"MOV", "MOV_I"} => Instr(a, i) = EncodeMov(a, i)
         /\ i.m \in AluNames \cup AluImmNames =>
              Instr(a, i) = EncodeBin3(a, i, "r", Bin3(i.m), WithImmediate[Bin3(i.m)])
         /\ i.m \in RegisterOnly => Instr(a, i) = EncodeBin3(a, i, "r", i.m, "")
         /\ i.m \in CompareNames => Instr(a, i) = EncodeBin3(a, i, "p", i.m, Compares[i.m])
         /\ i.m \in Fixed => Instr(a, i) = EncodeFixed(a, i)
         /\ i.m \in {"LOG", "LOG_I"} => Instr(a, i) = EncodeLog(a, i)
         /\ i.m \in {"BROADCAST", "SHUFFLE_XOR"} => Instr(a, i) = EncodeLaneImm(a, i)
         /\ i.m \in LiteralLoads => Instr(a, i) = EncodeLoadLiteral(a, i)
         /\ i.m \in {"S_MOV_I", "S_ADD_I", "S_CMP_LT_I"} => Instr(a, i) = EncodeScalarImm(a, i)
         /\ i.m \in {"JMP", "CALL"} /\ Len(i.o) = 1 => Instr(a, i) = EmitBranch(a, i.m, ParseGuard(i), i.o[1])
         /\ i.m \in {"JMP_IF_ANY", "JMP_IF_ALL"} => Instr(a, i) = EncodeJmpIf(a, i)
         /\ \/ i.m \notin Mnemonics \/ i.m \in CompareImmNames
            \/ i.m \in {"JMP", "CALL"} /\ Len(i.o) # 1
            => Instr(a, i) = AsmFails(a, "mnemonic")
<1> DEFINE names == DOMAIN WithImmediate \cup Range(WithImmediate)
<1>1. names = AluNames \cup AluImmNames /\ DOMAIN Compares = CompareNames BY TableNames
<1> HIDE DEF names
<1>2. Instr(a, i) =
    CASE i.m \in Bare -> EmitWord(a, Word(i.m, ParseGuard(i), 0, 0, 0))
      [] i.m \in {"MOV", "MOV_I"} -> EncodeMov(a, i)
      [] i.m \in AluNames \cup AluImmNames -> EncodeBin3(a, i, "r", Bin3(i.m), WithImmediate[Bin3(i.m)])
      [] i.m \in RegisterOnly -> EncodeBin3(a, i, "r", i.m, "")
      [] i.m \in CompareNames -> EncodeBin3(a, i, "p", i.m, Compares[i.m])
      [] i.m \in Fixed -> EncodeFixed(a, i)
      [] i.m \in {"LOG", "LOG_I"} -> EncodeLog(a, i)
      [] i.m \in {"BROADCAST", "SHUFFLE_XOR"} -> EncodeLaneImm(a, i)
      [] i.m \in {"LDW", "S_LDW"} -> EncodeLoadLiteral(a, i)
      [] i.m \in {"S_MOV_I", "S_ADD_I", "S_CMP_LT_I"} -> EncodeScalarImm(a, i)
      [] i.m \in {"JMP", "CALL"} /\ Len(i.o) = 1 -> EmitBranch(a, i.m, ParseGuard(i), i.o[1])
      [] i.m \in {"JMP_IF_ANY", "JMP_IF_ALL"} -> EncodeJmpIf(a, i)
      [] OTHER -> AsmFails(a, "mnemonic")
  BY <1>1 DEF Instr, names
<1> USE DEF Bare, AluNames, AluImmNames, RegisterOnly, CompareNames, Fixed, OneRegister, TwoRegisters, LiteralLoads
<1>3. i.m \notin Mnemonics => Instr(a, i) = AsmFails(a, "mnemonic") BY <1>2 DEF Mnemonics, Branches
<1>4. i.m \in CompareImmNames => Instr(a, i) = AsmFails(a, "mnemonic") BY <1>2 DEF CompareImmNames
<1>5. i.m \in {"JMP", "CALL"} /\ Len(i.o) # 1 => Instr(a, i) = AsmFails(a, "mnemonic") BY <1>2
<1> QED BY <1>2, <1>3, <1>4, <1>5

\* render: the operands of each instruction, <<>> if it has none to write.
LEMMA TextOf ==
  ASSUME NEW d
  PROVE  /\ d.op \in Fixed => Rendered(d) =
              LET fields == <<d.rd, d.rs1, d.lo % 16>>
              IN  IF \E n \in DOMAIN Operands(d.op) : ~InClass(Operands(d.op)[n], fields[n]) THEN <<>>
                  ELSE <<[n \in DOMAIN Operands(d.op) |-> <<Operands(d.op)[n], fields[n]>>]>>
         /\ d.op \in Bare => Rendered(d) = << <<>> >>
         /\ d.op = "MOV" => Rendered(d) = << <<R(d.rd), R(d.rs1)>> >>
         /\ d.op = "MOV_I" => Rendered(d) = << <<R(d.rd), Imm(SignExt(d.lo))>> >>
         /\ d.op \in AluNames \cup RegisterOnly => Rendered(d) = <<Append(<<R(d.rd), R(d.rs1)>>, R(d.lo % 16))>>
         /\ d.op \in AluImmNames => Rendered(d) = <<Append(<<R(d.rd), R(d.rs1)>>, Imm(SignExt(d.lo)))>>
         /\ d.op \in CompareNames => Rendered(d) =
              IF d.rd > 3 THEN <<>> ELSE << <<P(d.rd), R(d.rs1), R(d.lo % 16)>> >>
         /\ d.op \in CompareImmNames => Rendered(d) =
              IF d.rd > 3 THEN <<>> ELSE << <<P(d.rd), R(d.rs1), Imm(SignExt(d.lo))>> >>
         /\ d.op \in {"BROADCAST", "SHUFFLE_XOR"} => Rendered(d) = <<Append(<<R(d.rd), R(d.rs1)>>, Imm(d.lo))>>
         /\ d.op = "LDW" => Rendered(d) = << <<R(d.rd), Imm(d.lo)>> >>
         /\ d.op = "LOG" => Rendered(d) = << <<R(d.rs1), R(d.lo % 16)>> >>
         /\ d.op = "LOG_I" => Rendered(d) = << <<R(d.rs1), Imm(SignExt(d.lo))>> >>
         /\ d.op = "S_LDW" => Rendered(d) = IF d.rd > 7 THEN <<>> ELSE << <<S(d.rd), Imm(d.lo)>> >>
         /\ d.op = "S_MOV_I" => Rendered(d) = IF d.rd > 7 THEN <<>> ELSE << <<S(d.rd), Imm(SignExt(d.lo))>> >>
         /\ d.op = "S_ADD_I" => Rendered(d) =
              IF d.rs1 > 7 \/ d.rd > 7 THEN <<>> ELSE << <<S(d.rd), S(d.rs1), Imm(SignExt(d.lo))>> >>
         /\ d.op = "S_CMP_LT_I" => Rendered(d) =
              IF d.rs1 > 7 \/ d.rd > 3 THEN <<>> ELSE << <<P(d.rd), S(d.rs1), Imm(SignExt(d.lo))>> >>
         /\ d.op \in {"JMP", "CALL"} => Rendered(d) = << <<Imm(SignExt(d.lo))>> >>
         /\ d.op \in {"JMP_IF_ANY", "JMP_IF_ALL"} => Rendered(d) =
              IF d.guard \in 1..4 THEN << <<P(d.guard - 1), Imm(SignExt(d.lo))>> >> ELSE <<>>
<1> DEFINE fields == <<d.rd, d.rs1, d.lo % 16>>
           bad == \E n \in DOMAIN Operands(d.op) : ~InClass(Operands(d.op)[n], fields[n])
           fixed == <<[n \in DOMAIN Operands(d.op) |-> <<Operands(d.op)[n], fields[n]>>]>>
           alu == Append(<<R(d.rd), R(d.rs1)>>, R(d.lo % 16))
           aluImm == Append(<<R(d.rd), R(d.rs1)>>, Imm(SignExt(d.lo)))
           lane == Append(<<R(d.rd), R(d.rs1)>>, Imm(d.lo))
<1>1. Rendered(d) =
    CASE d.op \in Fixed -> IF bad THEN <<>> ELSE fixed
      [] d.op \in Bare -> << <<>> >>
      [] d.op = "MOV" -> << <<R(d.rd), R(d.rs1)>> >>
      [] d.op = "MOV_I" -> << <<R(d.rd), Imm(SignExt(d.lo))>> >>
      [] d.op \in AluNames \cup RegisterOnly -> <<alu>>
      [] d.op \in AluImmNames -> <<aluImm>>
      [] d.op \in CompareNames \cup CompareImmNames ->
           IF d.rd > 3 THEN <<>>
           ELSE << <<P(d.rd), R(d.rs1), IF d.op \in CompareNames THEN R(d.lo % 16) ELSE Imm(SignExt(d.lo))>> >>
      [] d.op \in {"BROADCAST", "SHUFFLE_XOR"} -> <<lane>>
      [] d.op = "LDW" -> << <<R(d.rd), Imm(d.lo)>> >>
      [] d.op = "LOG" -> << <<R(d.rs1), R(d.lo % 16)>> >>
      [] d.op = "LOG_I" -> << <<R(d.rs1), Imm(SignExt(d.lo))>> >>
      [] d.op = "S_LDW" -> IF d.rd > 7 THEN <<>> ELSE << <<S(d.rd), Imm(d.lo)>> >>
      [] d.op = "S_MOV_I" -> IF d.rd > 7 THEN <<>> ELSE << <<S(d.rd), Imm(SignExt(d.lo))>> >>
      [] d.op \in {"S_ADD_I", "S_CMP_LT_I"} ->
           IF d.rs1 > 7 \/ d.rd > (IF d.op = "S_ADD_I" THEN 7 ELSE 3) THEN <<>>
           ELSE << <<IF d.op = "S_ADD_I" THEN S(d.rd) ELSE P(d.rd), S(d.rs1), Imm(SignExt(d.lo))>> >>
      [] d.op \in {"JMP", "CALL"} -> << <<Imm(SignExt(d.lo))>> >>
      [] d.op \in {"JMP_IF_ANY", "JMP_IF_ALL"} ->
           IF d.guard \in 1..4 THEN << <<P(d.guard - 1), Imm(SignExt(d.lo))>> >> ELSE <<>>
      [] OTHER -> <<>>
  BY TableNames DEF Rendered, InClass
<1> HIDE DEF bad, fixed, alu, aluImm, lane
<1> USE DEF Bare, AluNames, AluImmNames, RegisterOnly, CompareNames, CompareImmNames, Fixed, OneRegister, TwoRegisters
<1>2. CASE d.op \in Fixed BY <1>1, <1>2 DEF bad, fixed
<1>3. CASE d.op \in Bare BY <1>1, <1>3
<1>4. CASE d.op \in AluNames \cup RegisterOnly \cup AluImmNames BY <1>1, <1>4 DEF alu, aluImm
<1>5. CASE d.op \in CompareNames \cup CompareImmNames BY <1>1, <1>5
<1>6. CASE d.op \in {"BROADCAST", "SHUFFLE_XOR"} BY <1>1, <1>6 DEF lane
<1>7. CASE d.op \in {"MOV", "MOV_I", "LDW", "LOG", "LOG_I", "S_LDW", "S_MOV_I"} BY <1>1, <1>7
<1>8. CASE d.op \in {"S_ADD_I", "S_CMP_LT_I"} BY <1>1, <1>8
<1>9. CASE d.op \in Branches BY <1>1, <1>9 DEF Branches
<1> QED BY <1>2, <1>3, <1>4, <1>5, <1>6, <1>7, <1>8, <1>9 DEF Branches

\* The text of an instruction that has only operands of the classes.
LEMMA FixedText ==
  ASSUME NEW d, d.op \in Fixed, NEW c, c = Operands(d.op), NEW fields, fields = <<d.rd, d.rs1, d.lo % 16>>,
         \A n \in DOMAIN c : InClass(c[n], fields[n])
  PROVE  Rendered(d) = <<[n \in DOMAIN c |-> <<c[n], fields[n]>>]>>
<1>1. Rendered(d) =
        LET fs == <<d.rd, d.rs1, d.lo % 16>>
        IN  IF \E n \in DOMAIN Operands(d.op) : ~InClass(Operands(d.op)[n], fs[n]) THEN <<>>
            ELSE <<[n \in DOMAIN Operands(d.op) |-> <<Operands(d.op)[n], fs[n]>>]>>
  BY ONLY d.op \in Fixed, TextOf
<1> QED BY <1>1

\* guard_text and parse_guard: the statement of a word has its guard.
LEMMA GuardOf ==
  ASSUME NEW d, d.guard \in 0..8, Rendered(d) # <<>>, d.op \notin {"JMP_IF_ANY", "JMP_IF_ALL"}
  PROVE  /\ Render(d).k = "ins" /\ Render(d).m = SourceName(d.op) /\ Render(d).o = Rendered(d)[1]
         /\ ParseGuard(Render(d)) = d.guard
         /\ d.guard = 0 <=> Render(d).p = NoGuard
         /\ d.guard # 0 => Render(d).p \in Predicates
         /\ Render(d).inv \in BOOLEAN
<1> DEFINE stmt == Ins(NoGuard, FALSE, SourceName(d.op), Rendered(d)[1])
<1>1. Render(d) = Guard(stmt, d.guard) BY DEF Render
<1>2. stmt = [k |-> "ins", p |-> -1, inv |-> FALSE, m |-> SourceName(d.op), o |-> Rendered(d)[1]]
  BY DEF Ins, NoGuard
<1> HIDE DEF stmt
<1>3. CASE d.guard = 0
  <2>1. Render(d) = stmt BY <1>1, <1>3 DEF Guard
  <2> QED BY <1>2, <1>3, <2>1 DEF ParseGuard, NoGuard
<1>4. CASE d.guard \in 1..4 BY <1>1, <1>2, <1>4 DEF Guard, ParseGuard, NoGuard, Predicates
<1>5. CASE d.guard \in 5..8 BY <1>1, <1>2, <1>5 DEF Guard, ParseGuard, NoGuard, Predicates
<1> QED BY <1>3, <1>4, <1>5

\* A conditional jump has its predicate among its operands.
LEMMA JumpIfText ==
  ASSUME NEW d, d.op \in {"JMP_IF_ANY", "JMP_IF_ALL"}, Rendered(d) # <<>>
  PROVE  Render(d) = [k |-> "ins", p |-> NoGuard, inv |-> FALSE, m |-> d.op,
                      o |-> <<P(d.guard - 1), Imm(SignExt(d.lo))>>]
<1> DEFINE text == <<P(d.guard - 1), Imm(SignExt(d.lo))>>
<1>1. Rendered(d)[1] = text
  <2>1. Rendered(d) = IF d.guard \in 1..4 THEN <<text>> ELSE <<>> BY TextOf
  <2> HIDE DEF text
  <2> QED BY <2>1
<1>2. SourceName(d.op) = d.op BY CompareForms DEF CompareImmNames
<1> QED BY <1>1, <1>2 DEF Render, Ins

\* An immediate that fits is encoded in place.
LEMMA Inlined ==
  ASSUME NEW a, NEW v \in IMM_MIN..IMM_MAX
  PROVE  ResolveImm(a, Imm(v)) = [a |-> a, inline |-> TRUE, v |-> v]
<1>1. Imm(v)[1] = "imm" /\ Imm(v)[2] = v BY DEF Imm
<1> QED BY <1>1 DEF ResolveImm

\* enc_r and enc_i put back the fields that decode took.
LEMMA WordOf ==
  ASSUME NEW d \in CodeWord
  PROVE  /\ Word(d.op, d.guard, d.rd, d.rs1, d.lo) = d
         /\ Word(d.op, d.guard, d.rd, d.rs1, SignExt(d.lo)) = d
<1>1. d = [op |-> d.op, guard |-> d.guard, rd |-> d.rd, rs1 |-> d.rs1, lo |-> d.lo] BY DEF CodeWord
<1>2. d.lo % LoMod = d.lo /\ SignExt(d.lo) % LoMod = d.lo BY LoSmall, SignExtension DEF CodeWord
<1> QED BY <1>1, <1>2 DEF Word

\* The operands of a fixed instruction: at most three, of the three classes.
LEMMA OperandClasses ==
  ASSUME NEW m \in Fixed
  PROVE  /\ Operands(m) \in Seq({"r", "s", "p"}) /\ Len(Operands(m)) \in 0..3
         /\ DOMAIN Operands(m) = 1..Len(Operands(m))
         /\ m = "FLIP" => Len(Operands(m)) = 0
<1> USE DEF OneRegister, TwoRegisters
<1>1. CASE m \in OneRegister
  <2>1. Operands(m) = <<"r">> BY <1>1 DEF Operands
  <2> QED BY <2>1, <1>1
<1>2. CASE m \in TwoRegisters
  <2>1. Operands(m) = <<"r", "r">> BY <1>2 DEF Operands
  <2> QED BY <2>1, <1>2
<1>3. CASE m \in {"NOTMASK", "ANY", "ALL"}
  <2>1. Operands(m) = <<"p", "p">> BY <1>3 DEF Operands
  <2> QED BY <2>1, <1>3
<1>4. CASE m \in {"ANDMASK", "ORMASK"}
  <2>1. Operands(m) = <<"p", "p", "p">> BY <1>4 DEF Operands
  <2> QED BY <2>1, <1>4
<1>5. CASE m \in {"SHUFFLE", "SEND"}
  <2>1. Operands(m) = <<"r", "r", "r">> BY <1>5 DEF Operands
  <2> QED BY <2>1, <1>5
<1>6. CASE m \in {"BALLOT", "S_MOV", "S_BCAST", "S_GET"}
  <2>1. Operands(m) = <<"p", "r">> \/ Operands(m) = <<"s", "s">> \/ Operands(m) = <<"r", "s">>
        \/ Operands(m) = <<"s", "r">>
    BY <1>6 DEF Operands
  <2>2. m # "FLIP" BY <1>6
  <2>3. CASE Operands(m) = <<"p", "r">> BY <2>2, <2>3
  <2>4. CASE Operands(m) = <<"s", "s">> BY <2>2, <2>4
  <2>5. CASE Operands(m) = <<"r", "s">> BY <2>2, <2>5
  <2>6. CASE Operands(m) = <<"s", "r">> BY <2>2, <2>6
  <2> QED BY <2>1, <2>3, <2>4, <2>5, <2>6
<1>7. CASE m \in {"TRY_RECV", "S_ADD", "S_CMP_LT"}
  <2>1. Operands(m) = <<"p", "r", "r">> \/ Operands(m) = <<"s", "s", "s">> \/ Operands(m) = <<"p", "s", "s">>
    BY <1>7 DEF Operands
  <2>2. m # "FLIP" BY <1>7
  <2>3. CASE Operands(m) = <<"p", "r", "r">> BY <2>2, <2>3
  <2>4. CASE Operands(m) = <<"s", "s", "s">> BY <2>2, <2>4
  <2>5. CASE Operands(m) = <<"p", "s", "s">> BY <2>2, <2>5
  <2> QED BY <2>1, <2>3, <2>4, <2>5
<1>8. CASE m = "FLIP"
  <2>1. Operands(m) = <<>> BY <1>8 DEF Operands
  <2> QED BY <2>1, <1>8
<1> QED BY <1>1, <1>2, <1>3, <1>4, <1>5, <1>6, <1>7, <1>8 DEF Fixed

(* What a word adds to the program when its text is assembled.             *)
Appended(a, d) ==
    EmitWord(IF d.op \in LiteralLoads /\ Rendered(d) # <<>> THEN [a EXCEPT !.ldw = @ \cup {d.lo}] ELSE a, d)

(* The operands of a statement, two or three.                              *)
IsPair(o, x, y)      == Len(o) = 2 /\ o[1] = x /\ o[2] = y
IsTriple(o, x, y, z) == Len(o) = 3 /\ o[1] = x /\ o[2] = y /\ o[3] = z

\* They are written out, or the last is appended.
LEMMA Pairs ==
  ASSUME NEW x, NEW y
  PROVE  IsPair(<<x, y>>, x, y)
BY DEF IsPair

LEMMA Triples ==
  ASSUME NEW x, NEW y, NEW z
  PROVE  IsTriple(<<x, y, z>>, x, y, z) /\ IsTriple(Append(<<x, y>>, z), x, y, z)
<1>1. PICK s : s = <<x, y>> OBVIOUS
<1>2. PICK T : T = {x, y, z} OBVIOUS
<1>3. s \in Seq(T) BY <1>1, <1>2
<1>4. z \in T /\ Len(s) = 2 /\ s[1] = x /\ s[2] = y BY <1>1, <1>2
<1>5. Len(Append(s, z)) = Len(s) + 1 BY <1>2, <1>3
<1>6. Append(s, z)[Len(s) + 1] = z BY <1>2, <1>3
<1>7. \A n \in 1..Len(s) : Append(s, z)[n] = s[n] BY <1>2, <1>3
<1>8. IsTriple(Append(s, z), x, y, z) BY <1>4, <1>5, <1>6, <1>7 DEF IsTriple
<1>9. IsTriple(<<x, y, z>>, x, y, z) BY DEF IsTriple
<1> QED BY <1>1, <1>8, <1>9

\* A canonical word has a text, and the operands its instruction takes.
LEMMA CanonicalText ==
  ASSUME NEW d, Canonical(d)
  PROVE  /\ Rendered(d) # <<>>
         /\ d.op = "MOV" => IsPair(Rendered(d)[1], R(d.rd), R(d.rs1))
         /\ d.op = "MOV_I" => IsPair(Rendered(d)[1], R(d.rd), Imm(SignExt(d.lo)))
         /\ d.op \in AluNames \cup RegisterOnly => IsTriple(Rendered(d)[1], R(d.rd), R(d.rs1), R(d.lo))
         /\ d.op \in AluImmNames => IsTriple(Rendered(d)[1], R(d.rd), R(d.rs1), Imm(SignExt(d.lo)))
         /\ d.op \in CompareNames => IsTriple(Rendered(d)[1], P(d.rd), R(d.rs1), R(d.lo))
         /\ d.op \in CompareImmNames => IsTriple(Rendered(d)[1], P(d.rd), R(d.rs1), Imm(SignExt(d.lo)))
         /\ d.op \in {"BROADCAST", "SHUFFLE_XOR"} => IsTriple(Rendered(d)[1], R(d.rd), R(d.rs1), Imm(d.lo))
         /\ d.op = "LDW" => IsPair(Rendered(d)[1], R(d.rd), Imm(d.lo))
         /\ d.op = "LOG" => IsPair(Rendered(d)[1], R(d.rs1), R(d.lo))
         /\ d.op = "LOG_I" => IsPair(Rendered(d)[1], R(d.rs1), Imm(SignExt(d.lo)))
         /\ d.op = "S_LDW" => IsPair(Rendered(d)[1], S(d.rd), Imm(d.lo))
         /\ d.op = "S_MOV_I" => IsPair(Rendered(d)[1], S(d.rd), Imm(SignExt(d.lo)))
         /\ d.op = "S_ADD_I" => IsTriple(Rendered(d)[1], S(d.rd), S(d.rs1), Imm(SignExt(d.lo)))
         /\ d.op = "S_CMP_LT_I" => IsTriple(Rendered(d)[1], P(d.rd), S(d.rs1), Imm(SignExt(d.lo)))
         /\ d.op \in {"JMP", "CALL"} => Len(Rendered(d)[1]) = 1 /\ Rendered(d)[1][1] = Imm(SignExt(d.lo))
<1>1. ASSUME d.op \in Fixed PROVE Rendered(d) # <<>>
  <2>1. FixedFields(d) BY <1>1 DEF Canonical
  <2>2. PICK c : c = Operands(d.op) OBVIOUS
  <2>3. c \in Seq({"r", "s", "p"}) /\ Len(c) \in 0..3 /\ DOMAIN c = 1..Len(c) BY <1>1, <2>2, OperandClasses
  <2>4. \A n \in 1..3 : n <= Len(c) => <<d.rd, d.rs1, d.lo>>[n] \in Regs /\ InClass(c[n], <<d.rd, d.rs1, d.lo>>[n])
    BY <2>1, <2>2 DEF FixedFields
  <2>5. \A n \in DOMAIN c : InClass(c[n], <<d.rd, d.rs1, d.lo % 16>>[n])
    BY <2>3, <2>4 DEF Regs
  <2> DEFINE text == [n \in DOMAIN c |-> <<c[n], <<d.rd, d.rs1, d.lo % 16>>[n]>>]
  <2>6. Rendered(d) = <<text>> BY ONLY <1>1, <2>2, <2>5, FixedText
  <2> HIDE DEF text
  <2> QED BY <2>6
<1>2. ASSUME d.op \in Bare PROVE Rendered(d) # <<>>
  <2> DEFINE text == <<>>
  <2>1. Rendered(d) = <<text>> BY <1>2, TextOf
  <2> HIDE DEF text
  <2> QED BY <2>1
<1>3. ASSUME d.op = "MOV"
      PROVE  Rendered(d) # <<>> /\ IsPair(Rendered(d)[1], R(d.rd), R(d.rs1))
  <2> DEFINE text == <<R(d.rd), R(d.rs1)>>
  <2>1. Rendered(d) = <<text>> BY <1>3, TextOf
  <2>4. IsPair(text, R(d.rd), R(d.rs1)) BY Pairs
  <2> HIDE DEF text
  <2>5. Rendered(d) # <<>> /\ Rendered(d)[1] = text BY <2>1
  <2> QED BY <2>4, <2>5
<1>4. ASSUME d.op = "MOV_I"
      PROVE  Rendered(d) # <<>> /\ IsPair(Rendered(d)[1], R(d.rd), Imm(SignExt(d.lo)))
  <2> DEFINE text == <<R(d.rd), Imm(SignExt(d.lo))>>
  <2>1. Rendered(d) = <<text>> BY <1>4, TextOf
  <2>4. IsPair(text, R(d.rd), Imm(SignExt(d.lo))) BY Pairs
  <2> HIDE DEF text
  <2>5. Rendered(d) # <<>> /\ Rendered(d)[1] = text BY <2>1
  <2> QED BY <2>4, <2>5
<1>5. ASSUME d.op \in AluNames \cup RegisterOnly
      PROVE  Rendered(d) # <<>> /\ IsTriple(Rendered(d)[1], R(d.rd), R(d.rs1), R(d.lo))
  <2> DEFINE text == Append(<<R(d.rd), R(d.rs1)>>, R(d.lo % 16))
  <2>1. Rendered(d) = <<text>> BY <1>5, TextOf
  <2>3. d.lo % 16 = d.lo
    <3>1. d.lo \in Regs BY <1>5 DEF Canonical
    <3> QED BY <3>1 DEF Regs
  <2>4. IsTriple(text, R(d.rd), R(d.rs1), R(d.lo)) BY <2>3, Triples
  <2> HIDE DEF text
  <2>5. Rendered(d) # <<>> /\ Rendered(d)[1] = text BY <2>1
  <2> QED BY <2>4, <2>5
<1>6. ASSUME d.op \in AluImmNames
      PROVE  Rendered(d) # <<>> /\ IsTriple(Rendered(d)[1], R(d.rd), R(d.rs1), Imm(SignExt(d.lo)))
  <2> DEFINE text == Append(<<R(d.rd), R(d.rs1)>>, Imm(SignExt(d.lo)))
  <2>1. Rendered(d) = <<text>> BY <1>6, TextOf
  <2>4. IsTriple(text, R(d.rd), R(d.rs1), Imm(SignExt(d.lo))) BY Triples
  <2> HIDE DEF text
  <2>5. Rendered(d) # <<>> /\ Rendered(d)[1] = text BY <2>1
  <2> QED BY <2>4, <2>5
<1>7. ASSUME d.op \in CompareNames
      PROVE  Rendered(d) # <<>> /\ IsTriple(Rendered(d)[1], P(d.rd), R(d.rs1), R(d.lo))
  <2> DEFINE text == <<P(d.rd), R(d.rs1), R(d.lo % 16)>>
  <2>1. Rendered(d) = IF d.rd > 3 THEN <<>> ELSE <<text>> BY <1>7, TextOf
  <2>2. ~(d.rd > 3) BY <1>7 DEF Canonical, Predicates, Scalars
  <2>3. d.lo % 16 = d.lo
    <3>1. d.lo \in Regs BY <1>7 DEF Canonical
    <3> QED BY <3>1 DEF Regs
  <2>4. IsTriple(text, P(d.rd), R(d.rs1), R(d.lo)) BY <2>3, Triples
  <2> HIDE DEF text
  <2>5. Rendered(d) # <<>> /\ Rendered(d)[1] = text BY <2>1, <2>2
  <2> QED BY <2>4, <2>5
<1>8. ASSUME d.op \in CompareImmNames
      PROVE  Rendered(d) # <<>> /\ IsTriple(Rendered(d)[1], P(d.rd), R(d.rs1), Imm(SignExt(d.lo)))
  <2> DEFINE text == <<P(d.rd), R(d.rs1), Imm(SignExt(d.lo))>>
  <2>1. Rendered(d) = IF d.rd > 3 THEN <<>> ELSE <<text>> BY <1>8, TextOf
  <2>2. ~(d.rd > 3) BY <1>8 DEF Canonical, Predicates, Scalars
  <2>4. IsTriple(text, P(d.rd), R(d.rs1), Imm(SignExt(d.lo))) BY Triples
  <2> HIDE DEF text
  <2>5. Rendered(d) # <<>> /\ Rendered(d)[1] = text BY <2>1, <2>2
  <2> QED BY <2>4, <2>5
<1>9. ASSUME d.op \in {"BROADCAST", "SHUFFLE_XOR"}
      PROVE  Rendered(d) # <<>> /\ IsTriple(Rendered(d)[1], R(d.rd), R(d.rs1), Imm(d.lo))
  <2> DEFINE text == Append(<<R(d.rd), R(d.rs1)>>, Imm(d.lo))
  <2>1. Rendered(d) = <<text>> BY <1>9, TextOf
  <2>4. IsTriple(text, R(d.rd), R(d.rs1), Imm(d.lo)) BY Triples
  <2> HIDE DEF text
  <2>5. Rendered(d) # <<>> /\ Rendered(d)[1] = text BY <2>1
  <2> QED BY <2>4, <2>5
<1>10. ASSUME d.op = "LDW"
      PROVE  Rendered(d) # <<>> /\ IsPair(Rendered(d)[1], R(d.rd), Imm(d.lo))
  <2> DEFINE text == <<R(d.rd), Imm(d.lo)>>
  <2>1. Rendered(d) = <<text>> BY <1>10, TextOf
  <2>4. IsPair(text, R(d.rd), Imm(d.lo)) BY Pairs
  <2> HIDE DEF text
  <2>5. Rendered(d) # <<>> /\ Rendered(d)[1] = text BY <2>1
  <2> QED BY <2>4, <2>5
<1>11. ASSUME d.op = "LOG"
      PROVE  Rendered(d) # <<>> /\ IsPair(Rendered(d)[1], R(d.rs1), R(d.lo))
  <2> DEFINE text == <<R(d.rs1), R(d.lo % 16)>>
  <2>1. Rendered(d) = <<text>> BY <1>11, TextOf
  <2>3. d.lo % 16 = d.lo
    <3>1. d.lo \in Regs BY <1>11 DEF Canonical
    <3> QED BY <3>1 DEF Regs
  <2>4. IsPair(text, R(d.rs1), R(d.lo)) BY <2>3, Pairs
  <2> HIDE DEF text
  <2>5. Rendered(d) # <<>> /\ Rendered(d)[1] = text BY <2>1
  <2> QED BY <2>4, <2>5
<1>12. ASSUME d.op = "LOG_I"
      PROVE  Rendered(d) # <<>> /\ IsPair(Rendered(d)[1], R(d.rs1), Imm(SignExt(d.lo)))
  <2> DEFINE text == <<R(d.rs1), Imm(SignExt(d.lo))>>
  <2>1. Rendered(d) = <<text>> BY <1>12, TextOf
  <2>4. IsPair(text, R(d.rs1), Imm(SignExt(d.lo))) BY Pairs
  <2> HIDE DEF text
  <2>5. Rendered(d) # <<>> /\ Rendered(d)[1] = text BY <2>1
  <2> QED BY <2>4, <2>5
<1>13. ASSUME d.op = "S_LDW"
      PROVE  Rendered(d) # <<>> /\ IsPair(Rendered(d)[1], S(d.rd), Imm(d.lo))
  <2> DEFINE text == <<S(d.rd), Imm(d.lo)>>
  <2>1. Rendered(d) = IF d.rd > 7 THEN <<>> ELSE <<text>> BY <1>13, TextOf
  <2>2. ~(d.rd > 7) BY <1>13 DEF Canonical, Predicates, Scalars
  <2>4. IsPair(text, S(d.rd), Imm(d.lo)) BY Pairs
  <2> HIDE DEF text
  <2>5. Rendered(d) # <<>> /\ Rendered(d)[1] = text BY <2>1, <2>2
  <2> QED BY <2>4, <2>5
<1>14. ASSUME d.op = "S_MOV_I"
      PROVE  Rendered(d) # <<>> /\ IsPair(Rendered(d)[1], S(d.rd), Imm(SignExt(d.lo)))
  <2> DEFINE text == <<S(d.rd), Imm(SignExt(d.lo))>>
  <2>1. Rendered(d) = IF d.rd > 7 THEN <<>> ELSE <<text>> BY <1>14, TextOf
  <2>2. ~(d.rd > 7) BY <1>14 DEF Canonical, Predicates, Scalars
  <2>4. IsPair(text, S(d.rd), Imm(SignExt(d.lo))) BY Pairs
  <2> HIDE DEF text
  <2>5. Rendered(d) # <<>> /\ Rendered(d)[1] = text BY <2>1, <2>2
  <2> QED BY <2>4, <2>5
<1>15. ASSUME d.op = "S_ADD_I"
      PROVE  Rendered(d) # <<>> /\ IsTriple(Rendered(d)[1], S(d.rd), S(d.rs1), Imm(SignExt(d.lo)))
  <2> DEFINE text == <<S(d.rd), S(d.rs1), Imm(SignExt(d.lo))>>
  <2>1. Rendered(d) = IF d.rs1 > 7 \/ d.rd > 7 THEN <<>> ELSE <<text>> BY <1>15, TextOf
  <2>2. ~(d.rs1 > 7 \/ d.rd > 7) BY <1>15 DEF Canonical, Predicates, Scalars
  <2>4. IsTriple(text, S(d.rd), S(d.rs1), Imm(SignExt(d.lo))) BY Triples
  <2> HIDE DEF text
  <2>5. Rendered(d) # <<>> /\ Rendered(d)[1] = text BY <2>1, <2>2
  <2> QED BY <2>4, <2>5
<1>16. ASSUME d.op = "S_CMP_LT_I"
      PROVE  Rendered(d) # <<>> /\ IsTriple(Rendered(d)[1], P(d.rd), S(d.rs1), Imm(SignExt(d.lo)))
  <2> DEFINE text == <<P(d.rd), S(d.rs1), Imm(SignExt(d.lo))>>
  <2>1. Rendered(d) = IF d.rs1 > 7 \/ d.rd > 3 THEN <<>> ELSE <<text>> BY <1>16, TextOf
  <2>2. ~(d.rs1 > 7 \/ d.rd > 3) BY <1>16 DEF Canonical, Predicates, Scalars
  <2>4. IsTriple(text, P(d.rd), S(d.rs1), Imm(SignExt(d.lo))) BY Triples
  <2> HIDE DEF text
  <2>5. Rendered(d) # <<>> /\ Rendered(d)[1] = text BY <2>1, <2>2
  <2> QED BY <2>4, <2>5
<1>17. ASSUME d.op \in {"JMP", "CALL"}
      PROVE  Rendered(d) # <<>> /\ Len(Rendered(d)[1]) = 1 /\ Rendered(d)[1][1] = Imm(SignExt(d.lo))
  <2> DEFINE text == <<Imm(SignExt(d.lo))>>
  <2>1. Rendered(d) = <<text>> BY <1>17, TextOf
  <2>2. Len(text) = 1 /\ text[1] = Imm(SignExt(d.lo)) OBVIOUS
  <2> HIDE DEF text
  <2> QED BY <2>1, <2>2
<1>18. ASSUME d.op \in {"JMP_IF_ANY", "JMP_IF_ALL"} PROVE Rendered(d) # <<>>
  <2> DEFINE text == <<P(d.guard - 1), Imm(SignExt(d.lo))>>
  <2>1. Rendered(d) = IF d.guard \in 1..4 THEN <<text>> ELSE <<>> BY <1>18, TextOf
  <2>2. d.guard \in 1..4 BY <1>18 DEF Canonical
  <2> HIDE DEF text
  <2> QED BY <2>1, <2>2
<1>19. d.op \in Mnemonics BY DEF Canonical
<1> QED BY <1>1, <1>2, <1>3, <1>4, <1>5, <1>6, <1>7, <1>8, <1>9, <1>10, <1>11, <1>12, <1>13, <1>14, <1>15, <1>16, <1>17, <1>18, <1>19 DEF Mnemonics, LiteralLoads, Branches

----------------------------------------------------------------------------
(* What each encoder makes of the text of a word.                          *)

\* The last operand is a register.
LEMMA RegisterFormed ==
  ASSUME NEW a, NEW i, NEW op, NEW opi, NEW f, i.o[Len(i.o)][1] = "r"
  PROVE  Materialized(a, i, op, opi, f) =
           IF Len(i.o) = 2 THEN EmitWord(a, Word(op, ParseGuard(i), f[1], i.o[2][2], 0))
           ELSE EmitWord(a, Word(op, ParseGuard(i), f[1], f[2], i.o[Len(i.o)][2]))
BY DEF Materialized

(* There is such an instruction: the encoders have "" for a form that is   *)
(* not in the instruction set.                                             *)
Exists(opi) == opi # ""

\* The last operand is an immediate that fits.
LEMMA ImmediateForm ==
  ASSUME NEW a, NEW i, NEW op, NEW opi, Exists(opi), NEW f,
         NEW v \in IMM_MIN..IMM_MAX, i.o[Len(i.o)] = Imm(v)
  PROVE  Materialized(a, i, op, opi, f) = EmitWord(a, Word(opi, ParseGuard(i), f[1], f[2], v))
<1> DEFINE r == ResolveImm(a, i.o[Len(i.o)])
<1>1. r.a = a /\ r.inline = TRUE /\ r.v = v
  <2>1. ResolveImm(a, Imm(v)) = [a |-> a, inline |-> TRUE, v |-> v] BY Inlined
  <2>2. r = [a |-> a, inline |-> TRUE, v |-> v] BY <2>1
  <2> HIDE DEF r
  <2> QED BY <2>2
<1>2. i.o[Len(i.o)][1] # "r"
  <2>1. Imm(v)[1] = "imm" BY DEF Imm
  <2> QED BY <2>1
<1> HIDE DEF r
<1> QED BY <1>1, <1>2 DEF Materialized, Exists, r

\* The classes of operands.
LEMMA Classes ==
  ASSUME NEW n
  PROVE  /\ R(n)[1] = "r" /\ R(n)[2] = n /\ S(n)[1] = "s" /\ S(n)[2] = n
         /\ P(n)[1] = "p" /\ P(n)[2] = n /\ Imm(n)[1] = "imm" /\ Imm(n)[2] = n
BY DEF R, S, P, Imm

\* MOV.
LEMMA MovEncoded ==
  ASSUME NEW a, NEW i, Len(i.o) = 2, i.o[1][1] = "r"
  PROVE  /\ i.o[2][1] = "r" => EncodeMov(a, i) = EmitWord(a, Word("MOV", ParseGuard(i), i.o[1][2], i.o[2][2], 0))
         /\ \A v \in IMM_MIN..IMM_MAX : i.o[2] = Imm(v) =>
              EncodeMov(a, i) = EmitWord(a, Word("MOV_I", ParseGuard(i), i.o[1][2], 0, v))
<1> DEFINE f == <<i.o[1][2], 0>>
<1>1. EncodeMov(a, i) = Materialized(a, i, "MOV", "MOV_I", f) BY DEF EncodeMov
<1>2. f[1] = i.o[1][2] /\ f[2] = 0 OBVIOUS
<1> HIDE DEF f
<1>3. ASSUME i.o[2][1] = "r"
      PROVE  EncodeMov(a, i) = EmitWord(a, Word("MOV", ParseGuard(i), i.o[1][2], i.o[2][2], 0))
  <2>1. i.o[Len(i.o)][1] = "r" BY <1>3
  <2>2. Materialized(a, i, "MOV", "MOV_I", f) = EmitWord(a, Word("MOV", ParseGuard(i), f[1], i.o[2][2], 0))
    BY ONLY Len(i.o) = 2, <2>1, RegisterFormed
  <2> QED BY ONLY <1>1, <1>2, <2>2
<1>4. ASSUME NEW v \in IMM_MIN..IMM_MAX, i.o[2] = Imm(v)
      PROVE  EncodeMov(a, i) = EmitWord(a, Word("MOV_I", ParseGuard(i), i.o[1][2], 0, v))
  <2>1. i.o[Len(i.o)] = Imm(v) BY <1>4
  <2>2. Exists("MOV_I") BY DEF Exists
  <2>3. Materialized(a, i, "MOV", "MOV_I", f) = EmitWord(a, Word("MOV_I", ParseGuard(i), f[1], f[2], v))
    BY ONLY <2>1, <2>2, ImmediateForm, v \in IMM_MIN..IMM_MAX
  <2> QED BY <1>1, <1>2, <2>3
<1> QED BY <1>3, <1>4

\* Arithmetic and comparisons, of a register.
LEMMA Bin3Register ==
  ASSUME NEW a, NEW i, NEW class, NEW op, NEW opi,
         Len(i.o) = 3, i.o[1][1] = class, i.o[2][1] = "r", i.o[3][1] = "r"
  PROVE  EncodeBin3(a, i, class, op, opi) = EmitWord(a, Word(op, ParseGuard(i), i.o[1][2], i.o[2][2], i.o[3][2]))
<1> DEFINE f == <<i.o[1][2], i.o[2][2]>>
<1>1. EncodeBin3(a, i, class, op, opi) = Materialized(a, i, op, opi, f) BY DEF EncodeBin3
<1>2. f[1] = i.o[1][2] /\ f[2] = i.o[2][2] OBVIOUS
<1> HIDE DEF f
<1>3. i.o[Len(i.o)][1] = "r" OBVIOUS
<1>4. Materialized(a, i, op, opi, f) = EmitWord(a, Word(op, ParseGuard(i), f[1], f[2], i.o[3][2]))
  BY <1>3, RegisterFormed
<1> QED BY <1>1, <1>2, <1>4

\* The same, of an immediate that fits.
LEMMA Bin3Immediate ==
  ASSUME NEW a, NEW i, NEW class, NEW op, NEW opi, Exists(opi),
         Len(i.o) = 3, i.o[1][1] = class, i.o[2][1] = "r",
         i.o[3] = Imm(i.o[3][2]), i.o[3][2] \in IMM_MIN..IMM_MAX
  PROVE  EncodeBin3(a, i, class, op, opi) = EmitWord(a, Word(opi, ParseGuard(i), i.o[1][2], i.o[2][2], i.o[3][2]))
<1> DEFINE f == <<i.o[1][2], i.o[2][2]>>
<1>1. EncodeBin3(a, i, class, op, opi) = Materialized(a, i, op, opi, f) BY DEF EncodeBin3
<1>2. f[1] = i.o[1][2] /\ f[2] = i.o[2][2] OBVIOUS
<1> HIDE DEF f
<1>3. PICK v \in IMM_MIN..IMM_MAX : v = i.o[3][2] OBVIOUS
<1>4. i.o[Len(i.o)] = Imm(v) BY <1>3
<1>5. Materialized(a, i, op, opi, f) = EmitWord(a, Word(opi, ParseGuard(i), f[1], f[2], v))
  BY ONLY Exists(opi), v \in IMM_MIN..IMM_MAX, <1>4, ImmediateForm
<1> QED BY <1>1, <1>2, <1>3, <1>5

\* Scalar instructions with an immediate.
LEMMA ScalarImmEncoded ==
  ASSUME NEW a, NEW i, i.m \in {"S_MOV_I", "S_ADD_I", "S_CMP_LT_I"}, NEW v \in IMM_MIN..IMM_MAX,
         Len(i.o) = (IF i.m = "S_MOV_I" THEN 2 ELSE 3), i.o[Len(i.o)] = Imm(v),
         i.o[1][1] = (IF i.m = "S_CMP_LT_I" THEN "p" ELSE "s"), i.m # "S_MOV_I" => i.o[2][1] = "s"
  PROVE  EncodeScalarImm(a, i) =
           EmitWord(a, Word(i.m, ParseGuard(i), i.o[1][2], IF i.m = "S_MOV_I" THEN 0 ELSE i.o[2][2], v))
<1> DEFINE r == ResolveImm(a, i.o[Len(i.o)])
<1>1. r.a = a /\ r.inline = TRUE /\ r.v = v
  <2>1. ResolveImm(a, Imm(v)) = [a |-> a, inline |-> TRUE, v |-> v] BY Inlined
  <2>2. r = [a |-> a, inline |-> TRUE, v |-> v] BY <2>1
  <2> HIDE DEF r
  <2> QED BY <2>2
<1> HIDE DEF r
<1> QED BY <1>1 DEF EncodeScalarImm, r

\* Fixed instructions.
LEMMA FixedRoundTrips ==
  ASSUME NEW a, NEW d, Canonical(d), d.op \in Fixed, NEW i, i.m = d.op, i.o = Rendered(d)[1],
         ParseGuard(i) = d.guard, d.guard = 0 => i.p = NoGuard
  PROVE  EncodeFixed(a, i) = EmitWord(a, d)
<1>1. FixedFields(d) /\ (d.op = "FLIP" => i.p = NoGuard) /\ d \in CodeWord BY DEF Canonical
<1>2. PICK c : c = Operands(d.op) OBVIOUS
<1>3. c \in Seq({"r", "s", "p"}) /\ Len(c) \in 0..3 /\ DOMAIN c = 1..Len(c) BY <1>2, OperandClasses
<1> DEFINE written == <<d.rd, d.rs1, d.lo>>
           shown   == <<d.rd, d.rs1, d.lo % 16>>
<1>4. \A n \in 1..3 : IF n <= Len(c) THEN written[n] \in Regs /\ InClass(c[n], written[n]) ELSE written[n] = 0
  BY <1>1, <1>2 DEF FixedFields
<1>5. \A n \in DOMAIN c : shown[n] = written[n] BY <1>3, <1>4 DEF Regs
<1>6. \A n \in DOMAIN c : InClass(c[n], shown[n]) BY <1>3, <1>4, <1>5
<1> DEFINE text == [n \in DOMAIN c |-> <<c[n], shown[n]>>]
<1>7. Rendered(d) = <<text>> BY ONLY d.op \in Fixed, <1>2, <1>6, FixedText
<1>8. i.o = text
  <2> HIDE DEF text
  <2> QED BY <1>7
<1>9. written[1] = d.rd /\ written[2] = d.rs1 /\ written[3] = d.lo OBVIOUS
<1> HIDE DEF written, shown
<1>10. i.o = [n \in 1..Len(c) |-> <<c[n], shown[n]>>] BY <1>3, <1>8
<1>11. Len(i.o) = Len(c) BY <1>3, <1>10
<1>12. \A n \in 1..Len(c) : i.o[n][1] = c[n] /\ i.o[n][2] = written[n]
  BY <1>3, <1>5, <1>10
<1> HIDE DEF text
<1>13. Shaped(i, c) BY <1>3, <1>11, <1>12 DEF Shaped
<1> DEFINE field(n) == IF n > Len(i.o) THEN 0 ELSE i.o[n][2]
<1>14. field(1) = d.rd /\ field(2) = d.rs1 /\ field(3) = d.lo BY <1>3, <1>4, <1>9, <1>11, <1>12
<1>15. EncodeFixed(a, i) = EmitWord(a, Word(i.m, ParseGuard(i), field(1), field(2), field(3)))
  BY <1>1, <1>2, <1>13 DEF EncodeFixed
<1> HIDE DEF field
<1> QED BY <1>1, <1>14, <1>15, WordOf

\* Instructions that are neither fixed nor jumps.
LEMMA OtherRoundTrips ==
  ASSUME NEW a, NEW d, Canonical(d), d.op \notin Fixed, d.op \notin Branches, NEW i, i.m = SourceName(d.op),
         i.o = Rendered(d)[1], ParseGuard(i) = d.guard
  PROVE  Instr(a, i) = Appended(a, d)
<1> DEFINE v == SignExt(d.lo)
<1>1. d \in CodeWord BY DEF Canonical
<1>2. v \in IMM_MIN..IMM_MAX BY <1>1, SignExtension DEF CodeWord
<1>3. /\ Word(d.op, d.guard, d.rd, d.rs1, d.lo) = d
      /\ Word(d.op, d.guard, d.rd, d.rs1, v) = d
  BY <1>1, WordOf
<1> HIDE DEF v
<1>4. d.op \notin LiteralLoads => Appended(a, d) = EmitWord(a, d) BY DEF Appended
<1>5. d.op \notin CompareImmNames => i.m = d.op BY CompareForms
<1>6. CASE d.op \in Bare
  <2>1. d.rd = 0 /\ d.rs1 = 0 /\ d.lo = 0 BY <1>6 DEF Canonical
  <2>2. i.m = d.op /\ d.op \notin LiteralLoads BY <1>5, <1>6 DEF Bare, CompareImmNames, LiteralLoads
  <2> QED BY <1>3, <1>4, <1>6, <2>1, <2>2, EncoderOf
<1>7. CASE d.op = "MOV"
  <2>1. d.lo = 0 /\ i.m = "MOV" /\ d.op \notin LiteralLoads
    BY <1>5, <1>7 DEF Canonical, CompareImmNames, LiteralLoads
  <2>2. Len(i.o) = 2 /\ i.o[1] = R(d.rd) /\ i.o[2] = R(d.rs1) BY <1>7, CanonicalText DEF IsPair
  <2>3. EncodeMov(a, i) = EmitWord(a, Word("MOV", ParseGuard(i), d.rd, d.rs1, 0)) BY <2>2, Classes, MovEncoded
  <2>4. Instr(a, i) = EncodeMov(a, i) BY <2>1, EncoderOf
  <2> QED BY <1>3, <1>4, <1>7, <2>1, <2>3, <2>4
<1>8. CASE d.op = "MOV_I"
  <2>1. d.rs1 = 0 /\ i.m = "MOV_I" /\ d.op \notin LiteralLoads
    BY <1>5, <1>8 DEF Canonical, CompareImmNames, LiteralLoads
  <2>2. Len(i.o) = 2 /\ i.o[1] = R(d.rd) /\ i.o[2] = Imm(v) BY <1>8, CanonicalText DEF IsPair, v
  <2>3. EncodeMov(a, i) = EmitWord(a, Word("MOV_I", ParseGuard(i), d.rd, 0, v))
    BY <1>2, <2>2, Classes, MovEncoded
  <2>4. Instr(a, i) = EncodeMov(a, i) BY <2>1, EncoderOf
  <2> QED BY <1>3, <1>4, <1>8, <2>1, <2>3, <2>4
<1>9. CASE d.op \in AluNames \cup RegisterOnly
  <2>1. i.m = d.op /\ d.op \notin LiteralLoads
    BY <1>5, <1>9 DEF CompareImmNames, LiteralLoads, AluNames, RegisterOnly
  <2>2. Len(i.o) = 3 /\ i.o[1] = R(d.rd) /\ i.o[2] = R(d.rs1) /\ i.o[3] = R(d.lo)
    BY <1>9, CanonicalText DEF IsTriple
  <2>3. /\ Len(i.o) = 3 /\ i.o[1][1] = "r" /\ i.o[1][2] = d.rd /\ i.o[2][1] = "r" /\ i.o[2][2] = d.rs1
        /\ i.o[3][1] = "r" /\ i.o[3][2] = d.lo
    BY <2>2, Classes
  <2>4. \E opi : Instr(a, i) = EncodeBin3(a, i, "r", i.m, opi)
    <3>1. CASE i.m \in AluNames
      <4>1. Bin3(i.m) = i.m BY <3>1, AluForms
      <4>2. Instr(a, i) = EncodeBin3(a, i, "r", Bin3(i.m), WithImmediate[Bin3(i.m)]) BY <3>1, EncoderOf
      <4> QED BY <4>1, <4>2
    <3>2. CASE i.m \in RegisterOnly BY <3>2, EncoderOf
    <3> QED BY <1>9, <2>1, <3>1, <3>2
  <2>5. PICK opi : Instr(a, i) = EncodeBin3(a, i, "r", i.m, opi) BY <2>4
  <2>6. EncodeBin3(a, i, "r", i.m, opi) = EmitWord(a, Word(i.m, ParseGuard(i), d.rd, d.rs1, d.lo))
    BY <2>3, Bin3Register
  <2> QED BY <1>3, <1>4, <2>1, <2>5, <2>6
<1>10. CASE d.op \in AluImmNames
  <2>1. i.m = d.op /\ d.op \notin LiteralLoads /\ Exists(d.op)
    BY <1>5, <1>10 DEF CompareImmNames, LiteralLoads, AluImmNames, Exists
  <2>2. Len(i.o) = 3 /\ i.o[1] = R(d.rd) /\ i.o[2] = R(d.rs1) /\ i.o[3] = Imm(v)
    BY <1>10, CanonicalText DEF IsTriple, v
  <2>3. /\ Len(i.o) = 3 /\ i.o[1][1] = "r" /\ i.o[1][2] = d.rd /\ i.o[2][1] = "r" /\ i.o[2][2] = d.rs1
        /\ i.o[3] = Imm(i.o[3][2]) /\ i.o[3][2] = v
    BY <2>2, Classes
  <2>4. PICK n \in AluNames : WithImmediate[n] = i.m BY <1>10, <2>1, AluForms
  <2>5. Bin3(i.m) = n BY <2>4, AluForms
  <2>6. Instr(a, i) = EncodeBin3(a, i, "r", Bin3(i.m), WithImmediate[Bin3(i.m)]) BY <1>10, <2>1, EncoderOf
  <2>7. EncodeBin3(a, i, "r", n, i.m) = EmitWord(a, Word(i.m, ParseGuard(i), d.rd, d.rs1, v))
    BY <1>2, <2>1, <2>3, Bin3Immediate
  <2> QED BY <1>3, <1>4, <2>1, <2>4, <2>5, <2>6, <2>7
<1>11. CASE d.op \in CompareNames
  <2>1. i.m = d.op /\ d.op \notin LiteralLoads BY <1>5, <1>11 DEF CompareImmNames, LiteralLoads, CompareNames
  <2>2. Len(i.o) = 3 /\ i.o[1] = P(d.rd) /\ i.o[2] = R(d.rs1) /\ i.o[3] = R(d.lo)
    BY <1>11, CanonicalText DEF IsTriple
  <2>3. /\ Len(i.o) = 3 /\ i.o[1][1] = "p" /\ i.o[1][2] = d.rd /\ i.o[2][1] = "r" /\ i.o[2][2] = d.rs1
        /\ i.o[3][1] = "r" /\ i.o[3][2] = d.lo
    BY <2>2, Classes
  <2> DEFINE opi == Compares[i.m]
  <2>4. Instr(a, i) = EncodeBin3(a, i, "p", i.m, opi) BY <1>11, <2>1, EncoderOf
  <2> HIDE DEF opi
  <2>5. EncodeBin3(a, i, "p", i.m, opi) = EmitWord(a, Word(i.m, ParseGuard(i), d.rd, d.rs1, d.lo))
    BY <2>3, Bin3Register
  <2> QED BY <1>3, <1>4, <2>1, <2>4, <2>5
<1>12. CASE d.op \in CompareImmNames
  <2>1. i.m \in CompareNames /\ Compares[i.m] = d.op /\ Exists(d.op) /\ d.op \notin LiteralLoads
    BY <1>12, CompareForms DEF CompareImmNames, LiteralLoads, Exists
  <2>2. Len(i.o) = 3 /\ i.o[1] = P(d.rd) /\ i.o[2] = R(d.rs1) /\ i.o[3] = Imm(v)
    BY <1>12, CanonicalText DEF IsTriple, v
  <2>3. /\ Len(i.o) = 3 /\ i.o[1][1] = "p" /\ i.o[1][2] = d.rd /\ i.o[2][1] = "r" /\ i.o[2][2] = d.rs1
        /\ i.o[3] = Imm(i.o[3][2]) /\ i.o[3][2] = v
    BY <2>2, Classes
  <2>4. Instr(a, i) = EncodeBin3(a, i, "p", i.m, Compares[i.m]) BY <2>1, EncoderOf
  <2>5. EncodeBin3(a, i, "p", i.m, d.op) = EmitWord(a, Word(d.op, ParseGuard(i), d.rd, d.rs1, v))
    BY <1>2, <2>1, <2>3, Bin3Immediate
  <2> QED BY <1>3, <1>4, <2>1, <2>4, <2>5
<1>13. CASE d.op \in {"BROADCAST", "SHUFFLE_XOR"}
  <2>1. i.m = d.op /\ d.op \notin LiteralLoads /\ d.lo \in 0..LANES - 1
    BY <1>5, <1>13 DEF Canonical, CompareImmNames, LiteralLoads
  <2>2. Len(i.o) = 3 /\ i.o[1] = R(d.rd) /\ i.o[2] = R(d.rs1) /\ i.o[3] = Imm(d.lo)
    BY <1>13, CanonicalText DEF IsTriple
  <2>3. Shaped(i, <<"r", "r", "imm">>)
    BY <2>2, Classes DEF Shaped
  <2>4. EncodeLaneImm(a, i) = EmitWord(a, Word(i.m, ParseGuard(i), d.rd, d.rs1, d.lo))
    BY <2>1, <2>2, <2>3, Classes DEF EncodeLaneImm
  <2>5. Instr(a, i) = EncodeLaneImm(a, i) BY <1>13, <2>1, EncoderOf
  <2> QED BY <1>3, <1>4, <2>1, <2>4, <2>5
<1>14. CASE d.op \in LiteralLoads
  <2>1. i.m = d.op /\ d.rs1 = 0 BY <1>5, <1>14 DEF Canonical, CompareImmNames, LiteralLoads
  <2>2. /\ Len(i.o) = 2 /\ i.o[1][1] = (IF i.m = "LDW" THEN "r" ELSE "s") /\ i.o[1][2] = d.rd
        /\ i.o[2] = Imm(d.lo)
    BY <1>14, <2>1, CanonicalText, Classes DEF IsPair, LiteralLoads
  <2>3. Shaped(i, <<IF i.m = "LDW" THEN "r" ELSE "s", "imm">>) BY <2>2, Classes DEF Shaped
  <2>4. d.lo >= 0 BY <1>1 DEF CodeWord, LoField
  <2>5. EncodeLoadLiteral(a, i) = EmitWord([a EXCEPT !.ldw = @ \cup {d.lo}], Word(i.m, ParseGuard(i), d.rd, 0, d.lo))
    <3>1. i.o[2][2] = d.lo BY <2>2, Classes
    <3> QED BY <2>2, <2>3, <2>4, <3>1 DEF EncodeLoadLiteral
  <2>6. Instr(a, i) = EncodeLoadLiteral(a, i) BY <1>14, <2>1, EncoderOf
  <2>7. Appended(a, d) = EmitWord([a EXCEPT !.ldw = @ \cup {d.lo}], d) BY <1>14, CanonicalText DEF Appended
  <2> QED BY <1>3, <2>1, <2>5, <2>6, <2>7
<1>15. CASE d.op = "LOG"
  <2>1. i.m = "LOG" /\ d.op \notin LiteralLoads /\ d.rd = 0
    BY <1>5, <1>15 DEF Canonical, CompareImmNames, LiteralLoads
  <2>2. Len(i.o) = 2 /\ i.o[1] = R(d.rs1) /\ i.o[2] = R(d.lo) BY <1>15, CanonicalText DEF IsPair
  <2>3. Shaped(i, <<"r", "r">>) BY <2>2, Classes DEF Shaped
  <2>4. EncodeLog(a, i) = EmitWord(a, Word("LOG", ParseGuard(i), 0, d.rs1, d.lo))
    BY <2>1, <2>2, <2>3, Classes DEF EncodeLog
  <2>5. Instr(a, i) = EncodeLog(a, i) BY <2>1, EncoderOf
  <2> QED BY <1>3, <1>4, <1>15, <2>1, <2>4, <2>5
<1>16. CASE d.op = "LOG_I"
  <2>1. i.m = "LOG_I" /\ d.op \notin LiteralLoads /\ d.rd = 0
    BY <1>5, <1>16 DEF Canonical, CompareImmNames, LiteralLoads
  <2>2. Len(i.o) = 2 /\ i.o[1] = R(d.rs1) /\ i.o[2] = Imm(v) BY <1>16, CanonicalText DEF IsPair, v
  <2> DEFINE r == ResolveImm(a, i.o[2])
  <2>3. r = [a |-> a, inline |-> TRUE, v |-> v] BY <1>2, <2>2, Inlined
  <2> HIDE DEF r
  <2>4. r.a = a /\ r.inline = TRUE /\ r.v = v BY <2>3
  <2>5. EncodeLog(a, i) = EmitWord(a, Word("LOG_I", ParseGuard(i), 0, d.rs1, v))
    BY <2>1, <2>2, <2>4, Classes DEF EncodeLog, r
  <2>6. Instr(a, i) = EncodeLog(a, i) BY <2>1, EncoderOf
  <2> QED BY <1>3, <1>4, <1>16, <2>1, <2>5, <2>6
<1>17. CASE d.op \in {"S_MOV_I", "S_ADD_I", "S_CMP_LT_I"}
  <2>1. i.m = d.op /\ d.op \notin LiteralLoads /\ (d.op = "S_MOV_I" => d.rs1 = 0)
    BY <1>5, <1>17 DEF Canonical, CompareImmNames, LiteralLoads
  <2>2. /\ Len(i.o) = (IF i.m = "S_MOV_I" THEN 2 ELSE 3) /\ i.o[Len(i.o)] = Imm(v)
        /\ i.o[1][1] = (IF i.m = "S_CMP_LT_I" THEN "p" ELSE "s") /\ i.o[1][2] = d.rd
        /\ i.m # "S_MOV_I" => i.o[2][1] = "s" /\ i.o[2][2] = d.rs1
    <3>1. CASE d.op = "S_MOV_I" BY <2>1, <3>1, CanonicalText, Classes DEF IsPair, v
    <3>2. CASE d.op = "S_ADD_I" BY <2>1, <3>2, CanonicalText, Classes DEF IsTriple, v
    <3>3. CASE d.op = "S_CMP_LT_I" BY <2>1, <3>3, CanonicalText, Classes DEF IsTriple, v
    <3> QED BY <1>17, <3>1, <3>2, <3>3
  <2>3. EncodeScalarImm(a, i) = EmitWord(a, Word(i.m, ParseGuard(i), d.rd, d.rs1, v))
    BY <1>2, <1>17, <2>1, <2>2, ScalarImmEncoded
  <2>4. Instr(a, i) = EncodeScalarImm(a, i) BY <1>17, <2>1, EncoderOf
  <2> QED BY <1>3, <1>4, <2>1, <2>3, <2>4
<1> QED
  <2>1. d.op \in Mnemonics BY DEF Canonical
  <2> QED BY <2>1, <1>6, <1>7, <1>8, <1>9, <1>10, <1>11, <1>12, <1>13, <1>14, <1>15, <1>16, <1>17
          DEF Mnemonics

\* Jumps, which name their target in numbers.
LEMMA BranchRoundTrips ==
  ASSUME NEW a, NEW d, Canonical(d), d.op \in Branches, InReach(d)
  PROVE  Instr(a, Render(d)) = Appended(a, d)
<1> DEFINE i == Render(d)
<1>1. d \in CodeWord /\ d.rd = 0 /\ d.rs1 = 0 /\ d.lo <= IMM_MAX BY DEF Canonical, InReach
<1>2. d.lo >= 0 /\ SignExt(d.lo) = d.lo BY <1>1, LoModFacts DEF CodeWord, LoField, SignExt
<1>3. Word(d.op, d.guard, 0, 0, d.lo) = d BY <1>1, WordOf
<1>4. Appended(a, d) = EmitWord(a, d) BY DEF Appended, Branches, LiteralLoads
<1>5. \A t : t = Imm(d.lo) => EmitBranch(a, d.op, d.guard, t) = EmitWord(a, d)
  <2> SUFFICES ASSUME NEW t, t = Imm(d.lo) PROVE EmitBranch(a, d.op, d.guard, t) = EmitWord(a, d)
    OBVIOUS
  <2>1. t[1] = "imm" /\ t[2] = d.lo BY Classes
  <2> QED BY <1>2, <1>3, <2>1 DEF EmitBranch
<1>6. CASE d.op \in {"JMP", "CALL"}
  <2>1. Rendered(d) # <<>> /\ Len(Rendered(d)[1]) = 1 /\ Rendered(d)[1][1] = Imm(d.lo)
    BY <1>2, <1>6, CanonicalText
  <2>2. d.guard \in 0..8 /\ SourceName(d.op) = d.op /\ d.op \notin {"JMP_IF_ANY", "JMP_IF_ALL"}
    BY <1>6, CompareForms DEF Canonical, CompareImmNames
  <2>3. i.m = d.op /\ i.o = Rendered(d)[1] /\ ParseGuard(i) = d.guard BY <2>1, <2>2, GuardOf
  <2> HIDE DEF i
  <2>4. Instr(a, i) = EmitBranch(a, d.op, d.guard, i.o[1]) BY <1>6, <2>1, <2>3, EncoderOf
  <2> QED BY <1>4, <1>5, <2>1, <2>3, <2>4 DEF i
<1>7. CASE d.op \in {"JMP_IF_ANY", "JMP_IF_ALL"}
  <2>1. Rendered(d) # <<>> /\ d.guard \in 1..4 BY <1>7, CanonicalText DEF Canonical
  <2> DEFINE o == <<P(d.guard - 1), Imm(d.lo)>>
  <2>2. i = [k |-> "ins", p |-> NoGuard, inv |-> FALSE, m |-> d.op, o |-> o] BY <1>2, <1>7, <2>1, JumpIfText
  <2>3. Len(o) = 2 /\ o[1] = P(d.guard - 1) /\ o[2] = Imm(d.lo) OBVIOUS
  <2> HIDE DEF o, i
  <2>4. i.p = NoGuard /\ i.m = d.op /\ i.o = o BY <2>2
  <2>5. 1 + o[1][2] = d.guard /\ o[1][1] = "p" BY <2>1, <2>3, Classes
  <2>6. EncodeJmpIf(a, i) = EmitBranch(a, d.op, d.guard, o[2]) BY <2>3, <2>4, <2>5 DEF EncodeJmpIf
  <2>7. Instr(a, i) = EncodeJmpIf(a, i) BY <1>7, <2>4, EncoderOf
  <2> QED BY <1>4, <1>5, <2>3, <2>6, <2>7 DEF i
<1> QED BY <1>6, <1>7 DEF Branches

\* Every word the assembler writes, but a jump over more than IMM_MAX, is
\* assembled again from what the disassembler makes of it, and so is a word
\* that the disassembler can only show as data (disasm.rs render, isa.rs
\* encode and decode).
THEOREM WordRoundTrips ==
  ASSUME NEW a, NEW d, \/ Canonical(d) /\ InReach(d)
                       \/ Rendered(d) = <<>>
  PROVE  Encode(a, Render(d)) = Appended(a, d)
<1>1. CASE Rendered(d) = <<>>
  <2>1. Render(d) = [k |-> "word", o |-> d] BY <1>1 DEF Render
  <2>2. Encode(a, Render(d)) = Directive(a, Render(d)) BY <2>1 DEF Encode
  <2>3. Directive(a, Render(d)) = EmitWord(a, d) BY <2>1 DEF Directive
  <2> QED BY <1>1, <2>2, <2>3 DEF Appended
<1>2. CASE Canonical(d) /\ InReach(d) /\ d.op \in Branches
  <2>1. Render(d).k = "ins"
    <3>1. CASE d.op \in {"JMP", "CALL"} BY <1>2, <3>1, CanonicalText, GuardOf DEF Canonical
    <3>2. CASE d.op \in {"JMP_IF_ANY", "JMP_IF_ALL"} BY <1>2, <3>2, CanonicalText, JumpIfText
    <3> QED BY <1>2, <3>1, <3>2 DEF Branches
  <2>2. Encode(a, Render(d)) = Instr(a, Render(d)) BY <2>1 DEF Encode
  <2> QED BY <1>2, <2>2, BranchRoundTrips
<1>3. CASE Canonical(d) /\ d.op \notin Branches
  <2> DEFINE i == Render(d)
  <2>1. Rendered(d) # <<>> /\ d.guard \in 0..8 /\ d.op \notin {"JMP_IF_ANY", "JMP_IF_ALL"}
    BY <1>3, CanonicalText DEF Canonical, Branches
  <2>2. /\ i.k = "ins" /\ i.m = SourceName(d.op) /\ i.o = Rendered(d)[1] /\ ParseGuard(i) = d.guard
        /\ d.guard = 0 => i.p = NoGuard
    BY <2>1, GuardOf
  <2> HIDE DEF i
  <2>3. Encode(a, i) = Instr(a, i) BY <2>2 DEF Encode
  <2>4. CASE d.op \in Fixed
    <3>1. i.m = d.op /\ d.op \notin LiteralLoads
      BY <2>2, <2>4, CompareForms DEF Fixed, OneRegister, TwoRegisters, CompareImmNames, LiteralLoads
    <3>2. Instr(a, i) = EncodeFixed(a, i) BY <2>4, <3>1, EncoderOf
    <3>3. EncodeFixed(a, i) = EmitWord(a, d) BY <1>3, <2>2, <2>4, <3>1, FixedRoundTrips
    <3>4. Appended(a, d) = EmitWord(a, d) BY <3>1 DEF Appended
    <3> QED BY <2>3, <3>2, <3>3, <3>4 DEF i
  <2>5. CASE d.op \notin Fixed
    <3>1. Instr(a, i) = Appended(a, d) BY <1>3, <2>2, <2>5, OtherRoundTrips
    <3> QED BY <2>3, <3>1 DEF i
  <2> QED BY <2>4, <2>5
<1> QED BY <1>1, <1>2, <1>3

----------------------------------------------------------------------------
(* Sequences, and the pass over the statements.                            *)

(* The first n elements of a sequence.                                     *)
First(s, n) == [i \in 1..n |-> s[i]]

\* A sequence is taken element by element.
LEMMA FirstElements ==
  ASSUME NEW T, NEW s \in Seq(T)
  PROVE  /\ First(s, 0) = <<>> /\ First(s, Len(s)) = s
         /\ \A n \in 0..Len(s) : First(s, n) \in Seq(T) /\ Len(First(s, n)) = n
         /\ \A n \in 0..Len(s) : \A i \in 1..n : First(s, n)[i] = s[i]
         /\ \A n \in 1..Len(s) : Append(First(s, n - 1), s[n]) = First(s, n)
<1>1. \A n \in 0..Len(s) : First(s, n) \in Seq(T) /\ Len(First(s, n)) = n BY DEF First
<1>2. \A n \in 0..Len(s) : \A i \in 1..n : First(s, n)[i] = s[i] BY DEF First
<1>3. First(s, 0) = <<>>
  <2>1. First(s, 0) \in Seq(T) /\ Len(First(s, 0)) = 0 BY <1>1
  <2> QED BY <2>1, EmptySeq
<1>4. First(s, Len(s)) = s
  <2>1. Len(s) \in 0..Len(s) OBVIOUS
  <2>2. First(s, Len(s)) \in Seq(T) /\ Len(First(s, Len(s))) = Len(s) BY <1>1, <2>1
  <2>3. \A i \in 1..Len(s) : First(s, Len(s))[i] = s[i] BY <1>2, <2>1
  <2> QED BY <2>2, <2>3, SeqEqual
<1>5. ASSUME NEW n \in 1..Len(s) PROVE Append(First(s, n - 1), s[n]) = First(s, n)
  <2> DEFINE f == First(s, n - 1)
             g == Append(f, s[n])
  <2>1. f \in Seq(T) /\ Len(f) = n - 1 /\ s[n] \in T BY <1>1
  <2>2. \A i \in 1..(n - 1) : f[i] = s[i] BY <1>2
  <2>3. First(s, n) \in Seq(T) /\ Len(First(s, n)) = n BY <1>1
  <2>4. \A i \in 1..n : First(s, n)[i] = s[i] BY <1>2
  <2> HIDE DEF f
  <2>5. g \in Seq(T) /\ Len(g) = Len(f) + 1 BY <2>1
  <2>6. \A i \in 1..Len(f) : g[i] = f[i] BY <2>1
  <2>7. g[Len(f) + 1] = s[n] BY <2>1
  <2> HIDE DEF g
  <2>8. \A i \in 1..n : g[i] = s[i]
    <3>1. \A i \in 1..n : i \in 1..(n - 1) \/ i = n OBVIOUS
    <3> QED BY <2>1, <2>2, <2>6, <2>7, <3>1
  <2>9. g = First(s, n) BY <2>1, <2>3, <2>4, <2>5, <2>8, SeqEqual
  <2> QED BY <2>9 DEF g, f
<1> QED BY <1>1, <1>2, <1>3, <1>4, <1>5

\* The first n elements are a sequence.
LEMMA FirstAt ==
  ASSUME NEW T, NEW s \in Seq(T), NEW n \in 0..Len(s)
  PROVE  First(s, n) \in Seq(T) /\ Len(First(s, n)) = n /\ \A i \in 1..n : First(s, n)[i] = s[i]
BY FirstElements

\* What holds at first, and after each statement if before it, holds.
LEMMA Induction ==
  ASSUME NEW N \in Nat, NEW T, 0 \in T, \A n \in 1..N : n - 1 \in T => n \in T
  PROVE  \A n \in 0..N : n \in T
<1> SUFFICES ASSUME \E n \in 0..N : n \notin T PROVE FALSE
  OBVIOUS
<1> DEFINE Z == {n \in 0..N : n \notin T}
<1>1. Z \subseteq Nat /\ Z # {} OBVIOUS
<1>2. PICK n \in Z : \A m \in Z : ~(<<m, n>> \in OpToRel(<, Nat))
  <2> HIDE DEF Z
  <2> QED BY <1>1, NatLessThanWellFounded, WFMin
<1>3. \A m \in Z : ~(m < n) BY <1>1, <1>2 DEF OpToRel
<1>4. n \in 1..N OBVIOUS
<1>5. n - 1 \in 0..N BY <1>4
<1>6. n - 1 \in T BY <1>3, <1>5
<1> QED BY <1>4, <1>6

(* The assemblers of a pass, from the first statement to the last; nothing *)
(* is encoded after an error.                                              *)
Passage(s, stmts) ==
    /\ s[0] = NewAsm
    /\ \A n \in 1..Len(stmts) : s[n] = IF s[n - 1].err # "" THEN s[n - 1] ELSE Encode(s[n - 1], stmts[n])

\* Every statement sequence has its pass.
LEMMA PassageExists == \A stmts : Len(stmts) \in Nat => \E s : Passage(s, stmts)
<1> SUFFICES ASSUME NEW stmts, Len(stmts) \in Nat PROVE \E s : Passage(s, stmts)
  OBVIOUS
<1> DEFINE Step(a, n) == IF a.err # "" THEN a ELSE Encode(a, stmts[n])
           Upto(s, n) == s[0] = NewAsm /\ \A k \in 1..n : s[k] = Step(s[k - 1], k)
           T == {n \in Nat : \E s : Upto(s, n)}
           N == Len(stmts)
<1>1. 0 \in T
  <2>1. Upto([k \in {0} |-> NewAsm], 0) OBVIOUS
  <2> QED BY <2>1
<1>2. ASSUME NEW n \in 1..N, n - 1 \in T PROVE n \in T
  <2>1. PICK s : Upto(s, n - 1) BY <1>2
  <2> DEFINE t == [k \in 0..n |-> IF k = n THEN Step(s[n - 1], n) ELSE s[k]]
  <2>0. n \in Nat /\ n >= 1 OBVIOUS
  <2>2. t[0] = NewAsm
    <3>1. 0 \in 0..n /\ 0 # n BY ONLY <2>0
    <3>2. t[0] = s[0] BY ONLY <3>1
    <3> QED BY <2>1, <3>2
  <2>3. ASSUME NEW k \in 1..n PROVE t[k] = Step(t[k - 1], k)
    <3>0. k \in 0..n /\ k - 1 \in 0..n /\ k - 1 # n BY ONLY <2>0, k \in 1..n
    <3>1. t[k - 1] = s[k - 1] BY ONLY <3>0
    <3>2. CASE k = n
      <4>1. t[k] = Step(s[k - 1], k) BY ONLY <3>0, <3>2
      <4> QED BY ONLY <3>1, <4>1
    <3>3. CASE k # n
      <4>1. k \in 1..(n - 1) BY ONLY <2>0, <3>3, k \in 1..n
      <4>2. t[k] = s[k] BY ONLY <3>0, <3>3
      <4>3. s[k] = Step(s[k - 1], k) BY ONLY <2>1, <4>1
      <4> QED BY ONLY <3>1, <4>2, <4>3
    <3> QED BY <3>2, <3>3
  <2>4. Upto(t, n)
    <3> HIDE DEF t
    <3> QED BY <2>2, <2>3
  <2>5. n \in Nat OBVIOUS
  <2> QED BY <2>4, <2>5
<1> HIDE DEF T
<1>3. \A n \in 0..N : n \in T
  <2>1. \A n \in 1..N : n - 1 \in T => n \in T BY <1>2
  <2> QED BY ONLY <1>1, <2>1, N \in Nat, Induction
<1>4. N \in 0..N OBVIOUS
<1> QED BY <1>3, <1>4 DEF T, Passage

(* The last statement of the stretch after from.                           *)
StretchEnd(stmts, from) == IF from + Stretch < Len(stmts) THEN from + Stretch ELSE Len(stmts)

\* A stretch of the pass goes from the assembler before it to the one after.
LEMMA StretchPassed ==
  ASSUME NEW stmts, Len(stmts) \in Nat, NEW s, Passage(s, stmts), NEW from \in 0..Len(stmts)
  PROVE  PassStretch(s[from], stmts, from) = s[StretchEnd(stmts, from)]
<1> DEFINE last == StretchEnd(stmts, from)
           Step(b, n) == IF b.err # "" THEN b ELSE Encode(b, stmts[n])
           Runs(g) == g = [n \in from..last |-> IF n = from THEN s[from] ELSE Step(g[n - 1], n)]
           after == CHOOSE g : Runs(g)
<1>1. last \in from..Len(stmts) /\ last \in Nat /\ from \in Nat BY DEF StretchEnd, Stretch
<1>2. PassStretch(s[from], stmts, from) = after[last] BY DEF PassStretch, StretchEnd
<1> HIDE DEF last
<1>3. \A n \in 1..Len(stmts) : s[n] = Step(s[n - 1], n) BY DEF Passage
<1> HIDE DEF Step
<1>4. Runs([n \in from..last |-> s[n]])
  <2> DEFINE g == [n \in from..last |-> s[n]]
  <2>1. ASSUME NEW n \in from..last PROVE g[n] = IF n = from THEN s[from] ELSE Step(g[n - 1], n)
    <3>1. CASE n = from BY <3>1
    <3>2. CASE n # from
      <4>1. n - 1 \in from..last /\ n \in 1..Len(stmts) BY <1>1, <3>2
      <4>2. s[n] = Step(s[n - 1], n) BY <1>3, <4>1
      <4>3. g[n] = s[n] /\ g[n - 1] = s[n - 1] BY <4>1
      <4> QED BY <3>2, <4>2, <4>3
    <3> QED BY <3>1, <3>2
  <2>2. [n \in from..last |-> g[n]] = [n \in from..last |-> IF n = from THEN s[from] ELSE Step(g[n - 1], n)]
    BY <2>1
  <2>3. g = [n \in from..last |-> g[n]] OBVIOUS
  <2> HIDE DEF g
  <2>4. Runs(g) BY <2>2, <2>3
  <2> QED BY <2>4 DEF g
<1>5. Runs(after) BY <1>4
<1> HIDE DEF after
<1>6. ASSUME NEW n \in from..last PROVE after[n] = IF n = from THEN s[from] ELSE Step(after[n - 1], n)
  BY <1>5
<1> DEFINE T == {j \in 0..last - from : after[from + j] = s[from + j]}
<1>7. 0 \in T BY <1>1, <1>6
<1>8. ASSUME NEW j \in 1..last - from, j - 1 \in T PROVE j \in T
  <2>1. from + j \in from..last /\ from + j # from /\ (from + j) - 1 = from + (j - 1) /\ from + j \in 1..Len(stmts)
    BY <1>1
  <2>2. after[from + j] = Step(after[from + (j - 1)], from + j) BY <1>6, <2>1
  <2>3. s[from + j] = Step(s[from + (j - 1)], from + j) BY <1>3, <2>1
  <2>4. after[from + (j - 1)] = s[from + (j - 1)] BY <1>8
  <2> QED BY <2>2, <2>3, <2>4
<1> HIDE DEF T
<1>9. \A j \in 0..last - from : j \in T
  <2>1. last - from \in Nat BY <1>1
  <2>2. \A j \in 1..last - from : j - 1 \in T => j \in T BY <1>8
  <2> QED BY ONLY <1>7, <2>1, <2>2, Induction
<1>10. after[from + (last - from)] = s[from + (last - from)] BY <1>1, <1>9 DEF T
<1>11. from + (last - from) = last BY <1>1
<1> QED BY <1>2, <1>10, <1>11 DEF last

\* After an error the rest is passed over.
LEMMA ErrorsStay ==
  ASSUME NEW stmts, Len(stmts) \in Nat, NEW s, Passage(s, stmts),
         NEW from \in 0..Len(stmts), s[from].err # "", NEW to \in from..Len(stmts)
  PROVE  s[to] = s[from]
<1> DEFINE T == {j \in 0..to - from : s[from + j] = s[from]}
<1>0. from \in Nat /\ to \in Nat /\ from <= to /\ to <= Len(stmts) /\ from + 0 = from
  BY ONLY Len(stmts) \in Nat, from \in 0..Len(stmts), to \in from..Len(stmts)
<1>1. 0 \in T BY ONLY <1>0
<1>2. ASSUME NEW j \in 1..to - from, j - 1 \in T PROVE j \in T
  <2>1. /\ j \in 0..to - from /\ from + j \in 1..Len(stmts)
        /\ (from + j) - 1 = from + (j - 1)
    BY ONLY <1>0, j \in 1..to - from
  <2>2. s[from + (j - 1)] = s[from] BY <1>2
  <2>3. s[from + j] = s[from + (j - 1)] BY <2>1, <2>2 DEF Passage
  <2> QED BY <2>1, <2>2, <2>3
<1> HIDE DEF T
<1>3. \A j \in 0..to - from : j \in T
  <2>1. to - from \in Nat BY ONLY <1>0
  <2>2. \A j \in 1..to - from : j - 1 \in T => j \in T BY <1>2
  <2> QED BY ONLY <1>1, <2>1, <2>2, Induction
<1>4. to - from \in 0..to - from /\ from + (to - from) = to BY ONLY <1>0
<1>5. s[from + (to - from)] = s[from] BY ONLY <1>3, <1>4 DEF T
<1> QED BY ONLY <1>4, <1>5

\* The pass is its statements one after the other.
LEMMA PassIsPassage ==
  ASSUME NEW stmts, Len(stmts) \in Nat, NEW s, Passage(s, stmts)
  PROVE  Pass(stmts) = s[Len(stmts)]
<1> DEFINE K == Len(stmts) \div Stretch + 1
           At(k) == IF k * Stretch < Len(stmts) THEN k * Stretch ELSE Len(stmts)
           Over(a, k) == IF a.err # "" THEN a ELSE PassStretch(a, stmts, (k - 1) * Stretch)
           Runs(g) == g = [k \in 0..K |-> IF k = 0 THEN NewAsm ELSE Over(g[k - 1], k)]
           upto == CHOOSE g : Runs(g)
<1>1. Pass(stmts) = upto[K] BY DEF Pass
<1>2. /\ K \in Nat /\ K >= 1 /\ At(0) = 0 /\ At(K) = Len(stmts)
      /\ \A k \in 0..K : At(k) \in 0..Len(stmts)
      /\ \A k \in 1..K : At(k - 1) = (k - 1) * Stretch /\ At(k - 1) <= At(k) /\ StretchEnd(stmts, At(k - 1)) = At(k)
  BY DEF Stretch, StretchEnd
<1> HIDE DEF K, At
<1>3. s[0] = NewAsm BY DEF Passage
<1>4. ASSUME NEW k \in 1..K PROVE Over(s[At(k - 1)], k) = s[At(k)]
  <2>1. k - 1 \in 0..K /\ k \in 0..K BY <1>2
  <2>2. At(k - 1) \in 0..Len(stmts) /\ At(k) \in At(k - 1)..Len(stmts) BY <1>2, <2>1
  <2>3. CASE s[At(k - 1)].err # "" BY <2>2, <2>3, ErrorsStay
  <2>4. CASE s[At(k - 1)].err = ""
    <3>1. PassStretch(s[At(k - 1)], stmts, At(k - 1)) = s[At(k)] BY <1>2, <2>2, StretchPassed
    <3> QED BY <1>2, <2>4, <3>1
  <2> QED BY <2>3, <2>4
<1> HIDE DEF Over
<1>5. Runs([k \in 0..K |-> s[At(k)]])
  <2> DEFINE g == [k \in 0..K |-> s[At(k)]]
  <2>1. ASSUME NEW k \in 0..K PROVE g[k] = IF k = 0 THEN NewAsm ELSE Over(g[k - 1], k)
    <3>1. CASE k = 0 BY <1>2, <1>3, <3>1
    <3>2. CASE k # 0
      <4>1. k - 1 \in 0..K /\ k \in 1..K BY <1>2, <3>2
      <4>2. g[k] = s[At(k)] /\ g[k - 1] = s[At(k - 1)] BY <4>1
      <4> QED BY <1>4, <3>2, <4>1, <4>2
    <3> QED BY <3>1, <3>2
  <2>2. [k \in 0..K |-> g[k]] = [k \in 0..K |-> IF k = 0 THEN NewAsm ELSE Over(g[k - 1], k)]
    BY <2>1
  <2>3. g = [k \in 0..K |-> g[k]] OBVIOUS
  <2> HIDE DEF g
  <2>4. Runs(g) BY <2>2, <2>3
  <2> QED BY <2>4 DEF g
<1>6. Runs(upto) BY <1>5
<1> HIDE DEF upto
<1>7. ASSUME NEW k \in 0..K PROVE upto[k] = IF k = 0 THEN NewAsm ELSE Over(upto[k - 1], k)
  BY <1>6
<1> DEFINE T == {k \in 0..K : upto[k] = s[At(k)]}
<1>8. 0 \in T BY <1>2, <1>3, <1>7
<1>9. ASSUME NEW k \in 1..K, k - 1 \in T PROVE k \in T
  <2>1. k \in 0..K /\ k # 0 BY <1>2
  <2>2. upto[k] = Over(upto[k - 1], k) BY <1>7, <2>1
  <2>3. upto[k - 1] = s[At(k - 1)] BY <1>9
  <2> QED BY <1>4, <2>1, <2>2, <2>3
<1> HIDE DEF T
<1>10. \A k \in 0..K : k \in T
  <2>1. \A k \in 1..K : k - 1 \in T => k \in T BY <1>9
  <2> QED BY ONLY <1>2, <1>8, <2>1, Induction
<1>11. K \in 0..K BY <1>2
<1> QED BY <1>1, <1>2, <1>10, <1>11 DEF T

(* The fields of an assembler.                                             *)
IsAsm(a) == a = [code |-> a.code, lits |-> a.lits, consts |-> a.consts, labels |-> a.labels,
                 fixups |-> a.fixups, ldw |-> a.ldw, scratch |-> a.scratch, err |-> a.err]

\* emit changes the code only.
LEMMA Emitted ==
  ASSUME NEW a, IsAsm(a), NEW w, NEW b, b = EmitWord(a, w)
  PROVE  /\ IsAsm(b) /\ b.code = Append(a.code, w) /\ b.lits = a.lits /\ b.consts = a.consts
         /\ b.labels = a.labels /\ b.fixups = a.fixups /\ b.ldw = a.ldw /\ b.scratch = a.scratch /\ b.err = a.err
<1> DEFINE c == Append(a.code, w)
<1>1. b = [a EXCEPT !.code = c] BY DEF EmitWord
<1> HIDE DEF c
<1>2. b = [code |-> c, lits |-> a.lits, consts |-> a.consts, labels |-> a.labels,
           fixups |-> a.fixups, ldw |-> a.ldw, scratch |-> a.scratch, err |-> a.err]
  BY <1>1 DEF IsAsm
<1> QED BY <1>2 DEF IsAsm, c

----------------------------------------------------------------------------
(* Whole images.                                                           *)

(* What an image must be for the assembler to read its disassembly: each   *)
(* word has a text that is read back, and each literal is there once.      *)
Listable(code, lits) ==
    /\ code \in Seq(CodeWord) /\ Len(code) \in 1..MAX_CODE_WORDS
    /\ lits \in Seq(Literal) /\ Len(lits) <= MAX_LITERALS
    /\ \A m, n \in 1..Len(lits) : lits[m] = lits[n] => m = n
    /\ \A n \in 1..Len(code) : (Canonical(code[n]) /\ InReach(code[n])) \/ Rendered(code[n]) = <<>>
    /\ \A n \in 1..Len(code) : code[n].op \in LiteralLoads /\ Rendered(code[n]) # <<>> => code[n].lo < Len(lits)

\* The listing: a constant for each literal, then each word.
LEMMA Listing ==
  ASSUME NEW code, NEW lits, Listable(code, lits), NEW stmts, stmts = Disassemble(code, lits)
  PROVE  /\ Len(stmts) = Len(lits) + Len(code) /\ Len(lits) \in Nat /\ Len(code) \in Nat
         /\ \A n \in 1..Len(lits) : stmts[n] = [k |-> "const", m |-> <<"L", n - 1>>, o |-> lits[n]]
         /\ \A n \in 1..Len(code) : stmts[Len(lits) + n] = Render(code[n])
<1> DEFINE c == [i \in 1..Len(lits) |-> [k |-> "const", m |-> <<"L", i - 1>>, o |-> lits[i]]]
           w == [i \in 1..Len(code) |-> Render(code[i])]
           T == {c[i] : i \in 1..Len(lits)} \cup {w[i] : i \in 1..Len(code)}
<1>1. code \in Seq(CodeWord) /\ lits \in Seq(Literal) BY DEF Listable
<1>2. DOMAIN code = 1..Len(code) /\ DOMAIN lits = 1..Len(lits) /\ Len(code) \in Nat /\ Len(lits) \in Nat BY <1>1
<1>3. stmts = c \o w BY <1>2 DEF Disassemble
<1>4. \A n \in 1..Len(lits) : c[n] = [k |-> "const", m |-> <<"L", n - 1>>, o |-> lits[n]] OBVIOUS
<1>5. \A n \in 1..Len(code) : w[n] = Render(code[n]) OBVIOUS
<1>6. c \in Seq(T) /\ Len(c) = Len(lits)
  <2>1. \A i \in 1..Len(lits) : c[i] \in T OBVIOUS
  <2>2. c = [i \in 1..Len(lits) |-> c[i]] OBVIOUS
  <2> HIDE DEF c, T
  <2> QED BY <1>2, <2>1, <2>2
<1>7. w \in Seq(T) /\ Len(w) = Len(code)
  <2>1. \A i \in 1..Len(code) : w[i] \in T OBVIOUS
  <2>2. w = [i \in 1..Len(code) |-> w[i]] OBVIOUS
  <2> HIDE DEF w, T
  <2> QED BY <1>2, <2>1, <2>2
<1> HIDE DEF c, w, T
<1>8. Len(stmts) = Len(c) + Len(w) BY <1>3, <1>6, <1>7, ConcatProperties
<1>9. \A i \in 1..Len(c) + Len(w) : stmts[i] = IF i <= Len(c) THEN c[i] ELSE w[i - Len(c)]
  BY <1>3, <1>6, <1>7, ConcatProperties
<1> QED BY <1>2, <1>4, <1>5, <1>6, <1>7, <1>8, <1>9

\* The name of a literal is not one the assembler knows from the platform.
LEMMA LiteralNames == \A n \in Int : <<"L", n>> \notin DOMAIN PlatformConstants
<1> SUFFICES ASSUME NEW n \in Int, <<"L", n>> \in DOMAIN PlatformConstants PROVE FALSE
  OBVIOUS
<1>1. PICK x \in {"RAM_SIZE_WORDS", "VIDEO_BASE", "VIDEO_WIDTH", "VIDEO_HEIGHT", "VIDEO_WORDS"} : <<"L", n>> = <<x, 0>>
  BY DEF PlatformConstants, Name
<1>2. "L" = x BY <1>1
<1> QED BY <1>2

(* What a statement of either kind adds to an assembler that becomes b.    *)
ConstantAdded(a, name, v, b) ==
    /\ IsAsm(b) /\ b.lits = Append(a.lits, v) /\ DOMAIN b.consts = DOMAIN a.consts \cup {name}
    /\ b.code = a.code /\ b.labels = a.labels /\ b.fixups = a.fixups /\ b.ldw = a.ldw
    /\ b.scratch = a.scratch /\ b.err = a.err
WordAdded(a, d, b) ==
    /\ IsAsm(b) /\ b.code = Append(a.code, d) /\ b.lits = a.lits /\ b.fixups = a.fixups /\ b.err = a.err
    /\ \/ b.ldw = a.ldw
       \/ d.op \in LiteralLoads /\ Rendered(d) # <<>> /\ b.ldw = a.ldw \cup {d.lo}

\* .const with a new name and a new value that the pool has room for.
LEMMA ConstantTaken ==
  ASSUME NEW a, IsAsm(a), NEW st, st.k = "const", st.o \in Literal, st.m \notin DOMAIN a.consts, st.o \notin Range(a.lits),
         Len(a.lits) < MAX_LITERALS, Len(a.lits) \in Nat
  PROVE  ConstantAdded(a, st.m, st.o, Encode(a, st))
<1> DEFINE cs == Insert(a.consts, st.m, st.o)
           ls == Append(a.lits, st.o)
           d == [a EXCEPT !.consts = cs]
           b == Encode(a, st)
<1>1. DOMAIN cs = DOMAIN a.consts \cup {st.m} BY DEF Insert
<1>2. b = Intern(d, st.o)
  <2>1. Encode(a, st) = Directive(a, st) BY DEF Encode
  <2>2. Directive(a, st) = Intern([a EXCEPT !.consts = Insert(@, st.m, st.o)], st.o) BY DEF Directive, Literal
  <2> QED BY <2>1, <2>2
<1> HIDE DEF cs, b
<1>3. d = [code |-> a.code, lits |-> a.lits, consts |-> cs, labels |-> a.labels,
           fixups |-> a.fixups, ldw |-> a.ldw, scratch |-> a.scratch, err |-> a.err]
  BY DEF IsAsm
<1>4. d.lits = a.lits BY <1>3
<1> HIDE DEF d
<1>5. ~(Len(d.lits) >= MAX_LITERALS) BY <1>4, EncodingAssumption
<1>6. b = [d EXCEPT !.lits = Append(d.lits, st.o)] BY <1>2, <1>4, <1>5 DEF Intern
<1> HIDE DEF ls
<1>7. b = [code |-> a.code, lits |-> ls, consts |-> cs, labels |-> a.labels,
           fixups |-> a.fixups, ldw |-> a.ldw, scratch |-> a.scratch, err |-> a.err]
  BY <1>3, <1>4, <1>6 DEF ls
<1>8. ConstantAdded(a, st.m, st.o, b) BY <1>1, <1>7 DEF IsAsm, ls, ConstantAdded
<1> QED BY <1>8 DEF b

\* A word, of which Appended says what it adds.
LEMMA WordTaken ==
  ASSUME NEW a, IsAsm(a), NEW d, NEW b, b = Appended(a, d)
  PROVE  WordAdded(a, d, b)
<1> DEFINE c == [a EXCEPT !.ldw = @ \cup {d.lo}]
<1>1. CASE d.op \in LiteralLoads /\ Rendered(d) # <<>>
  <2> DEFINE l == a.ldw \cup {d.lo}
  <2>1. b = EmitWord(c, d) BY <1>1 DEF Appended
  <2> HIDE DEF l
  <2>2. c = [code |-> a.code, lits |-> a.lits, consts |-> a.consts, labels |-> a.labels,
             fixups |-> a.fixups, ldw |-> l, scratch |-> a.scratch, err |-> a.err]
    BY DEF IsAsm, l
  <2> HIDE DEF c
  <2>3. /\ IsAsm(c) /\ c.code = a.code /\ c.lits = a.lits /\ c.fixups = a.fixups /\ c.err = a.err /\ c.ldw = l
    BY <2>2 DEF IsAsm
  <2> QED BY <1>1, <2>1, <2>3, Emitted DEF l, WordAdded
<1>2. CASE ~(d.op \in LiteralLoads /\ Rendered(d) # <<>>)
  <2>1. b = EmitWord(a, d) BY <1>2 DEF Appended
  <2> QED BY <2>1, Emitted DEF WordAdded
<1> QED BY <1>1, <1>2

(* The names after n literals, the assembler after n of them and after n   *)
(* words.                                                                  *)
Names(n) == DOMAIN PlatformConstants \cup {<<"L", i>> : i \in 0..n - 1}
AfterConstants(a, lits, n) ==
    /\ IsAsm(a) /\ a.err = "" /\ a.lits = First(lits, n) /\ DOMAIN a.consts = Names(n)
    /\ a.code = <<>> /\ a.fixups = <<>> /\ a.ldw = {}
AfterWords(a, code, lits, n) ==
    /\ IsAsm(a) /\ a.err = "" /\ a.lits = lits /\ a.code = First(code, n) /\ a.fixups = <<>>
    /\ \A x \in a.ldw : x \in Nat /\ x < Len(lits)

\* The literals come first, each into its own place of the pool.
LEMMA ConstantStep ==
  ASSUME NEW lits \in Seq(Literal), Len(lits) <= MAX_LITERALS, \A m, n \in 1..Len(lits) : lits[m] = lits[n] => m = n,
         NEW n \in 1..Len(lits), NEW a, AfterConstants(a, lits, n - 1),
         NEW b, b = Encode(a, [k |-> "const", m |-> <<"L", n - 1>>, o |-> lits[n]])
  PROVE  AfterConstants(b, lits, n)
<1> DEFINE name == <<"L", n - 1>>
<1>1. name \notin DOMAIN a.consts
  <2>1. name \notin DOMAIN PlatformConstants BY LiteralNames
  <2>2. \A i \in 0..(n - 1) - 1 : <<"L", i>> # name OBVIOUS
  <2> HIDE DEF name
  <2> QED BY <2>1, <2>2 DEF AfterConstants, Names
<1>2. Names(n) = Names(n - 1) \cup {name}
  <2>1. 0..n - 1 = (0..(n - 1) - 1) \cup {n - 1} OBVIOUS
  <2> QED BY <2>1 DEF Names
<1> HIDE DEF name
<1>3. Len(lits) \in Nat /\ n \in 0..Len(lits) OBVIOUS
<1> DEFINE m == n - 1
<1>4. m \in 0..Len(lits) OBVIOUS
<1>5. a.lits = First(lits, m) BY DEF AfterConstants
<1> HIDE DEF m
<1>6. First(lits, m) \in Seq(Literal) /\ Len(First(lits, m)) = m /\ \A i \in 1..m : First(lits, m)[i] = lits[i]
  BY <1>4, FirstAt
<1>7. a.lits \in Seq(Literal) /\ Len(a.lits) = n - 1 BY <1>5, <1>6 DEF m
<1>8. \A i \in 1..(n - 1) : a.lits[i] = lits[i] BY <1>5, <1>6 DEF m
<1>9. lits[n] \notin Range(a.lits) BY <1>7, <1>8 DEF Range
<1>10. Len(a.lits) < MAX_LITERALS BY <1>3, <1>7, EncodingAssumption
<1>11. Len(a.lits) \in Nat /\ lits[n] \in Literal BY <1>3, <1>7
<1>12. Append(First(lits, n - 1), lits[n]) = First(lits, n) BY FirstElements
<1>13. IsAsm(a) /\ a.err = "" /\ a.lits = First(lits, n - 1) /\ DOMAIN a.consts = Names(n - 1)
       /\ a.code = <<>> /\ a.fixups = <<>> /\ a.ldw = {}
  BY DEF AfterConstants
<1>14. PICK st : st = [k |-> "const", m |-> name, o |-> lits[n]] OBVIOUS
<1>15. st.k = "const" /\ st.m = name /\ st.o = lits[n] BY <1>14
<1>16. ConstantAdded(a, st.m, st.o, Encode(a, st)) BY <1>1, <1>9, <1>10, <1>11, <1>13, <1>15, ConstantTaken
<1>17. b = Encode(a, st) BY <1>14 DEF name
<1>18. ConstantAdded(a, name, lits[n], b) BY <1>15, <1>16, <1>17
<1> QED BY <1>2, <1>12, <1>13, <1>18 DEF AfterConstants, ConstantAdded

\* Then each word into its own place of the code.
LEMMA WordStep ==
  ASSUME NEW code, NEW lits, Listable(code, lits), NEW n \in 1..Len(code), NEW a, AfterWords(a, code, lits, n - 1),
         NEW b, b = Encode(a, Render(code[n]))
  PROVE  AfterWords(b, code, lits, n)
<1> DEFINE d == code[n]
<1>1. /\ code \in Seq(CodeWord)
      /\ (Canonical(d) /\ InReach(d)) \/ Rendered(d) = <<>>
      /\ d.op \in LiteralLoads /\ Rendered(d) # <<>> => d.lo < Len(lits)
  BY DEF Listable
<1>7. d.lo \in Nat
  <2>1. d \in CodeWord BY <1>1
  <2> HIDE DEF d
  <2> QED BY <2>1, LoModFacts DEF CodeWord, LoField
<1>2. Append(First(code, n - 1), d) = First(code, n) BY <1>1, FirstElements
<1> HIDE DEF d
<1>3. b = Appended(a, d)
  <2>1. Encode(a, Render(d)) = Appended(a, d) BY <1>1, WordRoundTrips
  <2> QED BY <2>1 DEF d
<1>4. /\ IsAsm(a) /\ a.err = "" /\ a.lits = lits /\ a.code = First(code, n - 1) /\ a.fixups = <<>>
      /\ \A x \in a.ldw : x \in Nat /\ x < Len(lits)
  BY DEF AfterWords
<1>5. WordAdded(a, d, b)
  BY <1>3, <1>4, WordTaken
<1>6. \A x \in b.ldw : x \in Nat /\ x < Len(lits) BY <1>1, <1>4, <1>5, <1>7 DEF WordAdded
<1> QED BY <1>2, <1>4, <1>5, <1>6 DEF AfterWords, WordAdded

\* What the assembler makes of no jump to a label.
LEMMA NoFixups ==
  ASSUME NEW a, IsAsm(a), a.fixups = <<>>, NEW code \in Seq(CodeWord), a.code = code
  PROVE  ResolveFixups(a) = a
<1> DEFINE targets == [f \in {a.fixups[i][1] : i \in DOMAIN a.fixups} |->
                          a.labels[(CHOOSE x \in Range(a.fixups) : x[1] = f)[2]]]
           c == [n \in DOMAIN a.code |-> IF n \in DOMAIN targets
                                         THEN [a.code[n] EXCEPT !.lo = targets[n] % LoMod] ELSE a.code[n]]
<1>1. DOMAIN a.fixups = {} OBVIOUS
<1>2. DOMAIN targets = {} BY <1>1
<1>3. ResolveFixups(a) = [a EXCEPT !.code = c] BY <1>1 DEF ResolveFixups
<1> HIDE DEF targets
<1>4. c = code
  <2>1. DOMAIN code = 1..Len(code) /\ Len(code) \in Nat OBVIOUS
  <2>2. c = [n \in 1..Len(code) |-> code[n]] BY <1>2, <2>1
  <2>3. code = [n \in 1..Len(code) |-> code[n]] BY <2>1
  <2> QED BY <2>2, <2>3
<1> HIDE DEF c
<1>5. [a EXCEPT !.code = c] = a BY <1>4 DEF IsAsm
<1> QED BY <1>3, <1>5

\* The end of the pass over a listing.
LEMMA PassOver ==
  ASSUME NEW code, NEW lits, Listable(code, lits), NEW stmts, stmts = Disassemble(code, lits),
         NEW s, Passage(s, stmts)
  PROVE  AfterWords(s[Len(stmts)], code, lits, Len(code))
<1> DEFINE C == Len(code)
           L == Len(lits)
<1>1. /\ code \in Seq(CodeWord) /\ lits \in Seq(Literal) /\ C \in Nat /\ L \in Nat /\ L <= MAX_LITERALS
      /\ \A m, n \in 1..L : lits[m] = lits[n] => m = n
  BY DEF Listable
<1>2. /\ Len(stmts) = L + C
      /\ \A n \in 1..L : stmts[n] = [k |-> "const", m |-> <<"L", n - 1>>, o |-> lits[n]]
      /\ \A n \in 1..C : stmts[L + n] = Render(code[n])
  BY Listing
<1> HIDE DEF C, L
<1>3. \A n \in 0..L : AfterConstants(s[n], lits, n)
  <2> DEFINE T == {n \in 0..L : AfterConstants(s[n], lits, n)}
  <2>1. 0 \in T
    <3>1. s[0] = NewAsm BY DEF Passage
    <3>2. First(lits, 0) = <<>> BY <1>1, FirstElements
    <3>3. Names(0) = DOMAIN PlatformConstants
      <4>1. 0..0 - 1 = {} OBVIOUS
      <4> QED BY <4>1 DEF Names
    <3>4. AfterConstants(s[0], lits, 0)
      <4>1. PICK a : a = s[0] OBVIOUS
      <4>2. a = NewAsm BY <3>1, <4>1
      <4>3. /\ a.err = "" /\ a.lits = <<>> /\ a.consts = PlatformConstants
            /\ a.code = <<>> /\ a.fixups = <<>> /\ a.ldw = {}
        BY <4>2 DEF NewAsm
      <4>4. IsAsm(a) BY <4>2 DEF NewAsm, IsAsm
      <4> QED BY <3>2, <3>3, <4>1, <4>3, <4>4 DEF AfterConstants
    <3> QED BY <1>1, <3>4
  <2>2. ASSUME NEW n \in 1..L, n - 1 \in T PROVE n \in T
    <3>1. AfterConstants(s[n - 1], lits, n - 1) BY <2>2
    <3>2. s[n - 1].err = "" BY <3>1 DEF AfterConstants
    <3>3. n \in 1..Len(stmts) BY <1>1, <1>2
    <3>4. s[n] = Encode(s[n - 1], stmts[n]) BY <3>2, <3>3 DEF Passage
    <3>5. s[n] = Encode(s[n - 1], [k |-> "const", m |-> <<"L", n - 1>>, o |-> lits[n]]) BY <1>2, <3>4
    <3>6. AfterConstants(s[n], lits, n) BY <1>1, <3>1, <3>5, ConstantStep DEF L
    <3> QED BY <1>1, <3>6
  <2> HIDE DEF T
  <2>3. \A n \in 0..L : n \in T BY <1>1, <2>1, <2>2, Induction
  <2> QED BY <2>3 DEF T
<1>4. \A n \in 0..C : AfterWords(s[L + n], code, lits, n)
  <2> DEFINE T == {n \in 0..C : AfterWords(s[L + n], code, lits, n)}
  <2>1. 0 \in T
    <3>1. AfterConstants(s[L + 0], lits, L) BY <1>1, <1>3
    <3>2. First(lits, L) = lits BY <1>1, FirstElements DEF L
    <3>3. First(code, 0) = <<>> BY <1>1, FirstElements
    <3>4. AfterWords(s[L + 0], code, lits, 0) BY <3>1, <3>2, <3>3 DEF AfterConstants, AfterWords
    <3> QED BY <1>1, <3>4
  <2>2. ASSUME NEW n \in 1..C, n - 1 \in T PROVE n \in T
    <3>1. AfterWords(s[L + (n - 1)], code, lits, n - 1) BY <2>2
    <3>2. s[L + (n - 1)].err = "" BY <3>1 DEF AfterWords
    <3>3. L + n \in 1..Len(stmts) /\ (L + n) - 1 = L + (n - 1) BY <1>1, <1>2
    <3>4. s[L + n] = Encode(s[L + (n - 1)], stmts[L + n]) BY <3>2, <3>3 DEF Passage
    <3>5. s[L + n] = Encode(s[L + (n - 1)], Render(code[n])) BY <1>2, <3>4
    <3>6. AfterWords(s[L + n], code, lits, n) BY <3>1, <3>5, WordStep DEF C
    <3> QED BY <1>1, <3>6
  <2> HIDE DEF T
  <2>3. \A n \in 0..C : n \in T BY <1>1, <2>1, <2>2, Induction
  <2> QED BY <2>3 DEF T
<1>5. AfterWords(s[L + C], code, lits, C) BY <1>1, <1>4
<1> QED BY <1>2, <1>5 DEF C

\* An image whose words are such as the assembler writes, whose jumps are in
\* reach and whose literals are distinct is what assemble makes of its own
\* disassembly, word for word and literal for literal (disasm.rs disassemble,
\* assemble.rs assemble).
THEOREM ImagesRoundTrip ==
  ASSUME NEW code, NEW lits, Listable(code, lits)
  PROVE  Assemble(Disassemble(code, lits)) = [err |-> "", code |-> code, lits |-> lits]
<1>1. PICK a : a = Pass(Disassemble(code, lits)) OBVIOUS
<1>2. AfterWords(a, code, lits, Len(code))
  <2>1. PICK stmts : stmts = Disassemble(code, lits) OBVIOUS
  <2>2. Len(stmts) = Len(lits) + Len(code) /\ Len(lits) \in Nat /\ Len(code) \in Nat
    BY ONLY Listable(code, lits), <2>1, Listing
  <2>3. Len(stmts) \in Nat BY ONLY <2>2
  <2>4. PICK s : Passage(s, stmts) BY ONLY <2>3, PassageExists
  <2>5. a = s[Len(stmts)] BY ONLY <1>1, <2>1, <2>3, <2>4, PassIsPassage
  <2> QED BY ONLY Listable(code, lits), <2>1, <2>4, <2>5, PassOver
<1>3. code \in Seq(CodeWord) /\ Len(code) \in 1..MAX_CODE_WORDS /\ MAX_CODE_WORDS \in Nat /\ Len(lits) \in Nat
  BY EncodingAssumption DEF Listable
<1>4. a.code = code BY <1>2, <1>3, FirstElements DEF AfterWords
<1>5. /\ IsAsm(a) /\ a.err = "" /\ a.fixups = <<>> /\ a.lits = lits
      /\ \A x \in a.ldw : x \in Nat /\ x < Len(lits)
  BY <1>2 DEF AfterWords
<1>6. ResolveFixups(a) = a BY <1>3, <1>4, <1>5, NoFixups
<1>7. ~\E n \in a.ldw : n >= Len(a.lits)
  <2>1. \A n \in Nat : n < Len(lits) => ~(n >= Len(lits)) BY <1>3
  <2> QED BY <1>5, <2>1
<1>8. ~(Len(a.code) > MAX_CODE_WORDS) /\ a.code # <<>> BY <1>3, <1>4
<1>9. Assembly(a) = [err |-> "", code |-> a.code, lits |-> a.lits] BY <1>5, <1>6, <1>7, <1>8 DEF Assembly
<1> QED BY <1>1, <1>4, <1>5, <1>9 DEF Assemble

\* The jumps that are out of reach are why: the disassembler writes a target
\* above IMM_MAX as a negative number, which the assembler refuses.
THEOREM LongJumpsRefused ==
  ASSUME NEW a, IsAsm(a), NEW d, Canonical(d), d.op \in Branches, d.lo > IMM_MAX
  PROVE  Encode(a, Render(d)).err # ""
<1> DEFINE v == SignExt(d.lo)
           bad == AsmFails(a, "target")
<1>1. d \in CodeWord BY DEF Canonical
<1>2. v < 0 BY <1>1, LoModFacts DEF SignExt, CodeWord, LoField
<1> HIDE DEF v
<1>3. bad.err # ""
  <2>1. bad = [code |-> a.code, lits |-> a.lits, consts |-> a.consts, labels |-> a.labels,
               fixups |-> a.fixups, ldw |-> a.ldw, scratch |-> a.scratch, err |-> "target"]
    BY DEF AsmFails, IsAsm
  <2> HIDE DEF bad
  <2> QED BY <2>1
<1>4. ASSUME NEW t, NEW g, t = Imm(v) PROVE EmitBranch(a, d.op, g, t) = bad
  <2>1. t[1] = "imm" /\ t[2] = v BY <1>4, Classes
  <2>2. v \in Int BY <1>1, SignExtension DEF v, CodeWord
  <2> QED BY <1>2, <2>1, <2>2 DEF EmitBranch
<1> HIDE DEF bad
<1>5. PICK i : i = Render(d) OBVIOUS
<1>6. CASE d.op \in {"JMP", "CALL"}
  <2>1. Rendered(d) # <<>> /\ Len(Rendered(d)[1]) = 1 /\ Rendered(d)[1][1] = Imm(v)
    BY <1>6, CanonicalText DEF v
  <2>2. d.guard \in 0..8 /\ SourceName(d.op) = d.op /\ d.op \notin {"JMP_IF_ANY", "JMP_IF_ALL"}
    BY <1>6, CompareForms DEF Canonical, CompareImmNames
  <2>3. i.k = "ins" /\ i.m = d.op /\ i.o = Rendered(d)[1] BY <1>5, <2>1, <2>2, GuardOf
  <2>4. Instr(a, i) = EmitBranch(a, d.op, ParseGuard(i), i.o[1]) BY <1>6, <2>1, <2>3, EncoderOf
  <2>5. Encode(a, i) = Instr(a, i) BY <2>3 DEF Encode
  <2> QED BY <1>3, <1>4, <1>5, <2>1, <2>3, <2>4, <2>5
<1>7. CASE d.op \in {"JMP_IF_ANY", "JMP_IF_ALL"}
  <2>1. Rendered(d) # <<>> /\ d.guard \in 1..4 BY <1>7, CanonicalText DEF Canonical
  <2> DEFINE o == <<P(d.guard - 1), Imm(v)>>
  <2>2. i = [k |-> "ins", p |-> NoGuard, inv |-> FALSE, m |-> d.op, o |-> o] BY <1>5, <1>7, <2>1, JumpIfText DEF v
  <2>3. Len(o) = 2 /\ o[1] = P(d.guard - 1) /\ o[2] = Imm(v) OBVIOUS
  <2> HIDE DEF o
  <2>4. i.k = "ins" /\ i.p = NoGuard /\ i.m = d.op /\ i.o = o BY <2>2
  <2>5. o[1][1] = "p" BY <2>3, Classes
  <2>6. EncodeJmpIf(a, i) = EmitBranch(a, d.op, 1 + o[1][2], o[2]) BY <2>3, <2>4, <2>5 DEF EncodeJmpIf
  <2>7. Instr(a, i) = EncodeJmpIf(a, i) BY <1>7, <2>4, EncoderOf
  <2>8. Encode(a, i) = Instr(a, i) BY <2>4 DEF Encode
  <2> QED BY <1>3, <1>4, <1>5, <2>3, <2>6, <2>7, <2>8
<1> QED BY <1>6, <1>7 DEF Branches

----------------------------------------------------------------------------
(* The image file.                                                         *)

\* The fields of the header, then the code, then the literals.
LEMMA FileLayout ==
  ASSUME NEW code \in Seq(CodeWord), NEW lits \in Seq(Literal), NEW file, file = EncodeFile(code, lits)
  PROVE  /\ Len(file) = 8 + Len(code) + Len(lits)
         /\ file[1] = MAGIC /\ file[2] = VERSION /\ file[4] = Len(code) /\ file[5] = Len(lits)
         /\ \A i \in 1..Len(code) : file[8 + i] = code[i]
         /\ \A i \in 1..Len(lits) : file[8 + Len(code) + i] = lits[i]
<1>1. PICK head : head = <<MAGIC, VERSION, 0, Len(code), Len(lits), 0, 0, 0>> OBVIOUS
<1>2. PICK T : T = {MAGIC, VERSION, 0, Len(code), Len(lits)} \cup CodeWord \cup Literal OBVIOUS
<1>3. head \in Seq(T) /\ Len(head) = 8 BY <1>1, <1>2
<1>4. head[1] = MAGIC /\ head[2] = VERSION /\ head[4] = Len(code) /\ head[5] = Len(lits) BY <1>1
<1>5. code \in Seq(T) /\ lits \in Seq(T) /\ Len(code) \in Nat /\ Len(lits) \in Nat BY <1>2
<1>6. PICK front : front = head \o code OBVIOUS
<1>7. /\ front \in Seq(T) /\ Len(front) = 8 + Len(code)
      /\ \A i \in 1..8 + Len(code) : front[i] = IF i <= 8 THEN head[i] ELSE code[i - 8]
  <2>1. front \in Seq(T) /\ Len(front) = Len(head) + Len(code) BY <1>3, <1>5, <1>6, ConcatProperties
  <2>2. \A i \in 1..Len(head) + Len(code) : front[i] = IF i <= Len(head) THEN head[i] ELSE code[i - Len(head)]
    BY <1>3, <1>5, <1>6, ConcatProperties
  <2> QED BY <1>3, <2>1, <2>2
<1>8. file = front \o lits BY <1>1, <1>6 DEF EncodeFile
<1>9. /\ Len(file) = Len(front) + Len(lits)
      /\ \A i \in 1..Len(front) + Len(lits) : file[i] = IF i <= Len(front) THEN front[i] ELSE lits[i - Len(front)]
  <2>1. Len(file) = Len(front) + Len(lits) BY <1>5, <1>7, <1>8, ConcatProperties
  <2>2. \A i \in 1..Len(front) + Len(lits) : file[i] = IF i <= Len(front) THEN front[i] ELSE lits[i - Len(front)]
    BY <1>5, <1>7, <1>8, ConcatProperties
  <2> QED BY <2>1, <2>2
<1>10. \A i \in 1..8 + Len(code) : file[i] = IF i <= 8 THEN head[i] ELSE code[i - 8]
  BY <1>5, <1>7, <1>9
<1>11. \A i \in 1..Len(code) : file[8 + i] = code[i] BY <1>5, <1>10
<1>12. \A i \in 1..Len(lits) : file[8 + Len(code) + i] = lits[i]
  <2>1. \A i \in 1..Len(lits) : /\ 8 + Len(code) + i \in 1..Len(front) + Len(lits)
                                /\ ~(8 + Len(code) + i <= Len(front)) /\ (8 + Len(code) + i) - Len(front) = i
    BY ONLY <1>5, <1>7
  <2> QED BY ONLY <1>9, <2>1
<1>13. file[1] = MAGIC /\ file[2] = VERSION /\ file[4] = Len(code) /\ file[5] = Len(lits)
  <2>1. \A i \in {1, 2, 4, 5} : i \in 1..8 + Len(code) /\ i <= 8 BY ONLY <1>5
  <2>2. \A i \in {1, 2, 4, 5} : file[i] = head[i] BY ONLY <1>10, <2>1
  <2>3. file[1] = head[1] /\ file[2] = head[2] /\ file[4] = head[4] /\ file[5] = head[5] BY ONLY <2>2
  <2> QED BY ONLY <1>4, <2>3
<1> QED BY <1>5, <1>7, <1>9, <1>11, <1>12, <1>13

\* A part of a sequence that is another sequence.
LEMMA Part ==
  ASSUME NEW T, NEW t \in Seq(T), NEW s, NEW k \in Nat, \A i \in 1..Len(t) : s[k + i] = t[i]
  PROVE  SubSeq(s, k + 1, k + Len(t)) = t
<1>1. PICK m \in Int : m = k + 1 OBVIOUS
<1>2. PICK n \in Int : n = k + Len(t) OBVIOUS
<1>3. \A i \in m..n : s[i] \in T
  <2>1. \A i \in m..n : i - k \in 1..Len(t) /\ k + (i - k) = i BY <1>1, <1>2
  <2>2. \A i \in 1..Len(t) : t[i] \in T OBVIOUS
  <2> QED BY <2>1, <2>2
<1>4. PICK r : r = SubSeq(s, m, n) OBVIOUS
<1>5. /\ r \in Seq(T) /\ Len(r) = (IF m <= n THEN n - m + 1 ELSE 0)
      /\ \A i \in 1..n - m + 1 : r[i] = s[m + i - 1]
  BY <1>3, <1>4, SubSeqProperties
<1>6. n - m + 1 = Len(t) /\ Len(t) \in Nat BY <1>1, <1>2
<1>7. Len(r) = Len(t) BY <1>1, <1>2, <1>5, <1>6
<1>8. \A i \in 1..Len(t) : r[i] = t[i]
  <2>1. \A i \in 1..Len(t) : m + i - 1 = k + i BY <1>1, <1>6
  <2> QED BY <1>5, <1>6, <2>1
<1>9. r = t BY <1>5, <1>7, <1>8, SeqEqual
<1> QED BY <1>1, <1>2, <1>4, <1>9

\* A .wvm file that was written for an image within the limits is read back as
\* that image, and one that was cut short anywhere is refused (wvm.rs encode,
\* parse).
THEOREM FilesRoundTrip ==
  ASSUME NEW code \in Seq(CodeWord), Len(code) \in 1..MAX_CODE_WORDS,
         NEW lits \in Seq(Literal), Len(lits) <= MAX_LITERALS
  PROVE  /\ ParseFile(EncodeFile(code, lits)) = [err |-> "", code |-> code, lits |-> lits]
         /\ \A n \in 0..Len(EncodeFile(code, lits)) - 1 : ParseFile(SubSeq(EncodeFile(code, lits), 1, n)).err # ""
<1>1. PICK file : file = EncodeFile(code, lits) OBVIOUS
<1>2. /\ Len(file) = 8 + Len(code) + Len(lits)
      /\ file[1] = MAGIC /\ file[2] = VERSION /\ file[4] = Len(code) /\ file[5] = Len(lits)
      /\ \A i \in 1..Len(code) : file[8 + i] = code[i]
      /\ \A i \in 1..Len(lits) : file[8 + Len(code) + i] = lits[i]
  BY <1>1, FileLayout
<1>3. Len(code) \in Nat /\ Len(lits) \in Nat /\ MAX_CODE_WORDS \in Nat /\ MAX_LITERALS \in Nat
  BY EncodingAssumption
<1>4. SubSeq(file, 8 + 1, 8 + Len(code)) = code BY <1>2, Part
<1>5. SubSeq(file, 8 + Len(code) + 1, 8 + Len(code) + Len(lits)) = lits
  <2>1. 8 + Len(code) \in Nat BY <1>3
  <2> QED BY <1>2, <2>1, Part
<1>6. ParseFile(file) = [err |-> "", code |-> code, lits |-> lits]
  <2>1. ~(Len(file) < 8) /\ ~(Len(code) = 0 \/ Len(code) > MAX_CODE_WORDS) /\ ~(Len(lits) > MAX_LITERALS)
        /\ ~(Len(file) < 8 + Len(code) + Len(lits))
    BY <1>2, <1>3
  <2> QED BY <1>2, <1>4, <1>5, <2>1 DEF ParseFile, HEADER_WORDS
<1>7. ASSUME NEW n \in 0..Len(file) - 1 PROVE ParseFile(SubSeq(file, 1, n)).err # ""
  <2>1. PICK cut : cut = SubSeq(file, 1, n) OBVIOUS
  <2>2. Len(cut) = n /\ \A i \in 1..n : cut[i] = file[i]
    <3>1. n \in Int /\ 1 \in Int BY <1>2, <1>3
    <3>2. PICK T : \A i \in 1..n : file[i] \in T
      <4>1. \A i \in 1..n : file[i] \in {file[j] : j \in 1..n} OBVIOUS
      <4> QED BY <4>1
    <3>3. Len(cut) = (IF 1 <= n THEN n - 1 + 1 ELSE 0) /\ \A i \in 1..n - 1 + 1 : cut[i] = file[1 + i - 1]
      BY <2>1, <3>1, <3>2, SubSeqProperties
    <3> QED BY <3>1, <3>3
  <2>3. CASE n < 8 BY <2>1, <2>2, <2>3 DEF ParseFile, HEADER_WORDS
  <2>4. CASE ~(n < 8)
    <3>1. cut[1] = MAGIC /\ cut[2] = VERSION /\ cut[4] = Len(code) /\ cut[5] = Len(lits) BY <1>2, <2>2, <2>4
    <3>2. Len(cut) < 8 + Len(code) + Len(lits) BY <1>2, <1>3, <2>2
    <3> QED BY <2>1, <3>1, <3>2 DEF ParseFile, HEADER_WORDS
  <2> QED BY <2>3, <2>4
<1> QED BY <1>1, <1>6, <1>7

----------------------------------------------------------------------------
(* Every program the assembler accepts.  What the parser makes of a line:  *)
(* registers have the numbers of their class, and .word holds data, which  *)
(* no instruction shows, or a whole instruction other than a load of a     *)
(* literal, whose literal nobody would look for.  DataWords are the data   *)
(* of the listing, whichever they are: none, or any set of words.          *)
CONSTANT DataWords
OperandRead(x) ==
    /\ x[1] = "r" => x[2] \in Regs
    /\ x[1] = "s" => x[2] \in Scalars
    /\ x[1] = "p" => x[2] \in Predicates
    /\ x[1] = "imm" => x[2] \in Int
Readable(d) == Canonical(d) \/ (d \in DataWords /\ d \in CodeWord /\ Rendered(d) = <<>>)
StatementRead(st) ==
    /\ st.k \in {"ins", "label", "const", "scratch", "word"}
    /\ st.k = "ins" => /\ st.p \in Predicates \cup {NoGuard} /\ st.inv \in BOOLEAN /\ Len(st.o) \in Nat
                       /\ \A n \in 1..Len(st.o) : OperandRead(st.o[n])
    /\ st.k = "scratch" => st.o \in Regs
    /\ st.k = "word" => Readable(st.o) /\ st.o.op \notin LiteralLoads

(* The assembler between two statements: the code is of readable words, a  *)
(* literal is in the pool once, a load of a literal was noted or has its   *)
(* literal, a jump to a label is one.                                      *)
LoadsNoted(a) ==
    \A n \in 1..Len(a.code) : a.code[n].op \in LiteralLoads =>
        \/ a.code[n].lo < Len(a.lits)
        \/ \E x \in a.ldw : a.code[n].lo = x % LoMod
FixupsJump(a) ==
    \A i \in DOMAIN a.fixups : /\ a.fixups[i][1] \in 1..Len(a.code)
                               /\ a.code[a.fixups[i][1]].op \in Branches
                               /\ Canonical(a.code[a.fixups[i][1]])
Sound(a) ==
    /\ IsAsm(a)
    /\ a.code \in Seq(CodeWord) /\ \A n \in 1..Len(a.code) : Readable(a.code[n])
    /\ a.lits \in Seq(Literal) /\ Len(a.lits) <= MAX_LITERALS
    /\ \A m, n \in 1..Len(a.lits) : a.lits[m] = a.lits[n] => m = n
    /\ \A x \in DOMAIN a.consts : a.consts[x] \in Int
    /\ \A x \in DOMAIN a.labels : a.labels[x] \in Nat
    /\ a.scratch \in Regs /\ a.ldw \subseteq Nat
    /\ LoadsNoted(a)
    /\ \E T : a.fixups \in Seq(T)
    /\ FixupsJump(a)

\* The size of a word, whichever it is.
LEMMA WordModFacts == WordMod \in Nat /\ WordMod > 0 /\ Literal \subseteq Nat /\ \A v \in Int : Wrap(v) \in Literal
<1>1. WordMod \in Nat /\ WordMod > 0
  <2>1. CASE WordBits = 8
    <3>1. 2^8 = 256 OBVIOUS
    <3> QED BY <2>1, <3>1 DEF WordMod
  <2>2. CASE WordBits = 16
    <3>1. 2^16 = 65536 OBVIOUS
    <3> QED BY <2>2, <3>1 DEF WordMod
  <2>3. CASE WordBits = 32
    <3>1. 2^32 = 4294967296 OBVIOUS
    <3> QED BY <2>3, <3>1 DEF WordMod
  <2> QED BY <2>1, <2>2, <2>3, WordBitsAssumption
<1>2. Literal \subseteq Nat BY <1>1 DEF Literal
<1>3. \A v \in Int : Wrap(v) \in Literal BY <1>1 DEF Literal, Wrap
<1> QED BY <1>1, <1>2, <1>3

(* A word's fields.                                                        *)
HasFields(w, op, g, rd, rs1, v) ==
    /\ w \in CodeWord /\ w.op = op /\ w.guard = g /\ w.rd = rd /\ w.rs1 = rs1 /\ w.lo = v % LoMod
    /\ v \in Regs \cup LoField => w.lo = v

\* The fields of a word hold the operands, for operands in their ranges.
LEMMA WordFields ==
  ASSUME NEW op \in Mnemonics, NEW g \in 0..8, NEW rd \in Regs, NEW rs1 \in Regs, NEW v \in Int
  PROVE  HasFields(Word(op, g, rd, rs1, v), op, g, rd, rs1, v)
<1>1. PICK w : w = Word(op, g, rd, rs1, v) OBVIOUS
<1>2. w = [op |-> op, guard |-> g, rd |-> rd, rs1 |-> rs1, lo |-> v % LoMod] BY <1>1 DEF Word
<1>3. v % LoMod \in LoField BY LoRange
<1>4. w \in CodeWord BY <1>2, <1>3 DEF CodeWord
<1>5. Regs \subseteq LoField BY LoModFacts DEF Regs, LoField
<1>6. v \in LoField => v % LoMod = v BY LoSmall
<1>7. HasFields(w, op, g, rd, rs1, v) BY <1>2, <1>4, <1>5, <1>6 DEF HasFields
<1> QED BY <1>1, <1>7

\* The guard of an instruction that was read.
LEMMA GuardRead ==
  ASSUME NEW i, i.p \in Predicates \cup {NoGuard}, i.inv \in BOOLEAN
  PROVE  ParseGuard(i) \in 0..8
BY DEF ParseGuard, Predicates, NoGuard

\* A word can be added that is readable and, if it loads a literal, has it
\* or was noted.
LEMMA EmitSound ==
  ASSUME NEW a, Sound(a), NEW w, Readable(w),
         w.op \in LiteralLoads => w.lo < Len(a.lits) \/ \E x \in a.ldw : w.lo = x % LoMod
  PROVE  Sound(EmitWord(a, w))
<1>1. PICK b : b = EmitWord(a, w) OBVIOUS
<1>2. /\ IsAsm(b) /\ b.code = Append(a.code, w) /\ b.lits = a.lits /\ b.consts = a.consts
      /\ b.labels = a.labels /\ b.fixups = a.fixups /\ b.ldw = a.ldw /\ b.scratch = a.scratch
  BY <1>1, Emitted DEF Sound
<1>3. a.code \in Seq(CodeWord) /\ w \in CodeWord BY DEF Sound, Readable, Canonical
<1>4. Len(a.code) \in Nat BY <1>3
<1>5. b.code \in Seq(CodeWord) BY <1>2, <1>3
<1>6. Len(b.code) = Len(a.code) + 1 BY <1>2, <1>3
<1>7. \A n \in 1..Len(a.code) : b.code[n] = a.code[n] BY <1>2, <1>3
<1>8. b.code[Len(a.code) + 1] = w BY <1>2, <1>3
<1>9. \A n \in 1..Len(b.code) : n \in 1..Len(a.code) \/ n = Len(a.code) + 1 BY <1>4, <1>6
<1>10. \A n \in 1..Len(b.code) : Readable(b.code[n])
  <2>1. \A n \in 1..Len(a.code) : Readable(a.code[n]) BY DEF Sound
  <2> QED BY <1>7, <1>8, <1>9, <2>1
<1>11. LoadsNoted(b)
  <2>1. LoadsNoted(a) BY DEF Sound
  <2> QED BY <1>2, <1>7, <1>8, <1>9, <2>1 DEF LoadsNoted
<1>12. FixupsJump(b)
  <2>1. FixupsJump(a) BY DEF Sound
  <2>2. 1..Len(a.code) \subseteq 1..Len(b.code) BY <1>4, <1>6
  <2> QED BY <1>2, <1>7, <2>1, <2>2 DEF FixupsJump
<1>13. Sound(b) BY <1>2, <1>5, <1>10, <1>11, <1>12 DEF Sound
<1> QED BY <1>1, <1>13

\* An error changes nothing else.
LEMMA FailSound ==
  ASSUME NEW a, Sound(a), NEW what
  PROVE  Sound(AsmFails(a, what)) /\ AsmFails(a, what).lits = a.lits /\ AsmFails(a, what).err = what
<1>1. PICK b : b = AsmFails(a, what) OBVIOUS
<1>2. b = [code |-> a.code, lits |-> a.lits, consts |-> a.consts, labels |-> a.labels,
           fixups |-> a.fixups, ldw |-> a.ldw, scratch |-> a.scratch, err |-> what]
  BY <1>1 DEF AsmFails, Sound, IsAsm
<1>3. /\ b.code = a.code /\ b.lits = a.lits /\ b.consts = a.consts /\ b.labels = a.labels
      /\ b.fixups = a.fixups /\ b.ldw = a.ldw /\ b.scratch = a.scratch /\ b.err = what
  BY <1>2
<1>4. IsAsm(b) BY <1>2 DEF IsAsm
<1>5. LoadsNoted(b) /\ FixupsJump(b) BY <1>3 DEF Sound, LoadsNoted, FixupsJump
<1>6. Sound(b) BY <1>3, <1>4, <1>5 DEF Sound
<1> QED BY <1>1, <1>3, <1>6

\* intern keeps the pool free of doubles, and the value is in it.
LEMMA InternSound ==
  ASSUME NEW a, Sound(a), NEW v \in Literal
  PROVE  /\ Sound(Intern(a, v))
         /\ Intern(a, v).err = "" => v \in Range(Intern(a, v).lits)
<1>1. PICK b : b = Intern(a, v) OBVIOUS
<1>2. CASE v \in Range(a.lits)
  <2>1. b = a BY <1>1, <1>2 DEF Intern
  <2> QED BY <1>1, <1>2, <2>1
<1>3. CASE v \notin Range(a.lits) /\ Len(a.lits) >= MAX_LITERALS
  <2>1. b = AsmFails(a, "literal pool full") BY <1>1, <1>3 DEF Intern
  <2>2. Sound(b) /\ b.err = "literal pool full" BY <2>1, FailSound
  <2> QED BY <1>1, <2>2
<1>4. CASE v \notin Range(a.lits) /\ ~(Len(a.lits) >= MAX_LITERALS)
  <2>1. PICK ls : ls = Append(a.lits, v) OBVIOUS
  <2>2. b = [a EXCEPT !.lits = ls] BY <1>1, <1>4, <2>1 DEF Intern
  <2>3. b = [code |-> a.code, lits |-> ls, consts |-> a.consts, labels |-> a.labels,
             fixups |-> a.fixups, ldw |-> a.ldw, scratch |-> a.scratch, err |-> a.err]
    BY <2>2 DEF Sound, IsAsm
  <2>4. /\ b.code = a.code /\ b.lits = ls /\ b.consts = a.consts /\ b.labels = a.labels
        /\ b.fixups = a.fixups /\ b.ldw = a.ldw /\ b.scratch = a.scratch
    BY <2>3
  <2>5. IsAsm(b) BY <2>3 DEF IsAsm
  <2>6. a.lits \in Seq(Literal) BY DEF Sound
  <2>7. Len(a.lits) \in Nat /\ MAX_LITERALS \in Nat BY <2>6, EncodingAssumption
  <2>8. ls \in Seq(Literal) BY <2>1, <2>6
  <2>9. Len(ls) = Len(a.lits) + 1 BY <2>1, <2>6
  <2>10. \A n \in 1..Len(a.lits) : ls[n] = a.lits[n] BY <2>1, <2>6
  <2>11. ls[Len(a.lits) + 1] = v BY <2>1, <2>6
  <2>12. \A n \in 1..Len(a.lits) : a.lits[n] # v BY <1>4, <2>6 DEF Range
  <2>13. \A m, n \in 1..Len(ls) : ls[m] = ls[n] => m = n
    <3>1. \A m, n \in 1..Len(a.lits) : a.lits[m] = a.lits[n] => m = n BY DEF Sound
    <3>2. \A n \in 1..Len(ls) : n \in 1..Len(a.lits) \/ n = Len(a.lits) + 1 BY <2>7, <2>9
    <3> QED BY <2>10, <2>11, <2>12, <3>1, <3>2
  <2>14. Len(ls) <= MAX_LITERALS BY <1>4, <2>7, <2>9
  <2>15. LoadsNoted(b)
    <3>1. LoadsNoted(a) /\ \A n \in 1..Len(a.code) : a.code[n] \in CodeWord BY DEF Sound
    <3>2. \A n \in 1..Len(a.code) : a.code[n].lo < Len(a.lits) => a.code[n].lo < Len(ls)
      BY <2>7, <2>9, <3>1, LoModFacts DEF CodeWord, LoField
    <3> QED BY <2>4, <3>1, <3>2 DEF LoadsNoted
  <2>16. FixupsJump(b) BY <2>4 DEF Sound, FixupsJump
  <2>17. Sound(b) BY <2>4, <2>5, <2>8, <2>13, <2>14, <2>15, <2>16 DEF Sound
  <2>18. v \in Range(b.lits)
    <3>1. Len(a.lits) + 1 \in DOMAIN ls BY <2>7, <2>8, <2>9
    <3> QED BY <2>4, <2>11, <3>1 DEF Range
  <2> QED BY <1>1, <2>17, <2>18
<1> QED BY <1>2, <1>3, <1>4

\* resolve_imm gives a value that fits the instruction, or its literal.
LEMMA ResolveSound ==
  ASSUME NEW a, Sound(a), NEW x, OperandRead(x)
  PROVE  /\ Sound(ResolveImm(a, x).a) /\ ResolveImm(a, x).inline \in BOOLEAN
         /\ ResolveImm(a, x).inline => ResolveImm(a, x).v \in IMM_MIN..IMM_MAX
         /\ ~ResolveImm(a, x).inline => ResolveImm(a, x).v \in 0..Len(ResolveImm(a, x).a.lits) - 1
         /\ ResolveImm(a, x).a.scratch = a.scratch
<1> DEFINE known == x[1] = "imm" \/ (x[1] = "label" /\ x[2] \in DOMAIN a.consts)
           value == IF x[1] = "imm" THEN x[2] ELSE a.consts[x[2]]
           b == Intern(a, Wrap(value))
<1>1. PICK r : r = ResolveImm(a, x) OBVIOUS
<1>2. r = IF ~known THEN [a |-> AsmFails(a, "immediate"), inline |-> TRUE, v |-> 0]
          ELSE IF value \in IMM_MIN..IMM_MAX THEN [a |-> a, inline |-> TRUE, v |-> value]
          ELSE IF b.err # "" THEN [a |-> b, inline |-> TRUE, v |-> 0]
          ELSE [a |-> b, inline |-> FALSE, v |-> IndexOf(b, Wrap(value))]
  BY <1>1 DEF ResolveImm
<1>3. 0 \in IMM_MIN..IMM_MAX BY LoModFacts
<1>4. known => value \in Int BY DEF Sound, OperandRead
<1>5. known => Sound(b) /\ (b.err = "" => Wrap(value) \in Range(b.lits))
  BY <1>4, WordModFacts, InternSound
<1>6. b.scratch = a.scratch
  BY DEF Intern, AsmFails, Sound, IsAsm
<1> HIDE DEF known, value, b
<1>7. CASE ~known
  <2>1. PICK c : c = AsmFails(a, "immediate") OBVIOUS
  <2>2. Sound(c) BY <2>1, FailSound
  <2>3. r = [a |-> c, inline |-> TRUE, v |-> 0] BY <1>2, <1>7, <2>1
  <2>4. c.scratch = a.scratch BY <2>1 DEF AsmFails, Sound, IsAsm
  <2>5. r.a = c /\ r.inline = TRUE /\ r.v = 0 BY <2>3
  <2> QED BY <1>1, <1>3, <2>2, <2>4, <2>5
<1>8. CASE known /\ value \in IMM_MIN..IMM_MAX
  <2>1. r = [a |-> a, inline |-> TRUE, v |-> value] BY <1>2, <1>8
  <2>2. r.a = a /\ r.inline = TRUE /\ r.v = value BY <2>1
  <2> QED BY <1>1, <1>8, <2>2
<1>9. CASE known /\ value \notin IMM_MIN..IMM_MAX /\ b.err # ""
  <2>1. r = [a |-> b, inline |-> TRUE, v |-> 0] BY <1>2, <1>9
  <2>2. r.a = b /\ r.inline = TRUE /\ r.v = 0 BY <2>1
  <2> QED BY <1>1, <1>3, <1>5, <1>6, <1>9, <2>2
<1>10. CASE known /\ value \notin IMM_MIN..IMM_MAX /\ b.err = ""
  <2>1. PICK k : k = IndexOf(b, Wrap(value)) OBVIOUS
  <2>2. r = [a |-> b, inline |-> FALSE, v |-> k] BY <1>2, <1>10, <2>1
  <2>3. b.lits \in Seq(Literal) BY <1>5, <1>10 DEF Sound
  <2>4. \E n \in DOMAIN b.lits : b.lits[n] = Wrap(value) BY <1>5, <1>10 DEF Range
  <2>5. k + 1 \in 1..Len(b.lits) /\ k \in Int BY <2>1, <2>3, <2>4 DEF IndexOf
  <2>6. k \in 0..Len(b.lits) - 1 BY <2>3, <2>5
  <2>7. r.a = b /\ r.inline = FALSE /\ r.v = k BY <2>2
  <2> QED BY <1>1, <1>5, <1>6, <1>10, <2>6, <2>7
<1> QED BY <1>7, <1>8, <1>9, <1>10

\* The names of the instructions that are not of fixed operands.
LEMMA OtherNames ==
  /\ Bare \cup AluNames \cup AluImmNames \cup RegisterOnly \cup CompareNames \cup CompareImmNames
       \cup LiteralLoads \cup Branches \subseteq Mnemonics \ Fixed
  /\ {"MOV", "MOV_I", "BROADCAST", "SHUFFLE_XOR", "LOG", "LOG_I", "S_MOV_I", "S_ADD_I", "S_CMP_LT_I"}
       \subseteq Mnemonics \ Fixed
<1>1. /\ Bare \cap Fixed = {} /\ AluNames \cap Fixed = {} /\ AluImmNames \cap Fixed = {}
      /\ RegisterOnly \cap Fixed = {} /\ CompareNames \cap Fixed = {} /\ CompareImmNames \cap Fixed = {}
      /\ LiteralLoads \cap Fixed = {} /\ Branches \cap Fixed = {}
  BY DEF Bare, AluNames, AluImmNames, RegisterOnly, CompareNames, CompareImmNames, LiteralLoads, Branches,
         Fixed, OneRegister, TwoRegisters
<1>2. {"MOV", "MOV_I", "BROADCAST", "SHUFFLE_XOR", "LOG", "LOG_I", "S_MOV_I", "S_ADD_I", "S_CMP_LT_I"} \cap Fixed = {}
  BY DEF Fixed, OneRegister, TwoRegisters
<1> QED BY <1>1, <1>2 DEF Mnemonics

\* The words of the other instructions are canonical, for operands that were
\* read: what Canonical asks of each.
LEMMA OtherWords ==
  ASSUME NEW op \in Mnemonics \ Fixed, NEW g \in 0..8, NEW rd \in Regs, NEW rs1 \in Regs, NEW v \in Int,
         \/ op \in Bare /\ rd = 0 /\ rs1 = 0 /\ v = 0
         \/ op = "MOV" /\ v = 0
         \/ op = "MOV_I" /\ rs1 = 0
         \/ op \in AluNames \cup RegisterOnly /\ v \in Regs
         \/ op \in AluImmNames
         \/ op \in CompareNames /\ v \in Regs /\ rd \in Predicates
         \/ op \in CompareImmNames /\ rd \in Predicates
         \/ op \in {"BROADCAST", "SHUFFLE_XOR"} /\ v \in 0..LANES - 1
         \/ op = "LDW" /\ rs1 = 0
         \/ op \in {"S_LDW", "S_MOV_I"} /\ rs1 = 0 /\ rd \in Scalars
         \/ op = "S_ADD_I" /\ rs1 \in Scalars /\ rd \in Scalars
         \/ op = "S_CMP_LT_I" /\ rs1 \in Scalars /\ rd \in Predicates
         \/ op = "LOG" /\ rd = 0 /\ v \in Regs
         \/ op = "LOG_I" /\ rd = 0
         \/ op \in Branches /\ rd = 0 /\ rs1 = 0 /\ (op \in {"JMP_IF_ANY", "JMP_IF_ALL"} => g \in 1..4)
  PROVE  Canonical(Word(op, g, rd, rs1, v))
<1>1. PICK w : w = Word(op, g, rd, rs1, v) OBVIOUS
<1>2. /\ w \in CodeWord /\ w.op = op /\ w.guard = g /\ w.rd = rd /\ w.rs1 = rs1
      /\ v \in Regs \cup LoField => w.lo = v
  <2>1. op \in Mnemonics OBVIOUS
  <2>2. HasFields(w, op, g, rd, rs1, v) BY ONLY <1>1, <2>1, WordFields, g \in 0..8, rd \in Regs, rs1 \in Regs, v \in Int
  <2> QED BY ONLY <2>2 DEF HasFields
<1>3. 0..LANES - 1 \subseteq LoField /\ 0 \in Regs BY LoModFacts DEF LoField, Regs
<1>4. op \in Mnemonics /\ op \notin Fixed /\ g \in 0..8 /\ "FLIP" \in Fixed BY DEF Fixed
<1> USE DEF Bare, AluNames, AluImmNames, RegisterOnly, CompareNames, CompareImmNames, LiteralLoads, Branches
<1>5. ASSUME op \in Bare, rd = 0, rs1 = 0, v = 0 PROVE Canonical(w) BY <1>2, <1>3, <1>4, <1>5 DEF Canonical
<1>6. ASSUME op = "MOV", v = 0 PROVE Canonical(w) BY <1>2, <1>3, <1>4, <1>6 DEF Canonical
<1>7. ASSUME op = "MOV_I", rs1 = 0 PROVE Canonical(w) BY <1>2, <1>4, <1>7 DEF Canonical
<1>8. ASSUME op \in AluNames \cup RegisterOnly, v \in Regs PROVE Canonical(w)
  BY <1>2, <1>4, <1>8 DEF Canonical
<1>9. ASSUME op \in AluImmNames PROVE Canonical(w) BY <1>2, <1>4, <1>9 DEF Canonical
<1>10. ASSUME op \in CompareNames, v \in Regs, rd \in Predicates PROVE Canonical(w)
  BY <1>2, <1>4, <1>10 DEF Canonical
<1>11. ASSUME op \in CompareImmNames, rd \in Predicates PROVE Canonical(w)
  BY <1>2, <1>4, <1>11 DEF Canonical
<1>12. ASSUME op \in {"BROADCAST", "SHUFFLE_XOR"}, v \in 0..LANES - 1 PROVE Canonical(w)
  BY <1>2, <1>3, <1>4, <1>12 DEF Canonical
<1>13. ASSUME op \in {"LDW", "S_LDW", "S_MOV_I"}, rs1 = 0, op # "LDW" => rd \in Scalars PROVE Canonical(w)
  BY <1>2, <1>4, <1>13 DEF Canonical
<1>14. ASSUME op \in {"S_ADD_I", "S_CMP_LT_I"}, rs1 \in Scalars, op = "S_ADD_I" => rd \in Scalars,
              op = "S_CMP_LT_I" => rd \in Predicates
       PROVE  Canonical(w)
  BY <1>2, <1>4, <1>14 DEF Canonical
<1>15. ASSUME op \in {"LOG", "LOG_I"}, rd = 0, op = "LOG" => v \in Regs PROVE Canonical(w)
  BY <1>2, <1>4, <1>15 DEF Canonical
<1>16. ASSUME op \in Branches, rd = 0, rs1 = 0, op \in {"JMP_IF_ANY", "JMP_IF_ALL"} => g \in 1..4
       PROVE  Canonical(w)
  BY <1>2, <1>4, <1>16 DEF Canonical
<1>17. Canonical(w)
  BY <1>5, <1>6, <1>7, <1>8, <1>9, <1>10, <1>11, <1>12, <1>13, <1>14, <1>15, <1>16
<1> QED BY <1>1, <1>17

\* A fixed word, from the fields its operands give.
LEMMA FixedWords ==
  ASSUME NEW op \in Fixed, NEW g \in 0..8, op = "FLIP" => g = 0,
         NEW rd \in Regs, NEW rs1 \in Regs, NEW v \in Regs,
         \A n \in 1..3 : IF n <= Len(Operands(op)) THEN InClass(Operands(op)[n], <<rd, rs1, v>>[n])
                         ELSE <<rd, rs1, v>>[n] = 0
  PROVE  Canonical(Word(op, g, rd, rs1, v))
<1>1. PICK w : w = Word(op, g, rd, rs1, v) OBVIOUS
<1>2. op \in Mnemonics BY DEF Mnemonics
<1>3. v \in Int /\ v \in Regs \cup LoField BY DEF Regs
<1>4. HasFields(w, op, g, rd, rs1, v) BY ONLY <1>1, <1>2, <1>3, WordFields, g \in 0..8, rd \in Regs, rs1 \in Regs
<1>5. /\ w \in CodeWord /\ w.op = op /\ w.guard = g /\ w.rd = rd /\ w.rs1 = rs1 /\ w.lo = v
  BY ONLY <1>3, <1>4 DEF HasFields
<1>6. FixedFields(w)
  <2>1. \A n \in 1..3 : <<w.rd, w.rs1, w.lo>>[n] = <<rd, rs1, v>>[n] /\ <<rd, rs1, v>>[n] \in Regs BY <1>5
  <2> QED BY <1>5, <2>1 DEF FixedFields
<1>7. /\ op \notin Bare /\ op \notin AluNames /\ op \notin AluImmNames /\ op \notin RegisterOnly
      /\ op \notin CompareNames /\ op \notin CompareImmNames /\ op \notin LiteralLoads /\ op \notin Branches
      /\ op \notin {"MOV", "MOV_I", "BROADCAST", "SHUFFLE_XOR", "LOG", "LOG_I", "S_MOV_I", "S_ADD_I", "S_CMP_LT_I"}
      /\ op \notin {"JMP_IF_ANY", "JMP_IF_ALL"}
  <2>1. {"JMP_IF_ANY", "JMP_IF_ALL"} \subseteq Branches BY DEF Branches
  <2> QED BY <2>1, OtherNames
<1>8. Canonical(w)
  <2>1. w \in CodeWord /\ w.op \in Mnemonics /\ w.guard \in 0..8 /\ (w.op = "FLIP" => w.guard = 0) BY <1>2, <1>5
  <2>2. w.op \notin AluNames \cup RegisterOnly \cup CompareNames \cup {"LOG"} BY ONLY <1>5, <1>7
  <2>3. w.op \notin CompareNames \cup CompareImmNames \cup {"S_CMP_LT_I"} BY ONLY <1>5, <1>7
  <2>4. w.op \notin LiteralLoads \cup {"MOV_I", "S_MOV_I"} BY ONLY <1>5, <1>7
  <2>5. w.op \notin {"LOG", "LOG_I"} \cup {"S_LDW", "S_MOV_I", "S_ADD_I"} \cup {"S_CMP_LT_I"}
    BY ONLY <1>5, <1>7 DEF LiteralLoads
  <2>6. w.op # "MOV" /\ w.op \notin {"BROADCAST", "SHUFFLE_XOR"} /\ w.op \notin Bare /\ w.op \notin Branches
        /\ w.op \notin {"JMP_IF_ANY", "JMP_IF_ALL"}
    BY ONLY <1>5, <1>7
  <2> QED BY ONLY <1>6, <2>1, <2>2, <2>3, <2>4, <2>5, <2>6 DEF Canonical
<1> QED BY <1>1, <1>8

\* The ranges of operands.
LEMMA Ranges ==
  /\ Regs \subseteq Int /\ 0 \in Regs /\ 0 \in Scalars /\ 0 \in Predicates /\ Predicates \subseteq Regs
  /\ Scalars \subseteq Regs /\ IMM_MIN..IMM_MAX \subseteq Int /\ 0 \in 0..8
BY DEF Regs, Scalars, Predicates

(* A readable word that loads no literal.                                  *)
Plain(w) == Readable(w) /\ w.op \notin LiteralLoads

\* A plain word can be added.
LEMMA PlainSound ==
  ASSUME NEW a, Sound(a), NEW w, Plain(w)
  PROVE  Sound(EmitWord(a, w))
BY EmitSound DEF Plain

\* A canonical word of another instruction is plain.
LEMMA PlainWord ==
  ASSUME NEW op \in Mnemonics, op \notin LiteralLoads,
         NEW g, NEW rd, NEW rs1, NEW v, Canonical(Word(op, g, rd, rs1, v))
  PROVE  Plain(Word(op, g, rd, rs1, v))
BY DEF Plain, Readable, Word

\* A load of a literal that is in the pool can be added.
LEMMA LoadSound ==
  ASSUME NEW a, Sound(a), NEW op \in LiteralLoads, NEW g \in 0..8, NEW rd \in Regs,
         op = "S_LDW" => rd \in Scalars, NEW v \in 0..Len(a.lits) - 1
  PROVE  Sound(EmitWord(a, Word(op, g, rd, 0, v)))
<1>1. PICK w : w = Word(op, g, rd, 0, v) OBVIOUS
<1>2. 0 \in Regs /\ v \in Int BY DEF Regs
<1>3. op \in Mnemonics \ Fixed /\ op \in Mnemonics BY OtherNames
<1>4. Canonical(w)
  <2>1. op = "LDW" \/ (op \in {"S_LDW", "S_MOV_I"} /\ rd \in Scalars) BY DEF LiteralLoads
  <2> QED BY <1>1, <1>2, <1>3, <2>1, OtherWords
<1>5. HasFields(w, op, g, rd, 0, v) BY <1>1, <1>2, <1>3, WordFields
<1>6. v \in LoField
  <2>1. Len(a.lits) \in Nat /\ Len(a.lits) <= MAX_LITERALS BY DEF Sound
  <2>2. MAX_LITERALS \in Int /\ MAX_LITERALS <= IMM_MAX BY EncodingAssumption
  <2> QED BY <2>1, <2>2, LoModFacts DEF LoField
<1>7. w.lo = v BY <1>5, <1>6 DEF HasFields
<1>8. w.lo < Len(a.lits)
  <2>1. Len(a.lits) \in Nat BY DEF Sound
  <2> QED BY <1>7, <2>1
<1>9. Sound(EmitWord(a, w)) BY <1>4, <1>8, EmitSound DEF Readable
<1> QED BY <1>1, <1>9

\* The immediate operand of MOV, of arithmetic and of comparisons.
LEMMA MaterializedSound ==
  ASSUME NEW a, Sound(a), NEW i, Len(i.o) \in Nat, Len(i.o) = 2 \/ Len(i.o) = 3, \A n \in 1..Len(i.o) : OperandRead(i.o[n]),
         NEW op, NEW opi, NEW fields,
         \A v \in Regs : Plain(Word(op, ParseGuard(i), fields[1], IF Len(i.o) = 2 THEN v ELSE fields[2],
                                    IF Len(i.o) = 2 THEN 0 ELSE v)),
         opi # "" => \A v \in Int : Plain(Word(opi, ParseGuard(i), fields[1], fields[2], v))
  PROVE  Sound(Materialized(a, i, op, opi, fields))
<1> DEFINE n == Len(i.o)
           last(v) == Word(op, ParseGuard(i), fields[1], IF n = 2 THEN v ELSE fields[2], IF n = 2 THEN 0 ELSE v)
<1>1. PICK r : r = ResolveImm(a, i.o[n]) OBVIOUS
<1>2. PICK load : load = IF r.inline THEN Word("MOV_I", 0, a.scratch, 0, r.v) ELSE Word("LDW", 0, a.scratch, 0, r.v)
  OBVIOUS
<1>3. n \in 1..Len(i.o) BY ONLY Len(i.o) \in Nat, Len(i.o) = 2 \/ Len(i.o) = 3 DEF n
<1>4. OperandRead(i.o[n]) BY <1>3
<1>5. \A v \in Regs : Plain(last(v)) OBVIOUS
<1>6. Materialized(a, i, op, opi, fields) =
        IF i.o[n][1] = "r" THEN EmitWord(a, last(i.o[n][2]))
        ELSE IF r.inline /\ opi # "" THEN EmitWord(r.a, Word(opi, ParseGuard(i), fields[1], fields[2], r.v))
        ELSE EmitWord(EmitWord(r.a, load), last(a.scratch))
  BY <1>1, <1>2 DEF Materialized
<1> HIDE DEF n, last
<1>7. /\ Sound(r.a) /\ r.inline \in BOOLEAN
      /\ r.inline => r.v \in IMM_MIN..IMM_MAX
      /\ ~r.inline => r.v \in 0..Len(r.a.lits) - 1
  BY <1>1, <1>4, ResolveSound
<1>8. a.scratch \in Regs /\ 0 \in Regs
  <2>1. a.scratch \in Regs BY ONLY Sound(a) DEF Sound
  <2> QED BY <2>1, Ranges
<1>9. CASE i.o[n][1] = "r"
  <2>1. i.o[n][2] \in Regs BY <1>4, <1>9 DEF OperandRead
  <2>2. Sound(EmitWord(a, last(i.o[n][2]))) BY <1>5, <2>1, PlainSound
  <2> QED BY <1>6, <1>9, <2>2
<1>10. CASE i.o[n][1] # "r" /\ r.inline /\ opi # ""
  <2>1. r.v \in Int BY ONLY <1>7, <1>10, Ranges
  <2>2. Plain(Word(opi, ParseGuard(i), fields[1], fields[2], r.v)) BY <1>10, <2>1
  <2>3. Sound(EmitWord(r.a, Word(opi, ParseGuard(i), fields[1], fields[2], r.v))) BY <1>7, <2>2, PlainSound
  <2> QED BY <1>6, <1>10, <2>3
<1>11. CASE i.o[n][1] # "r" /\ ~(r.inline /\ opi # "")
  <2>1. Sound(EmitWord(r.a, load))
    <3>1. CASE r.inline
      <4>1. "MOV_I" \in Mnemonics \ Fixed /\ "MOV_I" \in Mnemonics /\ "MOV_I" \notin LiteralLoads
        BY OtherNames DEF LiteralLoads
      <4>2. r.v \in Int BY ONLY <1>7, <3>1, Ranges
      <4>3. Canonical(Word("MOV_I", 0, a.scratch, 0, r.v))
        <5>1. 0 \in 0..8 BY ONLY Ranges
        <5> QED BY ONLY <1>8, <4>1, <4>2, <5>1, OtherWords
      <4>4. Plain(Word("MOV_I", 0, a.scratch, 0, r.v)) BY <4>1, <4>3, PlainWord
      <4> QED BY <1>2, <1>7, <3>1, <4>4, PlainSound
    <3>2. CASE ~r.inline
      <4>1. load = Word("LDW", 0, a.scratch, 0, r.v) BY <1>2, <3>2
      <4>2. "LDW" \in LiteralLoads /\ "LDW" # "S_LDW" BY DEF LiteralLoads
      <4>3. r.v \in 0..Len(r.a.lits) - 1 BY <1>7, <3>2
      <4>4. 0 \in 0..8 BY ONLY Ranges
      <4>5. Sound(EmitWord(r.a, load)) BY ONLY <1>7, <1>8, <4>1, <4>2, <4>3, <4>4, LoadSound
      <4> QED BY <4>5
    <3> QED BY <3>1, <3>2
  <2>2. Sound(EmitWord(EmitWord(r.a, load), last(a.scratch))) BY <1>5, <1>8, <2>1, PlainSound
  <2> QED BY <1>6, <1>11, <2>2
<1> QED BY <1>9, <1>10, <1>11

\* MOV.
LEMMA MovSound ==
  ASSUME NEW a, Sound(a), NEW i, ParseGuard(i) \in 0..8, Len(i.o) \in Nat,
         \A n \in 1..Len(i.o) : OperandRead(i.o[n])
  PROVE  Sound(EncodeMov(a, i))
<1>1. CASE ~(Len(i.o) = 2 /\ i.o[1][1] = "r")
  <2>1. EncodeMov(a, i) = AsmFails(a, "MOV") BY <1>1 DEF EncodeMov
  <2> QED BY <2>1, FailSound
<1>2. CASE Len(i.o) = 2 /\ i.o[1][1] = "r"
  <2>1. PICK f : f = <<i.o[1][2], 0>> OBVIOUS
  <2>2. EncodeMov(a, i) = Materialized(a, i, "MOV", "MOV_I", f) BY <1>2, <2>1 DEF EncodeMov
  <2>3. i.o[1][2] \in Regs
    <3>1. OperandRead(i.o[1]) BY <1>2
    <3> QED BY <1>2, <3>1 DEF OperandRead
  <2>4. f[1] \in Regs /\ f[2] = 0 /\ 0 \in Regs BY <2>1, <2>3 DEF Regs
  <2>5. {"MOV", "MOV_I"} \subseteq Mnemonics \ Fixed /\ "MOV" \notin LiteralLoads /\ "MOV_I" \notin LiteralLoads
    BY OtherNames DEF LiteralLoads
  <2>6. ASSUME NEW v \in Regs PROVE Plain(Word("MOV", ParseGuard(i), f[1], v, 0))
    <3>1. Canonical(Word("MOV", ParseGuard(i), f[1], v, 0)) BY <2>4, <2>5, OtherWords
    <3> QED BY <2>5, <3>1, PlainWord
  <2>7. ASSUME NEW v \in Int PROVE Plain(Word("MOV_I", ParseGuard(i), f[1], f[2], v))
    <3>1. Canonical(Word("MOV_I", ParseGuard(i), f[1], 0, v)) BY <2>4, <2>5, OtherWords
    <3>2. Plain(Word("MOV_I", ParseGuard(i), f[1], 0, v)) BY <2>5, <3>1, PlainWord
    <3> QED BY <2>4, <3>2
  <2>8. Sound(Materialized(a, i, "MOV", "MOV_I", f)) BY <1>2, <2>6, <2>7, MaterializedSound
  <2> QED BY <2>2, <2>8
<1> QED BY <1>1, <1>2

\* The three-operand instructions, for the words of their two forms.
LEMMA Bin3Sound ==
  ASSUME NEW a, Sound(a), NEW i, ParseGuard(i) \in 0..8, Len(i.o) \in Nat,
         \A n \in 1..Len(i.o) : OperandRead(i.o[n]), NEW first \in {"r", "p"},
         NEW op \in Mnemonics \ Fixed, op \notin LiteralLoads, NEW opi,
         \/ op \in AluNames \cup RegisterOnly
         \/ op \in CompareNames /\ first = "p",
         \/ opi = ""
         \/ opi \in AluImmNames
         \/ opi \in CompareImmNames /\ first = "p"
  PROVE  Sound(EncodeBin3(a, i, first, op, opi))
<1>1. CASE ~(Len(i.o) = 3 /\ i.o[1][1] = first /\ i.o[2][1] = "r")
  <2>1. EncodeBin3(a, i, first, op, opi) = AsmFails(a, "operands") BY <1>1 DEF EncodeBin3
  <2> QED BY <2>1, FailSound
<1>2. CASE Len(i.o) = 3 /\ i.o[1][1] = first /\ i.o[2][1] = "r"
  <2>1. PICK f : f = <<i.o[1][2], i.o[2][2]>> OBVIOUS
  <2>2. EncodeBin3(a, i, first, op, opi) = Materialized(a, i, op, opi, f) BY <1>2, <2>1 DEF EncodeBin3
  <2>3. OperandRead(i.o[1]) /\ OperandRead(i.o[2])
    <3>1. 1 \in 1..Len(i.o) /\ 2 \in 1..Len(i.o) BY ONLY <1>2
    <3> QED BY <3>1
  <2>4. i.o[1][2] \in Regs /\ i.o[2][2] \in Regs /\ (first = "p" => i.o[1][2] \in Predicates)
    BY ONLY <1>2, <2>3, Ranges DEF OperandRead
  <2>5. f[1] \in Regs /\ f[2] \in Regs /\ (first = "p" => f[1] \in Predicates) BY <2>1, <2>4
  <2>6. ASSUME NEW v \in Regs PROVE Plain(Word(op, ParseGuard(i), f[1], f[2], v))
    <3>1. v \in Int BY Ranges
    <3>2. Canonical(Word(op, ParseGuard(i), f[1], f[2], v)) BY <2>5, <3>1, OtherWords
    <3> QED BY <3>2, PlainWord
  <2>7. ASSUME opi # "", NEW v \in Int PROVE Plain(Word(opi, ParseGuard(i), f[1], f[2], v))
    <3>1. opi \in Mnemonics \ Fixed /\ opi \notin LiteralLoads
      BY <2>7, OtherNames DEF LiteralLoads, AluImmNames, CompareImmNames
    <3>2. Canonical(Word(opi, ParseGuard(i), f[1], f[2], v)) BY <2>5, <2>7, <3>1, OtherWords
    <3> QED BY <3>1, <3>2, PlainWord
  <2>8. Sound(Materialized(a, i, op, opi, f))
    <3>1. Len(i.o) # 2 BY ONLY <1>2
    <3>2. \A v \in Regs : Plain(Word(op, ParseGuard(i), f[1], IF Len(i.o) = 2 THEN v ELSE f[2],
                                     IF Len(i.o) = 2 THEN 0 ELSE v))
      BY <2>6, <3>1
    <3> QED BY <1>2, <2>7, <3>2, MaterializedSound
  <2> QED BY <2>2, <2>8
<1> QED BY <1>1, <1>2

\* The instructions of fixed operands.
LEMMA FixedSound ==
  ASSUME NEW a, Sound(a), NEW i, i.m \in Fixed, ParseGuard(i) \in 0..8, i.p = NoGuard => ParseGuard(i) = 0,
         Len(i.o) \in Nat, \A n \in 1..Len(i.o) : OperandRead(i.o[n])
  PROVE  Sound(EncodeFixed(a, i))
<1> DEFINE field(n) == IF n > Len(i.o) THEN 0 ELSE i.o[n][2]
           bad == ~Shaped(i, Operands(i.m)) \/ (i.m = "FLIP" /\ i.p # NoGuard)
<1>1. PICK w : w = Word(i.m, ParseGuard(i), field(1), field(2), field(3)) OBVIOUS
<1>2. EncodeFixed(a, i) = IF bad THEN AsmFails(a, "operands") ELSE EmitWord(a, w) BY <1>1 DEF EncodeFixed
<1> HIDE DEF bad, field
<1>3. CASE bad BY <1>2, <1>3, FailSound
<1>4. CASE ~bad
  <2>1. PICK c : c = Operands(i.m) OBVIOUS
  <2>2. /\ c \in Seq({"r", "s", "p"}) /\ Len(c) \in 0..3 /\ DOMAIN c = 1..Len(c) BY ONLY <2>1, i.m \in Fixed, OperandClasses
  <2>3. Len(i.o) = Len(c) /\ \A n \in 1..Len(c) : i.o[n][1] = c[n]
    BY ONLY <1>4, <2>1, <2>2 DEF bad, Shaped
  <2>4. ASSUME NEW n \in 1..3
        PROVE  /\ field(n) \in Regs
               /\ IF n <= Len(c) THEN InClass(c[n], field(n)) ELSE field(n) = 0
    <3>1. CASE n <= Len(c)
      <4>1. n \in 1..Len(c) /\ n \in 1..Len(i.o) /\ ~(n > Len(i.o)) BY ONLY <2>2, <2>3, <2>4, <3>1
      <4>2. field(n) = i.o[n][2] BY ONLY <4>1 DEF field
      <4>3. OperandRead(i.o[n]) /\ i.o[n][1] = c[n] BY <2>3, <4>1
      <4>4. c[n] \in {"r", "s", "p"} BY ONLY <2>2, <4>1
      <4>5. field(n) \in Regs BY ONLY <4>2, <4>3, <4>4, Ranges DEF OperandRead
      <4>6. InClass(c[n], field(n)) BY ONLY <4>2, <4>3, <4>4 DEF OperandRead, InClass, Scalars, Predicates
      <4> QED BY <3>1, <4>5, <4>6
    <3>2. CASE ~(n <= Len(c))
      <4>1. n > Len(i.o) BY ONLY <2>2, <2>3, <2>4, <3>2
      <4>2. field(n) = 0 BY ONLY <4>1 DEF field
      <4> QED BY <3>2, <4>2, Ranges
    <3> QED BY <3>1, <3>2
  <2>5. PICK f : f = <<field(1), field(2), field(3)>> OBVIOUS
  <2>6. f[1] = field(1) /\ f[2] = field(2) /\ f[3] = field(3) BY ONLY <2>5
  <2>7. /\ f[1] \in Regs /\ f[2] \in Regs /\ f[3] \in Regs
        /\ \A n \in 1..3 : IF n <= Len(c) THEN InClass(c[n], f[n]) ELSE f[n] = 0
    <3>1. \A n \in 1..3 : f[n] = field(n) BY ONLY <2>6
    <3> QED BY <2>4, <3>1
  <2>8. <<f[1], f[2], f[3]>> = f BY ONLY <2>5
  <2>9. \A n \in 1..3 : IF n <= Len(Operands(i.m)) THEN InClass(Operands(i.m)[n], <<f[1], f[2], f[3]>>[n])
                        ELSE <<f[1], f[2], f[3]>>[n] = 0
    BY ONLY <2>1, <2>7, <2>8
  <2>10. i.m = "FLIP" => ParseGuard(i) = 0 BY <1>4 DEF bad
  <2>11. Canonical(Word(i.m, ParseGuard(i), f[1], f[2], f[3]))
    BY ONLY i.m \in Fixed, ParseGuard(i) \in 0..8, <2>7, <2>9, <2>10, FixedWords
  <2>12. i.m \in Mnemonics /\ i.m \notin LiteralLoads BY OtherNames DEF Mnemonics
  <2>13. Plain(w) BY <1>1, <2>6, <2>11, <2>12, PlainWord
  <2> QED BY <1>2, <1>4, <2>13, PlainSound
<1> QED BY <1>3, <1>4

\* LOG and LOG_I.
LEMMA LogSound ==
  ASSUME NEW a, Sound(a), NEW i, i.m \in {"LOG", "LOG_I"}, ParseGuard(i) \in 0..8, Len(i.o) \in Nat,
         \A n \in 1..Len(i.o) : OperandRead(i.o[n])
  PROVE  Sound(EncodeLog(a, i))
<1>1. {"LOG", "LOG_I"} \subseteq Mnemonics \ Fixed /\ "LOG" \notin LiteralLoads /\ "LOG_I" \notin LiteralLoads
  BY OtherNames DEF LiteralLoads
<1>2. PICK r : r = ResolveImm(a, i.o[2]) OBVIOUS
<1>3. EncodeLog(a, i) =
        CASE i.m = "LOG" /\ Shaped(i, <<"r", "r">>) ->
               EmitWord(a, Word("LOG", ParseGuard(i), 0, i.o[1][2], i.o[2][2]))
          [] i.m = "LOG_I" /\ Len(i.o) = 2 /\ i.o[1][1] = "r" ->
               IF r.inline THEN EmitWord(r.a, Word("LOG_I", ParseGuard(i), 0, i.o[1][2], r.v))
               ELSE AsmFails(r.a, "tag")
          [] OTHER -> AsmFails(a, "operands")
  BY <1>2 DEF EncodeLog
<1>4. CASE i.m = "LOG" /\ Shaped(i, <<"r", "r">>)
  <2>1. Len(i.o) = 2 /\ i.o[1][1] = "r" /\ i.o[2][1] = "r" BY ONLY <1>4 DEF Shaped
  <2>2. OperandRead(i.o[1]) /\ OperandRead(i.o[2])
    <3>1. 1 \in 1..Len(i.o) /\ 2 \in 1..Len(i.o) BY ONLY <2>1
    <3> QED BY <3>1
  <2>3. i.o[1][2] \in Regs /\ i.o[2][2] \in Regs /\ i.o[2][2] \in Int
    BY ONLY <2>1, <2>2, Ranges DEF OperandRead
  <2>4. Canonical(Word("LOG", ParseGuard(i), 0, i.o[1][2], i.o[2][2])) BY <1>1, <2>3, Ranges, OtherWords
  <2>5. Plain(Word("LOG", ParseGuard(i), 0, i.o[1][2], i.o[2][2])) BY <1>1, <2>4, PlainWord
  <2>6. Sound(EmitWord(a, Word("LOG", ParseGuard(i), 0, i.o[1][2], i.o[2][2]))) BY <2>5, PlainSound
  <2> QED BY ONLY <1>3, <1>4, <2>6
<1>5. CASE i.m = "LOG_I" /\ Len(i.o) = 2 /\ i.o[1][1] = "r"
  <2>1. OperandRead(i.o[1]) /\ OperandRead(i.o[2])
    <3>1. 1 \in 1..Len(i.o) /\ 2 \in 1..Len(i.o) BY ONLY <1>5
    <3> QED BY <3>1
  <2>2. i.o[1][2] \in Regs BY ONLY <1>5, <2>1 DEF OperandRead
  <2>3. Sound(r.a) /\ (r.inline => r.v \in IMM_MIN..IMM_MAX) BY <1>2, <2>1, ResolveSound
  <2>4. ASSUME r.inline PROVE Sound(EmitWord(r.a, Word("LOG_I", ParseGuard(i), 0, i.o[1][2], r.v)))
    <3>1. r.v \in Int BY ONLY <2>3, <2>4, Ranges
    <3>2. Canonical(Word("LOG_I", ParseGuard(i), 0, i.o[1][2], r.v)) BY <1>1, <2>2, <3>1, Ranges, OtherWords
    <3>3. Plain(Word("LOG_I", ParseGuard(i), 0, i.o[1][2], r.v)) BY <1>1, <3>2, PlainWord
    <3> QED BY <2>3, <3>3, PlainSound
  <2>5. Sound(AsmFails(r.a, "tag")) BY <2>3, FailSound
  <2> QED BY ONLY <1>3, <1>5, <2>4, <2>5
<1>6. CASE /\ ~(i.m = "LOG" /\ Shaped(i, <<"r", "r">>))
           /\ ~(i.m = "LOG_I" /\ Len(i.o) = 2 /\ i.o[1][1] = "r")
  <2>1. EncodeLog(a, i) = AsmFails(a, "operands") BY ONLY <1>3, <1>6
  <2> QED BY <2>1, FailSound
<1> QED BY ONLY <1>4, <1>5, <1>6

\* BROADCAST and SHUFFLE_XOR.
LEMMA LaneSound ==
  ASSUME NEW a, Sound(a), NEW i, i.m \in {"BROADCAST", "SHUFFLE_XOR"}, ParseGuard(i) \in 0..8, Len(i.o) \in Nat,
         \A n \in 1..Len(i.o) : OperandRead(i.o[n])
  PROVE  Sound(EncodeLaneImm(a, i))
<1>1. CASE Shaped(i, <<"r", "r", "imm">>) /\ i.o[3][2] \in 0..LANES - 1
  <2>1. PICK w : w = Word(i.m, ParseGuard(i), i.o[1][2], i.o[2][2], i.o[3][2]) OBVIOUS
  <2>2. EncodeLaneImm(a, i) = EmitWord(a, w) BY <1>1, <2>1 DEF EncodeLaneImm
  <2>3. Len(i.o) = 3 /\ i.o[1][1] = "r" /\ i.o[2][1] = "r" BY ONLY <1>1 DEF Shaped
  <2>4. OperandRead(i.o[1]) /\ OperandRead(i.o[2])
    <3>1. 1 \in 1..Len(i.o) /\ 2 \in 1..Len(i.o) BY ONLY <2>3
    <3> QED BY <3>1
  <2>5. i.o[1][2] \in Regs /\ i.o[2][2] \in Regs BY ONLY <2>3, <2>4 DEF OperandRead
  <2>6. i.o[3][2] \in Int BY ONLY <1>1
  <2>7. i.m \in Mnemonics \ Fixed /\ i.m \notin LiteralLoads BY OtherNames DEF LiteralLoads
  <2>8. Canonical(w) BY <1>1, <2>1, <2>5, <2>6, <2>7, OtherWords
  <2>9. Plain(w) BY <2>1, <2>7, <2>8, PlainWord
  <2> QED BY <2>2, <2>9, PlainSound
<1>2. CASE ~(Shaped(i, <<"r", "r", "imm">>) /\ i.o[3][2] \in 0..LANES - 1)
  <2>1. EncodeLaneImm(a, i) = AsmFails(a, "lane") BY <1>2 DEF EncodeLaneImm
  <2> QED BY <2>1, FailSound
<1> QED BY <1>1, <1>2

\* Noting a load of a literal changes nothing else.
LEMMA NoteSound ==
  ASSUME NEW a, Sound(a), NEW v \in Nat, NEW b, b = [a EXCEPT !.ldw = @ \cup {v}]
  PROVE  Sound(b) /\ v \in b.ldw
<1>1. PICK l : l = a.ldw \cup {v} OBVIOUS
<1>2. b = [code |-> a.code, lits |-> a.lits, consts |-> a.consts, labels |-> a.labels,
           fixups |-> a.fixups, ldw |-> l, scratch |-> a.scratch, err |-> a.err]
  BY <1>1 DEF Sound, IsAsm
<1>3. /\ b.code = a.code /\ b.lits = a.lits /\ b.consts = a.consts /\ b.labels = a.labels
      /\ b.fixups = a.fixups /\ b.ldw = l /\ b.scratch = a.scratch
  BY <1>2
<1>4. IsAsm(b) BY <1>2 DEF IsAsm
<1>5. LoadsNoted(b) /\ FixupsJump(b) BY <1>1, <1>3 DEF Sound, LoadsNoted, FixupsJump
<1> QED BY <1>1, <1>3, <1>4, <1>5 DEF Sound

\* LDW and S_LDW.
LEMMA LoadLiteralSound ==
  ASSUME NEW a, Sound(a), NEW i, i.m \in LiteralLoads, ParseGuard(i) \in 0..8, Len(i.o) \in Nat,
         \A n \in 1..Len(i.o) : OperandRead(i.o[n])
  PROVE  Sound(EncodeLoadLiteral(a, i))
<1> DEFINE taken == Shaped(i, <<IF i.m = "LDW" THEN "r" ELSE "s", "imm">>) /\ i.o[2][2] >= 0
<1>1. CASE taken
  <2>1. PICK w : w = Word(i.m, ParseGuard(i), i.o[1][2], 0, i.o[2][2]) OBVIOUS
  <2>2. PICK b : b = [a EXCEPT !.ldw = @ \cup {i.o[2][2]}] OBVIOUS
  <2>3. EncodeLoadLiteral(a, i) = EmitWord(b, w) BY <1>1, <2>1, <2>2 DEF EncodeLoadLiteral
  <2>4. Len(i.o) = 2 /\ i.o[1][1] = (IF i.m = "LDW" THEN "r" ELSE "s") /\ i.o[2][1] = "imm" BY ONLY <1>1 DEF Shaped
  <2>5. OperandRead(i.o[1]) /\ OperandRead(i.o[2])
    <3>1. 1 \in 1..Len(i.o) /\ 2 \in 1..Len(i.o) BY ONLY <2>4
    <3> QED BY <3>1
  <2>6. i.o[1][2] \in Regs /\ (i.m # "LDW" => i.o[1][2] \in Scalars) /\ i.o[2][2] \in Int
    BY ONLY <2>4, <2>5, Ranges DEF OperandRead
  <2>7. i.o[2][2] \in Nat BY ONLY <1>1, <2>6
  <2>8. Sound(b) /\ i.o[2][2] \in b.ldw BY ONLY Sound(a), <2>2, <2>7, NoteSound
  <2>9. i.m \in Mnemonics \ Fixed /\ i.m \in {"LDW", "S_LDW"} BY OtherNames DEF LiteralLoads
  <2>10. Canonical(w) BY <2>1, <2>6, <2>9, Ranges, OtherWords
  <2>11. HasFields(w, i.m, ParseGuard(i), i.o[1][2], 0, i.o[2][2])
    <3>1. i.m \in Mnemonics BY <2>9
    <3> QED BY <2>1, <2>6, <3>1, Ranges, WordFields
  <2>12. \E x \in b.ldw : w.lo = x % LoMod BY ONLY <2>8, <2>11 DEF HasFields
  <2> QED BY <2>3, <2>8, <2>10, <2>12, EmitSound DEF Readable
<1>2. CASE ~taken
  <2>1. EncodeLoadLiteral(a, i) = AsmFails(a, "operands") BY <1>2 DEF EncodeLoadLiteral
  <2> QED BY <2>1, FailSound
<1> QED BY <1>1, <1>2

\* Scalar instructions with an immediate.
LEMMA ScalarImmSound ==
  ASSUME NEW a, Sound(a), NEW i, i.m \in {"S_MOV_I", "S_ADD_I", "S_CMP_LT_I"}, ParseGuard(i) \in 0..8,
         Len(i.o) \in Nat, \A n \in 1..Len(i.o) : OperandRead(i.o[n])
  PROVE  Sound(EncodeScalarImm(a, i))
<1>1. PICK n : n = Len(i.o) OBVIOUS
<1>2. PICK r : r = ResolveImm(a, i.o[n]) OBVIOUS
<1>3. PICK long : long = IF i.m = "S_ADD_I" THEN "S_ADD" ELSE "S_CMP_LT" OBVIOUS
<1>4. PICK first : first = IF i.m = "S_CMP_LT_I" THEN "p" ELSE "s" OBVIOUS
<1> DEFINE bad == n # (IF i.m = "S_MOV_I" THEN 2 ELSE 3) \/ i.o[1][1] # first
           g == ParseGuard(i)
<1>5. EncodeScalarImm(a, i) =
        IF bad THEN AsmFails(a, "operands")
        ELSE IF i.m = "S_MOV_I"
             THEN EmitWord(r.a, Word(IF r.inline THEN "S_MOV_I" ELSE "S_LDW", g, i.o[1][2], 0, r.v))
        ELSE IF i.o[2][1] # "s" THEN AsmFails(a, "operands")
        ELSE IF r.inline THEN EmitWord(r.a, Word(i.m, g, i.o[1][2], i.o[2][2], r.v))
        ELSE EmitWord(EmitWord(r.a, Word("S_LDW", 0, SCRATCH_SCALAR, 0, r.v)),
                      Word(long, g, i.o[1][2], i.o[2][2], SCRATCH_SCALAR))
  BY <1>1, <1>2, <1>3, <1>4 DEF EncodeScalarImm
<1>6. Sound(AsmFails(a, "operands")) BY FailSound
<1>7. SCRATCH_SCALAR \in Scalars /\ SCRATCH_SCALAR \in Regs /\ SCRATCH_SCALAR < 8
  BY ONLY Ranges DEF SCRATCH_SCALAR, Scalars, Regs
<1>8. g \in 0..8 OBVIOUS
<1> HIDE DEF g
<1>9. CASE bad BY <1>5, <1>6, <1>9
<1>10. CASE ~bad
  <2>1. n = 2 \/ n = 3 BY ONLY <1>10
  <2>2. OperandRead(i.o[1]) /\ OperandRead(i.o[n]) /\ OperandRead(i.o[2])
    <3>1. 1 \in 1..n /\ n \in 1..n /\ 2 \in 1..n BY ONLY <2>1
    <3>2. 1 \in 1..Len(i.o) /\ n \in 1..Len(i.o) /\ 2 \in 1..Len(i.o) BY ONLY <1>1, <3>1
    <3> QED BY <3>2
  <2>3. i.o[1][2] \in (IF i.m = "S_CMP_LT_I" THEN Predicates ELSE Scalars)
    BY ONLY <1>4, <1>10, <2>2 DEF OperandRead
  <2>4. i.o[1][2] \in Regs BY ONLY <2>3, Ranges
  <2>5. /\ Sound(r.a) /\ r.inline \in BOOLEAN
        /\ r.inline => r.v \in IMM_MIN..IMM_MAX
        /\ ~r.inline => r.v \in 0..Len(r.a.lits) - 1
    BY <1>2, <2>2, ResolveSound
  <2>6. r.inline => r.v \in Int BY ONLY <2>5, Ranges
  <2>7. {"S_MOV_I", "S_ADD_I", "S_CMP_LT_I"} \subseteq Mnemonics \ Fixed /\ i.m \notin LiteralLoads
        /\ "S_LDW" \in LiteralLoads
    BY OtherNames DEF LiteralLoads
  <2> HIDE DEF bad
  <2>8. CASE i.m = "S_MOV_I"
    <3>1. ASSUME r.inline PROVE Sound(EmitWord(r.a, Word("S_MOV_I", g, i.o[1][2], 0, r.v)))
      <4>1. r.v \in Int /\ i.o[1][2] \in Scalars BY ONLY <2>3, <2>6, <2>8, <3>1
      <4>2. Canonical(Word("S_MOV_I", g, i.o[1][2], 0, r.v)) BY <1>8, <2>4, <2>7, <4>1, Ranges, OtherWords
      <4>3. Plain(Word("S_MOV_I", g, i.o[1][2], 0, r.v)) BY <2>7, <2>8, <4>2, PlainWord
      <4> QED BY <2>5, <4>3, PlainSound
    <3>2. ASSUME ~r.inline PROVE Sound(EmitWord(r.a, Word("S_LDW", g, i.o[1][2], 0, r.v)))
      <4>1. r.v \in 0..Len(r.a.lits) - 1 /\ i.o[1][2] \in Scalars BY ONLY <2>3, <2>5, <2>8, <3>2
      <4> QED BY ONLY <1>8, <2>4, <2>5, <2>7, <4>1, LoadSound
    <3>3. EncodeScalarImm(a, i) = EmitWord(r.a, Word(IF r.inline THEN "S_MOV_I" ELSE "S_LDW", g, i.o[1][2], 0, r.v))
      BY ONLY <1>5, <1>10, <2>8
    <3> QED BY ONLY <2>5, <3>1, <3>2, <3>3
  <2>9. CASE i.m # "S_MOV_I" /\ i.o[2][1] # "s" BY ONLY <1>5, <1>6, <1>10, <2>9
  <2>10. CASE i.m # "S_MOV_I" /\ i.o[2][1] = "s" /\ r.inline
    <3>1. i.o[2][2] \in Scalars BY ONLY <2>2, <2>10 DEF OperandRead
    <3>2. i.o[2][2] \in Regs /\ r.v \in Int BY ONLY <2>6, <2>10, <3>1, Ranges
    <3>3. Canonical(Word(i.m, g, i.o[1][2], i.o[2][2], r.v))
      <4>1. i.m = "S_ADD_I" \/ i.m = "S_CMP_LT_I" BY <2>10
      <4> QED BY <1>8, <2>3, <2>4, <2>7, <3>1, <3>2, <4>1, OtherWords
    <3>4. Plain(Word(i.m, g, i.o[1][2], i.o[2][2], r.v)) BY <2>7, <3>3, PlainWord
    <3>5. Sound(EmitWord(r.a, Word(i.m, g, i.o[1][2], i.o[2][2], r.v))) BY <2>5, <3>4, PlainSound
    <3> QED BY ONLY <1>5, <1>10, <2>10, <3>5
  <2>11. CASE i.m # "S_MOV_I" /\ i.o[2][1] = "s" /\ ~r.inline
    <3>1. i.o[2][2] \in Scalars BY ONLY <2>2, <2>11 DEF OperandRead
    <3>2. i.o[2][2] \in Regs BY ONLY <3>1, Ranges
    <3>3. Sound(EmitWord(r.a, Word("S_LDW", 0, SCRATCH_SCALAR, 0, r.v)))
      <4>1. r.v \in 0..Len(r.a.lits) - 1 BY ONLY <2>5, <2>11
      <4> QED BY ONLY <1>7, <2>5, <2>7, <4>1, Ranges, LoadSound
    <3>4. long \in Fixed /\ long # "FLIP" /\ Operands(long) = (IF i.m = "S_ADD_I" THEN <<"s", "s", "s">> ELSE <<"p", "s", "s">>)
      BY <1>3 DEF Fixed, OneRegister, TwoRegisters, Operands
    <3>5. PICK f : f = <<i.o[1][2], i.o[2][2], SCRATCH_SCALAR>> OBVIOUS
    <3>6. /\ f[1] = i.o[1][2] /\ f[2] = i.o[2][2] /\ f[3] = SCRATCH_SCALAR /\ <<f[1], f[2], f[3]>> = f
      BY ONLY <3>5
    <3>7. PICK c : c = Operands(long) OBVIOUS
    <3>8. Len(c) = 3 /\ c[1] \in {"s", "p"} /\ (c[1] = "s" => f[1] \in Scalars) /\ (c[1] = "p" => f[1] \in Predicates)
          /\ c[2] = "s" /\ c[3] = "s"
      <4>1. c = (IF i.m = "S_ADD_I" THEN <<"s", "s", "s">> ELSE <<"p", "s", "s">>) BY ONLY <3>4, <3>7
      <4>2. CASE i.m = "S_ADD_I"
        <5>1. i.m # "S_CMP_LT_I" /\ f[1] \in Scalars BY ONLY <2>3, <3>6, <4>2
        <5>2. c = <<"s", "s", "s">> BY ONLY <4>1, <4>2
        <5> QED BY ONLY <5>1, <5>2
      <4>3. CASE i.m # "S_ADD_I"
        <5>1. i.m = "S_CMP_LT_I" BY <2>11, <4>3
        <5>2. f[1] \in Predicates BY ONLY <2>3, <3>6, <5>1
        <5>3. c = <<"p", "s", "s">> BY ONLY <4>1, <4>3
        <5> QED BY ONLY <5>2, <5>3
      <4> QED BY ONLY <4>2, <4>3
    <3>9. InClass(c[1], f[1]) /\ InClass(c[2], f[2]) /\ InClass(c[3], f[3])
      BY ONLY <1>7, <3>1, <3>6, <3>8 DEF InClass, Scalars, Predicates
    <3>10. \A k \in 1..3 : IF k <= Len(c) THEN InClass(c[k], f[k]) ELSE f[k] = 0
      <4>1. \A k \in 1..3 : k = 1 \/ k = 2 \/ k = 3 OBVIOUS
      <4> QED BY ONLY <3>8, <3>9, <4>1
    <3>11. Canonical(Word(long, g, f[1], f[2], f[3]))
      <4>1. \A k \in 1..3 : IF k <= Len(Operands(long)) THEN InClass(Operands(long)[k], <<f[1], f[2], f[3]>>[k])
                            ELSE <<f[1], f[2], f[3]>>[k] = 0
        BY ONLY <3>6, <3>7, <3>10
      <4>2. f[1] \in Regs /\ f[2] \in Regs /\ f[3] \in Regs BY ONLY <1>7, <2>4, <3>2, <3>6
      <4> QED BY ONLY <1>8, <3>4, <4>1, <4>2, FixedWords
    <3>12. long \in Mnemonics /\ long \notin LiteralLoads
      BY <1>3, <3>4 DEF Mnemonics, LiteralLoads
    <3>13. Plain(Word(long, g, i.o[1][2], i.o[2][2], SCRATCH_SCALAR)) BY ONLY <3>6, <3>11, <3>12, PlainWord
    <3>14. Sound(EmitWord(EmitWord(r.a, Word("S_LDW", 0, SCRATCH_SCALAR, 0, r.v)),
                          Word(long, g, i.o[1][2], i.o[2][2], SCRATCH_SCALAR)))
      BY ONLY <3>3, <3>13, PlainSound
    <3> QED BY ONLY <1>5, <1>10, <2>11, <3>14
  <2> QED BY ONLY <2>5, <2>8, <2>9, <2>10, <2>11
<1> QED BY <1>9, <1>10

\* A jump to a label, which is noted with the place it is at.
LEMMA FixupSound ==
  ASSUME NEW a, Sound(a), NEW w, Canonical(w), w.op \in Branches, NEW l, NEW b,
         b = EmitWord([a EXCEPT !.fixups = Append(@, <<Len(a.code) + 1, l>>)], w)
  PROVE  Sound(b)
<1>1. PICK f : f = <<Len(a.code) + 1, l>> OBVIOUS
<1>2. PICK fs : fs = Append(a.fixups, f) OBVIOUS
<1>3. PICK c : c = [a EXCEPT !.fixups = fs] OBVIOUS
<1>4. b = EmitWord(c, w) BY <1>1, <1>2, <1>3
<1>5. c = [code |-> a.code, lits |-> a.lits, consts |-> a.consts, labels |-> a.labels,
           fixups |-> fs, ldw |-> a.ldw, scratch |-> a.scratch, err |-> a.err]
  BY <1>3 DEF Sound, IsAsm
<1>6. /\ IsAsm(c) /\ c.code = a.code /\ c.lits = a.lits /\ c.consts = a.consts /\ c.labels = a.labels
      /\ c.fixups = fs /\ c.ldw = a.ldw /\ c.scratch = a.scratch
  BY <1>5 DEF IsAsm
<1>7. /\ IsAsm(b) /\ b.code = Append(a.code, w) /\ b.lits = a.lits /\ b.consts = a.consts
      /\ b.labels = a.labels /\ b.fixups = fs /\ b.ldw = a.ldw /\ b.scratch = a.scratch
  <2>1. IsAsm(c) BY <1>6
  <2>2. /\ IsAsm(b) /\ b.code = Append(c.code, w) /\ b.lits = c.lits /\ b.consts = c.consts
        /\ b.labels = c.labels /\ b.fixups = c.fixups /\ b.ldw = c.ldw /\ b.scratch = c.scratch
    BY ONLY <1>4, <2>1, Emitted
  <2> QED BY ONLY <1>6, <2>2
<1>8. a.code \in Seq(CodeWord) /\ w \in CodeWord BY DEF Sound, Canonical
<1>9. Len(a.code) \in Nat BY <1>8
<1>10. b.code \in Seq(CodeWord) BY ONLY <1>7, <1>8
<1>11. Len(b.code) = Len(a.code) + 1 BY ONLY <1>7, <1>8
<1>12. \A n \in 1..Len(a.code) : b.code[n] = a.code[n] BY ONLY <1>7, <1>8
<1>13. b.code[Len(a.code) + 1] = w BY ONLY <1>7, <1>8
<1>14. \A n \in 1..Len(b.code) : n \in 1..Len(a.code) \/ n = Len(a.code) + 1 BY <1>9, <1>11
<1>15. \A n \in 1..Len(b.code) : Readable(b.code[n])
  <2>1. \A n \in 1..Len(a.code) : Readable(a.code[n]) BY DEF Sound
  <2> QED BY <1>12, <1>13, <1>14, <2>1 DEF Readable
<1>16. LoadsNoted(b)
  <2>1. LoadsNoted(a) BY DEF Sound
  <2>2. w.op \notin LiteralLoads BY DEF Branches, LiteralLoads
  <2>3. \A n \in 1..Len(b.code) : b.code[n].op \in LiteralLoads => n \in 1..Len(a.code) /\ b.code[n] = a.code[n]
    BY ONLY <1>12, <1>13, <1>14, <2>2
  <2> QED BY ONLY <1>7, <2>1, <2>3 DEF LoadsNoted
<1>17. PICK T : a.fixups \in Seq(T) BY DEF Sound
<1>18. fs \in Seq(T \cup {f}) /\ DOMAIN fs = 1..Len(a.fixups) + 1 /\ fs[Len(a.fixups) + 1] = f
  <2>1. a.fixups \in Seq(T \cup {f}) /\ f \in T \cup {f} BY <1>17
  <2> HIDE DEF Sound
  <2>2. fs \in Seq(T \cup {f}) BY <1>2, <2>1
  <2>3. Len(fs) = Len(a.fixups) + 1 BY <1>2, <2>1
  <2>4. fs[Len(a.fixups) + 1] = f BY <1>2, <2>1
  <2> QED BY <2>2, <2>3, <2>4
<1>19. \A n \in DOMAIN a.fixups : fs[n] = a.fixups[n]
  BY <1>2, <1>17
<1>20. \A n \in DOMAIN fs : n \in DOMAIN a.fixups \/ n = Len(a.fixups) + 1
  <2>1. Len(a.fixups) \in Nat /\ DOMAIN a.fixups = 1..Len(a.fixups) BY <1>17
  <2> QED BY <1>18, <2>1
<1>21. FixupsJump(b)
  <2>1. FixupsJump(a) BY DEF Sound
  <2>2. 1..Len(a.code) \subseteq 1..Len(b.code) /\ Len(a.code) + 1 \in 1..Len(b.code) BY <1>9, <1>11
  <2>3. f[1] = Len(a.code) + 1 BY <1>1
  <2>4. ASSUME NEW n \in DOMAIN fs
        PROVE  /\ fs[n][1] \in 1..Len(b.code)
               /\ b.code[fs[n][1]].op \in Branches
               /\ Canonical(b.code[fs[n][1]])
    <3>1. CASE n \in DOMAIN a.fixups
      <4>1. /\ a.fixups[n][1] \in 1..Len(a.code) /\ a.code[a.fixups[n][1]].op \in Branches
            /\ Canonical(a.code[a.fixups[n][1]])
        BY <2>1, <3>1 DEF FixupsJump
      <4> QED BY <1>12, <1>19, <2>2, <3>1, <4>1
    <3>2. CASE n = Len(a.fixups) + 1
      <4>1. fs[n][1] = Len(a.code) + 1 BY <1>18, <2>3, <3>2
      <4> QED BY <1>13, <2>2, <4>1
    <3> QED BY <1>20, <3>1, <3>2
  <2> QED BY <1>7, <2>4 DEF FixupsJump
<1>22. \E U : b.fixups \in Seq(U) BY <1>7, <1>18
<1> QED BY <1>7, <1>10, <1>15, <1>16, <1>21, <1>22 DEF Sound

\* emit_branch, for a branch with a guard it can have.
LEMMA BranchSound ==
  ASSUME NEW a, Sound(a), NEW op \in Branches, NEW g \in 0..8, op \in {"JMP_IF_ANY", "JMP_IF_ALL"} => g \in 1..4,
         NEW x, OperandRead(x)
  PROVE  Sound(EmitBranch(a, op, g, x))
<1>1. op \in Mnemonics \ Fixed /\ op \in Mnemonics /\ op \notin LiteralLoads BY OtherNames DEF LiteralLoads, Branches
<1>2. ASSUME NEW v \in Int PROVE Canonical(Word(op, g, 0, 0, v)) BY <1>1, Ranges, OtherWords
<1>3. CASE x[1] = "imm" /\ x[2] >= 0
  <2>1. EmitBranch(a, op, g, x) = EmitWord(a, Word(op, g, 0, 0, x[2])) BY <1>3 DEF EmitBranch
  <2>2. x[2] \in Int BY <1>3 DEF OperandRead
  <2>3. Plain(Word(op, g, 0, 0, x[2])) BY <1>1, <1>2, <2>2, PlainWord
  <2> QED BY <2>1, <2>3, PlainSound
<1>4. CASE x[1] = "label"
  <2>1. PICK w : w = Word(op, g, 0, 0, 0) OBVIOUS
  <2>2. PICK l : l = x[2] OBVIOUS
  <2>3. PICK b : b = EmitBranch(a, op, g, x) OBVIOUS
  <2>4. b = EmitWord([a EXCEPT !.fixups = Append(@, <<Len(a.code) + 1, l>>)], w)
    BY ONLY <1>4, <2>1, <2>2, <2>3 DEF EmitBranch
  <2>5. Canonical(w) /\ w.op \in Branches
    <3>1. w.op = op BY <2>1 DEF Word
    <3> QED BY <1>2, <2>1, <3>1
  <2>6. Sound(b) BY ONLY Sound(a), <2>4, <2>5, FixupSound
  <2> QED BY <2>3, <2>6
<1>5. CASE ~(x[1] = "imm" /\ x[2] >= 0) /\ x[1] # "label"
  <2>1. EmitBranch(a, op, g, x) = AsmFails(a, "target") BY <1>5 DEF EmitBranch
  <2> QED BY <2>1, FailSound
<1> QED BY <1>3, <1>4, <1>5

\* instr, for each mnemonic.
LEMMA InstrSound ==
  ASSUME NEW a, Sound(a), NEW i, i.p \in Predicates \cup {NoGuard}, i.inv \in BOOLEAN, Len(i.o) \in Nat,
         \A n \in 1..Len(i.o) : OperandRead(i.o[n])
  PROVE  Sound(Instr(a, i))
<1>1. ParseGuard(i) \in 0..8 BY GuardRead
<1>2. i.p = NoGuard => ParseGuard(i) = 0 BY DEF ParseGuard
<1>3. CASE i.m \in Bare
  <2>1. i.m \in Mnemonics \ Fixed /\ i.m \notin LiteralLoads BY <1>3, OtherNames DEF Bare, LiteralLoads
  <2>2. Canonical(Word(i.m, ParseGuard(i), 0, 0, 0))
    <3>1. 0 \in Int /\ 0 \in Regs BY ONLY Ranges
    <3> QED BY ONLY <1>1, <1>3, <2>1, <3>1, OtherWords
  <2>3. Plain(Word(i.m, ParseGuard(i), 0, 0, 0)) BY <2>1, <2>2, PlainWord
  <2>4. Instr(a, i) = EmitWord(a, Word(i.m, ParseGuard(i), 0, 0, 0)) BY ONLY <1>3, EncoderOf
  <2> QED BY <2>3, <2>4, PlainSound
<1>4. CASE i.m \in {"MOV", "MOV_I"}
  <2>1. Instr(a, i) = EncodeMov(a, i) BY ONLY <1>4, EncoderOf
  <2> QED BY <1>1, <2>1, MovSound
<1>5. CASE i.m \in AluNames \cup AluImmNames
  <2>1. Instr(a, i) = EncodeBin3(a, i, "r", Bin3(i.m), WithImmediate[Bin3(i.m)]) BY ONLY <1>5, EncoderOf
  <2>2. PICK op \in AluNames : Bin3(i.m) = op /\ WithImmediate[op] \in AluImmNames
    <3>1. CASE i.m \in AluNames BY ONLY <3>1, AluForms
    <3>2. CASE i.m \in AluImmNames
      <4>1. PICK n \in AluNames : WithImmediate[n] = i.m BY ONLY <3>2, AluForms
      <4> QED BY ONLY <4>1, AluForms
    <3> QED BY ONLY <1>5, <3>1, <3>2
  <2>3. PICK opi : opi = WithImmediate[op] OBVIOUS
  <2>4. op \in Mnemonics \ Fixed /\ op \notin LiteralLoads BY <2>2, OtherNames DEF AluNames, LiteralLoads
  <2>5. Sound(EncodeBin3(a, i, "r", op, opi)) BY <1>1, <2>2, <2>3, <2>4, Bin3Sound
  <2> QED BY ONLY <2>1, <2>2, <2>3, <2>5
<1>6. CASE i.m \in RegisterOnly
  <2>1. Instr(a, i) = EncodeBin3(a, i, "r", i.m, "") BY ONLY <1>6, EncoderOf
  <2>2. i.m \in Mnemonics \ Fixed /\ i.m \notin LiteralLoads BY <1>6, OtherNames DEF RegisterOnly, LiteralLoads
  <2>3. Sound(EncodeBin3(a, i, "r", i.m, "")) BY <1>1, <1>6, <2>2, Bin3Sound
  <2> QED BY <2>1, <2>3
<1>7. CASE i.m \in CompareNames
  <2>1. PICK opi : opi = Compares[i.m] OBVIOUS
  <2>2. Instr(a, i) = EncodeBin3(a, i, "p", i.m, opi) BY ONLY <1>7, <2>1, EncoderOf
  <2>3. opi \in CompareImmNames BY ONLY <1>7, <2>1, CompareForms
  <2>4. i.m \in Mnemonics \ Fixed /\ i.m \notin LiteralLoads BY <1>7, OtherNames DEF CompareNames, LiteralLoads
  <2>5. Sound(EncodeBin3(a, i, "p", i.m, opi)) BY <1>1, <1>7, <2>3, <2>4, Bin3Sound
  <2> QED BY <2>2, <2>5
<1>8. CASE i.m \in Fixed
  <2>1. Instr(a, i) = EncodeFixed(a, i) BY ONLY <1>8, EncoderOf
  <2> QED BY <1>1, <1>2, <1>8, <2>1, FixedSound
<1>9. CASE i.m \in {"LOG", "LOG_I"}
  <2>1. Instr(a, i) = EncodeLog(a, i) BY ONLY <1>9, EncoderOf
  <2> QED BY <1>1, <1>9, <2>1, LogSound
<1>10. CASE i.m \in {"BROADCAST", "SHUFFLE_XOR"}
  <2>1. Instr(a, i) = EncodeLaneImm(a, i) BY ONLY <1>10, EncoderOf
  <2> QED BY <1>1, <1>10, <2>1, LaneSound
<1>11. CASE i.m \in LiteralLoads
  <2>1. Instr(a, i) = EncodeLoadLiteral(a, i) BY ONLY <1>11, EncoderOf
  <2> QED BY <1>1, <1>11, <2>1, LoadLiteralSound
<1>12. CASE i.m \in {"S_MOV_I", "S_ADD_I", "S_CMP_LT_I"}
  <2>1. Instr(a, i) = EncodeScalarImm(a, i) BY ONLY <1>12, EncoderOf
  <2> QED BY <1>1, <1>12, <2>1, ScalarImmSound
<1>13. CASE i.m \in {"JMP", "CALL"} /\ Len(i.o) = 1
  <2>1. Instr(a, i) = EmitBranch(a, i.m, ParseGuard(i), i.o[1]) BY ONLY <1>13, EncoderOf
  <2>2. i.m \in Branches /\ i.m \notin {"JMP_IF_ANY", "JMP_IF_ALL"} BY <1>13 DEF Branches
  <2>3. OperandRead(i.o[1])
    <3>1. 1 \in 1..Len(i.o) BY ONLY <1>13
    <3> QED BY <3>1
  <2>4. Sound(EmitBranch(a, i.m, ParseGuard(i), i.o[1])) BY ONLY Sound(a), <1>1, <2>2, <2>3, BranchSound
  <2> QED BY <2>1, <2>4
<1>14. CASE i.m \in {"JMP_IF_ANY", "JMP_IF_ALL"}
  <2>1. Instr(a, i) = EncodeJmpIf(a, i) BY ONLY <1>14, EncoderOf
  <2>2. CASE ~(i.p = NoGuard /\ Len(i.o) = 2 /\ i.o[1][1] = "p")
    <3>1. EncodeJmpIf(a, i) = AsmFails(a, "JMP_IF") BY <2>2 DEF EncodeJmpIf
    <3> QED BY <2>1, <3>1, FailSound
  <2>3. CASE i.p = NoGuard /\ Len(i.o) = 2 /\ i.o[1][1] = "p"
    <3>1. EncodeJmpIf(a, i) = EmitBranch(a, i.m, 1 + i.o[1][2], i.o[2]) BY <2>3 DEF EncodeJmpIf
    <3>2. OperandRead(i.o[1]) /\ OperandRead(i.o[2])
      <4>1. 1 \in 1..Len(i.o) /\ 2 \in 1..Len(i.o) BY ONLY <2>3
      <4> QED BY <4>1
    <3>3. i.o[1][2] \in Predicates BY ONLY <2>3, <3>2 DEF OperandRead
    <3>4. 1 + i.o[1][2] \in 1..4 /\ 1 + i.o[1][2] \in 0..8 BY ONLY <3>3 DEF Predicates
    <3>5. i.m \in Branches BY <1>14 DEF Branches
    <3>6. Sound(EmitBranch(a, i.m, 1 + i.o[1][2], i.o[2])) BY ONLY Sound(a), <3>2, <3>4, <3>5, BranchSound
    <3> QED BY <2>1, <3>1, <3>6
  <2> QED BY <2>2, <2>3
<1>15. CASE \/ i.m \notin Mnemonics \/ i.m \in CompareImmNames
            \/ i.m \in {"JMP", "CALL"} /\ Len(i.o) # 1
  <2>1. Instr(a, i) = AsmFails(a, "mnemonic") BY ONLY <1>15, EncoderOf
  <2> QED BY <2>1, FailSound
<1>16. \/ i.m \notin Mnemonics \cup CompareImmNames
       \/ i.m \in Bare \cup AluNames \cup AluImmNames \cup RegisterOnly \cup CompareNames \cup CompareImmNames
                   \cup Fixed \cup LiteralLoads
       \/ i.m \in {"MOV", "MOV_I"} \cup {"LOG", "LOG_I"} \cup {"BROADCAST", "SHUFFLE_XOR"}
                   \cup {"S_MOV_I", "S_ADD_I", "S_CMP_LT_I"} \cup {"JMP", "CALL"} \cup {"JMP_IF_ANY", "JMP_IF_ALL"}
  BY DEF Mnemonics, Branches
<1> QED BY ONLY <1>3, <1>4, <1>5, <1>6, <1>7, <1>8, <1>9, <1>10, <1>11, <1>12, <1>13, <1>14, <1>15, <1>16

\* The directives and labels.
LEMMA EncodeSound ==
  ASSUME NEW a, Sound(a), NEW st, StatementRead(st)
  PROVE  Sound(Encode(a, st))
<1>1. CASE st.k = "ins"
  <2>1. Encode(a, st) = Instr(a, st) BY <1>1 DEF Encode
  <2>2. /\ st.p \in Predicates \cup {NoGuard} /\ st.inv \in BOOLEAN /\ Len(st.o) \in Nat
        /\ \A n \in 1..Len(st.o) : OperandRead(st.o[n])
    BY <1>1 DEF StatementRead
  <2> QED BY <2>1, <2>2, InstrSound
<1>2. CASE st.k = "label"
  <2>1. CASE st.o \in DOMAIN a.labels
    <3>1. Encode(a, st) = AsmFails(a, "duplicate label") BY <1>2, <2>1 DEF Encode
    <3> QED BY <3>1, FailSound
  <2>2. CASE st.o \notin DOMAIN a.labels
    <3>1. PICK ls : ls = Insert(a.labels, st.o, Len(a.code)) OBVIOUS
    <3>2. PICK b : b = Encode(a, st) OBVIOUS
    <3>3. b = [a EXCEPT !.labels = ls] BY <1>2, <2>2, <3>1, <3>2 DEF Encode
    <3>4. b = [code |-> a.code, lits |-> a.lits, consts |-> a.consts, labels |-> ls,
               fixups |-> a.fixups, ldw |-> a.ldw, scratch |-> a.scratch, err |-> a.err]
      BY <3>3 DEF Sound, IsAsm
    <3>5. /\ b.code = a.code /\ b.lits = a.lits /\ b.consts = a.consts /\ b.labels = ls
          /\ b.fixups = a.fixups /\ b.ldw = a.ldw /\ b.scratch = a.scratch
      BY <3>4
    <3>6. IsAsm(b) BY <3>4 DEF IsAsm
    <3>7. \A x \in DOMAIN ls : ls[x] \in Nat
      <4>1. a.code \in Seq(CodeWord) /\ \A x \in DOMAIN a.labels : a.labels[x] \in Nat BY DEF Sound
      <4>2. Len(a.code) \in Nat BY <4>1
      <4> QED BY ONLY <3>1, <4>1, <4>2 DEF Insert
    <3>8. LoadsNoted(b) /\ FixupsJump(b) BY <3>5 DEF Sound, LoadsNoted, FixupsJump
    <3>9. Sound(b) BY <3>5, <3>6, <3>7, <3>8 DEF Sound
    <3> QED BY <3>2, <3>9
  <2> QED BY <2>1, <2>2
<1>3. CASE st.k = "const"
  <2>1. Encode(a, st) = Directive(a, st) BY <1>3 DEF Encode
  <2>2. CASE st.o \notin Literal
    <3>1. Directive(a, st) = AsmFails(a, "constant out of range") BY <1>3, <2>2 DEF Directive, Literal
    <3>2. Sound(AsmFails(a, "constant out of range")) BY ONLY Sound(a), FailSound
    <3> QED BY ONLY <2>1, <3>1, <3>2
  <2>3. CASE st.o \in Literal /\ st.m \in DOMAIN a.consts
    <3>1. Directive(a, st) = AsmFails(a, "duplicate constant") BY <1>3, <2>3 DEF Directive, Literal
    <3>2. Sound(AsmFails(a, "duplicate constant")) BY ONLY Sound(a), FailSound
    <3> QED BY ONLY <2>1, <3>1, <3>2
  <2>4. CASE st.o \in Literal /\ st.m \notin DOMAIN a.consts
    <3>1. PICK cs : cs = Insert(a.consts, st.m, st.o) OBVIOUS
    <3>2. PICK b : b = [a EXCEPT !.consts = cs] OBVIOUS
    <3>3. Directive(a, st) = Intern(b, st.o) BY <1>3, <2>4, <3>1, <3>2 DEF Directive, Literal
    <3>4. b = [code |-> a.code, lits |-> a.lits, consts |-> cs, labels |-> a.labels,
               fixups |-> a.fixups, ldw |-> a.ldw, scratch |-> a.scratch, err |-> a.err]
      BY <3>2 DEF Sound, IsAsm
    <3>5. /\ b.code = a.code /\ b.lits = a.lits /\ b.consts = cs /\ b.labels = a.labels
          /\ b.fixups = a.fixups /\ b.ldw = a.ldw /\ b.scratch = a.scratch
      BY <3>4
    <3>6. IsAsm(b) BY <3>4 DEF IsAsm
    <3>7. st.o \in Literal BY <2>4
    <3>8. \A x \in DOMAIN cs : cs[x] \in Int
      <4>1. \A x \in DOMAIN a.consts : a.consts[x] \in Int BY DEF Sound
      <4>2. st.o \in Int BY ONLY <3>7 DEF Literal
      <4> QED BY ONLY <3>1, <4>1, <4>2 DEF Insert
    <3>9. LoadsNoted(b) /\ FixupsJump(b) BY <3>5 DEF Sound, LoadsNoted, FixupsJump
    <3>10. Sound(b) BY <3>5, <3>6, <3>8, <3>9 DEF Sound
    <3> QED BY <2>1, <3>3, <3>7, <3>10, InternSound
  <2> QED BY <2>2, <2>3, <2>4
<1>4. CASE st.k = "scratch"
  <2>1. PICK b : b = Encode(a, st) OBVIOUS
  <2>2. Encode(a, st) = Directive(a, st) BY <1>4 DEF Encode
  <2>3. Directive(a, st) = [a EXCEPT !.scratch = st.o] BY <1>4 DEF Directive
  <2>4. b = [code |-> a.code, lits |-> a.lits, consts |-> a.consts, labels |-> a.labels,
             fixups |-> a.fixups, ldw |-> a.ldw, scratch |-> st.o, err |-> a.err]
    BY <2>1, <2>2, <2>3 DEF Sound, IsAsm
  <2>5. /\ b.code = a.code /\ b.lits = a.lits /\ b.consts = a.consts /\ b.labels = a.labels
        /\ b.fixups = a.fixups /\ b.ldw = a.ldw /\ b.scratch = st.o
    BY <2>4
  <2>6. IsAsm(b) BY <2>4 DEF IsAsm
  <2>7. st.o \in Regs BY <1>4 DEF StatementRead
  <2>8. LoadsNoted(b) /\ FixupsJump(b) BY <2>5 DEF Sound, LoadsNoted, FixupsJump
  <2>9. Sound(b) BY <2>5, <2>6, <2>7, <2>8 DEF Sound
  <2> QED BY <2>1, <2>9
<1>5. CASE st.k = "word"
  <2>1. Encode(a, st) = Directive(a, st) BY <1>5 DEF Encode
  <2>2. Directive(a, st) = EmitWord(a, st.o) BY <1>5 DEF Directive
  <2>3. Plain(st.o) BY <1>5 DEF StatementRead, Plain
  <2> QED BY <2>1, <2>2, <2>3, PlainSound
<1> QED BY <1>1, <1>2, <1>3, <1>4, <1>5 DEF StatementRead

\* A new assembler is sound.
LEMMA NewAsmSound == Sound(NewAsm)
<1>1. PICK a : a = NewAsm OBVIOUS
<1>2. PICK cs : cs = PlatformConstants OBVIOUS
<1>3. a = [code |-> <<>>, lits |-> <<>>, consts |-> cs, labels |-> <<>>, fixups |-> <<>>, ldw |-> {},
           scratch |-> DEFAULT_SCRATCH, err |-> ""]
  BY <1>1, <1>2 DEF NewAsm
<1>4. /\ a.code = <<>> /\ a.lits = <<>> /\ a.consts = cs /\ a.labels = <<>> /\ a.fixups = <<>> /\ a.ldw = {}
      /\ a.scratch = DEFAULT_SCRATCH
  BY <1>3
<1>5. IsAsm(a) BY <1>3 DEF IsAsm
<1>6. \A x \in DOMAIN cs : cs[x] \in Int
  <2>1. RAM_SIZE_WORDS \in Int /\ VIDEO_BASE \in Int /\ VIDEO_WIDTH \in Int /\ VIDEO_WIDTH * VIDEO_WIDTH \in Int
    BY SizesAssumption
  <2>2. ASSUME NEW x \in {"RAM_SIZE_WORDS", "VIDEO_BASE", "VIDEO_WIDTH", "VIDEO_HEIGHT", "VIDEO_WORDS"},
               NEW n, n = Name(x), n \in DOMAIN cs
        PROVE  cs[n] \in Int
    <3>1. n[1] = x BY <2>2 DEF Name
    <3>2. cs[n] = CASE n[1] = "RAM_SIZE_WORDS" -> RAM_SIZE_WORDS
                    [] n[1] = "VIDEO_BASE" -> VIDEO_BASE
                    [] n[1] \in {"VIDEO_WIDTH", "VIDEO_HEIGHT"} -> VIDEO_WIDTH
                    [] n[1] = "VIDEO_WORDS" -> VIDEO_WIDTH * VIDEO_WIDTH
      BY <1>2, <2>2 DEF PlatformConstants
    <3>3. CASE x = "RAM_SIZE_WORDS" BY ONLY <2>1, <3>1, <3>2, <3>3
    <3>4. CASE x = "VIDEO_BASE" BY ONLY <2>1, <3>1, <3>2, <3>4
    <3>5. CASE x \in {"VIDEO_WIDTH", "VIDEO_HEIGHT"} BY ONLY <2>1, <3>1, <3>2, <3>5
    <3>6. CASE x = "VIDEO_WORDS"
      <4>1. n[1] = "VIDEO_WORDS" BY ONLY <3>1, <3>6
      <4>2. cs[n] = VIDEO_WIDTH * VIDEO_WIDTH BY ONLY <3>2, <4>1
      <4> QED BY ONLY <2>1, <4>2
    <3>7. x = "RAM_SIZE_WORDS" \/ x = "VIDEO_BASE" \/ x \in {"VIDEO_WIDTH", "VIDEO_HEIGHT"} \/ x = "VIDEO_WORDS"
      BY ONLY x \in {"RAM_SIZE_WORDS", "VIDEO_BASE", "VIDEO_WIDTH", "VIDEO_HEIGHT", "VIDEO_WORDS"}
    <3> QED BY ONLY <3>3, <3>4, <3>5, <3>6, <3>7
  <2>3. DOMAIN cs = {Name(x) : x \in {"RAM_SIZE_WORDS", "VIDEO_BASE", "VIDEO_WIDTH", "VIDEO_HEIGHT", "VIDEO_WORDS"}}
    BY <1>2 DEF PlatformConstants
  <2> QED BY ONLY <2>2, <2>3
<1>7. DEFAULT_SCRATCH \in Regs BY DEF DEFAULT_SCRATCH, Regs
<1>8. LoadsNoted(a) /\ FixupsJump(a) BY <1>4 DEF LoadsNoted, FixupsJump
<1>9. <<>> \in Seq(CodeWord) /\ <<>> \in Seq(Literal) /\ Len(<<>>) = 0 /\ 0 <= MAX_LITERALS
  BY EncodingAssumption
<1>10. Sound(a) BY <1>4, <1>5, <1>6, <1>7, <1>8, <1>9 DEF Sound
<1> QED BY <1>1, <1>10

\* resolve_fixups writes a target into a jump only.
LEMMA Retargeted ==
  ASSUME NEW w, Canonical(w), w.op \in Branches, NEW v \in LoField, NEW x, x = [w EXCEPT !.lo = v]
  PROVE  Canonical(x) /\ x \in CodeWord /\ x.op = w.op
<1>1. w \in CodeWord /\ w.rd = 0 /\ w.rs1 = 0 /\ w.guard \in 0..8 /\ w.op \in Mnemonics
      /\ (w.op \in {"JMP_IF_ANY", "JMP_IF_ALL"} => w.guard \in 1..4)
  BY DEF Canonical
<1>2. x = [op |-> w.op, guard |-> w.guard, rd |-> 0, rs1 |-> 0, lo |-> v] BY <1>1 DEF CodeWord
<1>3. v % LoMod = v /\ v \in Int BY LoSmall DEF LoField
<1>4. x = Word(w.op, w.guard, 0, 0, v) BY <1>2, <1>3 DEF Word
<1>5. w.op \in Mnemonics \ Fixed BY OtherNames
<1>6. Canonical(Word(w.op, w.guard, 0, 0, v)) BY ONLY <1>1, <1>3, <1>5, w.op \in Branches, Ranges, OtherWords
<1>7. Canonical(x) BY ONLY <1>4, <1>6
<1>8. x \in CodeWord BY <1>7 DEF Canonical
<1>9. x.op = w.op BY <1>2
<1> QED BY <1>7, <1>8, <1>9

\* The code after resolve_fixups is readable, and its other words are kept.
LEMMA FixupsResolved ==
  ASSUME NEW a, Sound(a), NEW r, r = ResolveFixups(a), r.err = ""
  PROVE  /\ r.code \in Seq(CodeWord) /\ Len(r.code) = Len(a.code) /\ r.lits = a.lits /\ r.ldw = a.ldw
         /\ \A n \in 1..Len(a.code) : Readable(r.code[n]) /\ (r.code[n].op \in LiteralLoads => r.code[n] = a.code[n])
<1> DEFINE undefined == \E i \in DOMAIN a.fixups : a.fixups[i][2] \notin DOMAIN a.labels
           label(f) == (CHOOSE x \in Range(a.fixups) : x[1] = f)[2]
           F == {a.fixups[i][1] : i \in DOMAIN a.fixups}
           targets == [f \in F |-> a.labels[label(f)]]
           code == [n \in DOMAIN a.code |-> IF n \in DOMAIN targets
                                            THEN [a.code[n] EXCEPT !.lo = targets[n] % LoMod] ELSE a.code[n]]
<1>1. r = IF undefined THEN AsmFails(a, "undefined label") ELSE [a EXCEPT !.code = code]
  BY DEF ResolveFixups
<1>2. ~undefined
  <2> SUFFICES ASSUME undefined PROVE FALSE
    OBVIOUS
  <2>1. r = AsmFails(a, "undefined label") BY <1>1
  <2>2. AsmFails(a, "undefined label").err = "undefined label" BY FailSound
  <2> QED BY <2>1, <2>2
<1>3. \A f \in F : targets[f] \in Nat
  <2> SUFFICES ASSUME NEW f \in F PROVE targets[f] \in Nat
    OBVIOUS
  <2>1. \E x \in Range(a.fixups) : x[1] = f BY DEF Range
  <2>2. PICK x \in Range(a.fixups) : label(f) = x[2] BY <2>1
  <2>3. x[2] \in DOMAIN a.labels BY <1>2, <2>2 DEF Range
  <2>4. a.labels[x[2]] \in Nat BY <2>3 DEF Sound
  <2> QED BY <2>2, <2>4
<1>4. DOMAIN targets = F OBVIOUS
<1>5. \A f \in F : a.code[f].op \in Branches /\ Canonical(a.code[f]) BY DEF Sound, FixupsJump
<1>6. a.code \in Seq(CodeWord) /\ \A n \in 1..Len(a.code) : Readable(a.code[n]) BY DEF Sound
<1>7. DOMAIN a.code = 1..Len(a.code) /\ Len(a.code) \in Nat BY ONLY <1>6
<1> HIDE DEF targets, F, undefined
<1>8. ASSUME NEW n \in 1..Len(a.code)
      PROVE  /\ code[n] \in CodeWord /\ Readable(code[n]) /\ code[n].op = a.code[n].op
             /\ n \notin F => code[n] = a.code[n]
  <2>1. CASE n \in F
    <3>1. code[n] = [a.code[n] EXCEPT !.lo = targets[n] % LoMod] BY <1>4, <1>7, <2>1
    <3>2. targets[n] % LoMod \in LoField
      <4>1. PICK v : v = targets[n] OBVIOUS
      <4>2. v \in Nat BY ONLY <1>3, <2>1, <4>1
      <4>3. v % LoMod \in LoField BY ONLY <4>2, LoRange
      <4> QED BY ONLY <4>1, <4>3
    <3>3. Canonical(code[n]) /\ code[n] \in CodeWord /\ code[n].op = a.code[n].op
      <4>1. PICK w : w = a.code[n] OBVIOUS
      <4>2. PICK v : v = targets[n] % LoMod OBVIOUS
      <4>3. PICK x : x = code[n] OBVIOUS
      <4>4. Canonical(w) /\ w.op \in Branches BY <1>5, <2>1, <4>1
      <4>5. x = [w EXCEPT !.lo = v] /\ v \in LoField BY ONLY <3>1, <3>2, <4>1, <4>2, <4>3
      <4>6. Canonical(x) /\ x \in CodeWord /\ x.op = w.op BY ONLY <4>4, <4>5, Retargeted
      <4> QED BY ONLY <4>1, <4>3, <4>6
    <3> QED BY ONLY <2>1, <3>3 DEF Readable
  <2>2. CASE n \notin F
    <3>1. code[n] = a.code[n] BY <1>4, <1>7, <2>2
    <3>2. a.code[n] \in CodeWord /\ Readable(a.code[n]) BY ONLY <1>6, n \in 1..Len(a.code)
    <3> QED BY ONLY <2>2, <3>1, <3>2
  <2> QED BY <2>1, <2>2
<1>9. code \in Seq(CodeWord) /\ Len(code) = Len(a.code)
  <2>1. code = [n \in 1..Len(a.code) |-> code[n]] BY <1>7
  <2>2. \A n \in 1..Len(a.code) : code[n] \in CodeWord BY <1>8
  <2> HIDE DEF code
  <2> QED BY ONLY <1>7, <2>1, <2>2
<1>10. ASSUME NEW n \in 1..Len(a.code), code[n].op \in LiteralLoads PROVE code[n] = a.code[n]
  <2>1. n \notin F
    <3>1. Branches \cap LiteralLoads = {} BY DEF Branches, LiteralLoads
    <3>2. code[n].op = a.code[n].op BY <1>8
    <3> QED BY <1>5, <1>10, <3>1, <3>2
  <2> QED BY <1>8, <2>1
<1> HIDE DEF code
<1>11. r = [code |-> code, lits |-> a.lits, consts |-> a.consts, labels |-> a.labels,
            fixups |-> a.fixups, ldw |-> a.ldw, scratch |-> a.scratch, err |-> a.err]
  BY <1>1, <1>2 DEF Sound, IsAsm
<1>12. r.code = code /\ r.lits = a.lits /\ r.ldw = a.ldw BY ONLY <1>11
<1> QED BY <1>8, <1>9, <1>10, <1>12

(* A program the assembler accepts: within the limits of an image, of      *)
(* words that are written, and every literal it loads is one it has.       *)
Assembled(code, lits) ==
    /\ code \in Seq(CodeWord) /\ Len(code) \in 1..MAX_CODE_WORDS
    /\ lits \in Seq(Literal) /\ Len(lits) <= MAX_LITERALS
    /\ \A m, n \in 1..Len(lits) : lits[m] = lits[n] => m = n
    /\ \A n \in 1..Len(code) : Readable(code[n])
    /\ \A n \in 1..Len(code) : code[n].op \in LiteralLoads => code[n].lo < Len(lits)

\* The assembler stays sound over a whole program.
LEMMA PassSound ==
  ASSUME NEW stmts, Len(stmts) \in Nat, \A n \in 1..Len(stmts) : StatementRead(stmts[n]), NEW s, Passage(s, stmts)
  PROVE  Sound(s[Len(stmts)])
<1> DEFINE T == {n \in Nat : Sound(s[n])}
           N == Len(stmts)
<1>1. 0 \in T BY NewAsmSound DEF Passage
<1>2. ASSUME NEW n \in 1..N, n - 1 \in T PROVE n \in T
  <2>1. s[n] = IF s[n - 1].err # "" THEN s[n - 1] ELSE Encode(s[n - 1], stmts[n]) BY DEF Passage
  <2>2. Sound(s[n - 1]) /\ StatementRead(stmts[n]) BY <1>2
  <2>3. Sound(Encode(s[n - 1], stmts[n])) BY ONLY <2>2, EncodeSound
  <2>4. Sound(s[n]) BY ONLY <2>1, <2>2, <2>3
  <2> QED BY <2>4
<1> HIDE DEF T
<1>3. \A n \in 0..N : n \in T
  <2>1. \A n \in 1..N : n - 1 \in T => n \in T BY <1>2
  <2> QED BY ONLY <1>1, <2>1, N \in Nat, Induction
<1>4. N \in 0..N OBVIOUS
<1> QED BY <1>3, <1>4 DEF T

\* assemble, for every program of statements that the parser can make: what
\* it accepts fits an image, is made of the listing's data and of whole
\* instructions, and loads no literal that the image does not have
\* (assemble.rs finish, resolve_imm, resolve_fixups; isa.rs decode).
THEOREM ProgramsAssembled ==
  ASSUME NEW stmts, Len(stmts) \in Nat, \A n \in 1..Len(stmts) : StatementRead(stmts[n]),
         NEW r, r = Assemble(stmts), r.err = ""
  PROVE  Assembled(r.code, r.lits) /\ r = [err |-> "", code |-> r.code, lits |-> r.lits]
<1>1. PICK a : a = Pass(stmts) OBVIOUS
<1>2. Sound(a)
  <2>1. PICK s : Passage(s, stmts) BY ONLY Len(stmts) \in Nat, PassageExists
  <2>2. a = s[Len(stmts)] BY ONLY Len(stmts) \in Nat, <1>1, <2>1, PassIsPassage
  <2> QED BY <2>1, <2>2, PassSound
<1>3. PICK b : b = IF a.err # "" THEN a ELSE ResolveFixups(a) OBVIOUS
<1> DEFINE err == IF b.err # "" THEN b.err
                  ELSE IF \E n \in b.ldw : n >= Len(b.lits) THEN "literal index out of range"
                  ELSE IF Len(b.code) > MAX_CODE_WORDS THEN "program too long"
                  ELSE IF b.code = <<>> THEN "empty program" ELSE ""
<1>4. r = [err |-> err, code |-> b.code, lits |-> b.lits] BY ONLY <1>1, <1>3, r = Assemble(stmts) DEF Assemble, Assembly
<1> HIDE DEF err
<1>5. r.err = err /\ r.code = b.code /\ r.lits = b.lits BY ONLY <1>4
<1>6. err = "" BY <1>5
<1>7. b.err = "" /\ ~(\E n \in b.ldw : n >= Len(b.lits)) /\ ~(Len(b.code) > MAX_CODE_WORDS) /\ b.code # <<>>
  BY ONLY <1>6 DEF err
<1>8. b = ResolveFixups(a) BY ONLY <1>3, <1>7
<1>9. /\ b.code \in Seq(CodeWord) /\ Len(b.code) = Len(a.code) /\ b.lits = a.lits /\ b.ldw = a.ldw
      /\ \A n \in 1..Len(a.code) : Readable(b.code[n]) /\ (b.code[n].op \in LiteralLoads => b.code[n] = a.code[n])
  BY ONLY <1>2, <1>7, <1>8, FixupsResolved
<1>10. Len(b.code) \in 1..MAX_CODE_WORDS
  <2>1. Len(b.code) \in Nat /\ (Len(b.code) = 0 => b.code = <<>>) BY ONLY <1>9, EmptySeq
  <2>2. MAX_CODE_WORDS \in Nat BY ONLY EncodingAssumption
  <2>3. PICK k : k = Len(b.code) OBVIOUS
  <2>4. k \in Nat /\ k # 0 /\ ~(k > MAX_CODE_WORDS) BY ONLY <1>7, <2>1, <2>3
  <2>5. k \in 1..MAX_CODE_WORDS BY ONLY <2>2, <2>4
  <2> QED BY ONLY <2>3, <2>5
<1>11. /\ b.lits \in Seq(Literal) /\ Len(b.lits) <= MAX_LITERALS /\ a.ldw \subseteq Nat /\ LoadsNoted(a)
       /\ \A m, n \in 1..Len(b.lits) : b.lits[m] = b.lits[n] => m = n
  BY <1>2, <1>9 DEF Sound
<1>12. ASSUME NEW n \in 1..Len(a.code), b.code[n].op \in LiteralLoads PROVE b.code[n].lo < Len(b.lits)
  <2>1. b.code[n] = a.code[n] BY <1>9, <1>12
  <2>2. CASE a.code[n].lo < Len(a.lits) BY <1>9, <2>1, <2>2
  <2>3. CASE \E x \in a.ldw : a.code[n].lo = x % LoMod
    <3>1. PICK x \in a.ldw : a.code[n].lo = x % LoMod BY <2>3
    <3>2. x \in Nat /\ ~(x >= Len(b.lits)) BY <1>7, <1>9, <1>11
    <3>3. Len(b.lits) \in Nat /\ MAX_LITERALS \in Int /\ MAX_LITERALS <= IMM_MAX BY ONLY <1>11, EncodingAssumption
    <3>4. x < Len(b.lits) BY ONLY <3>2, <3>3
    <3>5. x \in LoField BY ONLY <1>11, <3>2, <3>3, <3>4, LoModFacts DEF LoField
    <3>6. x % LoMod = x BY ONLY <3>5, LoSmall
    <3> QED BY ONLY <2>1, <3>1, <3>4, <3>6
  <2> QED BY <1>11, <1>12, <2>1, <2>2, <2>3 DEF LoadsNoted
<1>13. Assembled(b.code, b.lits) BY <1>9, <1>10, <1>11, <1>12 DEF Assembled
<1> QED BY ONLY <1>4, <1>5, <1>6, <1>13

\* Such a program survives the image file and, unless it jumps by number or
\* label over more than IMM_MAX, being disassembled and assembled again: the
\* image is the same, word by word (warpvm-asm disasm, then asm).
THEOREM ProgramsRoundTrip ==
  ASSUME NEW stmts, Len(stmts) \in Nat, \A n \in 1..Len(stmts) : StatementRead(stmts[n]),
         NEW r, r = Assemble(stmts), r.err = ""
  PROVE  /\ ParseFile(EncodeFile(r.code, r.lits)) = r
         /\ (\A n \in 1..Len(r.code) : Rendered(r.code[n]) # <<>> => InReach(r.code[n])) =>
              Assemble(Disassemble(r.code, r.lits)) = r
<1>1. Assembled(r.code, r.lits) /\ r = [err |-> "", code |-> r.code, lits |-> r.lits] BY ProgramsAssembled
<1>2. PICK code, lits : code = r.code /\ lits = r.lits OBVIOUS
<1>3. Assembled(code, lits) /\ r = [err |-> "", code |-> code, lits |-> lits] BY ONLY <1>1, <1>2
<1>4. ParseFile(EncodeFile(code, lits)) = r
  <2>1. /\ code \in Seq(CodeWord) /\ Len(code) \in 1..MAX_CODE_WORDS
        /\ lits \in Seq(Literal) /\ Len(lits) <= MAX_LITERALS
    BY ONLY <1>3 DEF Assembled
  <2>2. ParseFile(EncodeFile(code, lits)) = [err |-> "", code |-> code, lits |-> lits]
    BY ONLY <2>1, FilesRoundTrip
  <2> QED BY ONLY <1>3, <2>2
<1>5. ASSUME \A n \in 1..Len(code) : Rendered(code[n]) # <<>> => InReach(code[n])
      PROVE  Assemble(Disassemble(code, lits)) = r
  <2>1. Listable(code, lits) BY ONLY <1>3, <1>5 DEF Assembled, Listable, Readable
  <2>2. Assemble(Disassemble(code, lits)) = [err |-> "", code |-> code, lits |-> lits] BY ONLY <2>1, ImagesRoundTrip
  <2> QED BY ONLY <1>3, <2>2
<1> QED BY ONLY <1>2, <1>4, <1>5
=============================================================================
