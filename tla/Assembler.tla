------------------------------ MODULE Assembler ------------------------------
(***************************************************************************)
(* The assembler, the disassembler and the image file of warpvm-asm.       *)
(*                                                                         *)
(* A statement of assembly is [k, p, inv, m, o]: k is "ins", "label" or a  *)
(* directive ("const", "scratch", "word"), p the guard predicate (NoGuard  *)
(* without one), inv whether it is inverted, m the mnemonic or the name,   *)
(* o the operands, each <<class, value>> with class "r", "s", "p", "imm"   *)
(* or "label".  A code word is its decoded fields.  Errors are kept in     *)
(* a.err, and nothing is encoded after one.                                *)
(***************************************************************************)
EXTENDS Words, SequencesExt

CONSTANTS LANES,               \* lanes of a warp: 32 in the code
          RAM_SIZE_WORDS,      \* words of a VM's RAM: 65536 in the code
          VIDEO_BASE,          \* first address of the framebuffer: 2^20
          VIDEO_WIDTH,         \* its width, and here its height: 128
          CALL_STACK,          \* entries of the VM's call stack: 8
          IMM_MAX,             \* largest immediate: 4095 in the code
          MAX_CODE_WORDS,      \* 4096
          MAX_LITERALS         \* 256

ASSUME SizesAssumption ==
    /\ LANES \in 1..WordBits
    /\ VIDEO_BASE \in Nat /\ VIDEO_WIDTH \in Nat
    /\ CALL_STACK \in Nat
    /\ RAM_SIZE_WORDS \in 1..VIDEO_BASE
    /\ VIDEO_BASE + VIDEO_WIDTH * VIDEO_WIDTH <= WordMod

\* A register's number fits the field that immediates use, and a literal's.
ASSUME EncodingAssumption ==
    /\ IMM_MAX \in Nat /\ IMM_MAX >= 15
    /\ MAX_CODE_WORDS \in 1..2 * IMM_MAX
    /\ MAX_LITERALS \in 1..IMM_MAX
    /\ LANES <= IMM_MAX + 1

IMM_MIN == -IMM_MAX - 1
LoMod   == 2 * (IMM_MAX + 1)
DEFAULT_SCRATCH == 15
SCRATCH_SCALAR  == 7

(* Operands and instructions, as warpc writes them.                        *)
NoGuard == -1
R(n) == <<"r", n>>
S(n) == <<"s", n>>
P(n) == <<"p", n>>
Imm(n) == <<"imm", n>>
Ins(p, inv, m, o) == [k |-> "ins", p |-> p, inv |-> inv, m |-> m, o |-> o]

(* A name a statement defines or refers to: of a constant or a label.      *)
Name(n) == <<n, 0>>

(* enc_r and enc_i, and the fields of a word that decode gives back.       *)
Word(op, guard, rd, rs1, lo) == [op |-> op, guard |-> guard, rd |-> rd, rs1 |-> rs1, lo |-> lo % LoMod]
SignExt(lo) == IF lo > IMM_MAX THEN lo - LoMod ELSE lo

(* The guard field of an instruction: 0, 1 + p, or 5 + p for @!p.          *)
ParseGuard(i) == IF i.p = NoGuard THEN 0 ELSE (IF i.inv THEN 5 ELSE 1) + i.p

(* The platform's constants are known by name, in the pool only when used. *)
PlatformConstants ==
    [n \in {Name(x) : x \in {"RAM_SIZE_WORDS", "VIDEO_BASE", "VIDEO_WIDTH", "VIDEO_HEIGHT", "VIDEO_WORDS"}} |->
        CASE n[1] = "RAM_SIZE_WORDS" -> RAM_SIZE_WORDS
          [] n[1] = "VIDEO_BASE" -> VIDEO_BASE
          [] n[1] \in {"VIDEO_WIDTH", "VIDEO_HEIGHT"} -> VIDEO_WIDTH
          [] n[1] = "VIDEO_WORDS" -> VIDEO_WIDTH * VIDEO_WIDTH]

(* insert, in a map that has no such name yet.                             *)
Insert(f, name, value) == [n \in DOMAIN f \cup {name} |-> IF n = name THEN value ELSE f[n]]

NewAsm == [code |-> <<>>, lits |-> <<>>, consts |-> PlatformConstants,
           labels |-> <<>>, fixups |-> <<>>, ldw |-> {}, scratch |-> DEFAULT_SCRATCH, err |-> ""]

AsmFails(a, what) == [a EXCEPT !.err = what]
EmitWord(a, w)    == [a EXCEPT !.code = Append(@, w)]

(* intern: the pool after a value was put in it, once.                     *)
Intern(a, value) ==
    IF value \in Range(a.lits) THEN a
    ELSE IF Len(a.lits) >= MAX_LITERALS THEN AsmFails(a, "literal pool full")
    ELSE [a EXCEPT !.lits = Append(@, value)]
IndexOf(a, value) == (CHOOSE i \in DOMAIN a.lits : a.lits[i] = value) - 1

(* resolve_imm: the assembler, whether the value fits the instruction, and *)
(* the value or its place in the pool.                                     *)
ResolveImm(a, op) ==
    LET known == op[1] = "imm" \/ (op[1] = "label" /\ op[2] \in DOMAIN a.consts)
        value == IF op[1] = "imm" THEN op[2] ELSE a.consts[op[2]]
        b     == Intern(a, Wrap(value))
    IN  IF ~known THEN [a |-> AsmFails(a, "immediate"), inline |-> TRUE, v |-> 0]
        ELSE IF value \in IMM_MIN..IMM_MAX THEN [a |-> a, inline |-> TRUE, v |-> value]
        ELSE IF b.err # "" THEN [a |-> b, inline |-> TRUE, v |-> 0]
        ELSE [a |-> b, inline |-> FALSE, v |-> IndexOf(b, Wrap(value))]

(* vreg, sreg and pred: the operands have the classes an encoder expects.  *)
Shaped(i, classes) == /\ Len(i.o) = Len(classes)
                      /\ \A n \in DOMAIN classes : i.o[n][1] = classes[n]

(* The last operand of MOV, of three-operand arithmetic and of comparisons *)
(* is a register, an immediate (opi, "" if there is no such form) or, from *)
(* the pool, the scratch register loaded by an unguarded instruction.      *)
Materialized(a, i, op, opi, fields) ==
    LET n == Len(i.o)
        r == ResolveImm(a, i.o[n])
        g == ParseGuard(i)
        last(v) == Word(op, g, fields[1], IF n = 2 THEN v ELSE fields[2], IF n = 2 THEN 0 ELSE v)
        load == IF r.inline THEN Word("MOV_I", 0, a.scratch, 0, r.v) ELSE Word("LDW", 0, a.scratch, 0, r.v)
    IN  IF i.o[n][1] = "r" THEN EmitWord(a, last(i.o[n][2]))
        ELSE IF r.inline /\ opi # "" THEN EmitWord(r.a, Word(opi, g, fields[1], fields[2], r.v))
        ELSE EmitWord(EmitWord(r.a, load), last(a.scratch))

EncodeMov(a, i) == IF Len(i.o) = 2 /\ i.o[1][1] = "r"
                   THEN Materialized(a, i, "MOV", "MOV_I", <<i.o[1][2], 0>>)
                   ELSE AsmFails(a, "MOV")

(* The binary instructions and comparisons, by the names they have in the  *)
(* source, and the name of their immediate form.                           *)
WithImmediate == [ADD |-> "ADD_I", SUB |-> "SUB_I", MUL |-> "MUL_I", AND |-> "AND_I", OR |-> "OR_I",
                  XOR |-> "XOR_I", SHL |-> "SHL_I", SHR |-> "SHR_I"]
Compares == [CMP_EQ |-> "CMP_EQ_I", CMP_NE |-> "CMP_NE_I", CMP_LT |-> "CMP_LT_I", CMP_LE |-> "CMP_LE_I",
             CMP_GT |-> "CMP_GT_I", CMP_GE |-> "CMP_GE_I"]
RegisterOnly == {"DIV", "MOD", "MIN", "MAX"}
Bin3(m) == CHOOSE b \in DOMAIN WithImmediate \cup RegisterOnly :
              m = b \/ (b \in DOMAIN WithImmediate /\ m = WithImmediate[b])

EncodeBin3(a, i, first, op, opi) ==
    IF Len(i.o) = 3 /\ i.o[1][1] = first /\ i.o[2][1] = "r"
    THEN Materialized(a, i, op, opi, <<i.o[1][2], i.o[2][2]>>)
    ELSE AsmFails(a, "operands")

(* The classes of the operands of the other instructions: encode_unary,    *)
(* encode_dest_only, encode_mask2 and 3, encode_ballot, encode_anyall,     *)
(* encode_shuffle, LOAD and STORE, messages, and scalars.                  *)
OneRegister  == {"LANEID", "VMID", "CLOCK", "RAND"}
TwoRegisters == {"ABS", "NEG", "NOT", "REDUCE_ADD", "REDUCE_MIN", "REDUCE_MAX", "REDUCE_AND", "REDUCE_OR",
                 "REDUCE_XOR", "LOAD", "STORE"}
Fixed == OneRegister \cup TwoRegisters
         \cup {"NOTMASK", "ANY", "ALL", "ANDMASK", "ORMASK", "SHUFFLE", "SEND", "BALLOT", "TRY_RECV", "S_MOV",
               "S_ADD", "S_CMP_LT", "S_BCAST", "S_GET", "FLIP"}
Operands(m) ==
    CASE m \in OneRegister -> <<"r">>
      [] m \in TwoRegisters -> <<"r", "r">>
      [] m \in {"NOTMASK", "ANY", "ALL"} -> <<"p", "p">>
      [] m \in {"ANDMASK", "ORMASK"} -> <<"p", "p", "p">>
      [] m \in {"SHUFFLE", "SEND"} -> <<"r", "r", "r">>
      [] m = "BALLOT" -> <<"p", "r">>
      [] m = "TRY_RECV" -> <<"p", "r", "r">>
      [] m = "S_MOV" -> <<"s", "s">>
      [] m = "S_ADD" -> <<"s", "s", "s">>
      [] m = "S_CMP_LT" -> <<"p", "s", "s">>
      [] m = "S_BCAST" -> <<"r", "s">>
      [] m = "S_GET" -> <<"s", "r">>
      [] m = "FLIP" -> <<>>
Bare == {"NOP", "HALT", "YIELD", "RET"}      \* operands are not looked at

EncodeFixed(a, i) ==
    LET field(n) == IF n > Len(i.o) THEN 0 ELSE i.o[n][2]
    IN  IF ~Shaped(i, Operands(i.m)) \/ (i.m = "FLIP" /\ i.p # NoGuard) THEN AsmFails(a, "operands")
        ELSE EmitWord(a, Word(i.m, ParseGuard(i), field(1), field(2), field(3)))

(* LOG and LOG_I name no destination; the tag of LOG_I must be immediate.  *)
EncodeLog(a, i) ==
    LET r == ResolveImm(a, i.o[2])
    IN  CASE i.m = "LOG" /\ Shaped(i, <<"r", "r">>) ->
               EmitWord(a, Word("LOG", ParseGuard(i), 0, i.o[1][2], i.o[2][2]))
          [] i.m = "LOG_I" /\ Len(i.o) = 2 /\ i.o[1][1] = "r" ->
               IF r.inline THEN EmitWord(r.a, Word("LOG_I", ParseGuard(i), 0, i.o[1][2], r.v))
               ELSE AsmFails(r.a, "tag")
          [] OTHER -> AsmFails(a, "operands")

EncodeLaneImm(a, i) ==
    IF Shaped(i, <<"r", "r", "imm">>) /\ i.o[3][2] \in 0..LANES - 1
    THEN EmitWord(a, Word(i.m, ParseGuard(i), i.o[1][2], i.o[2][2], i.o[3][2]))
    ELSE AsmFails(a, "lane")

(* LDW and S_LDW name a literal, which must exist in the end.              *)
EncodeLoadLiteral(a, i) ==
    IF Shaped(i, <<IF i.m = "LDW" THEN "r" ELSE "s", "imm">>) /\ i.o[2][2] >= 0
    THEN EmitWord([a EXCEPT !.ldw = @ \cup {i.o[2][2]}], Word(i.m, ParseGuard(i), i.o[1][2], 0, i.o[2][2]))
    ELSE AsmFails(a, "operands")

(* Scalar instructions with an immediate.  One that does not fit is loaded *)
(* into s7 first, by an unguarded instruction, or directly by S_MOV_I.     *)
EncodeScalarImm(a, i) ==
    LET n    == Len(i.o)
        r    == ResolveImm(a, i.o[n])
        g    == ParseGuard(i)
        long == IF i.m = "S_ADD_I" THEN "S_ADD" ELSE "S_CMP_LT"
        first == IF i.m = "S_CMP_LT_I" THEN "p" ELSE "s"
    IN  IF n # (IF i.m = "S_MOV_I" THEN 2 ELSE 3) \/ i.o[1][1] # first THEN AsmFails(a, "operands")
        ELSE IF i.m = "S_MOV_I"
             THEN EmitWord(r.a, Word(IF r.inline THEN "S_MOV_I" ELSE "S_LDW", g, i.o[1][2], 0, r.v))
        ELSE IF i.o[2][1] # "s" THEN AsmFails(a, "operands")
        ELSE IF r.inline THEN EmitWord(r.a, Word(i.m, g, i.o[1][2], i.o[2][2], r.v))
        ELSE EmitWord(EmitWord(r.a, Word("S_LDW", 0, SCRATCH_SCALAR, 0, r.v)),
                      Word(long, g, i.o[1][2], i.o[2][2], SCRATCH_SCALAR))

(* emit_branch: a label is resolved at the end.                            *)
EmitBranch(a, op, guard, target) ==
    CASE target[1] = "imm" /\ target[2] >= 0 -> EmitWord(a, Word(op, guard, 0, 0, target[2]))
      [] target[1] = "label" -> EmitWord([a EXCEPT !.fixups = Append(@, <<Len(a.code) + 1, target[2]>>)],
                                         Word(op, guard, 0, 0, 0))
      [] OTHER -> AsmFails(a, "target")

(* The predicate of JMP_IF_ANY and JMP_IF_ALL goes to the guard field.     *)
EncodeJmpIf(a, i) ==
    IF i.p = NoGuard /\ Len(i.o) = 2 /\ i.o[1][1] = "p"
    THEN EmitBranch(a, i.m, 1 + i.o[1][2], i.o[2])
    ELSE AsmFails(a, "JMP_IF")

Instr(a, i) ==
    CASE i.m \in Bare -> EmitWord(a, Word(i.m, ParseGuard(i), 0, 0, 0))
      [] i.m \in {"MOV", "MOV_I"} -> EncodeMov(a, i)
      [] i.m \in DOMAIN WithImmediate \cup Range(WithImmediate) ->
             EncodeBin3(a, i, "r", Bin3(i.m), WithImmediate[Bin3(i.m)])
      [] i.m \in RegisterOnly -> EncodeBin3(a, i, "r", i.m, "")
      [] i.m \in DOMAIN Compares -> EncodeBin3(a, i, "p", i.m, Compares[i.m])
      [] i.m \in Fixed -> EncodeFixed(a, i)
      [] i.m \in {"LOG", "LOG_I"} -> EncodeLog(a, i)
      [] i.m \in {"BROADCAST", "SHUFFLE_XOR"} -> EncodeLaneImm(a, i)
      [] i.m \in {"LDW", "S_LDW"} -> EncodeLoadLiteral(a, i)
      [] i.m \in {"S_MOV_I", "S_ADD_I", "S_CMP_LT_I"} -> EncodeScalarImm(a, i)
      [] i.m \in {"JMP", "CALL"} /\ Len(i.o) = 1 -> EmitBranch(a, i.m, ParseGuard(i), i.o[1])
      [] i.m \in {"JMP_IF_ANY", "JMP_IF_ALL"} -> EncodeJmpIf(a, i)
      [] OTHER -> AsmFails(a, "mnemonic")

(* directive: .const defines a name once and puts its value in the pool;   *)
(* the value is that of a word, and not negative.                          *)
Directive(a, d) ==
    CASE d.k = "const" -> IF d.o \notin 0..WordMod - 1 THEN AsmFails(a, "constant out of range")
                          ELSE IF d.m \in DOMAIN a.consts THEN AsmFails(a, "duplicate constant")
                          ELSE Intern([a EXCEPT !.consts = Insert(@, d.m, d.o)], d.o)
      [] d.k = "scratch" -> [a EXCEPT !.scratch = d.o]
      [] d.k = "word" -> EmitWord(a, d.o)

Encode(a, st) ==
    CASE st.k = "label" -> IF st.o \in DOMAIN a.labels THEN AsmFails(a, "duplicate label")
                           ELSE [a EXCEPT !.labels = Insert(@, st.o, Len(a.code))]
      [] st.k = "ins" -> Instr(a, st)
      [] OTHER -> Directive(a, st)

ResolveFixups(a) ==
    IF \E i \in DOMAIN a.fixups : a.fixups[i][2] \notin DOMAIN a.labels THEN AsmFails(a, "undefined label")
    ELSE LET targets == [f \in {a.fixups[i][1] : i \in DOMAIN a.fixups} |->
                            a.labels[(CHOOSE x \in Range(a.fixups) : x[1] = f)[2]]]
         IN  [a EXCEPT !.code = [n \in DOMAIN @ |-> IF n \in DOMAIN targets
                                                   THEN [@[n] EXCEPT !.lo = targets[n] % LoMod] ELSE @[n]]]

(* pass: one statement after the other, up to the first error; statements  *)
(* are taken in stretches, which keeps the recursion of TLC flat.          *)
Stretch == 30
PassStretch(a, stmts, from) ==
    LET last == IF from + Stretch < Len(stmts) THEN from + Stretch ELSE Len(stmts)
        after[n \in from..last] ==
            IF n = from THEN a
            ELSE LET b == after[n - 1] IN IF b.err # "" THEN b ELSE Encode(b, stmts[n])
    IN  after[last]
Pass(stmts) ==
    LET stretches == Len(stmts) \div Stretch + 1
        upto[k \in 0..stretches] ==
            IF k = 0 THEN NewAsm
            ELSE LET a == upto[k - 1] IN IF a.err # "" THEN a ELSE PassStretch(a, stmts, (k - 1) * Stretch)
    IN  upto[stretches]

(* The end of assemble, after the pass: the code and the literals, or the  *)
(* error in err.                                                           *)
Assembly(a) ==
    LET r == IF a.err # "" THEN a ELSE ResolveFixups(a)
        err == IF r.err # "" THEN r.err
               ELSE IF \E n \in r.ldw : n >= Len(r.lits) THEN "literal index out of range"
               ELSE IF Len(r.code) > MAX_CODE_WORDS THEN "program too long"
               ELSE IF r.code = <<>> THEN "empty program" ELSE ""
    IN  [err |-> err, code |-> r.code, lits |-> r.lits]
Assemble(stmts) == Assembly(Pass(stmts))

----------------------------------------------------------------------------
(* The disassembler.  render gives back the statement of a word, or no     *)
(* statement for a word that has none; that one becomes a .word.           *)
SourceName(op) == IF \E m \in DOMAIN Compares : Compares[m] = op
                  THEN CHOOSE m \in DOMAIN Compares : Compares[m] = op ELSE op

\* Fault: an inverted guard is written without its "!".
GuardText(stmt, guard) == IF guard = 0 THEN stmt ELSE [stmt EXCEPT !.p = (guard - 1) % 4]
(* guard_text: a guard above 8 has no text an assembler reads.             *)
Guard(stmt, guard) ==
    CASE guard = 0 -> stmt
      [] guard \in 1..4 -> [stmt EXCEPT !.p = guard - 1]
      [] guard \in 5..8 -> [stmt EXCEPT !.p = guard - 5, !.inv = TRUE]
      [] OTHER -> [stmt EXCEPT !.k = "unreadable"]

Rendered(d) ==
    LET fits(class, n) == class = "r" \/ n < (IF class = "s" THEN 8 ELSE 4)
        fields == <<d.rd, d.rs1, d.lo % 16>>
        classes == Operands(d.op)
        three  == <<R(d.rd), R(d.rs1)>>
    IN  CASE d.op \in Fixed -> IF \E n \in DOMAIN classes : ~fits(classes[n], fields[n]) THEN <<>>
                      ELSE <<[n \in DOMAIN classes |-> <<classes[n], fields[n]>>]>>
          [] d.op \in Bare -> << <<>> >>
          [] d.op = "MOV" -> <<three>>
          [] d.op = "MOV_I" -> << <<R(d.rd), Imm(SignExt(d.lo))>> >>
          [] d.op \in DOMAIN WithImmediate \cup RegisterOnly -> <<Append(three, R(d.lo % 16))>>
          [] d.op \in Range(WithImmediate) -> <<Append(three, Imm(SignExt(d.lo)))>>
          [] d.op \in DOMAIN Compares \cup Range(Compares) ->
               IF d.rd > 3 THEN <<>>
               ELSE << <<P(d.rd), R(d.rs1), IF d.op \in DOMAIN Compares THEN R(d.lo % 16) ELSE Imm(SignExt(d.lo))>> >>
          [] d.op \in {"BROADCAST", "SHUFFLE_XOR"} -> <<Append(three, Imm(d.lo))>>
          [] d.op = "LDW" -> << <<R(d.rd), Imm(d.lo)>> >>
          [] d.op = "LOG" -> << <<R(d.rs1), R(d.lo % 16)>> >>
          [] d.op = "LOG_I" -> << <<R(d.rs1), Imm(SignExt(d.lo))>> >>
          [] d.op = "S_LDW" -> IF d.rd > 7 THEN <<>> ELSE << <<S(d.rd), Imm(d.lo)>> >>
          [] d.op = "S_MOV_I" -> IF d.rd > 7 THEN <<>> ELSE << <<S(d.rd), Imm(SignExt(d.lo))>> >>
          [] d.op \in {"S_ADD_I", "S_CMP_LT_I"} ->
               IF d.rs1 > 7 \/ d.rd > (IF d.op = "S_ADD_I" THEN 7 ELSE 3) THEN <<>>
               ELSE << <<IF d.op = "S_ADD_I" THEN S(d.rd) ELSE P(d.rd), S(d.rs1), Imm(SignExt(d.lo))>> >>
          [] d.op \in {"JMP", "CALL"} -> << <<Imm(SignExt(d.lo))>> >>
          [] d.op \in {"JMP_IF_ANY", "JMP_IF_ALL"} ->
               IF d.guard \in 1..4 THEN << <<P(d.guard - 1), Imm(SignExt(d.lo))>> >> ELSE <<>>
          [] OTHER -> <<>>

Render(d) ==
    LET o    == Rendered(d)
        stmt == Ins(NoGuard, FALSE, SourceName(d.op), o[1])
    IN  IF o = <<>> THEN [k |-> "word", o |-> d]
        ELSE IF d.op \in {"JMP_IF_ANY", "JMP_IF_ALL"} THEN stmt ELSE Guard(stmt, d.guard)

Disassemble(code, lits) ==
    [i \in DOMAIN lits |-> [k |-> "const", m |-> <<"L", i - 1>>, o |-> lits[i]]]
      \o [i \in DOMAIN code |-> Render(code[i])]

----------------------------------------------------------------------------
(* The .wvm file: eight words of header, the code, the literals.           *)
MAGIC   == "WVM0"
VERSION == 1
HEADER_WORDS == 8

EncodeFile(code, lits) == <<MAGIC, VERSION, 0, Len(code), Len(lits), 0, 0, 0>> \o code \o lits

ParseFile(file) ==
    LET n == file[4]
        l == file[5]
        err == IF Len(file) < HEADER_WORDS THEN "truncated header"
               ELSE IF file[1] # MAGIC THEN "bad magic"
               ELSE IF file[2] # VERSION THEN "version"
               ELSE IF n = 0 \/ n > MAX_CODE_WORDS THEN "bad code_len"
               ELSE IF l > MAX_LITERALS THEN "bad literals_len"
               ELSE IF Len(file) < HEADER_WORDS + n + l THEN "truncated body" ELSE ""
    IN  IF err # "" THEN [err |-> err, code |-> <<>>, lits |-> <<>>]
        ELSE [err |-> "", code |-> SubSeq(file, HEADER_WORDS + 1, HEADER_WORDS + n),
              lits |-> SubSeq(file, HEADER_WORDS + n + 1, HEADER_WORDS + n + l)]
=============================================================================
