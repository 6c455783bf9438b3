----------------------------- MODULE WarpcTypes -----------------------------
(***************************************************************************)
(* The types of Warp C, its constant expressions and its intrinsics: the   *)
(* part of sema.rs that does not depend on a scope.  A type is             *)
(* [base, tag, ptr, arr]: its base, the structure's name, the number of    *)
(* stars and the array length (0 when it is not an array).                 *)
(***************************************************************************)
EXTENDS WarpcParser, Assembler

Scalar(base) == [base |-> base, tag |-> "", ptr |-> 0, arr |-> 0]
SInt == Scalar("int")
UInt == Scalar("unsigned")
Char == Scalar("char")
Void == Scalar("void")

PointerTo(ty) == [ty EXCEPT !.ptr = @ + 1, !.arr = 0]
Decay(ty)     == IF ty.arr # 0 THEN PointerTo(ty) ELSE ty
Pointee(ty)   == [ty EXCEPT !.ptr = @ - 1, !.arr = 0]

IsInteger(ty) == ty.ptr = 0 /\ ty.arr = 0 /\ ty.base \in {"int", "unsigned", "char"}
IsPointer(ty) == ty.ptr > 0 /\ ty.arr = 0
IsArray(ty)   == ty.arr # 0
IsStruct(ty)  == ty.ptr = 0 /\ ty.arr = 0 /\ ty.base = "struct"
IsScalar(ty)  == IsInteger(ty) \/ IsPointer(ty)

Promoted(ty)   == IF ty = Char THEN UInt ELSE ty
IsUnsigned(ty) == ty.ptr > 0 \/ ty.base \in {"unsigned", "char"}
UsualType(l, r) == IF IsUnsigned(Promoted(l)) \/ IsUnsigned(Promoted(r)) THEN UInt ELSE SInt

CompatiblePointers(a, b) ==
    /\ IsPointer(a) /\ IsPointer(b)
    /\ a = b \/ Pointee(a) = Void \/ Pointee(b) = Void

(* type_size: words of a type; structs maps the laid out names to their    *)
(* [size, fields].                                                         *)
TypeSize(ty, structs) ==
    LET one == CASE ty.ptr > 0 -> 1
                 [] ty.base = "void" -> 0
                 [] ty.base = "struct" -> structs[ty.tag].size
                 [] OTHER -> 1
    IN  IF ty.arr # 0 THEN ty.arr * one ELSE one

----------------------------------------------------------------------------
(* Constants.  NotConst marks an expression that has no constant value.    *)
NotConst == -1

(* The code of a character; "" is the zero that ends a string.             *)
Printable == " !\"#$%&'()*+,-./0123456789:;<=>?@ABCDEFGHIJKLMNOPQRSTUVWXYZ[\\]^_ abcdefghijklmnopqrstuvwxyz{|}~"
Code(c) ==
    CASE c = "" -> 0
      [] c = "\t" -> 9
      [] c = "\n" -> 10
      [] c = "\r" -> 13
      [] OTHER -> 31 + CHOOSE i \in 1..Len(Printable) : SubSeq(Printable, i, i) = c

Codes(text) == [i \in DOMAIN text |-> Code(text[i])]

(* parse_integer: digits with optional underscores, a 0x prefix and a u    *)
(* suffix.  The literal is unsigned if it says so or does not fit an int.  *)
HexDigits == "0123456789abcdef0123456789ABCDEF"
DigitValue(c) == ((CHOOSE i \in 1..Len(HexDigits) : SubSeq(HexDigits, i, i) = c) - 1) % 16

ParseInteger(text) ==
    LET at(i)  == SubSeq(text, i, i)
        suffix == at(Len(text)) \in {"u", "U"}
        last   == IF suffix THEN Len(text) - 1 ELSE Len(text)
        hex    == Len(text) > 2 /\ SubSeq(text, 1, 2) \in {"0x", "0X"}
        first  == IF hex THEN 3 ELSE 1
        radix  == IF hex THEN 16 ELSE 10
        legal  == IF hex THEN Chars(HexDigits) \cup {"_"} ELSE Digits \cup {"_"}
        value[i \in first - 1..last] ==
            IF i = first - 1 THEN 0
            ELSE IF at(i) = "_" \/ value[i - 1] >= WordMod THEN value[i - 1]
            ELSE radix * value[i - 1] + DigitValue(at(i))
        ok     == /\ \E i \in first..last : at(i) # "_"
                  /\ \A i \in first..last : at(i) \in legal
                  /\ value[last] < WordMod
    IN  IF ~ok THEN [v |-> NotConst, ty |-> SInt]
        ELSE [v |-> value[last], ty |-> IF suffix \/ value[last] >= SIGN_BIT THEN UInt ELSE SInt]

BuiltinConstants == [WARP_RAM_WORDS |-> RAM_SIZE_WORDS, WARP_RAM_SIZE_WORDS |-> RAM_SIZE_WORDS,
                     WARP_VIDEO_WIDTH |-> VIDEO_WIDTH, WARP_VIDEO_HEIGHT |-> VIDEO_WIDTH,
                     WARP_VIDEO_WORDS |-> VIDEO_WIDTH * VIDEO_WIDTH, WARP_VIDEO_BASE |-> VIDEO_BASE]

ConstUnary(op, v) ==
    CASE v = NotConst -> NotConst
      [] op = "+" -> v
      [] op = "-" -> Wrap(-v)
      [] op = "~" -> Not(v)
      [] op = "!" -> Flag(v = 0)
      [] OTHER -> NotConst

ConstBinary(op, signed, a, b) ==
    IF a = NotConst \/ b = NotConst \/ (op \in {"/", "%"} /\ b = 0) THEN NotConst
    ELSE COp(op, signed, a, b)

(* constant_ast: the value of an initializer or of an array size.  It      *)
(* computes on unsigned words whatever the operands' types.                *)
RECURSIVE ConstantAst(_)
ConstantAst(e) ==
    CASE e.k = "number" -> ParseInteger(e.v).v
      [] e.k = "charlit" -> Code(e.v[1])
      [] e.k = "name" -> IF e.v \in DOMAIN BuiltinConstants THEN BuiltinConstants[e.v] ELSE NotConst
      [] e.k = "unary" -> ConstUnary(e.v, ConstantAst(e.es[1]))
      [] e.k = "binary" -> ConstBinary(e.v, FALSE, ConstantAst(e.es[1]), ConstantAst(e.es[2]))
      [] e.k = "cond" -> LET c == ConstantAst(e.es[1])
                         IN  IF c = NotConst THEN NotConst
                             ELSE ConstantAst(e.es[IF c # 0 THEN 2 ELSE 3])
      [] OTHER -> NotConst

(* constant_u32: the value of a case label, on the typed expression, with  *)
(* the signedness of its operands and the short circuits.                  *)
RECURSIVE ConstantU32(_)
ConstantU32(e) ==
    LET c == ConstantU32(e.es[1])
    IN  CASE e.k = "lit" -> e.v
          [] e.k = "unary" -> ConstUnary(e.f, c)
          [] e.k = "binary" ->
               IF c = NotConst \/ e.f = "," THEN NotConst
               ELSE IF e.f = "&&" /\ c = 0 THEN 0
               ELSE IF e.f = "||" /\ c # 0 THEN 1
               ELSE ConstBinary(e.f, e.sg, c, ConstantU32(e.es[2]))
          [] e.k = "cond" -> IF c = NotConst THEN NotConst
                             ELSE ConstantU32(e.es[IF c # 0 THEN 2 ELSE 3])
          [] OTHER -> NotConst

----------------------------------------------------------------------------
(* The intrinsics: internal name, number of arguments, type, and whether   *)
(* the result of uniform arguments is uniform.                             *)
Sig(f, n, ty, u) == [f |-> f, n |-> n, ty |-> ty, u |-> u]

Signatures ==
    [warp_lane_id      |-> Sig("LaneId", 0, SInt, FALSE),
     warp_vm_id        |-> Sig("VmId", 0, UInt, TRUE),
     warp_framebuffer  |-> Sig("Framebuffer", 0, PointerTo(UInt), TRUE),
     warp_flip         |-> Sig("Flip", 0, Void, TRUE),
     warp_argb         |-> Sig("Argb", 4, UInt, TRUE),
     warp_set_pixel    |-> Sig("SetPixel", 3, Void, TRUE),
     warp_send         |-> Sig("Send", 3, Void, TRUE),
     warp_try_recv     |-> Sig("TryRecv", 2, SInt, TRUE),
     warp_broadcast    |-> Sig("Broadcast", 2, SInt, TRUE),
     warp_shuffle      |-> Sig("Shuffle", 2, SInt, TRUE),
     warp_shuffle_xor  |-> Sig("ShuffleXor", 2, SInt, TRUE),
     warp_ballot       |-> Sig("Ballot", 1, UInt, TRUE),
     warp_any          |-> Sig("Any", 1, SInt, TRUE),
     warp_all          |-> Sig("All", 1, SInt, TRUE),
     warp_reduce_add   |-> Sig("REDUCE_ADD", 1, SInt, TRUE),
     warp_reduce_add_u |-> Sig("REDUCE_ADD", 1, UInt, TRUE),
     warp_reduce_min   |-> Sig("MinSigned", 1, SInt, TRUE),
     warp_reduce_max   |-> Sig("MaxSigned", 1, SInt, TRUE),
     warp_reduce_min_u |-> Sig("REDUCE_MIN", 1, UInt, TRUE),
     warp_reduce_max_u |-> Sig("REDUCE_MAX", 1, UInt, TRUE),
     warp_reduce_and   |-> Sig("REDUCE_AND", 1, UInt, TRUE),
     warp_reduce_or    |-> Sig("REDUCE_OR", 1, UInt, TRUE),
     warp_reduce_xor   |-> Sig("REDUCE_XOR", 1, UInt, TRUE)]

ReservedNames == DOMAIN Signatures \cup {"min", "max"}

(* Reductions and votes: one result for the warp, whatever the argument.   *)
WarpWide == {"Broadcast", "Ballot", "Any", "All", "MinSigned", "MaxSigned", "REDUCE_ADD",
             "REDUCE_MIN", "REDUCE_MAX", "REDUCE_AND", "REDUCE_OR", "REDUCE_XOR"}
Collectives == WarpWide \cup {"Shuffle", "ShuffleXor"}

RequiresUniform(f, i) == f \in {"Send", "TryRecv"} \/ (f = "Broadcast" /\ i = 2)

(* result_uniformity, from the uniformity of the arguments.                *)
\* Fault: a shuffle is taken for a broadcast.
ShuffleUniform(sig, us) == sig.f \in Collectives \/ (sig.u /\ \A i \in DOMAIN us : us[i])
ResultUniform(sig, us) ==
    \/ sig.f \in WarpWide
    \/ sig.f = "Shuffle" /\ us[2]
    \/ sig.u /\ \A i \in DOMAIN us : us[i]
=============================================================================
