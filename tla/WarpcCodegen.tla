---------------------------- MODULE WarpcCodegen ----------------------------
(***************************************************************************)
(* From the typed program to assembly (codegen.rs).                        *)
(*                                                                         *)
(* The generator is a record g: the code so far, the vector registers in   *)
(* use, how often each is protected across calls, the guard predicate that *)
(* is in force, the depth of masks, the loops and switches around, and for *)
(* the current function the homes, lives and sizes WarpcAlloc computed.    *)
(* An operator that evaluates an expression returns [g, r, o]: the         *)
(* generator, the register of the value, and whether the value owns it.    *)
(* g.err is the first error; nothing is generated after it.                *)
(*                                                                         *)
(* An instruction is [k, p, inv, m, o]: its guard predicate (NoGuard if    *)
(* none), whether that is inverted, its mnemonic and its operands, each    *)
(* <<class, value>>.                                                       *)
(***************************************************************************)
EXTENDS WarpcAlloc

MAX_LOCAL_VECTOR_REGS == 8
MIN_LOCAL_VECTOR_REGS == 2
LANE_REG == 13
STACK_ADDR_REG == 14
STACK_TOP == RAM_SIZE_WORDS

Lab(l) == <<"label", l>>
SP == S(7)

Place(g, l)       == [g EXCEPT !.code = Append(@, [k |-> "label", o |-> l])]

(* raw_instr, instr and guarded_instr; an instruction is given as a tuple  *)
(* of its mnemonic and operands.                                           *)
Raw(g, i)     == [g EXCEPT !.code = Append(@, Ins(NoGuard, FALSE, Head(i), Tail(i)))]
Emit(g, i)    == [g EXCEPT !.code = Append(@, Ins(g.guard, FALSE, Head(i), Tail(i)))]
Emits(g, is)  == [g EXCEPT !.code = @ \o [i \in DOMAIN is |-> Ins(g.guard, FALSE, Head(is[i]), Tail(is[i]))]]
Guarded(g, p, inv, i) ==
    IF g.guard = NoGuard
    THEN [g EXCEPT !.code = Append(@, Ins(p, inv, Head(i), Tail(i)))]
    ELSE LET mask == IF inv THEN << <<"NOTMASK", P(1), P(p)>>, <<"ANDMASK", P(1), P(g.guard), P(1)>> >>
                     ELSE << <<"ANDMASK", P(1), P(g.guard), P(p)>> >>
         IN  [g EXCEPT !.code = @ \o [j \in DOMAIN mask |-> Ins(NoGuard, FALSE, Head(mask[j]), Tail(mask[j]))]
                                  \o <<Ins(1, FALSE, Head(i), Tail(i))>>]

(* label: the i-th of the n labels that NewLabels(g, n) reserves.          *)
Label(g, stem, i) == <<stem, g.nlabel + i>>
NewLabels(g, n)   == [g EXCEPT !.nlabel = @ + n]
FunctionLabel(f)  == <<"fn", f>>

Fails(g, what) == [g EXCEPT !.err = IF @ = "" THEN what ELSE @]

----------------------------------------------------------------------------
(* Registers and values.                                                   *)
Val(g, r, o) == [g |-> g, r |-> r, o |-> o]
NoValue(g)   == Val(g, 0, FALSE)

Alloc(g) ==
    LET free == (0..ALLOCATABLE_REGS - 1) \ g.used
    IN  IF free = {} THEN Val(Fails(g, "temporary"), 0, TRUE)
        ELSE Val([g EXCEPT !.used = @ \cup {Min(free)}], Min(free), TRUE)

Free(g, r)         == [g EXCEPT !.used = @ \ {r}]
Release(g, v)      == IF v.o THEN Free(g, v.r) ELSE g
Releases(g, vs)    == FoldFlat(Release, g, vs)
\* Fault: the registers of an expression are not kept over the calls in it.
ProtectNothing(g, v) == g
Protect(g, v)      == IF v.r < ALLOCATABLE_REGS THEN [g EXCEPT !.prot[v.r] = @ + 1] ELSE g
Unprotect(g, v)    == IF v.r < ALLOCATABLE_REGS THEN [g EXCEPT !.prot[v.r] = @ - 1] ELSE g

(* A new register holding the result of an instruction.                    *)
Make(g, m, ops) == LET a == Alloc(g) IN Val(Emit(a.g, <<m, R(a.r)>> \o ops), a.r, TRUE)

(* The same, after which the operands are released.                        *)
MakeFrom(g, m, ops, vs) == LET a == Make(g, m, ops) IN Val(Releases(a.g, vs), a.r, TRUE)

(* advance_allocation: at a statement the registers of the locals that     *)
(* died are free and those of the locals that start to live are taken.     *)
Advance(g, point) ==
    LET registers(ls) == {g.home[l].n : l \in {m \in ls : g.home[m].k = "vector"}}
        dead  == {l \in g.active : g.span[l][2] < point}
        born  == {l \in DOMAIN g.span \ (g.active \ dead) : g.span[l][1] <= point /\ point <= g.span[l][2]}
        used  == g.used \ registers(dead)
    IN  Fails([g EXCEPT !.active = (@ \ dead) \cup born, !.used = used \cup registers(born)],
              IF used \cap registers(born) = {} THEN g.err ELSE "overlap")

----------------------------------------------------------------------------
(* Binary operators on two registers l and r; sg is "on signed integers".  *)
Mnemonic == ("+" :> "ADD") @@ ("-" :> "SUB") @@ ("*" :> "MUL") @@ ("/" :> "DIV") @@ ("%" :> "MOD")
            @@ ("&" :> "AND") @@ ("|" :> "OR") @@ ("^" :> "XOR") @@ ("<<" :> "SHL") @@ (">>" :> "SHR")
            @@ ("==" :> "CMP_EQ") @@ ("!=" :> "CMP_NE") @@ ("<" :> "CMP_LT") @@ ("<=" :> "CMP_LE")
            @@ (">" :> "CMP_GT") @@ (">=" :> "CMP_GE")

(* materialize_compare: 1 in the lanes where the comparison holds, else 0. *)
Compare(g, m, a, b) ==
    LET out == Make(Emit(g, <<m, P(0), a, b>>), "MOV", <<Imm(0)>>)
    IN  Val(Guarded(out.g, 0, FALSE, <<"MOV", R(out.r), Imm(1)>>), out.r, TRUE)

SignedDivMod(g, op, l, r) ==
    LET out  == Alloc(g)
        temp == Alloc(out.g)
        o    == R(out.r)
        t    == R(temp.r)
        code == Emits(temp.g, << <<"ABS", o, R(l)>>, <<"ABS", t, R(r)>>, <<Mnemonic[op], o, o, t>>,
                                 IF op = "/" THEN <<"XOR", t, R(l), R(r)>> ELSE <<"MOV", t, R(l)>>,
                                 <<"CMP_GE", P(0), t, Imm(SIGN_BIT)>> >>)
    IN  Val(Free(Guarded(code, 0, FALSE, <<"NEG", o, o>>), temp.r), out.r, TRUE)

(* The sign of the left operand is shifted in from above, unless the shift *)
(* is by zero.                                                             *)
ArithmeticShiftRight(g, l, r) ==
    LET out  == Alloc(g)
        fill == Alloc(out.g)
        neg  == Alloc(fill.g)
        f    == R(fill.r)
        code == Emits(neg.g, << <<"SHR", R(out.r), R(l), R(r)>>,
                                <<"SHR", f, R(l), Imm(WordBits - 1)>>, <<"NEG", f, f>>,
                                <<"NEG", R(neg.r), R(r)>>, <<"SHL", f, f, R(neg.r)>>,
                                <<"CMP_EQ", P(0), R(r), Imm(0)>> >>)
    IN  Val(Free(Free(Guarded(code, 0, TRUE, <<"OR", R(out.r), R(out.r), f>>), neg.r), fill.r), out.r, TRUE)

(* Signed comparisons are unsigned ones of the words with the sign bit     *)
(* flipped.                                                                *)
Biased(g, r) == Make(g, "XOR", <<R(r), Imm(SIGN_BIT)>>)

Relational(g, op, sg, l, r) ==
    LET a   == Alloc(g)
        b   == Alloc(a.g)
        bias == Emits(b.g, << <<"XOR", R(a.r), R(l), Imm(SIGN_BIT)>>, <<"XOR", R(b.r), R(r), Imm(SIGN_BIT)>> >>)
        out == Compare(bias, Mnemonic[op], R(a.r), R(b.r))
    IN  IF ~sg THEN Compare(g, Mnemonic[op], R(l), R(r))
        ELSE Val(Free(Free(out.g, b.r), a.r), out.r, TRUE)

EmitBinary(g, op, sg, l, r) ==
    CASE op \in {"/", "%"} /\ sg -> SignedDivMod(g, op, l, r)
      [] op = ">>" /\ sg -> ArithmeticShiftRight(g, l, r)
      [] op \in {"==", "!="} -> Compare(g, Mnemonic[op], R(l), R(r))
      [] op \in {"<", "<=", ">", ">="} -> Relational(g, op, sg, l, r)
      [] OTHER -> Make(g, Mnemonic[op], <<R(l), R(r)>>)

----------------------------------------------------------------------------
(* Addresses, loads and stores.                                            *)
RECURSIVE GExpr(_, _), GAddress(_, _), GDecl(_, _), GStmt(_, _)

(* The frame of a lane is at s7 + lane * frame words.                      *)
AddressInto(o, g, l, extra) ==
    LET offset == g.home[l].n + extra
    IN  << <<"S_BCAST", o, SP>>, <<"MUL", R(STACK_ADDR_REG), R(LANE_REG), Imm(g.frame)>>,
           <<"ADD", o, o, R(STACK_ADDR_REG)>> >>
        \o (IF offset = 0 THEN <<>> ELSE << <<"ADD", o, o, Imm(offset)>> >>)
LocalAddress(g, l, extra) ==
    LET base == Alloc(g) IN Val(Emits(base.g, AddressInto(R(base.r), g, l, extra)), base.r, TRUE)

(* Two operands, the first protected from calls in the second.             *)
Pair(g, x, y) ==
    LET l == GExpr(g, x)
        r == GExpr(Protect(l.g, l), y)
    IN  [g |-> Unprotect(r.g, l), l |-> l, r |-> r]

Scaled(g, v, scale) ==
    IF scale = 1 THEN Val(g, v.r, v.o) ELSE MakeFrom(g, "MUL", <<R(v.r), Imm(scale)>>, <<v>>)

(* Pointer arithmetic: m is ADD or SUB.                                    *)
PointerAdd(g, m, x, y, scale) ==
    LET p == Pair(g, x, y)
        i == Scaled(p.g, p.r, scale)
    IN  MakeFrom(i.g, m, <<R(p.l.r), R(i.r)>>, <<p.l, i>>)

GAddress(g, e) ==
    CASE e.k = "local" -> LocalAddress(g, e.v, 0)
      [] e.k = "global" -> Make(g, "MOV", <<Imm(e.v)>>)
      [] e.k = "deref" -> GExpr(g, e.es[1])
      [] e.k = "index" -> PointerAdd(g, "ADD", e.es[1], e.es[2], e.v)
      [] e.k = "member" -> LET a == GAddress(g, e.es[1])
                           IN  IF e.v = 0 THEN a ELSE MakeFrom(a.g, "ADD", <<R(a.r), Imm(e.v)>>, <<a>>)

InRegister(g, e, k) == e.k = "local" /\ g.home[e.v].k = k

GLoad(g, e) ==
    CASE InRegister(g, e, "vector") -> Val(g, g.home[e.v].n, FALSE)
      [] InRegister(g, e, "scalar") -> Make(g, "S_BCAST", <<S(g.home[e.v].n)>>)
      [] OTHER -> LET a == GAddress(g, e) IN MakeFrom(a.g, "LOAD", <<R(a.r)>>, <<a>>)

GStore(g, e, source) ==
    CASE InRegister(g, e, "vector") -> IF g.home[e.v].n = source THEN g
                                       ELSE Emit(g, <<"MOV", R(g.home[e.v].n), R(source)>>)
      [] InRegister(g, e, "scalar") -> Emit(g, <<"S_GET", S(g.home[e.v].n), R(source)>>)
      [] OTHER -> LET a == GAddress(g, e) IN Release(Emit(a.g, <<"STORE", R(a.r), R(source)>>), a)

(* A write to a uniform local under a mask happens for all lanes if any is *)
(* in the mask.                                                            *)
\* Fault: the write is made by the lanes of the mask alone.
WrittenByLanes(g, l) == FALSE
WrittenByWarp(g, l)  == g.guard # NoGuard /\ g.p.locals[l].uniform
UniformWrite(g, l, Write(_)) ==
    LET write == Label(g, "write", 0)
        done  == Label(g, "done", 1)
        jumps == Place(Raw(Raw(NewLabels(g, 2), <<"JMP_IF_ANY", P(g.guard), Lab(write)>>), <<"JMP", Lab(done)>>), write)
        r     == Write([jumps EXCEPT !.guard = NoGuard])
    IN  IF WrittenByWarp(g, l) THEN Val(Place([r.g EXCEPT !.guard = g.guard], done), r.r, r.o)
        ELSE Write(g)

(* The target as UniformWrite sees it: 0 is no local.                      *)
OnTarget(g, e, Write(_)) == IF e.k = "local" THEN UniformWrite(g, e.v, Write) ELSE Write(g)

GAssign(g0, e) ==
    LET target == e.es[1]
        simple(g) == LET r == GExpr(g, e.es[2])
                     IN  Val(Unprotect(GStore(Protect(r.g, r), target, r.r), r), r.r, r.o)
        compound(g) ==
            LET r   == GExpr(g, e.es[2])
                cur == GLoad(Protect(r.g, r), target)
                s   == Scaled(Unprotect(cur.g, r), r, e.v)
                out == EmitBinary(s.g, SubSeq(e.f, 1, Len(e.f) - 1), e.sg, cur.r, s.r)
                st  == Protect(Releases(out.g, <<cur, s>>), out)
            IN  Val(Unprotect(GStore(st, target, out.r), out), out.r, TRUE)
    IN  IF e.f = "=" THEN OnTarget(g0, target, simple) ELSE OnTarget(g0, target, compound)

GIncDec(g0, e) ==
    LET target == e.es[1]
        m      == IF e.f \in {"pre++", "post++"} THEN "ADD" ELSE "SUB"
        post   == e.f \in {"post++", "post--"}
        update(g) ==
            LET cur == GLoad(g, target)
                old == IF post THEN Make(cur.g, "MOV", <<R(cur.r)>>) ELSE cur
                new == Make(old.g, m, <<R(cur.r), Imm(e.v)>>)
                st  == GStore(Protect(IF post THEN Protect(new.g, old) ELSE new.g, new), target, new.r)
                un  == Unprotect(IF post THEN Unprotect(st, old) ELSE st, new)
            IN  IF post THEN Val(Release(Free(un, new.r), cur), old.r, TRUE)
                ELSE Val(Release(un, cur), new.r, TRUE)
    IN  OnTarget(g0, target, update)

----------------------------------------------------------------------------
(* Conditions.                                                             *)
JumpIf(g, m, c, label) ==
    LET v == GExpr(g, c)
    IN  Emit(Release(Emit(v.g, <<m, P(0), R(v.r), Imm(0)>>), v), <<"JMP_IF_ANY", P(0), Lab(label)>>)
JumpIfZero(g, c, label)    == JumpIf(g, "CMP_EQ", c, label)
JumpIfNonzero(g, c, label) == JumpIf(g, "CMP_NE", c, label)

(* The predicate of a masked statement: p3 outside, p2 inside another one. *)
MaskOf(g) == 3 - g.masks

SetMask(g, m) ==
    IF g.guard = NoGuard THEN Raw(g, m)
    ELSE Raw(Raw(g, <<m[1], P(0), m[3]>>), <<"ANDMASK", m[2], P(g.guard), P(0)>>)

(* Evaluates the condition into its mask.                                  *)
OpenMask(g, c) ==
    LET v == GExpr(IF g.masks < 2 THEN g ELSE Fails(g, "masks"), c)
    IN  Release(SetMask(v.g, <<"BALLOT", P(MaskOf(g)), R(v.r)>>), v)
EnterMask(g) == [g EXCEPT !.guard = MaskOf(g), !.masks = @ + 1]
(* g0 is the generator outside the mask.                                   *)
ElseMask(g0, g)  == [SetMask([g EXCEPT !.guard = g0.guard], <<"NOTMASK", P(MaskOf(g0)), P(MaskOf(g0))>>)
                     EXCEPT !.guard = g.guard]
LeaveMask(g0, g) == [g EXCEPT !.guard = g0.guard, !.masks = g0.masks]

RECURSIVE Cheap(_)
Cheap(e) ==
    CASE e.k \in {"lit", "string", "local", "global"} -> TRUE
      [] e.k = "intrin" -> e.f \in {"LaneId", "VmId"}
      [] e.k = "unary" -> Cheap(e.es[1])
      [] e.k = "binary" -> e.f \notin {"/", "%", "&&", "||", ","} /\ Cheap(e.es[1]) /\ Cheap(e.es[2])
      [] OTHER -> FALSE

(* Both arms are evaluated, then one is selected by p1.                    *)
CheapConditional(g, e) ==
    LET c   == GExpr(g, e.es[1])
        out == Alloc(Release(Raw(c.g, <<"CMP_NE", P(1), R(c.r), Imm(0)>>), c))
        f   == GExpr(out.g, e.es[3])
        set == Release(Emit(f.g, <<"MOV", R(out.r), R(f.r)>>), f)
        t   == GExpr(Protect(set, out), e.es[2])
    IN  Val(Release(Guarded(Unprotect(t.g, out), 1, FALSE, <<"MOV", R(out.r), R(t.r)>>), t), out.r, TRUE)

(* An arm whose value, if it has one, goes to register out.                *)
Arm(g, x, out) ==
    LET v == GExpr(g, x)
    IN  Release(IF x.ty = Void THEN v.g ELSE Emit(v.g, <<"MOV", R(out), R(v.r)>>), v)

MaskedConditional(g, e) ==
    LET open == OpenMask(g, e.es[1])
        out  == IF e.es[2].ty = Void THEN NoValue(open) ELSE Make(open, "MOV", <<Imm(0)>>)
        then == Arm(EnterMask(out.g), e.es[2], out.r)
    IN  Val(LeaveMask(g, Arm(ElseMask(g, then), e.es[3], out.r)), out.r, out.o)

UniformConditional(g, e) ==
    LET otherwise == Label(g, "conditional_else", 0)
        end  == Label(g, "conditional_end", 1)
        test == JumpIfZero(NewLabels(g, 2), e.es[1], otherwise)
        out  == IF e.ty = Void THEN NoValue(test) ELSE Alloc(test)
        then == Place(Emit(Arm(out.g, e.es[2], out.r), <<"JMP", Lab(end)>>), otherwise)
    IN  Val(Place(Arm(then, e.es[3], out.r), end), out.r, out.o)

GConditional(g, e) ==
    LET c == e.es[1]
    IN  IF ~c.u /\ IsInteger(e.ty) /\ \A i \in 1..3 : Cheap(e.es[i]) THEN CheapConditional(g, e)
        ELSE IF ~c.u \/ g.guard # NoGuard THEN MaskedConditional(g, e)
        ELSE UniformConditional(g, e)

(* && and ||: the right operand is skipped if the left one decides.        *)
GLogical(g, e) ==
    LET and  == e.f = "&&"
        out  == Alloc(g)
        end  == Label(g, "logical_end", 0)
        l    == GExpr(NewLabels(out.g, 1), e.es[1])
        test == Release(Emit(l.g, <<"CMP_NE", P(0), R(l.r), Imm(0)>>), l)
        jump == Emits(test, IF and THEN << <<"MOV", R(out.r), Imm(0)>>, <<"NOTMASK", P(1), P(0)>>,
                                           <<"JMP_IF_ANY", P(1), Lab(end)>> >>
                            ELSE << <<"MOV", R(out.r), Imm(1)>>, <<"JMP_IF_ANY", P(0), Lab(end)>> >>)
        r    == GExpr(Protect(jump, out), e.es[2])
        last == Release(Emit(Unprotect(r.g, out),
                             <<IF and THEN "CMP_NE" ELSE "CMP_EQ", P(0), R(r.r), Imm(0)>>), r)
    IN  Val(Place(Guarded(last, 0, FALSE, <<"MOV", R(out.r), Imm(Flag(and))>>), end), out.r, TRUE)

----------------------------------------------------------------------------
(* Intrinsics.                                                             *)
GValues(g, es) ==
    LET r == FoldFlat(LAMBDA a, x : LET v == GExpr(a.g, x)
                                    IN  [g |-> Protect(v.g, v), vs |-> Append(a.vs, [r |-> v.r, o |-> v.o])],
                      [g |-> g, vs |-> <<>>], es)
    IN  [r EXCEPT !.g = FoldFlat(Unprotect, @, r.vs)]

Byte == WordBits \div 4      \* bits of a colour component: 8 of 32

GArgb(g, es) ==
    LET a    == GValues(g, es)
        mask == Imm(2^Byte - 1)
        v(i) == R(a.vs[i].r)
        out  == MakeFrom(a.g, "AND", <<v(1), mask>>, <<a.vs[1]>>)
        comp == Alloc(Emit(out.g, <<"SHL", R(out.r), R(out.r), Imm(3 * Byte)>>))
        c    == R(comp.r)
        part(i) == << <<"AND", c, v(i), mask>> >>
                   \o (IF i = 4 THEN <<>> ELSE << <<"SHL", c, c, Imm((4 - i) * Byte)>> >>)
                   \o << <<"OR", R(out.r), R(out.r), c>> >>
    IN  Val(Free(Releases(Emits(comp.g, part(2) \o part(3) \o part(4)), Tail(a.vs)), comp.r), out.r, TRUE)

GSetPixel(g, es) ==
    LET a    == GValues(g, es)
        v(i) == R(a.vs[i].r)
        adr  == Make(a.g, "MUL", <<v(2), Imm(VIDEO_WIDTH)>>)
        code == Emits(adr.g, << <<"ADD", R(adr.r), R(adr.r), v(1)>>, <<"ADD", R(adr.r), R(adr.r), Imm(VIDEO_BASE)>>,
                                <<"STORE", R(adr.r), v(3)>> >>)
    IN  NoValue(Free(Releases(code, a.vs), adr.r))

GTryRecv(g, es) ==
    LET a    == GValues(g, es)
        pay  == Alloc(a.g)
        meta == Alloc(pay.g)
        got  == Alloc(meta.g)
        recv == Emits(got.g, << <<"MOV", R(pay.r), Imm(0)>>, <<"MOV", R(meta.r), Imm(0)>>,
                                <<"TRY_RECV", P(0), R(pay.r), R(meta.r)>>, <<"MOV", R(got.r), Imm(0)>> >>)
        code == FoldFlat(LAMBDA h, i : Guarded(h, 0, FALSE, i), recv,
                         << <<"MOV", R(got.r), Imm(1)>>, <<"STORE", R(a.vs[1].r), R(pay.r)>>,
                            <<"STORE", R(a.vs[2].r), R(meta.r)>> >>)
    IN  Val(Free(Free(Releases(code, a.vs), pay.r), meta.r), got.r, TRUE)

GBroadcast(g, es) ==
    LET v    == GExpr(g, es[1])
        out  == Alloc(v.g)
        lane == GExpr(Protect(out.g, v), es[2])
    IN  IF es[2].k = "lit"
        THEN Val(Release(Emit(out.g, <<"BROADCAST", R(out.r), R(v.r), Imm(es[2].v)>>), v), out.r, TRUE)
        ELSE Val(Releases(Emit(Unprotect(lane.g, v), <<"SHUFFLE", R(out.r), R(v.r), R(lane.r)>>), <<lane, v>>),
                 out.r, TRUE)

(* The lanes where a condition is not 0, as bits of a word.                *)
GBallot(g, x) ==
    LET v    == GExpr(g, x)
        bit  == Alloc(v.g)
        sel  == Alloc(bit.g)
        code == Emits(sel.g, << <<"MOV", R(bit.r), Imm(1)>>, <<"SHL", R(bit.r), R(bit.r), R(LANE_REG)>>,
                                <<"CMP_NE", P(0), R(v.r), Imm(0)>>, <<"MOV", R(sel.r), Imm(0)>> >>)
        set  == Free(Guarded(Release(code, v), 0, FALSE, <<"MOV", R(sel.r), R(bit.r)>>), bit.r)
        out  == Make(set, "REDUCE_OR", <<R(sel.r)>>)
    IN  Val(Free(out.g, sel.r), out.r, TRUE)

GVote(g, m, x) ==
    LET v    == GExpr(g, x)
        norm == Alloc(v.g)
        code == Emits(norm.g, << <<"CMP_NE", P(0), R(v.r), Imm(0)>>, <<"MOV", R(norm.r), Imm(0)>> >>)
        out  == Make(Guarded(Release(code, v), 0, FALSE, <<"MOV", R(norm.r), Imm(1)>>), m, <<R(norm.r)>>)
    IN  Val(Free(out.g, norm.r), out.r, TRUE)

Unbias(v) == Val(Emit(v.g, <<"XOR", R(v.r), R(v.r), Imm(SIGN_BIT)>>), v.r, TRUE)

GReduceSigned(g, m, x) ==
    LET v   == GExpr(g, x)
        b   == Biased(v.g, v.r)
    IN  Unbias(MakeFrom(Release(b.g, v), m, <<R(b.r)>>, <<b>>))

GMinMax(g, m, sg, es) ==
    LET p == Pair(g, es[1], es[2])
        a == Biased(p.g, p.l.r)
        b == Biased(Release(a.g, p.l), p.r.r)
    IN  IF sg THEN Unbias(MakeFrom(Release(b.g, p.r), m, <<R(a.r), R(b.r)>>, <<a, b>>))
        ELSE MakeFrom(p.g, m, <<R(p.l.r), R(p.r.r)>>, <<p.l, p.r>>)

GIntrinsic(g, e) ==
    LET f == e.f
        v == GExpr(g, e.es[1])
        p == Pair(g, e.es[1], e.es[2])
        a == GValues(g, e.es)
    IN  CASE f = "LaneId" -> Val(g, LANE_REG, FALSE)
          [] f = "VmId" -> Make(g, "VMID", <<>>)
          [] f = "Framebuffer" -> Make(g, "MOV", <<Imm(VIDEO_BASE)>>)
          [] f = "Flip" -> NoValue(Raw(g, <<"FLIP">>))
          [] f = "Argb" -> GArgb(g, e.es)
          [] f = "SetPixel" -> GSetPixel(g, e.es)
          [] f = "Send" -> NoValue(Releases(Emit(a.g, <<"SEND", R(a.vs[1].r), R(a.vs[2].r), R(a.vs[3].r)>>), a.vs))
          [] f = "TryRecv" -> GTryRecv(g, e.es)
          [] f = "Broadcast" -> GBroadcast(g, e.es)
          [] f = "Shuffle" -> MakeFrom(p.g, "SHUFFLE", <<R(p.l.r), R(p.r.r)>>, <<p.l, p.r>>)
          [] f = "ShuffleXor" -> MakeFrom(v.g, "SHUFFLE_XOR", <<R(v.r), Imm(e.es[2].v)>>, <<v>>)
          [] f = "Ballot" -> GBallot(g, e.es[1])
          [] f = "Any" -> GVote(g, "REDUCE_OR", e.es[1])
          [] f = "All" -> GVote(g, "REDUCE_AND", e.es[1])
          [] f = "MinSigned" -> GReduceSigned(g, "REDUCE_MIN", e.es[1])
          [] f = "MaxSigned" -> GReduceSigned(g, "REDUCE_MAX", e.es[1])
          [] f \in {"MIN", "MAX"} -> GMinMax(g, f, e.sg, e.es)
          [] OTHER -> MakeFrom(v.g, f, <<R(v.r)>>, <<v>>)

----------------------------------------------------------------------------
(* Calls.  The frame of a call holds, a slot of LANES words each: the      *)
(* registers to keep, the arguments, the result.                           *)
Slot(n) == << <<"S_BCAST", R(STACK_ADDR_REG), SP>> >>
           \o (IF n = 0 THEN <<>> ELSE << <<"ADD", R(STACK_ADDR_REG), R(STACK_ADDR_REG), Imm(n * LANES)>> >>)
           \o << <<"ADD", R(STACK_ADDR_REG), R(STACK_ADDR_REG), R(LANE_REG)>> >>

PushSlot(n, r) == Append(Slot(n), <<"STORE", R(STACK_ADDR_REG), R(r)>>)
PopSlot(n, r)  == Append(Slot(n), <<"LOAD", R(r), R(STACK_ADDR_REG)>>)
MoveStack(n)   == IF n = 0 THEN <<>> ELSE << <<"S_ADD_I", SP, SP, Imm(n)>> >>

(* The vector and scalar registers a call must not destroy: the homes of   *)
(* the locals live after it, and the values an expression around it holds. *)
LiveHomes(g, site, k) ==
    {g.home[x[2]].n : x \in {y \in g.out : y[1] = site /\ g.home[y[2]].k = k}}
Ascending(regs) == [i \in 1..Cardinality(regs) |-> CHOOSE r \in regs : Cardinality({q \in regs : q < r}) = i - 1]
SavedVectors(g, site) == Ascending(LiveHomes(g, site, "vector") \cup {r \in DOMAIN g.prot : g.prot[r] # 0})
SavedScalars(g, site) == Ascending(LiveHomes(g, site, "scalar"))

GCall(g, e) ==
    LET fn    == g.p.fns[e.f]
        a     == GValues(g, e.es)
        saved == SavedVectors(a.g, e.v)
        scals == SavedScalars(a.g, e.v)
        args  == Len(saved) + Len(scals)        \* the first slot of an argument
        ret   == args + Len(a.vs)
        value == fn.ret # Void
        words == (ret + Flag(value)) * LANES
        each(n, F(_)) == FlattenSeq([i \in 1..n |-> F(i)])
        scalar(i) == Len(saved) + i - 1
        pushScalar(i) == Slot(scalar(i)) \o << <<"S_BCAST", R(15), S(scals[i])>>, <<"STORE", R(STACK_ADDR_REG), R(15)>> >>
        popScalar(i)  == PopSlot(scalar(i), 15) \o << <<"S_GET", S(scals[i]), R(15)>> >>
        load(i)  == IF fn.params[i].uniform THEN PopSlot(args + i - 1, 15) \o << <<"S_GET", S(i - 1), R(15)>> >>
                    ELSE PopSlot(args + i - 1, i - 1)
        result   == IF ~value THEN <<>>
                    ELSE IF fn.retuniform
                    THEN Slot(ret) \o << <<"S_BCAST", R(15), S(0)>>, <<"STORE", R(STACK_ADDR_REG), R(15)>> >>
                    ELSE PushSlot(ret, 0)
        code == Emits(a.g, MoveStack(-words)
                           \o each(Len(saved), LAMBDA i : PushSlot(i - 1, saved[i]))
                           \o each(Len(scals), pushScalar)
                           \o each(Len(a.vs), LAMBDA i : PushSlot(args + i - 1, a.vs[i].r))
                           \o each(Len(a.vs), load)
                           \o << <<"CALL", Lab(FunctionLabel(e.f))>> >>
                           \o result
                           \o each(Len(saved), LAMBDA i : PopSlot(i - 1, saved[i]))
                           \o each(Len(scals), popScalar))
        out  == Alloc(Releases(code, a.vs))
    IN  IF value THEN Val(Emits(out.g, PopSlot(ret, out.r) \o MoveStack(words)), out.r, TRUE)
        ELSE NoValue(Emits(Releases(code, a.vs), MoveStack(words)))

----------------------------------------------------------------------------
GUnary(g, e) ==
    LET v == GExpr(g, e.es[1])
        c == Compare(v.g, "CMP_EQ", R(v.r), Imm(0))
    IN  CASE e.f = "+" -> v
          [] e.f = "-" -> MakeFrom(v.g, "NEG", <<R(v.r)>>, <<v>>)
          [] e.f = "~" -> MakeFrom(v.g, "NOT", <<R(v.r)>>, <<v>>)
          [] e.f = "!" -> Val(Release(c.g, v), c.r, TRUE)

GBinary(g, e) ==
    LET p   == Pair(g, e.es[1], e.es[2])
        out == EmitBinary(p.g, e.f, e.sg, p.l.r, p.r.r)
        l   == GExpr(g, e.es[1])
    IN  CASE e.f = "," -> GExpr(Release(l.g, l), e.es[2])
          [] e.f \in {"&&", "||"} -> GLogical(g, e)
          [] OTHER -> Val(Releases(out.g, <<p.l, p.r>>), out.r, TRUE)

GPointerDiff(g, e) ==
    LET p     == Pair(g, e.es[1], e.es[2])
        delta == MakeFrom(p.g, "SUB", <<R(p.l.r), R(p.r.r)>>, <<p.l, p.r>>)
        by    == Make(delta.g, "MOV", <<Imm(e.v)>>)
        out   == SignedDivMod(by.g, "/", delta.r, by.r)
    IN  IF e.v = 1 THEN delta ELSE Val(Free(Free(out.g, by.r), delta.r), out.r, TRUE)

GExpr(g, e) ==
    CASE g.err # "" -> NoValue(g)
      [] e.k \in {"lit", "string"} -> Make(g, "MOV", <<Imm(e.v)>>)
      [] e.k = "intrin" -> GIntrinsic(g, e)
      [] e.k \in LValueKinds -> IF IsScalar(e.ty) THEN GLoad(g, e) ELSE GAddress(g, e)
      [] e.k = "addr" -> GAddress(g, e.es[1])
      [] e.k = "unary" -> GUnary(g, e)
      [] e.k = "binary" -> GBinary(g, e)
      [] e.k = "cond" -> GConditional(g, e)
      [] e.k = "ptradd" -> PointerAdd(g, IF e.f = "-" THEN "SUB" ELSE "ADD", e.es[1], e.es[2], e.v)
      [] e.k = "ptrdiff" -> GPointerDiff(g, e)
      [] e.k = "assign" -> GAssign(g, e)
      [] e.k = "incdec" -> GIncDec(g, e)
      [] e.k = "call" -> GCall(g, e)
      [] e.k = "inline" ->
           GExpr(FoldFlat(LAMBDA h, st : IF st.k = "decl" THEN GDecl(h, st)
                                         ELSE LET v == GExpr(h, st.x[1][1]) IN Release(v.g, v), g, e.ss),
                 e.es[1])

----------------------------------------------------------------------------
(* Statements.                                                             *)
(* One store per word of a local in the frame, of the n-th value of words. *)
StoreWord(g, l, n, word) ==
    LET a == LocalAddress(g, l, n - 1)
        v == Make(a.g, "MOV", <<Imm(word)>>)
    IN  Release(Free(Emit(v.g, <<"STORE", R(a.r), R(v.r)>>), v.r), a)

FrameDecl(g, st) ==
    LET l    == st.v
        size == TypeSize(g.p.locals[l].ty, g.p.structs)
        v    == GExpr(g, st.x[1][1])
        a    == LocalAddress(v.g, l, 0)
        zero == Make(g, "MOV", <<Imm(0)>>)
        at   == Alloc(zero.g)
        clear == FlattenSeq([n \in 1..size |-> AddressInto(R(at.r), g, l, n - 1) \o << <<"STORE", R(at.r), R(zero.r)>> >>])
    IN  CASE st.x[1] # <<>> -> Releases(Emit(a.g, <<"STORE", R(a.r), R(v.r)>>), <<a, v>>)
          [] st.words # <<>> -> FoldFlat(LAMBDA h, n : StoreWord(h, l, n, IF n > Len(st.words) THEN 0 ELSE st.words[n]),
                                         g, [n \in 1..size |-> n])
          [] OTHER -> Free(Free(Emits(at.g, clear), at.r), zero.r)

GDecl(g0, st) ==
    LET l    == st.v
        home == g0.home[l]
        e    == Typed("local", "", l, g0.p.locals[l].ty, FALSE, <<>>)
        decl(g) == LET v == GExpr(g, st.x[1][1])
                   IN  CASE home.k = "frame" -> NoValue(FrameDecl(g, st))
                         [] st.x[1] # <<>> -> NoValue(Release(GStore(v.g, e, v.r), v))
                         [] home.k = "vector" -> NoValue(Emit(g, <<"MOV", R(home.n), Imm(0)>>))
                         [] OTHER -> NoValue(Emit(g, <<"S_MOV_I", S(home.n), Imm(0)>>))
    IN  UniformWrite(g0, l, decl).g

ExactLane(c) ==
    LET lane(x) == x.k = "intrin" /\ x.f = "LaneId"
        lit(x)  == x.k = "lit" /\ x.v < LANES
    IN  CASE c.k # "binary" \/ c.f # "==" -> {}
          [] lit(c.es[2]) /\ lane(c.es[1]) -> {c.es[2].v}
          [] lit(c.es[1]) /\ lane(c.es[2]) -> {c.es[1].v}
          [] OTHER -> {}

RECURSIVE CheapLValue(_), SimplePredicated(_)
CheapLValue(e) ==
    CASE e.k \in {"local", "global"} -> TRUE
      [] e.k \in {"deref", "index"} -> \A i \in DOMAIN e.es : Cheap(e.es[i])
      [] e.k = "member" -> CheapLValue(e.es[1])
SimplePredicated(st) ==
    \/ st.k = "expr" /\ st.x[1] # <<>> /\ st.x[1][1].k = "assign"
         /\ CheapLValue(st.x[1][1].es[1]) /\ Cheap(st.x[1][1].es[2])
    \/ st.k = "block" /\ Len(st.ss) = 1 /\ SimplePredicated(st.ss[1])

LaneIf(g, lane, st) ==
    LET body == GStmt([Raw(g, <<"CMP_EQ", P(3), R(LANE_REG), Imm(lane)>>) EXCEPT !.guard = 3], st)
    IN  [body EXCEPT !.guard = NoGuard]

MaskedIf(g, c, ss) ==
    LET then == GStmt(EnterMask(OpenMask(g, c)), ss[1])
    IN  LeaveMask(g, IF Len(ss) = 2 THEN GStmt(ElseMask(g, then), ss[2]) ELSE then)

UniformIf(g, c, ss) ==
    LET otherwise == Label(g, "if_else", 0)
        end  == Label(g, "if_end", 1)
        then == GStmt(JumpIfZero(NewLabels(g, 2), c, otherwise), ss[1])
    IN  IF Len(ss) = 1 THEN Place(then, otherwise)
        ELSE Place(GStmt(Place(Emit(then, <<"JMP", Lab(end)>>), otherwise), ss[2]), end)

GIf(g, c, ss) ==
    IF Len(ss) = 1 /\ g.guard = NoGuard /\ ExactLane(c) # {} /\ SimplePredicated(ss[1])
    THEN LaneIf(g, Min(ExactLane(c)), ss[1])
    ELSE IF ~c.u \/ g.guard # NoGuard THEN MaskedIf(g, c, ss)
    ELSE UniformIf(g, c, ss)

(* The body of a loop or switch: where break and continue go in it.        *)
Within(g, brk, cont, st) ==
    [GStmt([g EXCEPT !.controls = Append(@, [brk |-> brk, cont |-> cont])], st) EXCEPT !.controls = g.controls]

GWhile(g, c, st) ==
    LET top  == Label(g, "while_condition", 0)
        end  == Label(g, "while_end", 1)
        test == JumpIfZero(Place(NewLabels(g, 2), top), c, end)
    IN  Place(Emit(Within(test, end, <<top>>, st), <<"JMP", Lab(top)>>), end)

GDo(g, c, st) ==
    LET top  == Label(g, "do_body", 0)
        test == Label(g, "do_condition", 1)
        end  == Label(g, "do_end", 2)
        body == Within(Place(NewLabels(g, 3), top), end, <<test>>, st)
    IN  Place(JumpIfNonzero(Place(body, test), c, top), end)

Discard(g, x) == IF x = <<>> THEN g ELSE LET v == GExpr(g, x[1]) IN Release(v.g, v)

(* The labels of a for loop, and the one that continue jumps to.           *)
\* Fault: continue skips the step.
ForContinueAtTest(g) == Label(g, "for_condition", 0)
ForContinue(g)       == Label(g, "for_step", 1)
GFor(g, st) ==
    LET init == IF ForDecl(st) THEN GDecl(g, st.ss[1]) ELSE Discard(g, st.x[1])
        top  == Label(init, "for_condition", 0)
        end  == Label(init, "for_end", 2)
        test == LET h == Place(NewLabels(init, 3), top)
                IN  IF st.x[2] = <<>> THEN h ELSE JumpIfZero(h, st.x[2][1], end)
        body == Within(test, end, <<ForContinue(init)>>, Last(st.ss))
        step == Place(body, Label(init, "for_step", 1))
    IN  Place(Emit(Discard(step, st.x[3]), <<"JMP", Lab(top)>>), end)

(* A chain of comparisons, then the default or the end.                    *)
GSwitch(g, st) ==
    LET end    == Label(g, "switch_end", 0)
        target(i) == Label(g, "switch_case", i)
        v      == GExpr(NewLabels(g, 1 + Len(st.labels)), st.x[1][1])
        cases  == SelectSeq([i \in DOMAIN st.labels |-> i], LAMBDA i : st.labels[i].val # <<>>)
        tests  == FlattenSeq([j \in DOMAIN cases |->
                    << <<"CMP_EQ", P(0), R(v.r), Imm(st.labels[cases[j]].val[1])>>,
                       <<"JMP_IF_ANY", P(0), Lab(target(cases[j]))>> >>])
        default == {i \in DOMAIN st.labels : st.labels[i].val = <<>>}
        jump   == <<"JMP", Lab(IF default = {} THEN end ELSE target(Min(default)))>>
        body   == [Release(Emits(v.g, Append(tests, jump)), v)
                   EXCEPT !.labels = @ \cup {<<st.labels[i].id, target(i)>> : i \in DOMAIN st.labels}]
    IN  Place(Within(body, end, <<>>, st.ss[1]), end)

(* emit_return.                                                            *)
\* Fault: the frame is left on the stack.
LeaveFrame(g) == Emit(g, <<IF g.fn.name = "main" THEN "HALT" ELSE "RET">>)
Leave(g) == Emits(g, MoveStack(g.frame * LANES) \o << <<IF g.fn.name = "main" THEN "HALT" ELSE "RET">> >>)

GReturn(g, x) ==
    LET v == GExpr(g, x[1])
    IN  CASE x = <<>> -> Leave(g)
          [] g.fn.retuniform -> Leave(Release(Emit(v.g, <<"S_GET", S(0), R(v.r)>>), v))
          [] OTHER -> Leave(Release(IF v.r = 0 THEN v.g ELSE Emit(v.g, <<"MOV", R(0), R(v.r)>>), v))

GStmt(g0, st) ==
    LET g == [Advance(g0, g0.point) EXCEPT !.point = @ + 1]
        continues == SelectSeq(g.controls, LAMBDA c : c.cont # <<>>)
    IN  CASE g0.err # "" -> g0
          [] st.k = "decl" -> GDecl(g, st)
          [] st.k = "expr" -> Discard(g, st.x[1])
          [] st.k = "return" -> GReturn(g, st.x[1])
          [] st.k = "block" -> FoldFlat(GStmt, g, st.ss)
          [] st.k = "if" -> GIf(g, st.x[1][1], st.ss)
          [] st.k = "while" -> GWhile(g, st.x[1][1], st.ss[1])
          [] st.k = "do" -> GDo(g, st.x[1][1], st.ss[1])
          [] st.k = "for" -> GFor(g, st)
          [] st.k = "break" -> Emit(g, <<"JMP", Lab(Last(g.controls).brk)>>)
          [] st.k = "continue" -> Emit(g, <<"JMP", Lab(Last(continues).cont[1])>>)
          [] st.k = "switch" -> GSwitch(g, st)
          [] st.k \in {"case", "default"} ->
               GStmt(Place(g, (CHOOSE x \in g.labels : x[1] = st.v)[2]), st.ss[1])

----------------------------------------------------------------------------
(* Functions and the program.                                              *)
NewGenerator(p) ==
    [p |-> p, err |-> "", code |-> <<>>, used |-> {}, active |-> {}, home |-> <<>>, span |-> <<>>, out |-> {},
     prot |-> [r \in 0..ALLOCATABLE_REGS - 1 |-> 0], nlabel |-> 0, controls |-> <<>>, labels |-> {},
     guard |-> NoGuard, masks |-> 0, point |-> 1, frame |-> 0, fn |-> <<>>]

(* The prologue: the frame, and the parameters that live in it.            *)
Prologue(g, fn) ==
    LET params == [i \in DOMAIN fn.params |-> i]
        inFrame(i) == g.home[fn.params[i]].k = "frame"
        store(h, i) == LET a == LocalAddress(h, fn.params[i], 0)
                       IN  Free(Release(Emit(a.g, <<"STORE", R(a.r), R(i - 1)>>), a), i - 1)
    IN  FoldFlat(store, Emits(Place(g, FunctionLabel(fn.name)), MoveStack(-(g.frame * LANES))),
                 SelectSeq(params, inFrame))

(* What runs off the end of a body returns 0.                              *)
Epilogue(g, fn) ==
    Leave(CASE fn.name = "main" \/ (fn.ret # Void /\ ~fn.retuniform) -> Emit(g, <<"MOV", R(0), Imm(0)>>)
            [] fn.ret # Void /\ fn.retuniform -> Emit(g, <<"S_MOV_I", S(0), Imm(0)>>)
            [] OTHER -> g)

FunctionWithLimit(g, fn, vectors) ==
    LET a    == Allocate(g.p, fn, vectors)
        used == {i - 1 : i \in {j \in DOMAIN fn.params : a.home[fn.params[j]].k = "vector"}}
        new  == [NewGenerator(g.p) EXCEPT
                   !.code = g.code, !.nlabel = g.nlabel, !.used = used, !.active = Range(fn.params),
                   !.home = a.home, !.span = a.span, !.out = a.out, !.frame = a.words, !.fn = fn]
    IN  IF ~a.ok THEN Fails(g, "frame exceeds RAM")
        ELSE Epilogue(FoldFlat(GStmt, Prologue(new, fn), fn.body), fn)

(* Fewer homes are tried while temporaries run out.                        *)
RECURSIVE GFunction(_, _, _)
GFunction(g, fn, vectors) ==
    LET h == FunctionWithLimit(g, fn, vectors)
    IN  IF h.err = "temporary" /\ vectors > MIN_LOCAL_VECTOR_REGS THEN GFunction(g, fn, vectors - 1) ELSE h

(* The initial values of the data, written by lane 0.                      *)
InitialData(g) ==
    LET words == SelectSeq([i \in DOMAIN g.p.data |-> i], LAMBDA i : g.p.data[i] # 0)
    IN  IF words = <<>> THEN g
        ELSE FoldFlat(LAMBDA h, i : Guarded(Emits(h, << <<"MOV", R(0), Imm(i - 1)>>,
                                                        <<"MOV", R(1), Imm(g.p.data[i])>> >>),
                                            0, FALSE, <<"STORE", R(0), R(1)>>),
                      Emit(g, <<"CMP_EQ", P(0), R(LANE_REG), Imm(0)>>), words)

(* generate: the assembly of the program, or the diagnostic in err.        *)
Generate(p) ==
    LET entry == Emits(Place(NewGenerator(p), FunctionLabel("")),
                       << <<"LANEID", R(LANE_REG)>>, <<"S_MOV_I", SP, Imm(STACK_TOP)>> >>)
        start == Emit(InitialData(entry), <<"JMP", Lab(FunctionLabel("main"))>>)
    IN  FoldFlat(LAMBDA g, fn : IF g.err # "" THEN g ELSE GFunction(g, fn, MAX_LOCAL_VECTOR_REGS),
                 start, p.functions)
=============================================================================
