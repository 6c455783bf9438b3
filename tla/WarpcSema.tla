------------------------------ MODULE WarpcSema ------------------------------
(***************************************************************************)
(* The semantic analysis of warpc (sema.rs): names, types, uniformity,     *)
(* inlining of small helpers, switch labels and the call graph.            *)
(*                                                                         *)
(* The analyzer is a record s that every operator takes and returns; s.err *)
(* holds the first diagnostic, and Then skips what would follow it.  A     *)
(* typed expression is [k, f, v, sg, ty, u, es, ss]: kind, operator or     *)
(* name, number (literal, local, address, scale or offset), whether its    *)
(* operands are signed (or the update is postfix), type, uniformity,       *)
(* operands and, for an inlined call, statements.  An lvalue is an         *)
(* expression of one of the LValueKinds.                                   *)
(***************************************************************************)
EXTENDS WarpcTypes

CONSTANTS MAX_INLINE_STATEMENTS, MAX_INLINE_AST_NODES    \* 6 and 48

LValueKinds == {"local", "global", "deref", "index", "member"}

Typed(k, f, v, ty, u, es) ==
    [k |-> k, f |-> f, v |-> v, sg |-> FALSE, ty |-> ty, u |-> u, es |-> es, ss |-> <<>>]
Lit(v, ty) == Typed("lit", "", v, ty, TRUE, <<>>)
TStmt(k, v, x, ss) == [k |-> k, v |-> v, x |-> x, ss |-> ss, words |-> <<>>, labels |-> <<>>]

Res(s, e)     == [s |-> s, e |-> e]
Err(s, what)  == Res([s EXCEPT !.err = what], Lit(0, SInt))
Then(r, F(_)) == IF r.s.err = "" THEN F(r) ELSE r
Check(r, ok, what) == IF r.s.err # "" \/ ok THEN r ELSE Err(r.s, what)

Lookup(s, name) ==
    LET hits == {j \in DOMAIN s.env : s.env[j].name = name}
    IN  IF hits = {} THEN 0 ELSE s.env[Max(hits)].id

GlobalOf(s, name) ==
    LET hits == {j \in DOMAIN s.globals : s.globals[j].name = name}
    IN  IF hits = {} THEN 0 ELSE Max(hits)

PushScope(s) == [s EXCEPT !.scope = @ + 1]
PopScope(s)  == [s EXCEPT !.scope = @ - 1,
                          !.env = SelectSeq(@, LAMBDA b : b.scope < s.scope)]

(* A new local, bound to its name in the innermost scope.                  *)
AddLocal(s, name, ty, uniform, taken) ==
    [s EXCEPT !.locals = Append(@, [ty |-> ty, uniform |-> uniform, taken |-> taken, offset |-> -1]),
              !.env = Append(@, [name |-> name, id |-> Len(s.locals) + 1, scope |-> s.scope])]

AllocateWords(s, words) == [s EXCEPT !.data = @ \o words]

ValueType(e)     == Decay(e.ty)
IsZeroLiteral(e) == e.k = "lit" /\ e.v = 0

(* require_assignable and require_integer.                                 *)
Assignable(target, e) ==
    \/ IsInteger(target) /\ IsInteger(ValueType(e))
    \/ CompatiblePointers(target, ValueType(e))
    \/ IsPointer(target) /\ IsZeroLiteral(e)
Integral(e) == IsInteger(ValueType(e))

(* lower_decl_type: the type a declaration names, or base "error".  inferred *)
(* is the length of the string that initializes it, 0 without one.         *)
LowerDeclType(s, d, inferred) ==
    LET len == CASE d.array = <<>> -> 0
                 [] d.array = << <<>> >> -> IF inferred = 0 THEN NotConst ELSE inferred
                 [] OTHER -> LET n == ConstantAst(d.array[1][1])
                             IN  IF n \in 1..RAM_SIZE_WORDS THEN n ELSE NotConst
        bad == \/ len = NotConst
               \/ d.base = "struct" /\ d.tag \notin DOMAIN s.structs
               \/ d.base = "void" /\ d.pointers = 0 /\ len # 0
    IN  [base |-> IF bad THEN "error" ELSE d.base, tag |-> d.tag, ptr |-> d.pointers, arr |-> len]

Bad(ty) == ty.base = "error"

StringLength(x) == IF x # <<>> /\ x[1].k = "string" THEN Len(x[1].v) ELSE 0

(* mark_address_taken: the local under the members of an lvalue.           *)
RECURSIVE MarkTaken(_, _)
MarkTaken(s, e) ==
    CASE e.k = "local" -> [s EXCEPT !.locals[e.v].taken = TRUE]
      [] e.k = "member" -> MarkTaken(s, e.es[1])
      [] OTHER -> s

----------------------------------------------------------------------------
(* Expressions.                                                            *)
RECURSIVE AExpr(_, _), AExprs(_, _, _), AStmt(_, _), AStmts(_, _, _)

AExprs(s, es, done) ==
    IF es = <<>> THEN Res(s, done)
    ELSE Then(AExpr(s, Head(es)), LAMBDA r : AExprs(r.s, Tail(es), Append(done, r.e)))

AName(s, name) ==
    LET l == Lookup(s, name)
        g == GlobalOf(s, name)
    IN  CASE name = "WARP" -> Res(s, Typed("intrin", "LaneId", 0, SInt, FALSE, <<>>))
          [] name \in DOMAIN BuiltinConstants -> Res(s, Lit(BuiltinConstants[name], UInt))
          [] l # 0 -> Res(s, Typed("local", "", l, s.locals[l].ty, s.locals[l].uniform, <<>>))
          [] g # 0 -> Res(s, Typed("global", "", s.globals[g].address, s.globals[g].ty, TRUE, <<>>))
          [] OTHER -> Err(s, "unknown identifier")

ASizeof(s, ty) == IF Bad(ty) \/ TypeSize(ty, s.structs) = 0 THEN Err(s, "sizeof incomplete type")
                  ELSE Res(s, Lit(TypeSize(ty, s.structs), UInt))

(* min and max fold two literals, else they are intrinsics.                *)
MinMax(s, name, args) ==
    IF Len(args) # 2 THEN Err(s, "arity")
    ELSE Then(AExprs(s, args, <<>>), LAMBDA r :
        LET l      == r.e[1]
            m      == r.e[2]
            ty     == UsualType(ValueType(l), ValueType(m))
            signed == ty = SInt
            first  == COp(IF name = "min" THEN "<=" ELSE ">=", signed, l.v, m.v) = 1
            f      == (IF name = "min" THEN "MIN" ELSE "MAX")
        IN  IF ~Integral(l) \/ ~Integral(m) THEN Err(r.s, "min/max argument must be an integer")
            ELSE IF l.k = "lit" /\ m.k = "lit" THEN Res(r.s, Lit(IF first THEN l.v ELSE m.v, ty))
            ELSE Res(r.s, [Typed("intrin", f, 0, ty, l.u /\ m.u, r.e) EXCEPT !.sg = signed]))

Intrinsic(s, sig, args) ==
    LET mask == IF sig.f = "ShuffleXor" /\ Len(args) = 2 THEN ConstantAst(args[2]) ELSE 0
    IN  IF Len(args) # sig.n THEN Err(s, "arity")
        ELSE IF mask \notin 0..LANES - 1 THEN Err(s, "mask must be a constant lane")
        ELSE IF sig.f \in Collectives \cup {"Flip", "Send", "TryRecv"} /\ s.depth # 0
             THEN Err(s, "not allowed inside divergent control flow")
        ELSE Then(AExprs(s, args, <<>>), LAMBDA r :
             LET arg(e) == IF sig.f = "TryRecv" THEN ValueType(e) = PointerTo(UInt) ELSE Integral(e)
                 es == IF sig.f = "ShuffleXor" THEN <<r.e[1], Lit(mask, r.e[2].ty)>> ELSE r.e
             IN  Check(Check(Res(r.s, Typed("intrin", sig.f, 0, sig.ty,
                                            ResultUniform(sig, [i \in DOMAIN es |-> es[i].u]), es)),
                             \A i \in DOMAIN r.e : arg(r.e[i]), "argument type"),
                       \A i \in DOMAIN es : RequiresUniform(sig.f, i) => es[i].u,
                       "argument must be uniform"))

(* The arguments of a call against the parameters of the function.         *)
ACallArgs(s, fn, args) ==
    Then(AExprs(s, args, <<>>), LAMBDA r :
         Check(Check(r, \A i \in DOMAIN r.e : Assignable(fn.params[i].ty, r.e[i]), "argument type"),
               \A i \in DOMAIN r.e : fn.params[i].uniform => r.e[i].u,
               "varying argument passed to uniform parameter"))

(* inline_call: parameters and locals of the helper become locals of the   *)
(* caller that live in its frame, in a scope inside the caller's scopes.   *)
RECURSIVE BindParams(_, _, _, _)
BindParams(s, params, args, ss) ==
    IF params = <<>> THEN Res(s, ss)
    ELSE LET p == Head(params)
         IN  BindParams(AddLocal(s, p.name, p.ty, p.uniform, TRUE), Tail(params), Tail(args),
                        Append(ss, TStmt("decl", Len(s.locals) + 1, << <<Head(args)>> >>, <<>>)))

InlineCall(s, fn, args) ==
    LET body == fn.body[1].ss
        decls(ss) == {ss[i].v : i \in {j \in DOMAIN ss : ss[j].k = "decl"}}
    IN  Then(ACallArgs(s, fn, args), LAMBDA a :
        LET b == BindParams(PushScope(a.s), fn.params, a.e, <<>>) IN
        Then(AStmts(b.s, SubSeq(body, 1, Len(body) - 1), b.e), LAMBDA ss :
        Then(AExpr([ss.s EXCEPT !.locals = [l \in DOMAIN @ |->
                        IF l \in decls(ss.e) THEN [@[l] EXCEPT !.taken = TRUE] ELSE @[l]]],
                   body[Len(body)].x[1][1]), LAMBDA r :
        Check(Check(Res(PopScope(r.s), [Typed("inline", "", 0, fn.ret, fn.retuniform, <<r.e>>)
                                        EXCEPT !.ss = ss.e]),
                    Assignable(fn.ret, r.e), "return value type"),
              fn.retuniform => r.e.u, "varying expression returned from a uniform function"))))

ACall(s, callee, args) ==
    IF callee \in {"min", "max"} THEN MinMax(s, callee, args)
    ELSE IF callee \in DOMAIN Signatures THEN Intrinsic(s, Signatures[callee], args)
    ELSE IF callee \notin DOMAIN s.fns THEN Err(s, "unknown function")
    ELSE LET fn == s.fns[callee]
         IN  CASE callee = "main" -> Err(s, "calling main")
               [] Len(args) # Len(fn.params) -> Err(s, "arity")
               [] callee \in s.inline -> InlineCall(s, fn, args)
               [] s.depth # 0 -> Err(s, "call inside divergent control flow")
               [] OTHER -> Then(ACallArgs(s, fn, args), LAMBDA r :
                     Res([r.s EXCEPT !.edges = @ \cup {<<s.current, callee>>}, !.sites = @ + 1],
                         Typed("call", callee, r.s.sites + 1, fn.ret, fn.retuniform, r.e)))

(* A branch of a condition that may be varying runs one mask deeper.       *)
Masked(s, c)    == ~c.u \/ s.depth # 0
Deeper(s, c)    == IF Masked(s, c) THEN [s EXCEPT !.depth = @ + 1] ELSE s
Shallower(s, d) == [s EXCEPT !.depth = d]

Condition(s, x) == Then(AExpr(s, x), LAMBDA c : Check(c, IsScalar(ValueType(c.e)), "condition type"))
\* Fault: a loop may have a varying condition.
AnyCondition(s, x)     == Condition(s, x)
UniformCondition(s, x) == Then(Condition(s, x), LAMBDA c : Check(c, c.e.u, "condition is varying"))

AConditional(s, es) ==
    Then(Condition(s, es[1]), LAMBDA c :
    IF Masked(c.s, c.e) /\ c.s.depth >= 2 THEN Err(c.s, "divergent nesting exceeds the masks")
    ELSE Then(AExprs(Deeper(c.s, c.e), <<es[2], es[3]>>, <<>>), LAMBDA r :
         LET a  == r.e[1]
             b  == r.e[2]
             ta == ValueType(a)
             tb == ValueType(b)
             ty == CASE ta = Void /\ tb = Void -> Void
                     [] IsInteger(ta) /\ IsInteger(tb) -> UsualType(ta, tb)
                     [] CompatiblePointers(ta, tb) -> IF Pointee(ta) = Void THEN ta ELSE tb
                     [] IsPointer(ta) /\ IsZeroLiteral(b) -> ta
                     [] IsPointer(tb) /\ IsZeroLiteral(a) -> tb
                     [] OTHER -> Scalar("error")
         IN  Check(Res(Shallower(r.s, s.depth),
                       Typed("cond", "", 0, ty, c.e.u /\ a.u /\ b.u, <<c.e, a, b>>)),
                   ~Bad(ty), "conditional arms")))

(* Writing through anything but a local inside a mask gives a varying value. *)
UpdateUniform(s, target, otherwise) ==
    CASE target.k = "local" -> s.locals[target.v].uniform
      [] s.depth # 0 -> FALSE
      [] OTHER -> otherwise

AIncDec(s, op, x) ==
    Then(AExpr(s, x), LAMBDA r :
    LET ty == ValueType(r.e)
    IN  IF ~IsScalar(ty) \/ r.e.k \notin LValueKinds THEN Err(r.s, "increment target")
        ELSE Res(r.s, Typed("incdec", op, IF IsPointer(ty) THEN TypeSize(Pointee(ty), r.s.structs) ELSE 1,
                            ty, UpdateUniform(r.s, r.e, r.e.u), <<r.e>>)))

AUnary(s, op, x) ==
    Then(AExpr(s, x), LAMBDA r :
    LET e  == r.e
        ty == ValueType(e)
    IN  CASE op = "&" ->
               IF e.k \notin LValueKinds THEN Err(r.s, "address-of operand must be an lvalue")
               ELSE IF e.k = "local" /\ r.s.locals[e.v].uniform THEN Err(r.s, "address of a uniform local")
               ELSE Res(MarkTaken(r.s, e),
                        Typed("addr", "", 0, IF IsArray(e.ty) THEN Decay(e.ty) ELSE PointerTo(e.ty), e.u, <<e>>))
          [] op = "*" -> IF ty.ptr = 0 THEN Err(r.s, "dereference of a non-pointer")
                         ELSE Res(r.s, Typed("deref", "", 0, Pointee(ty), e.u, <<e>>))
          [] OTHER -> Check(Res(r.s, Typed("unary", op, 0, IF op = "!" THEN SInt ELSE Promoted(ty), e.u, <<e>>)),
                            IsInteger(ty), "unary operand"))

AIndex(s, es) ==
    Then(AExprs(s, es, <<>>), LAMBDA r :
    LET ty == ValueType(r.e[1])
    IN  IF ~Integral(r.e[2]) \/ ty.ptr = 0 THEN Err(r.s, "indexing")
        ELSE Res(r.s, Typed("index", "", TypeSize(Pointee(ty), r.s.structs), Pointee(ty),
                            r.e[1].u /\ r.e[2].u, r.e)))

AMember(s, x, field, arrow) ==
    Then(AExpr(s, x), LAMBDA r :
    LET b    == r.e
        p    == ValueType(b)
        sty  == IF arrow THEN (IF p.ptr = 0 THEN Void ELSE Pointee(p)) ELSE b.ty
        base == IF arrow THEN Typed("deref", "", 0, sty, b.u, <<b>>) ELSE b
        fs   == IF IsStruct(sty) THEN r.s.structs[sty.tag].fields ELSE <<>>
        hits == {i \in DOMAIN fs : fs[i].name = field}
    IN  IF base.k \notin LValueKinds \/ hits = {} THEN Err(r.s, "member access")
        ELSE LET i == CHOOSE j \in hits : TRUE
             IN  Res(r.s, Typed("member", "", fs[i].offset, fs[i].ty, b.u, <<base>>)))

Relations == {"<", "<=", ">", ">=", "==", "!=", "&&", "||"}

ABinary(s, op, es) ==
    Then(AExprs(s, es, <<>>), LAMBDA r :
    LET l  == r.e[1]
        m  == r.e[2]
        tl == ValueType(l)
        tm == ValueType(m)
        u  == l.u /\ m.u
        add(p, ix) == Res(r.s, Typed("ptradd", op, TypeSize(Pointee(ValueType(p)), r.s.structs),
                                     ValueType(p), u, <<p, ix>>))
        usual == UsualType(tl, tm)
        ty == CASE op \in Relations -> SInt
                [] op \in {"<<", ">>"} -> Promoted(tl)
                [] op = "," -> tm
                [] OTHER -> usual
    IN  CASE op \in {"&&", "||"} /\ (~u \/ r.s.depth # 0) -> Err(r.s, "varying short-circuit")
          [] op \in {"+", "-"} /\ IsPointer(tl) /\ IsInteger(tm) -> add(l, m)
          [] op = "+" /\ IsPointer(tm) /\ IsInteger(tl) -> add(m, l)
          [] op = "-" /\ CompatiblePointers(tl, tm) ->
               Res(r.s, Typed("ptrdiff", "-", TypeSize(Pointee(tl), r.s.structs), SInt, u, r.e))
          [] op \in {"==", "!="} /\ (IsPointer(tl) \/ IsPointer(tm)) ->
               Check(Res(r.s, Typed("binary", op, 0, SInt, u, r.e)),
                     \/ CompatiblePointers(tl, tm)
                     \/ IsPointer(tl) /\ IsZeroLiteral(m)
                     \/ IsPointer(tm) /\ IsZeroLiteral(l), "pointer comparison")
          [] OTHER -> Check(Res(r.s, [Typed("binary", op, 0, ty, u, r.e) EXCEPT !.sg = (usual = SInt)]),
                            IsInteger(tl) /\ IsInteger(tm), "operands must be integers"))

AAssign(s, op, es) ==
    Then(AExprs(s, es, <<>>), LAMBDA r :
    LET l  == r.e[1]
        m  == r.e[2]
        ty == ValueType(l)
        ok == CASE op = "=" -> Assignable(ty, m)
                [] IsPointer(ty) -> op \in {"+=", "-="} /\ Integral(m)
                [] OTHER -> Integral(m)
        scale == IF IsPointer(ty) THEN TypeSize(Pointee(ty), r.s.structs) ELSE 1
        u == UpdateUniform(r.s, l, IF op = "=" THEN m.u ELSE l.u /\ m.u)
    IN  IF ~IsScalar(ty) \/ l.k \notin LValueKinds THEN Err(r.s, "assignment target")
        ELSE IF ~ok THEN Err(r.s, "assignment type")
        ELSE IF l.k = "local" /\ r.s.locals[l.v].uniform /\ ~m.u
             THEN Err(r.s, "varying expression assigned to uniform local")
        ELSE Res(r.s, [Typed("assign", op, scale, ty, u, r.e)
                       EXCEPT !.sg = (~IsPointer(ty) /\ UsualType(ty, ValueType(m)) = SInt)]))

AExpr(s, x) ==
    CASE x.k = "number" -> LET n == ParseInteger(x.v)
                           IN  IF n.v = NotConst THEN Err(s, "integer literal") ELSE Res(s, Lit(n.v, n.ty))
      [] x.k = "charlit" -> Res(s, Lit(Code(x.v[1]), Char))
      [] x.k = "string" -> Res(AllocateWords(s, Codes(x.v)),
                               Typed("string", "", Len(s.data), PointerTo(Char), TRUE, <<>>))
      [] x.k = "name" -> AName(s, x.v)
      [] x.k = "call" -> ACall(s, x.v, x.es)
      [] x.k = "unary" -> IF x.v \in PostfixOps THEN AIncDec(s, "pre" \o x.v, x.es[1])
                          ELSE AUnary(s, x.v, x.es[1])
      [] x.k = "postfix" -> AIncDec(s, "post" \o x.v, x.es[1])
      [] x.k = "binary" -> ABinary(s, x.v, x.es)
      [] x.k = "cond" -> AConditional(s, x.es)
      [] x.k = "assign" -> AAssign(s, x.v, x.es)
      [] x.k = "index" -> AIndex(s, x.es)
      [] x.k = "member" -> AMember(s, x.es[1], x.v, x.d[1] = "->")
      [] x.k = "sizeof" -> Then(AExpr(s, x.es[1]),
                                LAMBDA r : Res(r.s, Lit(TypeSize(r.e.ty, r.s.structs), UInt)))
      [] x.k = "sizeoftype" -> ASizeof(s, LowerDeclType(s, x.d[1], 0))

----------------------------------------------------------------------------
(* Statements.                                                             *)
Opt(s, x, F(_, _)) ==
    IF x = <<>> THEN Res(s, <<>>) ELSE Then(F(s, x[1]), LAMBDA r : Res(r.s, <<r.e>>))

AStmts(s, ss, done) ==
    IF ss = <<>> THEN Res(s, done)
    ELSE Then(AStmt(s, Head(ss)), LAMBDA r : AStmts(r.s, Tail(ss), Append(done, r.e)))

InScope(s, name) == \E i \in DOMAIN s.env : s.env[i].name = name /\ s.env[i].scope = s.scope

(* declaration: the local exists once its initializer has been analyzed.   *)
ADeclaration(s, d, init) ==
    LET ty     == LowerDeclType(s, d, StringLength(init))
        name   == d.name[1]
        string == StringLength(init) # 0 /\ ty.arr # 0 /\ ty.base = "char" /\ ty.ptr = 0
        declared(r, stmt) == Res(AddLocal(r, name, ty, d.uniform, FALSE), stmt)
    IN  IF name = "WARP" \/ InScope(s, name) THEN Err(s, "reserved or duplicate local")
        ELSE IF Bad(ty) \/ ty = Void THEN Err(s, "variable type")
        ELSE IF d.uniform /\ ~IsScalar(ty) THEN Err(s, "uniform aggregate")
        ELSE IF string
             THEN IF StringLength(init) > ty.arr THEN Err(s, "string literal is too long")
                  ELSE declared(s, [TStmt("decl", Len(s.locals) + 1, << <<>> >>, <<>>)
                                    EXCEPT !.words = Codes(init[1].v)])
        ELSE IF init # <<>> /\ ~IsScalar(ty) THEN Err(s, "aggregate initializer")
        ELSE Then(Opt(s, init, AExpr), LAMBDA r :
             IF r.e # <<>> /\ ~Assignable(ty, r.e[1]) THEN Err(r.s, "initializer type")
             ELSE IF r.e # <<>> /\ d.uniform /\ ~r.e[1].u
                  THEN Err(r.s, "varying expression cannot initialize uniform local")
             ELSE declared(r.s, TStmt("decl", Len(r.s.locals) + 1, <<r.e>>, <<>>)))

AReturn(s, x) ==
    IF s.depth # 0 THEN Err(s, "return inside divergent control flow")
    ELSE Then(Opt(s, x, AExpr), LAMBDA r :
         IF (s.ret = Void) # (r.e = <<>>) THEN Err(r.s, "return value")
         ELSE IF r.e # <<>> /\ ~Assignable(s.ret, r.e[1]) THEN Err(r.s, "return value type")
         ELSE IF r.e # <<>> /\ s.retuniform /\ ~r.e[1].u THEN Err(r.s, "return value is varying")
         ELSE Res(r.s, TStmt("return", 0, <<r.e>>, <<>>)))

AIf(s, x, ss) ==
    Then(Condition(s, x), LAMBDA c :
    IF Masked(c.s, c.e) /\ c.s.depth >= 2 THEN Err(c.s, "divergent nesting exceeds the masks")
    ELSE Then(AStmts(Deeper(c.s, c.e), ss, <<>>), LAMBDA r :
         Res(Shallower(r.s, s.depth), TStmt("if", 0, << <<c.e>> >>, r.e))))

(* The body of a loop; break and continue are legal in it.                 *)
LoopBody(s, x) == Then(AStmt([s EXCEPT !.loops = @ + 1], x),
                       LAMBDA r : Res([r.s EXCEPT !.loops = @ - 1], r.e))

(* A statement that transfers control, outside every mask.                 *)
Undivided(s, F(_)) == IF s.depth # 0 THEN Err(s, "divergent control flow") ELSE F(s)

AFor(s, st) ==
    LET n    == Len(st.ss)
        init == IF n = 2 THEN Then(AStmt(PushScope(s), st.ss[1]), LAMBDA r : Res(r.s, <<r.e>>))
                ELSE Res(PushScope(s), <<>>)
    IN  Then(init, LAMBDA d :
        Then(Opt(d.s, st.x[1], AExpr), LAMBDA i :
        Then(Opt(i.s, st.x[2], UniformCondition), LAMBDA c :
        Then(Opt(c.s, st.x[3], AExpr), LAMBDA step :
        Then(LoopBody(step.s, st.ss[n]), LAMBDA b :
             Res(PopScope(b.s), TStmt("for", 0, <<i.e, c.e, step.e>>, Append(d.e, b.e))))))))

ASwitch(s, st) ==
    Then(UniformCondition(s, st.x[1][1]), LAMBDA c :
    Then(AStmt([c.s EXCEPT !.switches = Append(@, <<>>)], st.ss[1]), LAMBDA b :
         Res([b.s EXCEPT !.switches = Front(@)],
             [TStmt("switch", 0, << <<c.e>> >>, <<b.e>>) EXCEPT !.labels = Last(b.s.switches)])))

(* A case or default label: val is the value it stands for, if any.        *)
ALabel(s, k, val, body) ==
    LET top == Len(s.switches)
    IN  IF \E i \in DOMAIN s.switches[top] : s.switches[top][i].val = val THEN Err(s, "duplicate label")
        ELSE Then(AStmt([s EXCEPT !.nlabel = @ + 1,
                                  !.switches[top] = Append(@, [id |-> s.nlabel, val |-> val])], body),
                  LAMBDA r : Res(r.s, TStmt(k, s.nlabel, <<>>, <<r.e>>)))

ACase(s, st) ==
    Then(AExpr(s, st.x[1][1]), LAMBDA r :
    IF ~Integral(r.e) \/ ConstantU32(r.e) = NotConst THEN Err(r.s, "case value")
    ELSE ALabel(r.s, "case", <<ConstantU32(r.e)>>, st.ss[1]))

AStmt(s, st) ==
    CASE st.k = "decl" -> ADeclaration(s, st.d[1], st.x[1])
      [] st.k = "expr" -> Then(Opt(s, st.x[1], AExpr), LAMBDA r : Res(r.s, TStmt("expr", 0, <<r.e>>, <<>>)))
      [] st.k = "return" -> AReturn(s, st.x[1])
      [] st.k = "block" -> Then(AStmts(PushScope(s), st.ss, <<>>),
                                LAMBDA r : Res(PopScope(r.s), TStmt("block", 0, <<>>, r.e)))
      [] st.k = "if" -> AIf(s, st.x[1][1], st.ss)
      [] st.k = "while" -> Undivided(s, LAMBDA a : Then(UniformCondition(a, st.x[1][1]),
             LAMBDA c : Then(LoopBody(c.s, st.ss[1]),
             LAMBDA b : Res(b.s, TStmt("while", 0, << <<c.e>> >>, <<b.e>>)))))
      [] st.k = "do" -> Undivided(s, LAMBDA a : Then(LoopBody(a, st.ss[1]),
             LAMBDA b : Then(UniformCondition(b.s, st.x[1][1]),
             LAMBDA c : Res(c.s, TStmt("do", 0, << <<c.e>> >>, <<b.e>>)))))
      [] st.k = "for" -> Undivided(s, LAMBDA a : AFor(a, st))
      [] st.k = "switch" -> Undivided(s, LAMBDA a : ASwitch(a, st))
      [] st.k \in {"break", "continue"} -> Undivided(s, LAMBDA a :
             Check(Res(a, TStmt(st.k, 0, <<>>, <<>>)),
                   a.loops # 0 \/ (st.k = "break" /\ a.switches # <<>>), "not inside a loop"))
      [] st.k \in {"case", "default"} ->
             IF s.switches = <<>> THEN Err(s, "label is not inside a switch")
             ELSE IF st.k = "case" THEN ACase(s, st) ELSE ALabel(s, "default", <<>>, st.ss[1])

----------------------------------------------------------------------------
(* Structures, globals and functions.                                      *)
EmptyAnalyzer ==
    [err |-> "", env |-> <<>>, scope |-> 0, locals |-> <<>>, globals |-> <<>>, structs |-> <<>>,
     data |-> <<>>, fns |-> <<>>, inline |-> {}, current |-> "", edges |-> {}, depth |-> 0,
     sites |-> 0, loops |-> 0, switches |-> <<>>, nlabel |-> 1, ret |-> Void, retuniform |-> FALSE]

(* A step of the analysis that is skipped after an error.                  *)
Sound(s, ok, what) == IF s.err # "" \/ ok THEN s ELSE [s EXCEPT !.err = what]

Distinct(names) == Cardinality(Range(names)) = Len(names)
Names(decls)    == [i \in DOMAIN decls |-> decls[i].name]

AddField(s, tag, d) ==
    LET ty == LowerDeclType(s, d, 0)
    IN  IF s.err # "" THEN s
        ELSE IF d.uniform \/ Bad(ty) \/ ty = Void THEN [s EXCEPT !.err = "structure field"]
        ELSE IF TypeSize(ty, s.structs) = 0 THEN [s EXCEPT !.err = "incomplete field"]
        ELSE [s EXCEPT !.structs[tag].fields = Append(@, [name |-> d.name[1], ty |-> ty,
                                                          offset |-> s.structs[tag].size]),
                       !.structs[tag].size = @ + TypeSize(ty, s.structs)]

(* layout_structs: in source order, so a structure can hold only complete  *)
(* ones.  While a structure is laid out its own size still counts as 0.    *)
LayoutStruct(s, decl) ==
    LET laid == FoldFlat(LAMBDA r, d : AddField([r EXCEPT !.err = IF d.base = "struct" /\ d.tag = decl.name
                                                                     /\ d.pointers = 0
                                                                  THEN "incomplete field" ELSE @],
                                                decl.name, d), s, decl.fields)
    IN  Sound(laid, decl.fields # <<>> /\ Distinct(Names(decl.fields)), "structure")

LayoutStructs(s, decls) ==
    FoldFlat(LayoutStruct,
             Sound([s EXCEPT !.structs = [t \in Range(Names(decls)) |-> [size |-> 0, fields |-> <<>>]]],
                   Distinct(Names(decls)), "duplicate struct"), decls)

(* register_global: its words, initialized by a string or a constant.      *)
RegisterGlobal(s, g) ==
    LET d       == g.d[1]
        init    == g.x[1]
        string  == StringLength(init) # 0
        ty      == LowerDeclType(s, d, StringLength(init))
        address == Len(s.data)
        size    == TypeSize(ty, s.structs)
        value   == ConstantAst(init[1])
        zeros   == [i \in 1..size |-> 0]
        words   == IF string THEN Codes(init[1].v) ELSE <<>>
        data    == CASE init = <<>> -> zeros
                     [] IsArray(ty) -> words \o SubSeq(zeros, Len(words) + 1, size)
                     [] string -> <<address + 1>> \o words
                     [] OTHER -> <<value>>
        ok      == CASE init = <<>> -> TRUE
                     [] IsArray(ty) -> string /\ ty.base = "char" /\ ty.ptr = 0 /\ Len(words) <= ty.arr
                     [] string -> ty = PointerTo(Char)
                     [] OTHER -> IsScalar(ty) /\ value # NotConst
    IN  IF s.err # "" THEN s
        ELSE IF d.uniform \/ d.name[1] = "WARP" \/ GlobalOf(s, d.name[1]) # 0 \/ Bad(ty) \/ ty = Void
             THEN [s EXCEPT !.err = "global"]
        ELSE IF address + size > RAM_SIZE_WORDS \/ ~ok THEN [s EXCEPT !.err = "global data"]
        ELSE [s EXCEPT !.data = @ \o data,
                       !.globals = Append(@, [name |-> d.name[1], ty |-> ty, address |-> address])]

Signature(fn) == [fn EXCEPT !.body = <<>>, !.params = [i \in DOMAIN @ |-> [@[i] EXCEPT !.name = ""]]]

(* register_function: prototypes and definitions of a name must agree.     *)
RegisterFunction(s, f) ==
    LET lowered(d) == Decay(LowerDeclType(s, d, 0))
        ret  == LowerDeclType(s, f.ret, 0)
        name(d) == IF d.name = <<>> THEN "" ELSE d.name[1]
        fn   == [params |-> [i \in DOMAIN f.params |-> [name |-> name(f.params[i]), ty |-> lowered(f.params[i]),
                                                        uniform |-> f.params[i].uniform]],
                 ret |-> ret, retuniform |-> f.ret.uniform, body |-> f.body]
        old  == IF f.name \in DOMAIN s.fns THEN s.fns[f.name] ELSE fn
        kept == f.body = <<>> /\ f.name \in DOMAIN s.fns
    IN  IF s.err # "" THEN s
        ELSE IF f.name \in ReservedNames \cup {"WARP"} \/ GlobalOf(s, f.name) # 0
             THEN [s EXCEPT !.err = "reserved name"]
        ELSE IF Bad(ret) \/ ret.arr # 0 \/ IsStruct(ret) \/ (f.ret.uniform /\ ret = Void)
             THEN [s EXCEPT !.err = "return type"]
        ELSE IF Len(f.params) > 4 \/ \E i \in DOMAIN fn.params : fn.params[i].name = "WARP" \/ ~IsScalar(fn.params[i].ty)
             THEN [s EXCEPT !.err = "parameter"]
        ELSE IF Signature(old) # Signature(fn) THEN [s EXCEPT !.err = "conflicting declaration"]
        ELSE IF f.name \in DOMAIN s.fns /\ old.body # <<>> /\ f.body # <<>>
             THEN [s EXCEPT !.err = "duplicate definition"]
        ELSE [s EXCEPT !.fns = [n \in DOMAIN @ \cup {f.name} |->
                                  IF n # f.name THEN @[n] ELSE IF kept THEN old ELSE fn]]

----------------------------------------------------------------------------
(* Helpers small enough to be inlined at every call.                       *)
RECURSIVE ExprNodes(_), Unsupported(_)
ExprNodes(x)   == FoldFlat(LAMBDA n, y : n + ExprNodes(y), 1, x.es)
Unsupported(x) == \/ x.k \in {"call", "index", "member", "string"}
                  \/ x.k = "unary" /\ x.v \in {"&", "*"}
                  \/ \E i \in DOMAIN x.es : Unsupported(x.es[i])

PlainScalar(d) == d.pointers = 0 /\ d.array = <<>> /\ d.base \in {"int", "unsigned", "char"}

InlineStatement(st) ==
    \/ st.k = "decl" /\ PlainScalar(st.d[1]) /\ \A i \in DOMAIN st.x[1] : ~Unsupported(st.x[1][i])
    \/ st.k = "expr" /\ st.x[1] # <<>> /\ ~Unsupported(st.x[1][1])

InlineCandidate(f) ==
    /\ f.body # <<>>
    /\ PlainScalar(f.ret)
    /\ \A i \in DOMAIN f.params : f.params[i].name # <<>> /\ PlainScalar(f.params[i])
    /\ Len(f.body[1].ss) \in 1..MAX_INLINE_STATEMENTS
    /\ LET before == Front(f.body[1].ss)
           last   == Last(f.body[1].ss)
           nodes(x) == IF x = <<>> THEN 0 ELSE ExprNodes(x[1])
       IN  /\ last.k = "return" /\ last.x[1] # <<>> /\ ~Unsupported(last.x[1][1])
           /\ \A i \in DOMAIN before : InlineStatement(before[i])
           /\ nodes(last.x[1]) + FoldFlat(LAMBDA n, st : n + 1 + nodes(st.x[1]), 0, before)
                 <= MAX_INLINE_AST_NODES

----------------------------------------------------------------------------
(* The frame of a function: its locals from `first' on that need an address. *)
RECURSIVE FrameOffsets(_, _, _)
FrameOffsets(s, first, words) ==
    IF first > Len(s.locals) THEN [s |-> s, words |-> words]
    ELSE LET l == s.locals[first]
         IN  IF l.taken \/ ~IsScalar(l.ty)
             THEN FrameOffsets([s EXCEPT !.locals[first].offset = words], first + 1,
                               words + TypeSize(l.ty, s.structs))
             ELSE FrameOffsets(s, first + 1, words)

(* The typed functions so far (e) and the analyzer after one more.         *)
AFunction(r, f) ==
    LET fn    == r.s.fns[f.name]
        first == Len(r.s.locals)
        s0    == PushScope([r.s EXCEPT !.current = f.name, !.depth = 0, !.ret = fn.ret,
                                       !.retuniform = fn.retuniform])
        named == Range(Names(fn.params))
        s1    == FoldFlat(LAMBDA s, p : AddLocal(s, p.name, p.ty, p.uniform, FALSE), s0, fn.params)
    IN  IF f.body = <<>> \/ r.s.err # "" THEN r
        ELSE IF "" \in named \/ ~Distinct(Names(fn.params)) THEN Err(r.s, "parameter names")
        ELSE Then(AStmts(s1, f.body[1].ss, <<>>), LAMBDA b :
             LET frame == FrameOffsets(PopScope(b.s), first + 1, 0)
             IN  Check(Res(frame.s, Append(r.e, [name |-> f.name, ret |-> fn.ret, retuniform |-> fn.retuniform,
                                                 params |-> [i \in DOMAIN fn.params |-> first + i],
                                                 locals |-> first + 1..Len(b.s.locals),
                                                 body |-> b.e, frame |-> frame.words])),
                       Len(b.s.data) + frame.words * LANES < RAM_SIZE_WORDS, "frame exceeds the RAM"))

(* call_depth: no chain of calls is longer than the VM's call stack, which *)
(* no recursive program satisfies.                                         *)
RECURSIVE Chains(_, _, _)
Chains(edges, f, n) == \E e \in edges : e[1] = f /\ (n = 0 \/ Chains(edges, e[2], n - 1))

ValidCallGraph(s) ==
    /\ \A e \in s.edges : s.fns[e[2]].body # <<>>
    /\ \A f \in DOMAIN s.fns : ~Chains(s.edges, f, CALL_STACK)

(* analyze: the typed program, or the diagnostic in err.                   *)
Analyze(prog) ==
    LET s0 == LayoutStructs(EmptyAnalyzer, prog.structs)
        s1 == FoldFlat(RegisterGlobal, s0, prog.globals)
        s2 == FoldFlat(RegisterFunction, s1, prog.functions)
        s3 == [s2 EXCEPT !.inline = {f.name : f \in {g \in Range(prog.functions) : InlineCandidate(g)}}]
        main == s3.fns["main"]
        s4 == Sound(s3, /\ "main" \in DOMAIN s3.fns
                        /\ main.body # <<>> /\ main.ret = SInt /\ main.params = <<>>, "int main(void)")
        r  == FoldFlat(AFunction, Res(s4, <<>>), prog.functions)
        s5 == Sound(r.s, ValidCallGraph(r.s), "call graph")
        called == {e[2] : e \in s5.edges}
    IN  IF s5.err # "" THEN [err |-> s5.err]
        ELSE [err |-> "", locals |-> s5.locals, data |-> s5.data, fns |-> s5.fns,
              structs |-> s5.structs,
              functions |-> SelectSeq(r.e, LAMBDA f : \/ f.name = "main"
                                                      \/ f.name \notin s5.inline
                                                      \/ f.name \in called)]
=============================================================================
