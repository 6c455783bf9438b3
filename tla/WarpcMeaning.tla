---------------------------- MODULE WarpcMeaning ----------------------------
(***************************************************************************)
(* What a Warp C program means, by docs/warpc.md: an evaluator of the      *)
(* syntax tree, against which the compiled program is compared.  It knows  *)
(* no registers, frames or jumps.  Every value is computed for all lanes   *)
(* at once, under the set A of the lanes that take part; what happens      *)
(* under the empty set has no effect.                                      *)
(*                                                                         *)
(* The state m holds the memory, the next free address of locals and of    *)
(* globals, the names in scope, the outcomes of the receives still to      *)
(* come, what was sent and published, the control signal that is raised    *)
(* ("" if none) and the value returned.  A value r is [m, ty, w, a]: the   *)
(* state after it, its type, its words by lane and, for an lvalue, its     *)
(* addresses by lane.                                                      *)
(***************************************************************************)
EXTENDS WarpcCodegen, Machine

LOCALS == 4096       \* locals are above RAM and framebuffer, all apart

Same(x)         == [l \in Lanes |-> x]
Val4(m, ty, f)  == [m |-> m, ty |-> ty, w |-> f, a |-> <<>>]
Nothing(m)      == Val4(m, Void, Same(0))

(* The type a declaration names, with the number of elements of an array.  *)
Named(d, n)  == [base |-> d.base, tag |-> d.tag, ptr |-> d.pointers, arr |-> n]
IsSigned(ty) == ty.ptr = 0 /\ ty.base = "int"
Both(x, y)   == IF x.ptr > 0 THEN x ELSE IF y.ptr > 0 THEN y
                ELSE IF IsSigned(x) /\ IsSigned(y) THEN SInt ELSE UInt
Alone(ty)    == Both(ty, ty)

RECURSIVE Eval(_, _, _), EvalAll(_, _, _), Exec(_, _, _), Size(_, _)

Count(m, d) == IF d.array = <<>> \/ d.array = << <<>> >> THEN 0 ELSE Eval(m, d.array[1][1], Lanes).w[0]

Fields2(m, tag) == (CHOOSE d \in Range(m.structs) : d.name = tag).fields
FieldType(m, d) == Named(d, Count(m, d))
Size(m, ty) ==
    LET one == IF ty.ptr = 0 /\ ty.base = "struct"
               THEN FoldFlat(LAMBDA n, d : n + Size(m, FieldType(m, d)), 0, Fields2(m, ty.tag)) ELSE 1
    IN  one * (IF ty.arr = 0 THEN 1 ELSE ty.arr)
Stride(m, ty) == Size(m, Pointee(Decay(ty)))

(* A place holds a value; an array or a structure is known by its address. *)
Place2(m, ty, a) ==
    [m |-> m, ty |-> ty, a |-> a,
     w |-> IF ty.arr # 0 \/ (ty.ptr = 0 /\ ty.base = "struct") THEN a ELSE [l \in Lanes |-> Peeked(m.mem, a[l])]]

Put(m, a, f, A) ==
    [m EXCEPT !.mem = [x \in {a[l] : l \in A} |-> f[CHOOSE l \in A : a[l] = x]] @@ @]

(* A local: a word or more for each lane, or one for the warp if uniform.  *)
Declared(m, name, ty, uniform) ==
    LET n == Size(m, ty)
    IN  [m EXCEPT !.env = Append(@, [name |-> name, ty |-> ty, uniform |-> uniform,
                                     a |-> [l \in Lanes |-> m.next + (IF uniform THEN 0 ELSE l * n)]]),
                  !.next = @ + n * LANES]
Found(m, name) == m.env[Max({i \in DOMAIN m.env : m.env[i].name = name})]
Known(m, name) == \E i \in DOMAIN m.env : m.env[i].name = name

(* What is written to a uniform local is computed once, for the warp.      *)
Taking(m, target, A) ==
    IF A # {} /\ target.k = "name" /\ Known(m, target.v) /\ Found(m, target.v).uniform THEN Lanes ELSE A

Binary(m, op, ty, x, y) ==
    Val4(m, IF op \in Relations THEN SInt ELSE ty,
         [l \in Lanes |-> IF op \in {"/", "%"} /\ y[l] = 0 THEN 0 ELSE COp(op, IsSigned(ty), x[l], y[l])])

(* x op y on values, with pointers counted in the size of what they point at. *)
Apply(m, op, x, y) ==
    LET px == Decay(x.ty).ptr > 0
        py == Decay(y.ty).ptr > 0
        scaled(f, ty) == [l \in Lanes |-> Times(f[l], Stride(m, ty))]
    IN  CASE px /\ py /\ op = "-" ->
               Val4(m, SInt, [l \in Lanes |-> SignedDiv(Wrap(x.w[l] - y.w[l]), Stride(m, x.ty))])
          [] px /\ ~py /\ op \in {"+", "-"} -> Binary(m, op, Decay(x.ty), x.w, scaled(y.w, x.ty))
          [] py /\ ~px /\ op = "+" -> Binary(m, op, Decay(y.ty), y.w, scaled(x.w, y.ty))
          [] op \in {"<<", ">>"} -> [Binary(m, op, Both(x.ty, y.ty), x.w, y.w) EXCEPT !.ty = Alone(x.ty)]
          [] OTHER -> Binary(m, op, Both(x.ty, y.ty), x.w, y.w)

EvalAll(m, es, A) ==
    FoldFlat(LAMBDA r, e : LET x == Eval(r.m, e, A) IN [m |-> x.m, rs |-> Append(r.rs, x)],
             [m |-> m, rs |-> <<>>], es)

Fold4(f, F(_, _)) == FoldFlat(F, f[0], [l \in 1..LANES - 1 |-> f[l]])
BySign(sg, x)     == IF sg THEN Signed(x) ELSE x
Least(f, sg)      == Fold4(f, LAMBDA x, y : IF BySign(sg, x) < BySign(sg, y) THEN x ELSE y)
Greatest(f, sg)   == Fold4(f, LAMBDA x, y : IF BySign(sg, x) < BySign(sg, y) THEN y ELSE x)

(* The built-in functions, on the words of their arguments.                *)
Builtin(m, f, rs, A) ==
    LET x    == rs[1].w
        y    == rs[2].w
        sg   == IsSigned(Both(rs[1].ty, rs[2].ty))
        ones == {l \in Lanes : x[l] # 0}
        all(ty, n) == Val4(m, ty, Same(n))
        mail == Head(m.recvs)[1]
        taken == [m EXCEPT !.recvs = Tail(@)]
        argb(l) == LET c(i) == rs[i].w[l] % 2^Byte
                   IN  c(1) * 2^(3 * Byte) + c(2) * 2^(2 * Byte) + c(3) * 2^Byte + c(4)
        copied(from) == Put(m, [i \in 0..rs[3].w[0] - 1 |-> x[0] + i], from, 0..rs[3].w[0] - 1)
    IN  CASE f = "warp_lane_id" -> Val4(m, SInt, [l \in Lanes |-> l])
          [] f = "warp_vm_id" -> all(UInt, VM_ID)
          [] f = "warp_framebuffer" -> all(PointerTo(UInt), VIDEO_BASE)
          [] f = "warp_flip" -> Nothing([m EXCEPT !.flips = @ + 1])
          [] f = "warp_argb" -> Val4(m, UInt, [l \in Lanes |-> argb(l)])
          [] f = "warp_set_pixel" -> Nothing(Put(m, [l \in Lanes |-> VIDEO_BASE + y[l] * VIDEO_WIDTH + x[l]],
                                                 rs[3].w, A))
          [] f = "warp_send" -> Nothing([m EXCEPT !.sent = Append(@, [dest |-> x[0], type |-> y[0] % 2^(WordBits \div 2),
                                                                     payload |-> rs[3].w[0]])])
          [] f = "warp_try_recv" -> IF Head(m.recvs) = <<>> THEN Val4(taken, SInt, Same(0))
                                    ELSE Val4(Put(Put(taken, x, Same(mail.payload), A), y, Same(mail.meta), A),
                                              SInt, Same(1))
          [] f \in {"warp_broadcast", "warp_shuffle"} -> Val4(m, SInt, [l \in Lanes |-> x[y[l] % LANES]])
          [] f = "warp_shuffle_xor" -> Val4(m, SInt, [l \in Lanes |-> x[Xor(l, y[l])]])
          [] f = "warp_ballot" -> all(UInt, BitSum([i \in 0..WordBits - 1 |-> Flag(i \in ones)]))
          [] f = "warp_any" -> all(SInt, Flag(ones # {}))
          [] f = "warp_all" -> all(SInt, Flag(ones = Lanes))
          [] f = "warp_reduce_add" -> all(SInt, Fold4(x, LAMBDA i, j : Wrap(i + j)))
          [] f = "warp_reduce_add_u" -> all(UInt, Fold4(x, LAMBDA i, j : Wrap(i + j)))
          [] f = "warp_reduce_min" -> all(SInt, Least(x, TRUE))
          [] f = "warp_reduce_max" -> all(SInt, Greatest(x, TRUE))
          [] f = "warp_reduce_min_u" -> all(UInt, Least(x, FALSE))
          [] f = "warp_reduce_max_u" -> all(UInt, Greatest(x, FALSE))
          [] f = "warp_reduce_and" -> all(UInt, Fold4(x, And))
          [] f = "warp_reduce_or" -> all(UInt, Fold4(x, Or))
          [] f = "warp_reduce_xor" -> all(UInt, Fold4(x, Xor))
          [] f \in {"min", "max"} ->
               Val4(m, Both(rs[1].ty, rs[2].ty),
                    [l \in Lanes |-> IF (BySign(sg, x[l]) < BySign(sg, y[l])) = (f = "min") THEN x[l] ELSE y[l]])
          [] f = "warp_memcpy" -> Nothing(copied([i \in 0..rs[3].w[0] - 1 |-> Peeked(m.mem, y[0] + i)]))
          [] f = "warp_memset" -> Nothing(copied([i \in 0..rs[3].w[0] - 1 |-> y[i % LANES]]))

BuiltinNames == ReservedNames \cup {"warp_memcpy", "warp_memset"}

(* A call: parameters are fresh locals, only the globals are in scope, and *)
(* a body that ends without a return gives 0.                              *)
Called(m, f, rs, A) ==
    LET fn    == CHOOSE d \in Range(m.fns) : d.name = f /\ d.body # <<>>
        entry == [m EXCEPT !.env = SubSeq(@, 1, m.globals), !.ret = Same(0)]
        bind(n, i) == LET d  == fn.params[i]
                          b  == Declared(n, d.name[1], Named([d EXCEPT !.pointers = @ + Len(d.array)], 0), d.uniform)
                      IN  Put(b, Last(b.env).a, rs[i].w, IF d.uniform THEN Lanes ELSE A)
        done  == Exec(FoldFlat(bind, entry, [i \in DOMAIN fn.params |-> i]), fn.body[1], A)
    IN  Val4([done EXCEPT !.env = m.env, !.ret = m.ret, !.sig = ""], Named(fn.ret, 0), done.ret)

Eval(m, e, A) ==
    LET x == Eval(m, e.es[1], A)
        y == Eval(x.m, e.es[2], A)
        args == EvalAll(m, e.es, A)
        codes == Codes(e.v)
    IN
    CASE e.k = "number" -> Val4(m, ParseInteger(e.v).ty, Same(ParseInteger(e.v).v))
      [] e.k = "charlit" -> Val4(m, Char, Same(Code(e.v[1])))
      [] e.k = "string" -> Val4([m EXCEPT !.mem = [i \in m.next..m.next + Len(codes) - 1 |-> codes[i - m.next + 1]] @@ @,
                                          !.next = @ + Len(codes)], PointerTo(Char), Same(m.next))
      [] e.k = "name" ->
           (CASE e.v = "WARP" -> Val4(m, SInt, [l \in Lanes |-> l])
              [] e.v \in DOMAIN BuiltinConstants -> Val4(m, UInt, Same(BuiltinConstants[e.v]))
              [] OTHER -> Place2(m, Found(m, e.v).ty, Found(m, e.v).a))
      [] e.k = "call" /\ e.v \in BuiltinNames -> IF A = {} THEN Val4(m, IF e.v \in DOMAIN Signatures THEN Signatures[e.v].ty ELSE SInt, Same(0))
                                                 ELSE Builtin(args.m, e.v, args.rs, A)
      [] e.k = "call" -> IF A = {} THEN Val4(m, Named((CHOOSE d \in Range(m.fns) : d.name = e.v).ret, 0), Same(0))
                         ELSE Called(args.m, e.v, args.rs, A)
      [] e.k \in {"unary", "postfix"} /\ e.v \in PostfixOps ->
           LET t   == Eval(m, e.es[1], Taking(m, e.es[1], A))
               new == Apply(t.m, SubSeq(e.v, 1, 1), t, Val4(t.m, SInt, Same(1)))
           IN  Val4(Put(t.m, t.a, new.w, A), t.ty, IF e.k = "unary" THEN new.w ELSE t.w)
      [] e.k = "unary" /\ e.v = "&" -> Val4(x.m, IF x.ty.arr # 0 THEN Decay(x.ty) ELSE PointerTo(x.ty), x.a)
      [] e.k = "unary" /\ e.v = "*" -> Place2(x.m, Pointee(Decay(x.ty)), x.w)
      [] e.k = "unary" /\ e.v = "!" -> Val4(x.m, SInt, [l \in Lanes |-> Flag(x.w[l] = 0)])
      [] e.k = "unary" -> Val4(x.m, Alone(x.ty), [l \in Lanes |-> CASE e.v = "-" -> Wrap(-x.w[l])
                                                                     [] e.v = "~" -> Not(x.w[l])
                                                                     [] e.v = "+" -> x.w[l]])
      [] e.k = "binary" /\ e.v = "," -> Val4(y.m, y.ty, y.w)
      [] e.k = "binary" /\ e.v \in {"&&", "||"} ->
           LET r == Eval(x.m, e.es[2], {l \in A : (x.w[l] # 0) = (e.v = "&&")})
           IN  Binary(r.m, e.v, SInt, x.w, r.w)
      [] e.k = "binary" -> Apply(y.m, e.v, x, y)
      [] e.k = "cond" ->
           LET then == {l \in A : x.w[l] # 0}
               t == Eval(x.m, e.es[2], then)
               f == Eval(t.m, e.es[3], A \ then)
           IN  Val4(f.m, IF t.ty = Void THEN Void ELSE Both(Decay(t.ty), Decay(f.ty)),
                    [l \in Lanes |-> IF x.w[l] # 0 THEN t.w[l] ELSE f.w[l]])
      [] e.k = "assign" ->
           LET B   == Taking(m, e.es[1], A)
               t   == Eval(m, e.es[1], B)
               r   == Eval(t.m, e.es[2], B)
               new == IF e.v = "=" THEN r ELSE Apply(r.m, SubSeq(e.v, 1, Len(e.v) - 1), t, r)
           IN  Val4(Put(r.m, t.a, new.w, B), t.ty, new.w)
      [] e.k = "index" -> LET i == Apply(y.m, "+", x, y) IN Place2(y.m, Pointee(i.ty), i.w)
      [] e.k = "member" ->
           LET fs    == Fields2(m, x.ty.tag)
               i     == CHOOSE j \in DOMAIN fs : fs[j].name = <<e.v>>
               skip  == FoldFlat(LAMBDA n, d : n + Size(m, FieldType(m, d)), 0, SubSeq(fs, 1, i - 1))
           IN  Place2(x.m, FieldType(m, fs[i]), [l \in Lanes |-> x.w[l] + skip])
      [] e.k = "sizeof" -> Val4(m, UInt, Same(Size(m, Eval(m, e.es[1], {}).ty)))
      [] e.k = "sizeoftype" -> Val4(m, UInt, Same(Size(m, FieldType(m, e.d[1]))))

----------------------------------------------------------------------------
Test(m, x, A) == IF x = <<>> THEN Val4(m, SInt, Same(1)) ELSE Eval(m, x[1], A)
Effect(m, x, A) == IF x = <<>> THEN m ELSE Eval(m, x[1], A).m

ExecDecl(m, st, A) ==
    LET d    == st.d[1]
        init == st.x[1]
        text == IF init # <<>> /\ init[1].k = "string" /\ d.array # <<>> THEN Codes(init[1].v) ELSE <<>>
        B    == IF d.uniform THEN Lanes ELSE A
        r    == Eval(m, init[1], B)
        n    == IF d.array = << <<>> >> THEN Len(text) ELSE Count(m, d)
        new(k) == Declared(k, d.name[1], Named(d, n), d.uniform)
        fill(k) == FoldFlat(LAMBDA h, i : Put(h, [l \in Lanes |-> Last(k.env).a[l] + i - 1], Same(text[i]), B),
                            k, [i \in DOMAIN text |-> i])
    IN  IF text # <<>> THEN fill(new(m))
        ELSE IF init = <<>> THEN new(m)
        ELSE LET k == new(r.m) IN Put(k, Last(k.env).a, r.w, B)

(* One round of a loop after the other; continue ends the body, and break  *)
(* the loop.                                                               *)
RECURSIVE Rounds(_, _, _, _)
Rounds(m, st, A, first) ==
    LET test  == IF st.k = "for" THEN st.x[2] ELSE st.x[1]
        c     == Test(m, test, A)
        go    == IF first /\ st.k = "do" THEN m ELSE c.m
        round == Exec(go, Last(st.ss), A)
        next  == [round EXCEPT !.sig = IF @ = "continue" THEN "" ELSE @]
    IN  IF ~(first /\ st.k = "do") /\ c.w[0] = 0 THEN c.m
        ELSE IF next.sig = "break" THEN [next EXCEPT !.sig = ""]
        ELSE IF next.sig # "" THEN next
        ELSE Rounds(IF st.k = "for" THEN Effect(next, st.x[3], A) ELSE next, st, A, FALSE)

(* The statement under a chain of labels, and the values of its labels.    *)
RECURSIVE Labels(_), Unlabelled(_)
Labels(st) == IF st.k \in {"case", "default"} THEN {st.x} \cup Labels(st.ss[1]) ELSE {}
Unlabelled(st) == IF st.k \in {"case", "default"} THEN Unlabelled(st.ss[1]) ELSE st

ExecSwitch(m, st, A) ==
    LET c    == Eval(m, st.x[1][1], A)
        ss   == st.ss[1].ss
        hits(x) == x # <<>> /\ Eval(m, x[1][1], Lanes).w[0] = c.w[0]
        case    == {i \in DOMAIN ss : \E x \in Labels(ss[i]) : hits(x)}
        default == {i \in DOMAIN ss : <<>> \in Labels(ss[i])}
        start   == IF case # {} THEN case ELSE default
        body    == FoldFlat(LAMBDA k, t : Exec(k, Unlabelled(t), A), c.m, SubSeq(ss, Min(start), Len(ss)))
    IN  IF start = {} THEN c.m
        ELSE [body EXCEPT !.sig = IF @ = "break" THEN "" ELSE @, !.env = m.env]

Exec(m, st, A) ==
    IF m.sig # "" \/ A = {} THEN m
    ELSE CASE st.k = "decl" -> ExecDecl(m, st, A)
           [] st.k = "expr" -> Effect(m, st.x[1], A)
           [] st.k = "return" -> IF st.x[1] = <<>> THEN [m EXCEPT !.sig = "return"]
                                 ELSE LET r == Eval(m, st.x[1][1], A) IN [r.m EXCEPT !.sig = "return", !.ret = r.w]
           [] st.k = "block" -> [FoldFlat(LAMBDA k, t : Exec(k, t, A), m, st.ss) EXCEPT !.env = m.env]
           [] st.k = "if" -> LET c    == Eval(m, st.x[1][1], A)
                                 then == {l \in A : c.w[l] # 0}
                                 k    == Exec(c.m, st.ss[1], then)
                             IN  IF Len(st.ss) = 2 THEN Exec(k, st.ss[2], A \ then) ELSE k
           [] st.k \in {"while", "do"} -> Rounds(m, st, A, TRUE)
           [] st.k = "for" -> [Rounds(IF Len(st.ss) = 2 THEN Exec(m, st.ss[1], A) ELSE Effect(m, st.x[1], A),
                                      st, A, TRUE) EXCEPT !.env = m.env]
           [] st.k = "switch" -> ExecSwitch(m, st, A)
           [] st.k \in {"break", "continue"} -> [m EXCEPT !.sig = st.k]

(* A global has its words from address 0 on, in the order of the source.   *)
Global(m, g) ==
    LET d    == g.d[1]
        init == g.x[1]
        text == IF init # <<>> /\ init[1].k = "string" THEN Codes(init[1].v) ELSE <<>>
        ty   == Named(d, IF d.array = << <<>> >> THEN Len(text) ELSE Count(m, d))
        at   == m.data
        words == CASE init = <<>> -> <<>>
                   [] text # <<>> -> (IF ty.ptr > 0 /\ ty.arr = 0 THEN <<at + 1>> ELSE <<>>) \o text
                   [] OTHER -> <<Eval(m, init[1], Lanes).w[0]>>
    IN  [m EXCEPT !.mem = [i \in at..at + Len(words) - 1 |-> words[i - at + 1]] @@ @,
                  !.env = Append(@, [name |-> d.name[1], ty |-> ty, uniform |-> FALSE, a |-> Same(at)]),
                  !.data = @ + Max({Size(m, ty), Len(words)}), !.globals = @ + 1]

(* The outcome of a program that receives recvs.                           *)
Meaning(prog, recvs) ==
    LET m0 == [mem |-> <<>>, next |-> LOCALS, data |-> 0, globals |-> 0, env |-> <<>>, recvs |-> recvs,
               sent |-> <<>>, flips |-> 0, sig |-> "", ret |-> Same(0), fns |-> prog.functions,
               structs |-> prog.structs]
        r  == Called(FoldFlat(Global, m0, prog.globals), "main", <<>>, Lanes)
        video == VIDEO_BASE..VIDEO_BASE + VIDEO_WIDTH * VIDEO_WIDTH - 1
    IN  [result |-> r.w, data |-> [i \in 0..r.m.data - 1 |-> Peeked(r.m.mem, i)],
         video |-> [i \in video |-> Peeked(r.m.mem, i)], sent |-> r.m.sent, flips |-> r.m.flips]

(* The same of the warp that ran the image, n words of globals.            *)
Outcome(n) ==
    [result |-> vregs[0], data |-> [i \in 0..n - 1 |-> Peeked(ram, i)],
     video |-> [i \in VIDEO_BASE..VIDEO_BASE + VIDEO_WIDTH * VIDEO_WIDTH - 1 |-> Peeked(ram, i)],
     sent |-> sent, flips |-> flips]
=============================================================================
