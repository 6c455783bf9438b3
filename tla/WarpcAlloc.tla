----------------------------- MODULE WarpcAlloc -----------------------------
(***************************************************************************)
(* Where the locals of a function live (codegen.rs): the lifetimes of the  *)
(* locals, the locals that are live after each call, and the assignment of *)
(* a vector register, a scalar register or a word of the frame to each.    *)
(***************************************************************************)
EXTENDS WarpcSema

ALLOCATABLE_REGS == 13          \* r13 lane, r14 address, r15 assembler scratch
ALLOCATABLE_SCALAR_REGS == 7    \* s7 is the stack pointer

RECURSIVE Uses(_)
Uses(e) ==
    UNION {Uses(e.es[i]) : i \in DOMAIN e.es}
      \cup (IF e.k = "local" THEN {e.v} ELSE {})
      \cup UNION {(IF e.ss[i].k = "decl" THEN {e.ss[i].v} ELSE {})
                    \cup UNION {Uses(x) : x \in Range(e.ss[i].x[1])} : i \in DOMAIN e.ss}

Loops == {"while", "do", "for"}
ForDecl(st) == st.k = "for" /\ Len(st.ss) = 2      \* for (int i = ...; ...; ...)
Body(st)    == IF ForDecl(st) THEN <<st.ss[2]>> ELSE st.ss

(* The locals a statement itself touches, those of its sub-statements      *)
(* left out.                                                               *)
RECURSIVE Own(_)
Own(st) == UNION {UNION {Uses(x) : x \in Range(st.x[i])} : i \in DOMAIN st.x}
             \cup (IF st.k = "decl" THEN {st.v} ELSE IF ForDecl(st) THEN Own(st.ss[1]) ELSE {})

Touch(c, locals, point) ==
    [c EXCEPT !.span = [l \in DOMAIN @ \cup locals |->
        IF l \notin locals THEN @[l]
        ELSE IF l \in DOMAIN @ THEN <<@[l][1], Max({@[l][2], point})>> ELSE <<point, point>>]]

(* LifetimeCollector: statements are points in the order of the text; what *)
(* a loop touches lives until its end.                                     *)
RECURSIVE Collect(_, _)
Collect(c, st) ==
    LET c1 == Touch([c EXCEPT !.next = @ + 1, !.touched = Own(st)], Own(st), c.next)
        c2 == FoldFlat(LAMBDA d, s : LET r == Collect(d, s)
                                     IN  [r EXCEPT !.touched = @ \cup d.touched], c1, Body(st))
    IN  IF st.k \in Loops THEN Touch(c2, c2.touched, c2.next) ELSE c2

Lifetimes(fn) ==
    LET c0 == Touch([next |-> 1, touched |-> {}, span |-> <<>>], Range(fn.params), 0)
    IN  FoldFlat(Collect, c0, fn.body).span

Overlap(a, b) == a[1] <= b[2] /\ b[1] <= a[2]

----------------------------------------------------------------------------
(* CallLiveAnalyzer: a is [live, out, entries], walked backwards: the      *)
(* locals live here, the pairs of a call site and a local live after it,   *)
(* and for each enclosing switch what is live at its labels.               *)
RECURSIVE Deps(_), LExpr(_, _), LLvalue(_, _, _), LStmt(_, _, _, _), LStmts(_, _, _, _),
          LWhile(_, _, _), LDo(_, _, _), LFor(_, _, _)

(* value_home_dependencies: the local whose register holds the value.      *)
Deps(e) ==
    CASE e.k = "local" -> {e.v}
      [] e.k = "unary" /\ e.f = "+" -> Deps(e.es[1])
      [] e.k = "assign" \/ (e.k = "binary" /\ e.f = ",") -> Deps(e.es[2])
      [] e.k = "inline" -> Deps(e.es[1])
      [] OTHER -> {}

LiveIn(a, locals) == [a EXCEPT !.live = @ \cup locals]

(* expr_sequence: the values of the first ones stay while the others run.  *)
RECURSIVE LSequence(_, _)
LSequence(a, es) ==
    IF es = <<>> THEN a
    ELSE LSequence(LExpr(LiveIn(a, UNION {Deps(x) : x \in Range(Front(es))}), Last(es)), Front(es))

LOpt(a, x) == IF x = <<>> THEN a ELSE LExpr(a, x[1])

LLvalue(a, e, read) ==
    CASE e.k = "local" -> IF read THEN LiveIn(a, {e.v}) ELSE a
      [] e.k = "global" -> a
      [] e.k \in {"deref", "index"} -> LSequence(a, e.es)
      [] e.k = "member" -> LLvalue(a, e.es[1], read)

LAssign(a, e) ==
    LET target == e.es[1]
        a1 == IF target.k = "local" THEN [a EXCEPT !.live = @ \ {target.v}] ELSE LLvalue(a, target, FALSE)
    IN  LExpr(IF e.f = "=" THEN a1 ELSE LLvalue(a1, target, TRUE), e.es[2])

LExpr(a, e) ==
    CASE e.k \in LValueKinds -> LLvalue(a, e, TRUE)
      [] e.k = "addr" -> LLvalue(a, e.es[1], FALSE)
      [] e.k = "incdec" -> LLvalue(a, e.es[1], TRUE)
      [] e.k = "assign" -> LAssign(a, e)
      [] e.k = "call" -> LSequence([a EXCEPT !.out = @ \cup ({e.v} \X a.live)], e.es)
      [] e.k = "binary" /\ e.f \in {"&&", "||"} ->
             LExpr(LiveIn(LExpr(a, e.es[2]), a.live), e.es[1])
      [] e.k = "binary" /\ e.f = "," -> LExpr(LExpr(a, e.es[2]), e.es[1])
      [] e.k = "cond" -> LET t == LExpr(a, e.es[2])
                             f == LExpr([t EXCEPT !.live = a.live], e.es[3])
                         IN  LExpr(LiveIn(f, t.live), e.es[1])
      [] e.k = "inline" -> LStmts(LExpr(a, e.es[1]), e.ss, {}, {})
      [] OTHER -> LSequence(a, e.es)

LDecl(a, st) == LOpt([a EXCEPT !.live = @ \ {st.v}], st.x[1])

LStmts(a, ss, brk, cont) ==
    IF ss = <<>> THEN a ELSE LStmts(LStmt(a, Last(ss), brk, cont), Front(ss), brk, cont)

(* The loops iterate from `live' until nothing is added; after is what is  *)
(* live behind the loop.                                                   *)
LWhile(a, st, live) ==
    LET after == a.live
        body  == LStmt([a EXCEPT !.live = live], st.ss[1], after, live)
        next  == LExpr(LiveIn(body, after), st.x[1][1])
    IN  IF next.live \subseteq live THEN [next EXCEPT !.live = live]
        ELSE LWhile([next EXCEPT !.live = after], st, live \cup next.live)

LDo(a, st, live) ==
    LET after == a.live
        cond  == LExpr([a EXCEPT !.live = after \cup live], st.x[1][1])
        next  == LStmt(cond, st.ss[1], after, cond.live)
    IN  IF next.live \subseteq live THEN [next EXCEPT !.live = live]
        ELSE LDo([next EXCEPT !.live = after], st, live \cup next.live)

LFor(a, st, live) ==
    LET after == a.live
        step  == LOpt([a EXCEPT !.live = live], st.x[3])
        body  == LStmt(step, Last(st.ss), after, step.live)
        next  == LOpt(IF st.x[2] = <<>> THEN body ELSE LiveIn(body, after), st.x[2])
    IN  IF next.live \subseteq live
        THEN LET before == [next EXCEPT !.live = live]
             IN  IF ForDecl(st) THEN LDecl(before, st.ss[1]) ELSE LOpt(before, st.x[1])
        ELSE LFor([next EXCEPT !.live = after], st, live \cup next.live)

(* The dispatch of a switch may reach any of its labels.                   *)
LSwitch(a, st, cont) ==
    LET body == LStmt([a EXCEPT !.entries = Append(@, {})], st.ss[1], a.live, cont)
    IN  LExpr(LiveIn([body EXCEPT !.entries = Front(@)], Last(body.entries)), st.x[1][1])

LLabel(a, st, brk, cont) ==
    LET body == LStmt(a, st.ss[1], brk, cont)
    IN  [body EXCEPT !.entries[Len(a.entries)] = @ \cup body.live]

LStmt(a, st, brk, cont) ==
    CASE st.k = "decl" -> LDecl(a, st)
      [] st.k = "expr" -> LOpt(a, st.x[1])
      [] st.k = "return" -> LOpt([a EXCEPT !.live = {}], st.x[1])
      [] st.k = "block" -> LStmts(a, st.ss, brk, cont)
      [] st.k = "if" -> LET t == LStmt(a, st.ss[1], brk, cont)
                            e == [t EXCEPT !.live = a.live]
                            f == IF Len(st.ss) = 2 THEN LStmt(e, st.ss[2], brk, cont) ELSE e
                        IN  LExpr(LiveIn(f, t.live), st.x[1][1])
      [] st.k = "while" -> LWhile(a, st, a.live)
      [] st.k = "do" -> LDo(a, st, a.live)
      [] st.k = "for" -> LFor(a, st, a.live)
      [] st.k = "break" -> [a EXCEPT !.live = brk]
      [] st.k = "continue" -> [a EXCEPT !.live = cont]
      [] st.k = "switch" -> LSwitch(a, st, cont)
      [] st.k \in {"case", "default"} -> LLabel(a, st, brk, cont)

CallLiveOut(fn) == LStmts([live |-> {}, out |-> {}, entries |-> <<>>], fn.body, {}, {}).out

----------------------------------------------------------------------------
(* allocate_function.  A home is [k, n]: k is "vector", "scalar" or        *)
(* "frame", n the register or the offset in the frame.                     *)
Home(k, n) == [k |-> k, n |-> n]

(* The first register of a kind no local with an overlapping life is in;   *)
(* {} if there is none.                                                    *)
FirstFit(home, span, k, regs, l) ==
    LET free == {r \in regs : \A o \in DOMAIN home : home[o] = Home(k, r) => ~Overlap(span[l], span[o])}
    IN  IF free = {} THEN {} ELSE {Min(free)}

Assign(home, l, h) == [o \in DOMAIN home \cup {l} |-> IF o = l THEN h ELSE home[o]]

(* Parameters keep the register the caller put them in.                    *)
AssignParams(home, fn, k, Is(_)) ==
    FoldFlat(LAMBDA h, i : IF fn.params[i] \notin DOMAIN h /\ Is(fn.params[i])
                           THEN Assign(h, fn.params[i], Home(k, i - 1)) ELSE h,
             home, [i \in DOMAIN fn.params |-> i])

Allocate(p, fn, vectors) ==
    LET span  == Lifetimes(fn)
        before(l) == {o \in DOMAIN span : \/ span[o][1] < span[l][1]
                                          \/ span[o][1] = span[l][1] /\ o < l}
        order == [i \in 1..Cardinality(DOMAIN span) |->
                     CHOOSE l \in DOMAIN span : Cardinality(before(l)) = i - 1]
        uniform(l) == p.locals[l].uniform
        h0 == [l \in {o \in DOMAIN span : p.locals[o].offset >= 0} |-> Home("frame", p.locals[l].offset)]
        h1 == AssignParams(h0, fn, "scalar", uniform)
        h2 == FoldFlat(LAMBDA h, l :
                 LET fit == FirstFit(h, span, "scalar", 0..ALLOCATABLE_SCALAR_REGS - 1, l)
                 IN  IF l \in DOMAIN h \/ l \in Range(fn.params) \/ ~uniform(l) \/ fit = {} THEN h
                     ELSE Assign(h, l, Home("scalar", Min(fit))), h1, order)
        h3 == AssignParams(h2, fn, "vector", LAMBDA l : TRUE)
        r  == FoldFlat(LAMBDA a, l :
                 LET fit == FirstFit(a.home, span, "vector", 0..vectors - 1, l)
                 IN  CASE l \in DOMAIN a.home -> a
                       [] fit # {} -> [a EXCEPT !.home = Assign(@, l, Home("vector", Min(fit)))]
                       [] OTHER -> [home |-> Assign(a.home, l, Home("frame", a.words)),
                                    words |-> a.words + 1],
              [home |-> h3, words |-> fn.frame], order)
    IN  [home |-> r.home, span |-> span, words |-> r.words, out |-> CallLiveOut(fn),
         ok |-> Len(p.data) + r.words * LANES < RAM_SIZE_WORDS]
=============================================================================
