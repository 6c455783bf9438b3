----------------------------- MODULE WarpcParser -----------------------------
(***************************************************************************)
(* Tokens to the syntax tree (parser.rs, ast.rs), by recursive descent.    *)
(* Every parsing operator takes the tokens and a position and returns      *)
(* [ok, i, v]: the position after what it read and the node it built.  An  *)
(* optional part is a sequence of at most one element.                     *)
(*                                                                         *)
(* An expression is [k, v, d, es]: its kind, its text or operator, a type  *)
(* (sizeof only) and its operands.  A statement is [k, ds, x, ss]: its     *)
(* kind, its declarations, its expressions (each optional) and its         *)
(* sub-statements.                                                         *)
(***************************************************************************)
EXTENDS WarpcLexer

Expr(k, v, es)   == [k |-> k, v |-> v, d |-> <<>>, es |-> es]
Stmt(k, x, ss)   == [k |-> k, d |-> <<>>, x |-> x, ss |-> ss]
Declare(k, d, x, ss) == [k |-> k, d |-> <<d>>, x |-> x, ss |-> ss]

Ok(i, v)      == [ok |-> TRUE, i |-> i, v |-> v]
Fail(i)       == [ok |-> FALSE, i |-> i, v |-> <<>>]
Bind(r, F(_)) == IF r.ok THEN F(r) ELSE Fail(r.i)

At(t, i, k)     == t[i].k = k
Bump(t, i)      == IF t[i].k = "eof" THEN i ELSE i + 1
Expect(t, i, k) == IF At(t, i, k) THEN Ok(Bump(t, i), <<>>) ELSE Fail(i)
Ident(t, i)     == IF At(t, i, "ident") THEN Ok(i + 1, t[i].v) ELSE Fail(i)

TypeStart  == {"uniform", "int", "unsigned", "char", "void", "struct"}
AssignOps  == {"=", "+=", "-=", "*=", "/=", "%=", "<<=", ">>=", "&=", "^=", "|="}
PrefixOps  == {"+", "-", "~", "!", "&", "*", "++", "--"}
PostfixOps == {"++", "--"}

(* The binary operators, from the weakest level to the strongest; every    *)
(* level is left associative.                                              *)
Levels == << {"||"}, {"&&"}, {"|"}, {"^"}, {"&"}, {"==", "!="}, {"<", "<=", ">", ">="},
             {"<<", ">>"}, {"+", "-"}, {"*", "/", "%"} >>

RECURSIVE Expression(_, _), CommaRest(_, _, _), Assignment(_, _), Conditional(_, _),
          Level(_, _, _), LevelRest(_, _, _, _), Unary(_, _), Postfix(_, _, _),
          Arguments(_, _, _), Primary(_, _)

(* Type names: int, unsigned [int], char, void, struct S.                  *)
TypeName(t, i) ==
    CASE t[i].k \in {"int", "char", "void"} -> Ok(i + 1, [base |-> t[i].k, tag |-> ""])
      [] At(t, i, "unsigned") -> Ok(IF At(t, i + 1, "int") THEN i + 2 ELSE i + 1,
                                    [base |-> "unsigned", tag |-> ""])
      [] At(t, i, "struct") -> Bind(Ident(t, i + 1),
                                    LAMBDA n : Ok(n.i, [base |-> "struct", tag |-> n.v]))
      [] OTHER -> Fail(i)

(* The stars, the name and the array size of a declarator.                 *)
RECURSIVE Stars(_, _)
Stars(t, i) == IF At(t, i, "*") THEN Stars(t, i + 1) ELSE i

ArraySize(t, i) ==
    CASE ~At(t, i, "[") -> Ok(i, <<>>)
      [] At(t, i + 1, "]") -> Ok(i + 2, << <<>> >>)
      [] OTHER -> Bind(Assignment(t, i + 1),
                       LAMBDA n : Bind(Expect(t, n.i, "]"), LAMBDA e : Ok(e.i, << <<n.v>> >>)))

DeclType(t, i, named) ==
    LET uniform == At(t, i, "uniform")
    IN  Bind(TypeName(t, IF uniform THEN i + 1 ELSE i),
        LAMBDA ty : LET j    == Stars(t, ty.i)
                        name == IF At(t, j, "ident") THEN <<t[j].v>> ELSE <<>>
                    IN  IF named /\ name = <<>> THEN Fail(j)
                        ELSE Bind(ArraySize(t, j + Len(name)),
                             LAMBDA a : Ok(a.i, [uniform |-> uniform, base |-> ty.v.base,
                                                 tag |-> ty.v.tag, pointers |-> j - ty.i,
                                                 name |-> name, array |-> a.v])))

(* expression: assignments separated by commas, from the left.             *)
Expression(t, i) == Bind(Assignment(t, i), LAMBDA a : CommaRest(t, a.i, a.v))

CommaRest(t, i, left) ==
    IF ~At(t, i, ",") THEN Ok(i, left)
    ELSE Bind(Assignment(t, i + 1),
              LAMBDA a : CommaRest(t, a.i, Expr("binary", ",", <<left, a.v>>)))

(* assignment is right associative and binds weaker than ?: .              *)
Assignment(t, i) ==
    Bind(Conditional(t, i),
         LAMBDA l : IF t[l.i].k \notin AssignOps THEN l
                    ELSE Bind(Assignment(t, l.i + 1),
                              LAMBDA r : Ok(r.i, Expr("assign", t[l.i].k, <<l.v, r.v>>))))

Conditional(t, i) ==
    Bind(Level(t, i, 1),
         LAMBDA c : IF ~At(t, c.i, "?") THEN c
                    ELSE Bind(Expression(t, c.i + 1),
                         LAMBDA a : Bind(Expect(t, a.i, ":"),
                         LAMBDA e : Bind(Conditional(t, e.i),
                         LAMBDA b : Ok(b.i, Expr("cond", "", <<c.v, a.v, b.v>>))))))

(* left_assoc: the operators of level n and stronger over unary operands.  *)
(* The right operand of an operator takes the stronger levels only.        *)
LevelOf(k) == LET ns == {n \in DOMAIN Levels : k \in Levels[n]}
              IN  IF ns = {} THEN 0 ELSE CHOOSE n \in ns : TRUE

Level(t, i, n) == Bind(Unary(t, i), LAMBDA l : LevelRest(t, l.i, n, l.v))

\* Fault: operators of a level associate to the right.
LevelRestRight(t, i, n, left) ==
    IF LevelOf(t[i].k) < n THEN Ok(i, left)
    ELSE Bind(Level(t, i + 1, LevelOf(t[i].k)),
              LAMBDA r : LevelRest(t, r.i, n, Expr("binary", t[i].k, <<left, r.v>>)))
LevelRest(t, i, n, left) ==
    IF LevelOf(t[i].k) < n THEN Ok(i, left)
    ELSE Bind(Level(t, i + 1, LevelOf(t[i].k) + 1),
              LAMBDA r : LevelRest(t, r.i, n, Expr("binary", t[i].k, <<left, r.v>>)))

Unary(t, i) ==
    CASE At(t, i, "sizeof") /\ At(t, i + 1, "(") /\ t[i + 2].k \in TypeStart ->
           Bind(DeclType(t, i + 2, FALSE),
                LAMBDA d : Bind(Expect(t, d.i, ")"),
                LAMBDA e : Ok(e.i, [Expr("sizeoftype", "", <<>>) EXCEPT !.d = <<d.v>>])))
      [] At(t, i, "sizeof") -> Bind(Unary(t, i + 1),
                                    LAMBDA u : Ok(u.i, Expr("sizeof", "", <<u.v>>)))
      [] t[i].k \in PrefixOps -> Bind(Unary(t, i + 1),
                                      LAMBDA u : Ok(u.i, Expr("unary", t[i].k, <<u.v>>)))
      [] OTHER -> Bind(Primary(t, i), LAMBDA p : Postfix(t, p.i, p.v))

(* Calls, indexes, members and ++/-- after an expression.                  *)
Postfix(t, i, e) ==
    CASE At(t, i, "(") -> Bind(Arguments(t, i + 1, <<>>),
                               LAMBDA a : IF e.k # "name" THEN Fail(i)
                                          ELSE Postfix(t, a.i, Expr("call", e.v, a.v)))
      [] At(t, i, "[") -> Bind(Expression(t, i + 1),
                               LAMBDA x : Bind(Expect(t, x.i, "]"),
                               LAMBDA c : Postfix(t, c.i, Expr("index", "", <<e, x.v>>))))
      [] t[i].k \in {".", "->"} ->
           Bind(Ident(t, i + 1),
                LAMBDA n : Postfix(t, n.i, [Expr("member", n.v, <<e>>) EXCEPT !.d = <<t[i].k>>]))
      [] t[i].k \in PostfixOps -> Postfix(t, i + 1, Expr("postfix", t[i].k, <<e>>))
      [] OTHER -> Ok(i, e)

Arguments(t, i, args) ==
    IF At(t, i, ")") THEN Ok(i + 1, args)
    ELSE Bind(Assignment(t, i),
              LAMBDA a : IF At(t, a.i, ",") THEN Arguments(t, a.i + 1, Append(args, a.v))
                         ELSE Bind(Expect(t, a.i, ")"), LAMBDA e : Ok(e.i, Append(args, a.v))))

Primary(t, i) ==
    CASE t[i].k \in {"number", "charlit", "string"} -> Ok(i + 1, Expr(t[i].k, t[i].v, <<>>))
      [] At(t, i, "ident") -> Ok(i + 1, Expr("name", t[i].v, <<>>))
      [] At(t, i, "(") -> Bind(Expression(t, i + 1),
                               LAMBDA x : Bind(Expect(t, x.i, ")"), LAMBDA e : Ok(e.i, x.v)))
      [] OTHER -> Fail(i)

----------------------------------------------------------------------------
(* Statements and declarations.                                            *)
RECURSIVE Statement(_, _), Block(_, _)

(* Items up to the end of their list; Item keeps what it reads apart.      *)
Many(t, i, Ends(_), Item(_)) ==
    LET item(x) == IF Ends(x.i) THEN [x EXCEPT !.done = TRUE]
                   ELSE LET r == Item(x.i)
                        IN  [ok |-> r.ok, i |-> r.i, v |-> Append(x.v, r.v), done |-> ~r.ok]
    IN  Repeat(item, [ok |-> TRUE, i |-> i, v |-> <<>>, done |-> FALSE], 8)

(* An expression that may be absent before the token that ends it.         *)
OptExpression(t, i, end) ==
    IF At(t, i, end) THEN Ok(i + 1, <<>>)
    ELSE Bind(Expression(t, i), LAMBDA x : Bind(Expect(t, x.i, end), LAMBDA e : Ok(e.i, <<x.v>>)))

Parenthesized(t, i) ==
    Bind(Expect(t, i, "("), LAMBDA p : Bind(Expression(t, p.i),
    LAMBDA x : Bind(Expect(t, x.i, ")"), LAMBDA e : Ok(e.i, x.v))))

(* A type, a declarator and an optional initializer, up to the semicolon.  *)
Declaration(t, i) ==
    Bind(DeclType(t, i, TRUE),
         LAMBDA d : IF ~At(t, d.i, "=")
                    THEN Bind(Expect(t, d.i, ";"), LAMBDA e : Ok(e.i, Declare("decl", d.v, << <<>> >>, <<>>)))
                    ELSE Bind(Assignment(t, d.i + 1),
                         LAMBDA x : Bind(Expect(t, x.i, ";"),
                         LAMBDA e : Ok(e.i, Declare("decl", d.v, << <<x.v>> >>, <<>>)))))

Block(t, i) ==
    Bind(Many(t, i, LAMBDA j : t[j].k \in {"}", "eof"},
              LAMBDA j : IF t[j].k \in TypeStart THEN Declaration(t, j) ELSE Statement(t, j)),
         LAMBDA b : Bind(Expect(t, b.i, "}"), LAMBDA e : Ok(e.i, Stmt("block", <<>>, b.v))))

(* An else belongs to the nearest if.                                      *)
IfStatement(t, i) ==
    Bind(Parenthesized(t, i + 1), LAMBDA c : Bind(Statement(t, c.i),
    LAMBDA a : IF At(t, a.i, "else")
               THEN Bind(Statement(t, a.i + 1), LAMBDA b : Ok(b.i, Stmt("if", << <<c.v>> >>, <<a.v, b.v>>)))
               ELSE Ok(a.i, Stmt("if", << <<c.v>> >>, <<a.v>>))))

(* for (init; condition; step) body: x is <<init, condition, step>>, and   *)
(* the sub-statements are the initial declaration, if any, and the body.   *)
ForStatement(t, i) ==
    Bind(Expect(t, i + 1, "("), LAMBDA p :
    Bind(IF t[p.i].k \in TypeStart THEN Declaration(t, p.i) ELSE OptExpression(t, p.i, ";"), LAMBDA init :
    Bind(OptExpression(t, init.i, ";"), LAMBDA c :
    Bind(OptExpression(t, c.i, ")"), LAMBDA step :
    Bind(Statement(t, step.i), LAMBDA body :
         IF t[p.i].k \in TypeStart
         THEN Ok(body.i, Stmt("for", << <<>>, c.v, step.v>>, <<init.v, body.v>>))
         ELSE Ok(body.i, Stmt("for", <<init.v, c.v, step.v>>, <<body.v>>)))))))

Statement(t, i) ==
    CASE At(t, i, "if") -> IfStatement(t, i)
      [] t[i].k \in {"while", "switch"} ->
           Bind(Parenthesized(t, i + 1), LAMBDA c : Bind(Statement(t, c.i),
           LAMBDA s : Ok(s.i, Stmt(t[i].k, << <<c.v>> >>, <<s.v>>))))
      [] At(t, i, "do") ->
           Bind(Statement(t, i + 1), LAMBDA s : Bind(Expect(t, s.i, "while"),
           LAMBDA w : Bind(Parenthesized(t, w.i), LAMBDA c : Bind(Expect(t, c.i, ";"),
           LAMBDA e : Ok(e.i, Stmt("do", << <<c.v>> >>, <<s.v>>))))))
      [] At(t, i, "for") -> ForStatement(t, i)
      [] t[i].k \in {"break", "continue"} ->
           Bind(Expect(t, i + 1, ";"), LAMBDA e : Ok(e.i, Stmt(t[i].k, <<>>, <<>>)))
      [] At(t, i, "case") ->
           Bind(Expression(t, i + 1), LAMBDA x : Bind(Expect(t, x.i, ":"),
           LAMBDA c : Bind(Statement(t, c.i), LAMBDA s : Ok(s.i, Stmt("case", << <<x.v>> >>, <<s.v>>)))))
      [] At(t, i, "default") ->
           Bind(Expect(t, i + 1, ":"),
                LAMBDA c : Bind(Statement(t, c.i), LAMBDA s : Ok(s.i, Stmt("default", <<>>, <<s.v>>))))
      [] At(t, i, "return") -> Bind(OptExpression(t, i + 1, ";"),
                                    LAMBDA x : Ok(x.i, Stmt("return", <<x.v>>, <<>>)))
      [] At(t, i, "{") -> Block(t, i + 1)
      [] OTHER -> Bind(OptExpression(t, i, ";"), LAMBDA x : Ok(x.i, Stmt("expr", <<x.v>>, <<>>)))

----------------------------------------------------------------------------
(* Top level: structures, globals and functions.                           *)
RECURSIVE Params(_, _, _)

Field(t, i) == Bind(DeclType(t, i, TRUE), LAMBDA d : Bind(Expect(t, d.i, ";"), LAMBDA e : Ok(e.i, d.v)))

StructDefinition(t, i) ==
    Bind(Many(t, i + 3, LAMBDA j : At(t, j, "}"), LAMBDA j : Field(t, j)),
         LAMBDA f : Bind(Expect(t, f.i + 1, ";"),
         LAMBDA e : Ok(e.i, <<"structs", [name |-> t[i + 1].v, fields |-> f.v]>>)))

Params(t, i, ps) ==
    IF At(t, i, ")") THEN Ok(i + 1, ps)
    ELSE Bind(DeclType(t, i, FALSE),
              LAMBDA d : IF At(t, d.i, ",") THEN Params(t, d.i + 1, Append(ps, d.v))
                         ELSE Bind(Expect(t, d.i, ")"), LAMBDA e : Ok(e.i, Append(ps, d.v))))

(* A function, from its "(" on: a prototype has no body.                   *)
FunctionRest(t, i, d) ==
    LET func(ps, body) == [ret |-> [d EXCEPT !.name = <<>>], name |-> d.name[1], params |-> ps, body |-> body]
    IN  Bind(IF At(t, i + 1, "void") /\ At(t, i + 2, ")") THEN Ok(i + 3, <<>>) ELSE Params(t, i + 1, <<>>),
             LAMBDA ps : IF At(t, ps.i, ";") THEN Ok(ps.i + 1, func(ps.v, <<>>))
                         ELSE Bind(Expect(t, ps.i, "{"), LAMBDA b : Bind(Block(t, b.i),
                              LAMBDA body : Ok(body.i, func(ps.v, <<body.v>>)))))

TopLevel(t, i) ==
    IF At(t, i, "struct") /\ At(t, i + 1, "ident") /\ At(t, i + 2, "{") THEN StructDefinition(t, i)
    ELSE Bind(DeclType(t, i, TRUE),
              LAMBDA d : IF At(t, d.i, "(") /\ d.v.array = <<>>
                         THEN Bind(FunctionRest(t, d.i, d.v), LAMBDA f : Ok(f.i, <<"functions", f.v>>))
                         ELSE Bind(Declaration(t, i), LAMBDA g : Ok(g.i, <<"globals", g.v>>)))

(* parse: the program, or ok = FALSE with the position of the error.       *)
Parse(t) ==
    LET r == Many(t, 1, LAMBDA j : At(t, j, "eof"), LAMBDA j : TopLevel(t, j))
        of(kind) == LET mine == SelectSeq(r.v, LAMBDA x : x[1] = kind) IN [n \in DOMAIN mine |-> mine[n][2]]
    IN  IF t = <<>> THEN Fail(0)
        ELSE Bind(r, LAMBDA x : IF of("functions") = <<>> THEN Fail(x.i)
                                ELSE Ok(x.i, [structs |-> of("structs"), globals |-> of("globals"),
                                              functions |-> of("functions")]))
=============================================================================
