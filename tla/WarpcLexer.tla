----------------------------- MODULE WarpcLexer -----------------------------
(***************************************************************************)
(* Warp C source text to tokens (lexer.rs).  A source is a string; a token *)
(* is [k, v]: k is its kind, which for a keyword or an operator is its     *)
(* spelling, and v is the text of an identifier, number or literal.        *)
(* Source positions are not kept.                                          *)
(***************************************************************************)
EXTENDS Integers, Sequences

(* Two loops the modules of the toolchain share, by halves so that the     *)
(* recursion stays flat: Step taken until done, at most 2^n times, and a   *)
(* fold over a sequence from the left.                                     *)
Repeat(Step(_), x0, n) ==
    LET RECURSIVE go(_, _)
        go(x, k) == IF x.done THEN x ELSE IF k = 0 THEN Step(x) ELSE go(go(x, k - 1), k - 1)
    IN  go(x0, n)

FoldFlat(F(_, _), x0, seq) ==
    LET RECURSIVE go(_, _, _)
        go(x, i, j) == CASE i > j -> x
                         [] i = j -> F(x, seq[i])
                         [] OTHER -> LET h == (i + j) \div 2 IN go(go(x, i, h), h + 1, j)
    IN  go(x0, 1, Len(seq))

Peek(s, i) == IF i <= Len(s) THEN SubSeq(s, i, i) ELSE ""

Chars(text) == {SubSeq(text, i, i) : i \in 1..Len(text)}

Digits     == Chars("0123456789")
IdentStart == Chars("abcdefghijklmnopqrstuvwxyzABCDEFGHIJKLMNOPQRSTUVWXYZ_")
IdentChar  == IdentStart \cup Digits
Blank      == Chars(" \t\r\n")

Keywords == {"int", "unsigned", "char", "void", "return", "if", "else", "while", "do",
             "for", "break", "continue", "switch", "case", "default", "struct",
             "uniform", "sizeof"}

(* The operators of three, two and one characters, tried in this order.    *)
Operators == << {"<<=", ">>="},
                {"++", "--", "->", "+=", "-=", "*=", "/=", "%=", "&=", "|=", "^=", "==",
                 "!=", "<=", ">=", "&&", "||", "<<", ">>"},
                Chars("(){}[];,?:.+-*/%&|^~!=<>") >>

(* What a backslash escape stands for in a character or string literal.    *)
Escape == [n |-> "\n", r |-> "\r", t |-> "\t"]

Token(k, v) == [k |-> k, v |-> v]

(* The first position from i on whose character is outside the set.        *)
RECURSIVE EndOf(_, _, _)
EndOf(s, i, set) == IF Peek(s, i) \in set THEN EndOf(s, i + 1, set) ELSE i

(* The first position from i on where the text starts; 0 if there is none. *)
Find(s, i, text) ==
    LET hits == {j \in i..Len(s) - Len(text) + 1 : SubSeq(s, j, j + Len(text) - 1) = text}
    IN  IF hits = {} THEN 0 ELSE CHOOSE j \in hits : \A k \in hits : j <= k

(* skip_trivia: blanks and comments; 0 when a block comment does not end.  *)
RECURSIVE SkipTrivia(_, _)
SkipTrivia(s, i) ==
    LET j    == EndOf(s, i, Blank)
        two  == Peek(s, j) \o Peek(s, j + 1)
        line == Find(s, j, "\n")
        end  == Find(s, j + 2, "*/")
    IN  CASE two = "//" -> IF line = 0 THEN Len(s) + 1 ELSE SkipTrivia(s, line)
          [] two = "/*" -> IF end = 0 THEN 0 ELSE SkipTrivia(s, end + 2)
          [] OTHER -> j

(* The characters of a literal up to its closing quote: [at, v], where at  *)
(* is the position after the quote, or 0 if the literal is malformed.      *)
RECURSIVE Quoted(_, _, _, _)
Quoted(s, i, quote, v) ==
    LET c == Peek(s, i)
        e == Peek(s, i + 1)
    IN  CASE c = quote -> [at |-> i + 1, v |-> v]
          [] c \in {"", "\n"} -> [at |-> 0, v |-> v]
          [] c = "\\" -> IF e \in DOMAIN Escape THEN Quoted(s, i + 2, quote, Append(v, Escape[e]))
                         ELSE IF e = "0" THEN Quoted(s, i + 2, quote, Append(v, ""))
                         ELSE IF e \in {"\\", "'", quote}
                              THEN Quoted(s, i + 2, quote, Append(v, e))
                              ELSE [at |-> 0, v |-> v]
          [] OTHER -> Quoted(s, i + 1, quote, Append(v, c))

(* operator: the longest operator at i, or "" if none starts there.        *)
OperatorAt(s, i) ==
    LET of(n) == IF i + n - 1 <= Len(s) THEN SubSeq(s, i, i + n - 1) ELSE ""
    IN  CASE of(3) \in Operators[1] -> of(3)
          [] of(2) \in Operators[2] -> of(2)
          [] of(1) \in Operators[3] -> of(1)
          [] OTHER -> ""

(* One token at i: [at, tok], at = 0 when no token starts there.           *)
TokenAt(s, i) ==
    LET c    == Peek(s, i)
        end  == EndOf(s, i, IdentChar)
        word == SubSeq(s, i, end - 1)
        q    == Quoted(s, i + 1, c, <<>>)
        op   == OperatorAt(s, i)
    IN  CASE c \in IdentStart -> [at |-> end, tok |-> IF word \in Keywords
                                                      THEN Token(word, "") ELSE Token("ident", word)]
          [] c \in Digits -> [at |-> end, tok |-> Token("number", word)]
          [] c = "'" /\ Peek(s, i + 1) = "'" /\ Peek(s, i + 2) = "'" ->
               [at |-> i + 3, tok |-> Token("charlit", <<"'">>)]
          [] c = "'" -> [at |-> IF Len(q.v) = 1 THEN q.at ELSE 0, tok |-> Token("charlit", q.v)]
          [] c = "\"" -> [at |-> q.at, tok |-> Token("string", Append(q.v, ""))]
          [] OTHER -> [at |-> IF op = "" THEN 0 ELSE i + Len(op), tok |-> Token(op, "")]

(* lex: the tokens of the source, ended by "eof", or <<>> on an error.     *)
Lex(s) ==
    LET token(x) == LET j == SkipTrivia(s, x.i)
                       t == TokenAt(s, j)
                       end(toks) == [i |-> j, toks |-> toks, done |-> TRUE]
                   IN  CASE j = 0 -> end(<<>>)
                         [] j > Len(s) -> end(Append(x.toks, Token("eof", "")))
                         [] OTHER -> IF t.at = 0 THEN end(<<>>)
                                     ELSE [i |-> t.at, toks |-> Append(x.toks, t.tok), done |-> FALSE]
    IN  Repeat(token, [i |-> 1, toks |-> <<>>, done |-> FALSE], 10).toks
=============================================================================
