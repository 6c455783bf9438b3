---------------------------- MODULE MCToolchain ----------------------------
(***************************************************************************)
(* Programs for the toolchain on a warp of four lanes and sixteen bits.    *)
(***************************************************************************)
EXTENDS Toolchain

Job(src, kind)  == [src |-> src, kind |-> kind, mail |-> <<>>, recvs |-> 0, expr |-> <<>>]
JobsOf(srcs, kind) == {Job(src, kind) : src \in srcs}
Main(body)      == "int main(void){ " \o body \o " }"
Mains(bodies)   == {Main(body) : body \in bodies}
Mail(src, n, messages) == [Job(src, "runs") EXCEPT !.recvs = n, !.mail = messages]
Letter(p, m)    == [payload |-> p, meta |-> m]

----------------------------------------------------------------------------
(* Every binary operator on every pair of types that converts differently, *)
(* on operands of both signs, and on a constant; every compound assignment. *)
Ops   == {"+", "-", "*", "/", "%", "<<", ">>", "&", "|", "^", "<", "<=", ">", ">=", "==", "!="}
Types == {<<"int", "int">>, <<"unsigned", "unsigned">>, <<"int", "unsigned">>, <<"char", "int">>}
Operand(t, name, value) == t \o " " \o name \o " = " \o value \o "; "
OperatorPrograms ==
    Mains({Operand(t[1], "a", "WARP * 0x5555") \o Operand(t[2], "b", "WARP - 1") \o "return a " \o op \o " b;"
           : t \in Types, op \in Ops})
    \cup Mains({"int a = WARP - 2; return (a " \o op \o " 3) + (300 " \o op \o " a);" : op \in Ops})
    \cup Mains({"int a = WARP - 2; uniform int u = -7; a " \o op \o "= 5; u " \o op \o "= 3; return a + u;"
                : op \in Ops \ {"<", "<=", ">", ">=", "==", "!="}})

(* Control flow, calls and inlining, masks, uniform and spilled locals,    *)
(* pointers and structures, lanes and the framebuffer.                     *)
Bodies == {
  "int a = WARP; if (a & 1) { a += 10; if (a > 12) a = 7; else { a--; } } else a = -a; return " \o
    "a;",
  "uniform int u = 1; if (WARP < 2) { u = 3; u += 2; } else u++; if (WARP > 9) u = 7; return u;",
  "uniform int i = 0; int s = 0; while (i < 5) { i++; if (i == 2) continue; if (i == 4) break; " \o
    "s += i * WARP; } return s;",
  "uniform int i = 0; int s = 0; do { s += 2; if (i == 1) { i = 7; continue; } i++; } while (i " \o
    "< 4); return s + i;",
  "int s = 0; for (uniform int i = 0; i < 3; i++) { for (uniform int j = 0; j < 3; j++) { if " \o
    "(j == i) continue; s += WARP + j; } } return s;",
  "int s = 0; for (uniform int i = 0; i < 5; i++) { switch (i) { case 0: s += 1; case 1: s += " \o
    "10; break; default: s += 100; continue; case 3: { s += 1000; } } s += 5; } return s;",
  "uniform int i = -1; int s = 0; switch (i) { case 0: s = 1; break; case -1: s = 2; case 1 + " \o
    "1: s += WARP; } switch (i) { case 5: s = 0; } return s;",
  "int a = WARP; int b = a + 1; int c = b + 1; int d = c + 1; int e = d + 1; int f = e + 1; " \o
    "int h = f + 1; int i = h + 1; int j = i + 1; int k = j + 1; return a + b * c - d + e * f - " \o
    "h + i * j - k;",
  "int a = WARP; int b = a + 1; int c = b + 1; int d = c + 1; int e = 1; int f = 2; int h = 3; " \o
    "return (a + 1) * ((b + 2) * ((c + 3) * ((d + 4) * ((e + 5) * ((f + 6) * ((h + 7) * (a + " \o
    "8)))))));",
  "int a = WARP; int b = 9; uniform int u = 1; int x = a < 2 ? a : b; int y = a < 2 ? (b = 4) " \o
    ": a * b; int z = u ? (b += 1) : 3; return x + y + z + b;",
  "int a = WARP * 3 - 4; return warp_broadcast(a, 2) + warp_shuffle(a, WARP + 1) + " \o
    "warp_shuffle_xor(a, 1) + warp_ballot(a > 0) + warp_any(a == 5) + 2 * warp_all(a < 9);",
  "int a = WARP * 3 - 4; return warp_reduce_add(a) + 3 * warp_reduce_min(a) + 5 * " \o
    "warp_reduce_max(a) + warp_reduce_min_u(a) + 7 * warp_reduce_max_u(a) + warp_reduce_and(a) + " \o
    "warp_reduce_or(a) - warp_reduce_xor(a) + warp_reduce_add_u(a);",
  "int a = WARP - 2; unsigned b = WARP; return min(a, 0) + 2 * max(a, -1) + 4 * min(b, 2) + 8 " \o
    "* max(a, b) + 16 * min(3, 4) + max(-1, 0);",
  "unsigned *f = warp_framebuffer(); warp_set_pixel(WARP, 1, warp_argb(15, WARP, 2, 3)); " \o
    "warp_flip(); f[WARP * 4] = 7; warp_flip(); return warp_vm_id() + warp_lane_id();",
  "unsigned a = 5; int x = (a <<= 2, a |= 1, a ^= 3, a %= 7, a--); x += a++; x -= --a; x *= 2; " \o
    "x <<= WARP; x >>= 1; return ~x + !x + -x + a;",
  "int a[4]; int *p = a; int *q = &a[3]; a[0] = 1; a[1] = 2; a[2] = 3; a[3] = 4; *p++ = 7; ++p;" \o
    " int d = q - p; *--q = 9; d += 2 * (p == q) + 4 * (a != p); return d + a[2] + p[-1] + *(1 + " \o
    "p);",
  "for (;;) { break; } uniform int i = 3; while (1) { if (i == 0) return 5; i -= 1; }",
  "unsigned a = WARP; unsigned r = 1; for (uniform unsigned i = 0; i < 3u; ++i) { if (a & (1 " \o
    "<< i)) { r = r * 3; } else { r = r + 2; if (r > 4) r -= 1; } } return r;",
  "int a = 300; int b = -300; int c = a + 1000; return (a == 300) + (b == -300) * 2 + (c > " \o
    "255) * 4 + (b < -256) * 8 + (a - 0x7fff);",
  "int a = 1; { int a = 2; { int a = 3; a += 1; } a += 4; } return a;",
  "uniform int u = 7; uniform int *p; int x = 3; int *q = &x; int **r = &q; **r += WARP; " \o
    "return x + *q + u;",
  "int a = 5; uniform int s = 2; switch (s) { case 1: a = 1; default: { a += 2; switch (s > 1) " \o
    "{ case 1: a++; } } case 4: a *= 3; } return a;",
  "uniform int i = 0; int n = 0; while (i < 3) { switch (i) { case 1: i += 1; continue; case " \o
    "0: n += 5; } i++; n++; } return n;",
  "uniform int a = 1; uniform int b = 2; uniform int c = 3; uniform int d = 4; uniform int e = " \o
    "5; uniform int f = 6; uniform int h = 7; uniform int i = 8; uniform int j = 9; int v = WARP;" \o
    " if (v > 1) { i = 20; j += i; } return a + b + c + d + e + f + h + i * j;"}

Wholes == {
  "int g; int main(void){ uniform int u = 2; if (u > 1) { g = 5; } else g = 6; if (g) u = 0; " \o
    "return u + g; }",
  "int f(int x, uniform int n){ int s = 0; for (uniform int i = 0; i < n; i++) s += x + i; " \o
    "return s; } int main(void){ int a = WARP; int b = 5; uniform int u = 3; b = f(a, u) + b * " \o
    "f(b, 2); return a + b + u; }",
  "int f(int x, uniform int n){ int s = 0; for (uniform int i = 0; i < n; i++) s += x + i; " \o
    "return s; } int main(void){ return f(f(WARP, 2), 1) - f(3, 2); }",
  "uniform int f(uniform int n){ uniform int s = 0; for (uniform int i = 0; i < n; i++) s += i;" \o
    " return s; } int main(void){ uniform int t = f(4); int s = 0; for (uniform int i = 0; i < " \o
    "f(2) + 1; i++) s += t; return s; }",
  "void put(int *p, int v){ uniform int i; for (i = 0; i < 1; i++) *p = v; } int main(void){ " \o
    "int x = 1; put(&x, WARP + 3); return x; }",
  "int sq(int x){ return x * x; } int add(int a, int b){ int t = a; t += b; return t; } int " \o
    "main(void){ int t = 3; return add(sq(WARP), t) + t; }",
  "char s[] = \"ab\"; char *p = \"cd\"; int main(void){ char *t = \"xy\"; char l[4] = \"q\"; return " \o
    "t[1] + s[WARP & 1] + p[0] + l[0] + l[WARP]; }",
  "struct Q { int v; struct Q *next; }; struct P { int x; int a[2]; struct Q q; }; struct P g; " \o
    "int main(void){ struct P p; struct Q z; struct P *r = &p; z.v = WARP; z.next = 0; p.q.next " \o
    "= &z; r->a[1] = 5; r->x = sizeof(struct P); p.q.v = 2; g.a[0] = 9; g.q.v = 3; return r->x + " \o
    "p.a[1] + p.q.next->v + g.a[0] + g.q.v + (z.next == 0); }",
  "int g; int f(void){ uniform int i; for (i = 0; i < 1; i++) g += 1; return g; } int " \o
    "main(void){ uniform int u = 0; uniform int b = 1; int x = (b > 1) && (b = 3); int y = (b > " \o
    "1) || (b = 7); int z = u && 1; int w = u || b; return x + 2 * y + 4 * z + 8 * w + b + g; }",
  "int a = 3; char b[] = \"hey\"; unsigned c = 0xFFFFu; int d = 'x' - 1; int e = 1 ? 2 : 3; int " \o
    "f[4]; int main(void){ return a + b[0] + c + d + e + sizeof(b) + sizeof(int) + sizeof a + " \o
    "f[3] + sizeof(f); }",
  "struct Q { int v; int w; }; int main(void){ struct Q z[3]; struct Q *p = z; struct Q *q = " \o
    "&z[2]; z[0].w = 1; z[1].w = 2; z[2].v = 3; z[2].w = WARP; p++; p += 1; q--; return (p - q) " \o
    "+ p->w + q->w + (q + 1)->v; }",
  "int f(int x){ switch (1) { case 1: x += 1; } return x; } int h(int x){ switch (1) { " \o
    "default: x = f(x) + f(x + 1); } return x; } int main(void){ return h(WARP) + h(2) * f(1); }",
  "void f(void){ uniform int i = 0; while (i < 2) i++; } int main(void){ f(); int a = WARP; " \o
    "f(); return a; }",
  "int f(int x){ uniform int i = 0; while (i < 2) { i++; x++; } return x; } int main(void){ " \o
    "uniform int u = 1; uniform int t = 4; int a = 7; u += t; a = u ? f(a) + t : 2; t++; return " \o
    "(1 ? a : f(a)) + u * t + f(u); }",
  "int id(int x){ return x; } int dbl(int y){ int r = id(y) + id(y); return r; } int " \o
    "main(void){ int r = 5; int y = 7; r = dbl(r) + dbl(WARP); return r + y; }",
  "int add2(int *p){ *p = *p + 2; return *p; } int main(void){ int x = WARP; int y = add2(&x); " \o
    "return x * y; }",
  "unsigned buf[8]; int main(void){ buf[WARP] = WARP * 3; buf[WARP + 4] = buf[WARP] << 1; " \o
    "return buf[(WARP + 1) & 3] + buf[7 - WARP]; }",
  "char *names = \"one\"; int main(void){ char *s = names; int n = 0; uniform int i; for (i = 0; " \o
    "i < 4; i++) { if (s[i] == 0) { n = i; } } return n + sizeof(char) + '\\n' + '\\\\' + '\\0' + " \o
    "'\\''; }",
  "int main(void); int main(void){ return 3; }",
  "int f(int x); int main(void){ return f(2) + f(WARP); } int f(int x){ uniform int i; for (i " \o
    "= 0; i < 2; i++) { x *= 2; } return x; }",
  "void v(int x){ if (x > 1) { x = 2; } return; } int main(void){ v(3); return 1; }",
  "int f(int a, int b, int c, uniform int s){ uniform int i; for (i = 0; i < 1; i++) a += b; " \o
    "return a + c * s; } int main(void){ int x = WARP; return f(x, 2, x + 1, 3) + x; }",
  "int f(int *p, int n){ p[0] += n; uniform int i; for (i = 0; i < 2; i++) { p[i] += i; } " \o
    "return p[1]; } int main(void){ int a[2]; a[0] = WARP; a[1] = 1; int r = f(a, 3) + a[0]; int " \o
    "k = f(&a[0], r); return r + k + a[1]; }",
  "#include <warp.h>\nunsigned a[6]; unsigned b[6]; int main(void){ a[0] = 3; a[5] = 4; " \o
    "warp_memcpy(b, a, 6); warp_memset(a, 7, 5); return b[5] + a[WARP]; }",
  "/* block */ int main ( void ) { // line\n\treturn /* x */ 1_0 + 0X1f ; }"}

(* Programs that send and receive, with what may arrive while they run.    *)
Correspondence == {
  Mail("unsigned p; unsigned m; int main(void){ int a = 0; if (warp_try_recv(&p, &m)) a = p + " \o
         "m; warp_send(1, 7, 42); a += warp_try_recv(&p, &m); return a + p; }", 2, <<Letter(3, 5), Letter(4, 6)>>),
  Mail("unsigned p; unsigned m; unsigned sum; int main(void){ uniform int i; for (i = 0; i < 3;" \o
         " i++) { if (warp_try_recv(&p, &m)) { sum += p * m; } } return sum; }", 3, <<Letter(1, 2), Letter(3, 4)>>),
  Mail("unsigned p; unsigned m; int main(void){ int a = 1; int got = warp_try_recv(&p, &m); if " \o
         "(got) { a = p; } else { a = 0x100; } return a + m; }", 1, <<Letter(9, 1)>>),
  Mail("int main(void){ warp_send(2, 3 + 1, 5); uniform int u = 4; warp_send(u, u + 1, u * u); " \o
         "return 0; }", 0, <<>>)}

(* A program for each rule of the language, which it breaks.               *)
IllegalBodies == {
  "return",
  "return 1 + ;",
  "return 'ab';",
  "return \"abc;",
  "/* open return 0;",
  "return $;",
  "return x;",
  "return f(1);",
  "while (WARP) ; return 0;",
  "int i; for (i = 0; i < 3; i++) ; return 0;",
  "do ; while (WARP < 2); return 0;",
  "switch (WARP) { case 0: return 1; } return 0;",
  "if (WARP) return 1; return 0;",
  "uniform int i; for (i = 0; i < 3; i++) { if (WARP > i) break; } return 0;",
  "uniform int i; for (i = 0; i < 3; i++) { if (WARP > i) continue; } return 0;",
  "int a = 0; if (WARP) { for (;;) break; } return a;",
  "int a = 0; if (WARP) { while (1) break; } return a;",
  "int a = 0; if (WARP) a = warp_any(a); return a;",
  "if (WARP) warp_flip(); return 0;",
  "if (WARP) warp_send(1, 2, 3); return 0;",
  "warp_send(WARP, 2, 3); return 0;",
  "int a = 0; if (WARP > 0) { if (WARP > 1) { if (WARP > 2) a = 1; } } return a;",
  "uniform int u = WARP; return u;",
  "uniform int u = warp_shuffle(WARP, 3 - WARP); return u;",
  "uniform int u = 1; u += WARP; return u;",
  "uniform int u = 1; if (u) { u = warp_lane_id(); } return u;",
  "uniform int u = 1; int *p = &u; return *p;",
  "return WARP && 1;",
  "int a = 0; if (WARP) a = 1 || 0; return a;",
  "uniform int k = 1; switch (k) { case 1: case 1: return 1; } return 0;",
  "uniform int k = 1; switch (k) { case k: return 1; } return 0;",
  "uniform int k = 1; switch (k) { default: k = 2; default: return 1; } return 0;",
  "break; return 0;",
  "continue; return 0;",
  "case 1: return 0;",
  "int a; int a; return 0;",
  "struct T t; return 0;",
  "int a[0]; return 0;",
  "int n = 2; int a[n]; return 0;",
  "int a[2] = 3; return 0;",
  "char s[2] = \"abc\"; return 0;",
  "int *p = 5; return 0;",
  "int a; unsigned *p = &a; return 0;",
  "int a; int *p = &a; int *q = p; return p < q;",
  "int a; return *a;",
  "return 3 = 4;",
  "return &3;",
  "3++; return 0;",
  "return main();",
  "uniform int a[2]; return 0;",
  "return 99999999999;",
  "return 0x;",
  "return warp_shuffle_xor(WARP, 4);",
  "return warp_shuffle_xor(WARP, WARP);",
  "return warp_broadcast(WARP, WARP);",
  "return min(1);",
  "int a[300]; return 0;",
  "int x = 1; int y = x ? 1 : &x; return y;",
  "uniform int i = 0; while (i < 2) { int a = 0; if (i) { a = WARP ? warp_all(a) : 1; } i++; } " \o
    "return 0;",
  "int x; x.a = 1; return 0;",
  "int x; return x[0];",
  "return sizeof(void);"}

IllegalWholes == {
  "#include <stdio.h>\nint main(void){ return 0; }",
  "#define N 3\nint main(void){ return N; }",
  "int f(int x); int main(void){ return f(1); }",
  "int f(int x){ uniform int i; for (i = 0; i < 1; i++) x++; return x; } int main(void){ " \o
    "return f(); }",
  "int f(int x){ uniform int i; for (i = 0; i < 1; i++) x++; return f(x); } int main(void){ " \o
    "return f(1); }",
  "int g(int x); int f(int x){ return g(x); } int g(int x){ return f(x); } int main(void){ " \o
    "return f(1); }",
  "int i(void){ uniform int k; for (k = 0; k < 1; k++) ; return 1; } int h(void){ return i(); }" \o
    " int g(void){ return h(); } int f(void){ return g(); } int e(void){ return f(); } int " \o
    "d(void){ return e(); } int c(void){ return d(); } int b(void){ return c(); } int a(void){ " \o
    "return b(); } int main(void){ return a(); }",
  "int f(int x){ uniform int i; for (i = 0; i < 1; i++) x++; return x; } int main(void){ int a " \o
    "= 0; if (WARP) a = f(1); return a; }",
  "int f(uniform int u){ uniform int i; for (i = 0; i < 1; i++) ; return u; } int main(void){ " \o
    "return f(WARP); }",
  "uniform int f(int x){ return x; } int main(void){ return f(1); }",
  "int g; int g; int main(void){ return 0; }",
  "int main(int argc){ return 0; }",
  "void main(void){ return; }",
  "int f(void){ return 1; }",
  "void f(void){ return 1; } int main(void){ return 0; }",
  "int f(void){ return; } int main(void){ return 0; }",
  "int f(int a); int f(unsigned a){ return a; } int main(void){ return 0; }",
  "int f(int a, int b, int c, int d, int e){ return a; } int main(void){ return 0; }",
  "int f(int a, int a){ return a; } int main(void){ return 0; }",
  "struct S { int a; struct S s; }; int main(void){ return 0; }",
  "struct S { int a; }; int main(void){ struct S s; return s.b; }",
  "struct S { int a; int a; }; int main(void){ return 0; }",
  "struct S { int a; }; struct S { int b; }; int main(void){ return 0; }",
  "struct S { int a; }; int main(void){ struct S s; struct S t; s = t; return 0; }",
  "void v(void){ return; } int main(void){ return v() + 1; }",
  "int x = y; int main(void){ return x; }",
  "int x = 1 / 0; int main(void){ return x; }",
  "int WARP; int main(void){ return 0; }",
  "int min(int a, int b){ return a; } int main(void){ return 0; }",
  "uniform int g; int main(void){ return 0; }",
  "int p; unsigned m; int main(void){ return warp_try_recv(&p, &m); }",
  "int g[1025]; int main(void){ return 0; }",
  "void g; int main(void){ return 0; }"}

(* Programs that are compiled to something else than they mean: a local    *)
(* assigned under a switch without default is not saved over a call before *)
(* the switch; a parameter whose address is taken is overwritten before it *)
(* is stored; the target of a compound assignment is evaluated twice; a    *)
(* conditional under a mask loses its condition to a comparison in an arm; *)
(* a large frame destroys the stack pointer; a name of an inlined helper   *)
(* is taken by a local of the caller; constants are folded as unsigned;    *)
(* and a label inside a masked branch is entered without its mask.         *)
Miscompiled == {
  "int f(int x){ uniform int i; for (i = 0; i < 1; i++) x += 1; return x; } int main(void){ " \o
    "uniform int k = 2; int v = 7; int r = f(2); switch (k) { case 0: v = 5; } return v + r; }",
  "int f(int x){ int *p = &x; uniform int i; for (i = 0; i < 1; i++) *p += 1; return x; } int " \o
    "main(void){ return f(WARP); }",
  "int main(void){ int a[4]; int i = 0; a[0] = 1; a[1] = 2; a[i++] += 3; return a[0] + a[1] + " \o
    "10 * i; }",
  "int main(void){ int a[65]; a[0] = 1; return a[0]; }",
  "int g = -7 / 2; int main(void){ return g; }",
  "int g = -1 >> 1; int h = -1 < 0; int main(void){ return g + h; }",
  "int main(void){ uniform int k = 1; int a = 0; switch (k) { case 0: if (WARP < 2) { case 1: " \o
    "a = 5; } a += 1; } return a; }",
  "int main(void){ int a = WARP; int b = 3; int d = 0; if (a > 0) { d = a < 3 ? (b > 2) : 7; } " \o
    "return d; }",
  "int main(void){ int a = WARP; int b = 3; int d = 0; if (a > 0) { d = a < 3 ? b >> 1 : 7; } " \o
    "return d; }",
  "int n = 5; int get(void){ return n; } int main(void){ int n = 9; return get(); }"}

----------------------------------------------------------------------------
(* Expression trees, and their text with the parentheses C asks for.       *)
Weight == [o \in {","} |-> 0] @@ [o \in {"||"} |-> 3] @@ [o \in {"&&"} |-> 4] @@ [o \in {"|"} |-> 5]
          @@ [o \in {"^"} |-> 6] @@ [o \in {"&"} |-> 7] @@ [o \in {"==", "!="} |-> 8]
          @@ [o \in {"<", "<=", ">", ">="} |-> 9] @@ [o \in {"<<", ">>"} |-> 10]
          @@ [o \in {"+", "-"} |-> 11] @@ [o \in {"*", "/", "%"} |-> 12]
WeightOf(e) == CASE e.k = "assign" -> 1
                 [] e.k = "cond" -> 2
                 [] e.k = "binary" -> Weight[e.v]
                 [] e.k = "unary" -> 13
                 [] OTHER -> 14

RECURSIVE Show(_, _)
Show(e, least) ==
    LET at(i, n) == Show(e.es[i], n)
        text == CASE e.k = "name" -> e.v
                  [] e.k = "unary" -> e.v \o " " \o at(1, 13)
                  [] e.k = "postfix" -> at(1, 14) \o e.v
                  [] e.k = "binary" -> at(1, Weight[e.v]) \o " " \o e.v \o " " \o at(2, Weight[e.v] + 1)
                  [] e.k = "cond" -> at(1, 3) \o " ? " \o at(2, 0) \o " : " \o at(3, 2)
                  [] e.k = "assign" -> at(1, 13) \o " " \o e.v \o " " \o at(2, 1)
    IN  IF WeightOf(e) < least THEN "(" \o text \o ")" ELSE text

a == Expr("name", "a", <<>>)
b == Expr("name", "b", <<>>)
c == Expr("name", "c", <<>>)
Bin(op, x, y) == Expr("binary", op, <<x, y>>)
OneOfEach == {",", "||", "&&", "|", "^", "&", "==", "<", "<<", "+", "*"}
Nested(outer, inner) ==
    UNION {{Bin(o, Bin(i, a, b), c), Bin(o, a, Bin(i, b, c))} : o \in outer, i \in inner}
Trees ==
    Nested(OneOfEach, OneOfEach)
    \cup Nested({"-", "!=", ">="}, {"+", "-", "<=", "==", "/"})
    \cup Nested({"/", "%", ">>"}, {"*", "-", "<<"})
    \cup UNION {{Expr("cond", "", <<Bin(o, a, b), c, a>>), Expr("cond", "", <<a, b, Bin(o, b, c)>>),
                 Bin(o, Expr("cond", "", <<a, b, c>>), b), Expr("assign", "=", <<a, Bin(o, b, c)>>),
                 Bin(o, Expr("assign", "-=", <<a, b>>), c), Bin(o, a, Expr("unary", "-", <<b>>)),
                 Expr("unary", "!", <<Bin(o, a, b)>>), Bin(o, Expr("postfix", "++", <<a>>), b)} : o \in OneOfEach}
    \cup {Expr("cond", "", <<Expr("cond", "", <<a, b, c>>), b, c>>),
          Expr("cond", "", <<a, Expr("cond", "", <<b, c, a>>), Expr("cond", "", <<c, a, b>>)>>),
          Expr("assign", "=", <<a, Expr("assign", "+=", <<b, c>>)>>),
          Expr("cond", "", <<a, Expr("assign", "=", <<b, c>>), c>>),
          Expr("unary", "-", <<Expr("unary", "-", <<Expr("unary", "~", <<a>>)>>)>>),
          Expr("unary", "-", <<Expr("postfix", "--", <<a>>)>>),
          Expr("postfix", "++", <<Expr("unary", "*", <<a>>)>>)}
ExpressionJobs ==
    {[Job(Main("uniform int a = 6; uniform int b = -5; uniform int c = 3; return " \o Show(e, 0) \o ";"),
          "parses") EXCEPT !.expr = <<e>>] : e \in Trees}

----------------------------------------------------------------------------
(* Assembly listings: each form of instruction the compiler does not use,  *)
(* then listings the assembler must refuse.                                *)
Plain(m, o)    == Ins(NoGuard, FALSE, m, o)
LabelAt(n)     == [k |-> "label", o |-> Name(n)]
Const(n, v)    == [k |-> "const", m |-> Name(n), o |-> v]
To(n)          == Lab(Name(n))

Legal == {
  << Const("BIG", 1000), [k |-> "scratch", o |-> 9], LabelAt("top"),
     Ins(1, FALSE, "ADD", <<R(1), R(2), To("BIG")>>), Ins(0, TRUE, "MOV", <<R(1), Imm(3)>>),
     Plain("SHL_I", <<R(1), R(1), Imm(-1)>>), Plain("MUL", <<R(3), R(4), Imm(-256)>>),
     Ins(3, TRUE, "DIV", <<R(3), R(4), Imm(7)>>), Plain("MIN", <<R(3), R(4), To("VIDEO_BASE")>>),
     Plain("MOV", <<R(8), To("VIDEO_WIDTH")>>),
     Plain("CMP_LT", <<P(1), R(2), Imm(-300)>>), Plain("CMP_GE", <<P(2), R(2), R(14)>>),
     Plain("JMP_IF_ALL", <<P(1), To("top")>>), Plain("JMP_IF_ANY", <<P(3), To("end")>>),
     Ins(2, FALSE, "JMP", <<To("top")>>), Ins(2, TRUE, "CALL", <<Imm(3)>>), LabelAt("end"), Plain("HALT", <<>>) >>,
  << Const("L", 5), Const("M", WordMod - 2), Plain("LDW", <<R(3), Imm(1)>>), Plain("S_LDW", <<S(2), Imm(0)>>),
     Plain("LOG", <<R(1), R(2)>>), Ins(1, FALSE, "LOG_I", <<R(1), Imm(9)>>),
     Plain("S_MOV_I", <<S(1), Imm(255)>>), Plain("S_MOV_I", <<S(1), Imm(-257)>>),
     Plain("S_ADD_I", <<S(1), S(2), Imm(256)>>), Ins(0, FALSE, "S_CMP_LT_I", <<P(0), S(1), Imm(300)>>),
     Plain("S_CMP_LT_I", <<P(0), S(1), Imm(-4)>>), Plain("S_CMP_LT", <<P(3), S(6), S(7)>>),
     Plain("S_MOV", <<S(1), S(2)>>), Plain("ORMASK", <<P(1), P(2), P(3)>>),
     Ins(1, FALSE, "ANY", <<P(1), P(2)>>), Plain("ALL", <<P(2), P(1)>>), Plain("ABS", <<R(9), R(10)>>),
     Plain("RAND", <<R(7)>>), Plain("CLOCK", <<R(7)>>), Plain("BROADCAST", <<R(2), R(3), Imm(3)>>),
     Plain("NOP", <<>>), Ins(0, FALSE, "YIELD", <<>>), Plain("FLIP", <<>>), Plain("RET", <<>>),
     [k |-> "word", o |-> Word("CMP_EQ", 0, 9, 1, 2)], Plain("HALT", <<>>) >> }

Faulty == {
  <<>>,
  << Plain("JMP", <<To("nowhere")>>) >>,
  << LabelAt("x"), LabelAt("x"), Plain("HALT", <<>>) >>,
  << Const("x", 1), Const("x", 2), Plain("HALT", <<>>) >>,
  << Const("RAM_SIZE_WORDS", 1), Plain("HALT", <<>>) >>,
  << Const("x", -1), Plain("HALT", <<>>) >>,
  << Const("x", WordMod), Plain("HALT", <<>>) >>,
  << Plain("LDW", <<R(1), Imm(0)>>), Plain("HALT", <<>>) >>,
  << Plain("ADD", <<R(1), Imm(2), R(3)>>) >>,
  << Plain("ADD", <<R(1), R(2), To("unknown")>>) >>,
  << Plain("BROADCAST", <<R(1), R(2), Imm(4)>>) >>,
  << Ins(1, FALSE, "FLIP", <<>>) >>,
  << Ins(1, FALSE, "JMP_IF_ANY", <<P(1), Imm(0)>>) >>,
  << Plain("LOG_I", <<R(1), Imm(256)>>) >>,
  << Plain("JMP", <<Imm(-1)>>) >>,
  << Plain("FROB", <<>>) >>,
  [i \in 1..MAX_LITERALS + 1 |-> Const("c" \o ToString(i), 300 + i)],
  [i \in 1..MAX_CODE_WORDS + 1 |-> Plain("NOP", <<>>)] }

AllListings == {[stmts |-> s, kind |-> "runs"] : s \in Legal} \cup {[stmts |-> s, kind |-> "illegal"] : s \in Faulty}

AllJobs == JobsOf(OperatorPrograms \cup Mains(Bodies) \cup Wholes, "runs")
           \cup Correspondence
           \cup JobsOf(Mains(IllegalBodies) \cup IllegalWholes, "illegal")
           \cup JobsOf(Miscompiled, "miscompiled")
           \cup ExpressionJobs

(* The values of the constants.  TLC evaluates each of these sets and      *)
(* tables once; a constant that stands for the LET looks its value up.     *)
MCJobs      == LET v == AllJobs IN v
MCListings  == LET v == AllListings IN v
MCCompiled  == LET v == TableCompiled IN v
MCAssembled == LET v == TableAssembled IN v
MCParsed    == LET v == TableParsed IN v
MCMeanings  == LET v == TableMeanings IN v
=============================================================================
