----------------------------- MODULE Toolchain -----------------------------
(***************************************************************************)
(* A program's way from Warp C text to its end on a warp: warpc compiles   *)
(* it (lib.rs), the image is loaded, the interpreter runs it while         *)
(* messages may arrive.  The job is chosen at the start.                   *)
(***************************************************************************)
EXTENDS WarpcMeaning

CONSTANTS Jobs,        \* the programs: records of
                       \*   src:    the text
                       \*   kind:   "runs", "illegal", "miscompiled" (a program
                       \*           warpc is known to compile wrongly) or "parses"
                       \*           (checked for its parse; it may be illegal)
                       \*   mail:   the messages that arrive, in order
                       \*   recvs:  how often it tries to receive
                       \*   expr:   <<>>, or the one expression main returns
          Listings     \* programs in assembly: records of
                       \*   stmts:  the statements
                       \*   kind:   "runs" or "illegal"

(* Tables over these, which are constants for TLC to evaluate them once;   *)
(* their values are the definitions Table... below.                        *)
CONSTANTS Compiled,    \* what warpc makes of each text
          Assembled,   \* what warpvm-as makes of each listing
          Parsed,      \* the syntax tree of each text
          Meanings     \* what each program means, by the outcomes of its receives

VARIABLES job, stage, wvm, stackAt

vars == <<machine, job, stage, wvm, stackAt>>

----------------------------------------------------------------------------
(* lib.rs.  The lines of a text, each with its end.                        *)
RECURSIVE LinesFrom(_, _)
LinesFrom(text, i) ==
    LET end == Find(text, i, "\n")
    IN  IF end = 0 THEN <<SubSeq(text, i, Len(text))>>
        ELSE <<SubSeq(text, i, end)>> \o LinesFrom(text, end + 1)

Trim(line) ==
    LET inked == {i \in 1..Len(line) : SubSeq(line, i, i) \notin Blank}
    IN  IF inked = {} THEN "" ELSE SubSeq(line, Min(inked), Max(inked))

(* preprocess: the include of warp.h becomes blanks; no other directive is *)
(* known.                                                                  *)
Included == {"#include <warp.h>", "#include \"warp.h\""}
Preprocess(text) ==
    LET lines == LinesFrom(text, 1)
        directive(l) == Peek(Trim(l), 1) = "#"
    IN  [ok |-> \A i \in DOMAIN lines : directive(lines[i]) => Trim(lines[i]) \in Included,
         text |-> FoldFlat(LAMBDA t, l : t \o (IF directive(l) THEN " \n" ELSE l), "", lines)]

(* contains_identifier looks at the text, comments and strings included.   *)
ContainsIdentifier(text, target) ==
    \E i \in 1..Len(text) - Len(target) + 1 :
        /\ SubSeq(text, i, i + Len(target) - 1) = target
        /\ Peek(text, i + Len(target)) \notin IdentChar
        /\ i = 1 \/ Peek(text, i - 1) \notin IdentChar

LibraryLoop(copied) ==
    "{ for (uniform unsigned base = 0; base < words; base += " \o ToString(LANES) \o
    ") { unsigned i = base + WARP; if (i < words) dst[i] = " \o copied \o "; } } "
WARP_MEMCPY_SOURCE ==
    " void warp_memcpy(uniform unsigned *dst, uniform unsigned *src, uniform unsigned words)" \o LibraryLoop("src[i]")
WARP_MEMSET_SOURCE ==
    " void warp_memset(uniform unsigned *dst, unsigned value, uniform unsigned words)" \o LibraryLoop("value")

InjectPlatformLibrary(text) ==
    text \o (IF ContainsIdentifier(text, "warp_memcpy") THEN WARP_MEMCPY_SOURCE ELSE "")
         \o (IF ContainsIdentifier(text, "warp_memset") THEN WARP_MEMSET_SOURCE ELSE "")

(* compile: every phase on what the one before it made, until one fails;   *)
(* by is that phase, "" if none did.                                       *)
CompileSource(text) ==
    LET pre == Preprocess(text)
        ast == Parse(Lex(InjectPlatformLibrary(pre.text)))
        typed == Analyze(ast.v)
        gen == Generate(typed)
        asm == Assemble(gen.code)
        by  == CASE ~pre.ok -> "preprocess"
                 [] ~ast.ok -> "parse"
                 [] typed.err # "" -> "analyze"
                 [] gen.err # "" -> "generate"
                 [] asm.err # "" -> "assemble"
                 [] OTHER -> ""
    IN  [by |-> by, file |-> IF by = "" THEN EncodeFile(asm.code, asm.lits) ELSE <<>>]

AssembleListed(stmts) ==
    LET a == Assemble(stmts)
    IN  [by |-> IF a.err = "" THEN "" ELSE "assemble",
         file |-> IF a.err = "" THEN EncodeFile(a.code, a.lits) ELSE <<>>]

(* again is the image that the disassembly of the image is assembled to.   *)
Listed(made) ==
    LET i == ParseFile(made.file)
    IN  [by |-> made.by, file |-> made.file,
         again |-> IF made.by # "" \/ i.err # "" THEN <<>> ELSE AssembleListed(Disassemble(i.code, i.lits)).file]

(* The programs compiled, and the listings assembled (the union with the   *)
(* empty function has TLC tabulate the function).                          *)
Table(keys, F(_)) == [x \in keys |-> F(x)] @@ <<>>
TableCompiled  == Table({j.src : j \in Jobs}, LAMBDA text : Listed(CompileSource(text)))
TableAssembled == Table({l.stmts : l \in Listings}, LAMBDA stmts : Listed(AssembleListed(stmts)))

----------------------------------------------------------------------------
(* A listing is a job without a source text.                               *)
ListingJob(kind) == [src |-> "", kind |-> kind, mail |-> <<>>, recvs |-> 0, expr |-> <<>>]

Init == /\ MachineInit
        /\ \/ job \in Jobs /\ wvm = <<>>
           \/ \E l \in Listings : job = ListingJob(l.kind) /\ wvm = l.stmts
        /\ stage = "source"
        /\ stackAt = <<>>

(* warpc: an image file, or a diagnostic and no file.                      *)
Compile == /\ stage = "source" /\ job.src # ""
           /\ LET c == Compiled[job.src]
              IN  /\ stage' = IF c.by = "" THEN "compiled" ELSE c.by
                  /\ wvm' = c.file
           /\ UNCHANGED <<machine, job, stackAt>>

(* warpvm-as on a listing.                                                 *)
AssembleListing == /\ stage = "source" /\ job.src = ""
                   /\ LET a == Assembled[wvm]
                      IN  /\ stage' = IF a.by = "" THEN "listed" ELSE a.by
                          /\ wvm' = a.file
                   /\ UNCHANGED <<machine, job, stackAt>>

Start == /\ stage = "compiled" /\ LoadImage(wvm)
         /\ stage' = "loaded"
         /\ UNCHANGED <<job, wvm, stackAt>>

(* The next message of the job arrives, whenever it likes.                 *)
Arrivals == Len(inbox) + Len(SelectSeq(received, LAMBDA r : r # <<>>))
Arrive == /\ status = "running" /\ Arrivals < Len(job.mail)
          /\ Deliver(job.mail[Arrivals + 1])
          /\ UNCHANGED <<job, stage, wvm, stackAt>>

(* stackAt remembers, for the properties, the stack pointer at each call.  *)
Run == /\ stage = "loaded" /\ MachineStep
       /\ stackAt' = CASE Len(calls') > Len(calls) -> Append(stackAt, sregs[7])
                       [] Len(calls') < Len(calls) -> Front(stackAt)
                       [] OTHER -> stackAt
       /\ UNCHANGED <<job, stage, wvm>>

Next == Compile \/ AssembleListing \/ Start \/ Arrive \/ Run

Spec == Init /\ [][Next]_vars /\ WF_vars(Compile \/ AssembleListing \/ Start) /\ WF_vars(Run)

----------------------------------------------------------------------------
(* What the programs mean, for every outcome of their receives.            *)
RECURSIVE Outcomes(_, _)
Outcomes(mail, n) ==
    IF n = 0 THEN {<<>>}
    ELSE {<< <<>> >> \o o : o \in Outcomes(mail, n - 1)}
         \cup (IF mail = <<>> THEN {} ELSE {<< <<Head(mail)>> >> \o o : o \in Outcomes(Tail(mail), n - 1)})

TableParsed == Table({j.src : j \in Jobs}, LAMBDA text : Parse(Lex(Preprocess(text).text)))
MeaningsOf(j) ==
    LET tree == Parse(Lex(Preprocess(j.src).text)).v
    IN  IF j.kind = "illegal" \/ (j.kind = "parses" /\ Analyze(tree).err # "") THEN <<>>
        ELSE Table(Outcomes(j.mail, j.recvs), LAMBDA o : Meaning(tree, o))
TableMeanings == Table(Jobs, MeaningsOf)

ASSUME TablesAssumption == /\ Compiled = TableCompiled /\ Assembled = TableAssembled
                           /\ Parsed = TableParsed /\ Meanings = TableMeanings

Meant    == Meanings[job][received]
Got      == Outcome(Cardinality(DOMAIN Meant.data))
Rejected == {"preprocess", "parse", "analyze", "generate", "assemble"}

(* A program that ends has the result, the globals, the framebuffer, the   *)
(* messages and the frames that its source means, whichever of its         *)
(* receives found a message; only a refused SEND stops it before.  The     *)
(* programs of kind "miscompiled" are the exceptions this project knows.   *)
(* The code is the whole of warpc, assembler and interpreter.              *)
CompiledAsMeant ==
    /\ status = "halted" => ((Got = Meant) <=> job.kind # "miscompiled")
    /\ status = "faulted" => w.op = "SEND" \/ job.kind = "miscompiled"

(* A legal program is compiled, and an illegal one gets a diagnostic of    *)
(* warpc's own phases: what they let through never fails in code           *)
(* generation or assembly.  A faulty listing is refused by the assembler.  *)
Diagnoses == stage \in {"compiled", "listed", "loaded"} \cup Rejected =>
    CASE job.kind = "illegal" -> stage \in {"preprocess", "parse", "analyze"} \cup (IF job.src = "" THEN {"assemble"} ELSE {})
      [] job.kind = "parses" -> stage \notin {"preprocess", "parse", "generate", "assemble"}
      [] OTHER -> stage \notin Rejected

(* An expression written with the parentheses that C's precedences and     *)
(* associativities ask for, and no others, is parsed back to the tree it   *)
(* was written from (parser.rs).                                           *)
ExpressionsParse == stage = "source" /\ job.expr # <<>> =>
    Last(Last(Parsed[job.src].v.functions).body[1].ss).x[1] = job.expr

(* The lanes' copies of every scalar register agree at every instruction,  *)
(* and so do the copies of the mask a jump reads, of which only lane 0's   *)
(* is looked at: however masks are nested, the warp takes the branch every *)
(* lane would take (codegen.rs).                                           *)
Uniform(f) == \A l \in Lanes : f[l] = f[0]
Converged == status = "running" =>
    /\ \A k \in 0..7 : Uniform(sregs[k])
    /\ Fetch({"JMP_IF_ANY"}) => \A l \in Lanes : GuardMask(l, w.guard) = GuardMask(0, w.guard)

(* What sema.rs proves uniform is uniform when the program runs: a vector  *)
(* register that is moved to a scalar one, of which S_GET takes lane 0,    *)
(* holds one value for all lanes.                                          *)
UniformIsUniform == Fetch({"S_GET"}) => Uniform(vregs[w.rs1])

(* Every return finds the stack pointer as its call left it, and main ends *)
(* with an empty stack, by whatever path the function is left.             *)
StackIsBalanced == /\ Fetch({"RET"}) => sregs[7] = Last(stackAt)
                   /\ Fetch({"HALT"}) => sregs[7] = [l \in Lanes |-> STACK_TOP]

(* The disassembly of an image, literals included, assembles to the same   *)
(* image (disasm.rs:3-6), for what the compiler emits and for listings of  *)
(* the other instructions.                                                 *)
ImageRoundTrips ==
    /\ stage = "compiled" => Compiled[job.src].again = wvm
    /\ stage = "listed" => \A l \in DOMAIN Assembled : Assembled[l].file = wvm => Assembled[l].again = wvm

(* A job ends with a diagnostic or an image, and a program that is started *)
(* ends: the loops of these programs are finite, and nothing the compiler  *)
(* emits keeps the warp from leaving them.                                 *)
Finishes == <>(stage \in Rejected \cup {"listed"} \/ status \in {"halted", "faulted"})
=============================================================================
