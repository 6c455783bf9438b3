------------------------------ MODULE MCEngines ------------------------------
(* Two lanes, two vector registers, two predicates, a scalar, and two addresses:
   0 is RAM, 1 is either unmapped or video memory.  Guarded instructions write p0, and
   p1 remains a shared predicate: with both desynchronised the run is too long. *)
EXTENDS Engines

I(op, guard, rd, rs1, lo) == [op |-> op, guard |-> guard, rd |-> rd, rs1 |-> rs1, lo |-> lo]

MCLiterals == <<1>>

MCInstructions ==
  \* guards: none, p0, not p1
       {I("MOV_I", g, 1, 0, 1) : g \in {0, 1}}
  \union {I("LANEID", g, 0, 0, 0) : g \in {0, 4}}
  \union {I("ADD", 1, 0, 0, 1), I("SHUFFLE", 4, 1, 0, 1), I("REDUCE_MAX", 1, 0, 1, 0)}
  \union {I("LDW", g, 0, 0, 0) : g \in {0, 1}} \union {I("LDW", 1, 0, 0, 1)}
  \union {I("CMP_LT", g, 0, 0, 1) : g \in {0, 1, 2}}
  \union {I("BALLOT", 0, 1, 0, 0), I("BALLOT", 4, 0, 0, 0)}
  \union {I("NOTMASK", g, 0, 1, 0) : g \in {0, 1}}
  \union {I("ANDMASK", g, 0, 0, 1) : g \in {0, 3}}
  \union {I("ALL", g, 0, 1, 0) : g \in {0, 2}}
  \union {I("ALL", 0, 0, 2, 0)}
  \union {I("S_CMP_LT", 0, 1, 0, 0)}
  \union {I("S_ADD_I", g, 0, 0, 1) : g \in {0, 1}} \union {I("S_GET", g, 0, 1, 0) : g \in {0, 1}}
  \union {I("S_BCAST", 1, 1, 0, 0), I("S_MOV_I", 0, 1, 0, 0)}
  \union {I("LOAD", g, 1, 0, 0) : g \in {0, 1, 5}}
  \union {I("LOAD", 0, 0, 0, 0)} \union {I("STORE", g, 0, 1, 0) : g \in {1, 2}}
  \union {I("SEND", 1, 0, 0, 1)} \union {I("TRY_RECV", g, 0, 1, 0) : g \in {0, 4}}
  \union {I("FLIP", 0, 0, 0, 0), I("FLIP", 1, 0, 0, 0), I("YIELD", 0, 0, 0, 0)}
  \union {I("JMP", 1, 0, 0, 0), I("CALL", 0, 0, 0, 1), I("RET", 0, 0, 0, 0)}
  \union {I("JMP_IF_ANY", g, 0, 0, 0) : g \in {0, 1, 4}}
  \union {I("JMP_IF_ALL", 2, 0, 0, t) : t \in {0, 2}}
  \union {I("HALT", 0, 0, 0, 0), I("UNASSIGNED", 0, 0, 0, 0)}
=============================================================================
