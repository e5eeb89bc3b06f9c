----------------------------- MODULE MCLiveness -----------------------------
(***************************************************************************)
(* Every SSA function over the given blocks and the four instructions of   *)
(* a counting loop:   p = phi [a, q];  a = call;  q = add p;  u = use p.   *)
(* The instructions are placed in the blocks in every way that SSA allows  *)
(* (a definition dominates its uses, a phi operand is available at the end *)
(* of some predecessor), over every control flow graph in which a block    *)
(* has at most two successors.                                             *)
(***************************************************************************)
EXTENDS Liveness, SequencesExt

CONSTANTS b1, b2, b3, p, a, q, u, d

\* The order of the instructions within one block.
Layout == <<p, a, d, q, u>>

Operand == [i \in Inst |-> CASE i = p -> {a, q} \cap Inst
                             [] i = q -> {p}
                             [] i = u -> {p}
                             [] OTHER -> {}]

Placements == {[x \in Inst |-> IF x = d THEN b1 ELSE w[x]] : w \in [Inst \ {d} -> Block]}

\* The blocks reached from b1 along g without entering block w.
Reached(g, w) ==
    LET Grow(S) == S \cup (UNION {g[b] : b \in S} \ {w})
    IN  Grow(Grow({b1} \ {w}))

FlowGraphs ==
    {g \in [Block -> {S \in SUBSET (Block \ {b1}) : Cardinality(S) <= 2}] :
        Reached(g, NoBlock) = Block}

\* Block x dominates block y.
Dominates(g, x, y) == y \notin Reached(g, x)

Before(x, y) == \E i, j \in 1 .. Len(Layout) : i < j /\ Layout[i] = x /\ Layout[j] = y

\* x is defined before y runs.
AvailableAt(g, place, x, y) ==
    IF place[x] = place[y] THEN Before(x, y) ELSE Dominates(g, place[x], place[y])

WellFormed(g, place) ==
    /\ AvailableAt(g, place, p, q)
    /\ u \in Inst => AvailableAt(g, place, p, u)
    /\ \A x \in {a, q} \cap Inst : \E c \in Block : place[p] \in g[c] /\ Dominates(g, place[x], c)

AllFunctions ==
    {[block   |-> Block,
      code    |-> [b \in Block |-> SelectSeq(Layout, LAMBDA x : x \in Inst /\ gp[2][x] = b)],
      succ    |-> gp[1],
      operand |-> Operand,
      dbg     |-> {d} \cap Inst] :
        gp \in {gp \in FlowGraphs \X Placements : WellFormed(gp[1], gp[2])}}
=============================================================================
