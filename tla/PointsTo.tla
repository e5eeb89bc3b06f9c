------------------------------ MODULE PointsTo ------------------------------
(***************************************************************************)
(* The dataflow value of assignment3/src/FuncPtr.h and what one            *)
(* instruction does to it (assignment3/src/FuncPtr.cpp).                   *)
(*                                                                         *)
(* FuncPtrInfo.FuncPtrs is a std::map from a value to the set of values it *)
(* may point to. Here it is a total function S: S[v] = {} stands for "v is *)
(* not a key". No step of the code stores an empty set under a key, so the *)
(* two agree, operator == included.                                        *)
(*                                                                         *)
(* Points-to sets are SmallPtrSets, whose first element depends on         *)
(* addresses and on history: where the code treats the first element       *)
(* differently, the operator returns the set of possible outcomes.         *)
(***************************************************************************)
EXTENDS Integers, Sequences, FiniteSets

(***************************************************************************)
(* The instructions the analysis looks at. dst is the value written, or    *)
(* for a store and a memcpy the address written to; src are the operands   *)
(* read; at is the called value of a call, the field of a getelementptr    *)
(* and the incoming blocks of a phi.                                       *)
(***************************************************************************)
Instr(op, dst, src, at) == [op |-> op, dst |-> dst, src |-> src, at |-> at]

Alloca(d)          == Instr("alloca", d, <<>>, <<>>)
Load(d, p)         == Instr("load", d, <<p>>, <<>>)
Store(v, p)        == Instr("store", p, <<v>>, <<>>)
MemCpy(d, s)       == Instr("memcpy", d, <<s>>, <<>>)
Cast(d, v)         == Instr("cast", d, <<v>>, <<>>)
Gep(d, p, field)   == Instr("gep", d, <<p>>, <<field>>)
Phi(d, vs, blocks) == Instr("phi", d, vs, blocks)
Call(d, f, vs)     == Instr("call", d, vs, <<f>>)
Ret(v)             == Instr("ret", "", <<v>>, <<>>)
RetVoid            == Instr("ret", "", <<>>, <<>>)

Called(inst) == inst.at[1]

Merge(dest, src) == [v \in DOMAIN dest |-> dest[v] \cup src[v]]

\* S(dst) := S(src), or S(dst) \cup S(src) when the update is weak; nothing
\* happens when S(src) is empty.
Update(S, dst, src, strong) ==
    IF S[src] = {} THEN S
    ELSE [S EXCEPT ![dst] = IF strong THEN S[src] ELSE @ \cup S[src]]

\* One update of dst per source, of which only the first is strong.
UpdateFirstStrong(S, dst, first, rest) ==
    LET T == Update(S, dst, first, TRUE)
    IN  [T EXCEPT ![dst] = @ \cup UNION {T[v] : v \in rest}]

\* a = load b : S(a) = S(S(b))
LoadOutcomes(S, a, b) ==
    IF S[b] = {} THEN {S}
    ELSE {UpdateFirstStrong(S, a, v, S[b] \ {v}) : v \in S[b]}

\* Mutants of StoreOutcome: never strong; strong for one of several targets.
StoreWeakly(S, p, v) ==
    [x \in DOMAIN S |-> IF x \in S[p] THEN S[x] \cup S[v] ELSE S[x]]
StoreStrongly(S, p, v) ==
    IF S[p] = {} THEN S ELSE Update(S, CHOOSE x \in S[p] : TRUE, v, TRUE)

\* store v, p : strong when p points to one value, else weak for each of them.
StoreOutcome(S, p, v) ==
    IF \E x \in S[p] : S[p] = {x}
    THEN Update(S, CHOOSE x \in S[p] : TRUE, v, TRUE)
    ELSE [x \in DOMAIN S |-> IF x \in S[p] THEN S[x] \cup S[v] ELSE S[x]]

\* memcpy(d, s), for one target x of d: S(x) becomes the union over the targets of s.
CopyOutcomes(S, x, s) == {UpdateFirstStrong(S, x, v, S[s] \ {v}) : v \in S[s]}

\* phi, getelementptr and casts.
PhiOutcome(S, a, vs) ==
    UpdateFirstStrong(S, a, vs[1], {vs[i] : i \in 2 .. Len(vs)})

\* return v : every known call site of the function may get it.
ReturnOutcome(S, callers, v) ==
    [x \in DOMAIN S |-> IF x \in callers THEN S[x] \cup S[v] ELSE S[x]]

\* The outcomes of an instruction that neither allocates nor is a call.
Outcomes(S, inst, callers) ==
    CASE inst.op = "load"   -> LoadOutcomes(S, inst.dst, inst.src[1])
      [] inst.op = "store"  -> {StoreOutcome(S, inst.dst, inst.src[1])}
      [] inst.op \in {"cast", "gep"} -> {Update(S, inst.dst, inst.src[1], TRUE)}
      [] inst.op = "phi"    -> {PhiOutcome(S, inst.dst, inst.src)}
      [] inst.op = "ret"    -> {IF inst.src = <<>> THEN S
                                ELSE ReturnOutcome(S, callers, inst.src[1])}

\* The search from a called value through everything it may point to: functions
\* are linked and not expanded.
SearchedFrom(S, func, v) ==
    LET within[n \in Nat] ==
            IF n = 0 THEN {v}
            ELSE UNION {X \cup UNION {S[u] : u \in X \ func} : X \in {within[n - 1]}}
    IN  within[Cardinality(DOMAIN S)]
=============================================================================
