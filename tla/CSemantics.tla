----------------------------- MODULE CSemantics ----------------------------
(***************************************************************************)
(* What the C standard says a program of CPrograms prints: the definition  *)
(* the interpreter is held against (judge/grade.sh compares it with what   *)
(* gcc makes of the program). An evaluator over objects, not addresses: a  *)
(* pointer is a block and an offset, an integer is a pointer into block 0. *)
(* What the standard leaves undefined makes the run Undefined.             *)
(***************************************************************************)
EXTENDS Integers, Sequences, SequencesExt

Int_(i) == <<0, i>>
Unset   == <<-1, 0>>          \* an object nobody has assigned to
IsTrue(v) == v # Int_(0)

\* A state of a run: variables, blocks with their cells, what is left to read, what is
\* printed, the value or object of the expression, and how the run goes on.
Started(p, input) ==
  [glob |-> <<>>, loc |-> <<>>, cell |-> <<>>, size |-> <<>>, in |-> input, out |-> <<>>,
   val |-> Int_(0), ret |-> FALSE, how |-> "defined", fuel |-> 60]

Update(f, k, v) == [j \in DOMAIN f \cup {k} |-> IF j = k THEN v ELSE f[j]]
Undefined(s) == [s EXCEPT !.how = "undefined"]
Spend(s) == IF s.fuel = 0 THEN [s EXCEPT !.how = "too long"] ELSE [s EXCEPT !.fuel = @ - 1]
Goes(s) == s.how = "defined" /\ ~s.ret
With(s, v) == IF ~Goes(s) THEN s ELSE IF v = Unset THEN Undefined(s) ELSE [s EXCEPT !.val = v]

SizeOfType(t) == IF t = 0 THEN 4 ELSE 8

InBlock(s, b, o) == b \in DOMAIN s.size /\ 0 <= o /\ o + 4 <= s.size[b]

\* The object named by s.val: <<"var", slot>> or <<"mem", block, offset>>.
Read(s) ==
  IF ~Goes(s) THEN s ELSE
  LET at == s.val IN
  IF at[1] = "var" THEN With(s, IF at[2] \in DOMAIN s.loc THEN s.loc[at[2]]
                                ELSE IF at[2] \in DOMAIN s.glob THEN s.glob[at[2]] ELSE Unset)
  ELSE With(s, IF <<at[2], at[3]>> \in DOMAIN s.cell THEN s.cell[<<at[2], at[3]>>] ELSE Unset)

Write(s, v) ==
  IF ~Goes(s) THEN s ELSE
  LET at == s.val IN
  IF at[1] = "mem" THEN [s EXCEPT !.cell = Update(@, <<at[2], at[3]>>, v), !.val = v]
  ELSE IF at[2] \in DOMAIN s.loc THEN [s EXCEPT !.loc = Update(@, at[2], v), !.val = v]
  ELSE [s EXCEPT !.glob = Update(@, at[2], v), !.val = v]

Object(s, at) ==
  IF ~Goes(s) THEN s
  ELSE IF \/ at[1] = "var" /\ at[2] \in DOMAIN s.loc \cup DOMAIN s.glob
          \/ at[1] = "mem" /\ InBlock(s, at[2], at[3])
       THEN [s EXCEPT !.val = at] ELSE Undefined(s)

Truncated(l, r) == LET Abs(i) == IF i < 0 THEN -i ELSE i
                   IN  (Abs(l) \div Abs(r)) * (IF (l < 0) = (r < 0) THEN 1 ELSE -1)

Flag(b) == Int_(IF b THEN 1 ELSE 0)

\* op = <<operator, stars of the left type, stars of the right type>>.
Operator(op, l, r) ==
  LET lp == op[2] > 0
      rp == op[3] > 0
      plain == ~lp /\ ~rp
  IN CASE op[1] = "==" -> Flag(l = r)
       [] op[1] = "<" /\ l[1] = r[1] -> Flag(l[2] < r[2])
       [] op[1] = ">" /\ l[1] = r[1] -> Flag(l[2] > r[2])
       [] op[1] = "+" /\ plain -> Int_(l[2] + r[2])
       [] op[1] = "+" /\ lp -> <<l[1], l[2] + r[2] * SizeOfType(op[2] - 1)>>
       [] op[1] = "+" /\ rp -> <<r[1], r[2] + l[2] * SizeOfType(op[3] - 1)>>
       [] op[1] = "-" /\ plain -> Int_(l[2] - r[2])
       [] op[1] = "-" /\ lp /\ ~rp -> <<l[1], l[2] - r[2] * SizeOfType(op[2] - 1)>>
       [] op[1] = "-" /\ lp /\ rp /\ l[1] = r[1] -> Int_(Truncated(l[2] - r[2], SizeOfType(op[2] - 1)))
       [] op[1] = "*" -> Int_(l[2] * r[2])
       [] op[1] = "/" /\ r[2] # 0 -> Int_(Truncated(l[2], r[2]))
       [] OTHER -> Unset

\* A definition without a value starts at 0 when global, at nothing when local.
Declared(nd, global, v) ==
  LET start == IF nd.kids # <<>> THEN v ELSE IF global THEN Int_(0) ELSE Unset
  IN  IF nd.x[2] = 0 THEN [s \in {<<nd.x[1]>>} |-> start]
      ELSE [s \in {<<nd.x[1], i>> : i \in 0 .. nd.x[2] - 1} |-> start]

Over(f, g) == [k \in DOMAIN f \cup DOMAIN g |-> IF k \in DOMAIN g THEN g[k] ELSE f[k]]

\* The state after statement or expression n of program p; Lval leaves in val the object an
\* expression names, Iterate repeats a loop whose condition is to be tested.
RECURSIVE Run(_, _, _), Lval(_, _, _), Iterate(_, _, _, _)

\* The same where the value is asked for: a call of a function that gives none is undefined.
Value(p, n, s) == LET t == Run(p, n, s)
                  IN  IF Goes(t) /\ t.val = Unset THEN Undefined(t) ELSE t

Lval(p, n, s) ==
  LET nd == p.node[n] IN
  CASE nd.k = "ref" -> Object(s, <<"var", <<nd.x>>>>)
    [] nd.k = "paren" -> Lval(p, nd.kids[1], s)
    [] nd.k = "deref" -> LET t == Value(p, nd.kids[1], s) IN Object(t, <<"mem", t.val[1], t.val[2]>>)
    [] nd.k = "sub" ->
         LET v == p.node[p.node[nd.kids[1]].kids[1]].x
             t == Value(p, nd.kids[2], s)
             base == Read(Object(t, <<"var", <<v>>>>))
         IN  IF <<v>> \notin DOMAIN s.loc \cup DOMAIN s.glob
             THEN Object(t, <<"var", <<v, t.val[2]>>>>)
             ELSE Object(base, <<"mem", base.val[1], base.val[2] + t.val[2] * SizeOfType(nd.x - 1)>>)

Iterate(p, cond, steps, s) ==
  LET c == IF Goes(s) THEN Value(p, cond, Spend(s)) ELSE s
  IN  IF ~Goes(c) \/ ~IsTrue(c.val) THEN c
      ELSE Iterate(p, cond, steps, FoldLeft(LAMBDA t, m : Run(p, m, t), c, steps))

Run(p, n, s) ==
  LET nd == p.node[n]
      k  == nd.kids
      Go(i, t) == Value(p, k[i], t)
      one == Go(1, s)
      two == Go(2, one)
  IN
  IF ~Goes(s) THEN s ELSE
  CASE nd.k = "none" -> s
    [] nd.k = "num" -> With(s, Int_(nd.x))
    [] nd.k \in {"ref", "sub", "deref"} -> Read(Lval(p, n, s))
    [] nd.k \in {"cast", "paren"} -> one
    [] nd.k = "neg" -> With(one, Int_(-one.val[2]))
    [] nd.k = "sizeof" -> With(s, Int_(SizeOfType(nd.x)))
    [] nd.k = "bin" -> With(two, Operator(nd.x, one.val, two.val))
    [] nd.k = "asg" -> Write(Lval(p, k[1], Go(2, s)), Go(2, s).val)
    [] nd.k = "decl" ->
         LET t == IF k = <<>> THEN s ELSE one
         IN  IF Goes(t) THEN [t EXCEPT !.loc = Over(@, Declared(nd, FALSE, t.val))] ELSE t
    [] nd.k = "block" -> FoldLeft(LAMBDA t, m : Run(p, m, t), s, k)
    [] nd.k = "if" -> IF ~Goes(one) THEN one
                      ELSE IF IsTrue(one.val) THEN Run(p, k[2], one)
                      ELSE IF Len(k) = 3 THEN Run(p, k[3], one) ELSE one
    [] nd.k = "while" -> Iterate(p, k[1], <<k[2]>>, s)
    [] nd.k = "for" -> Iterate(p, k[2], <<k[4], k[3]>>, Run(p, k[1], s))
    [] nd.k = "ret" -> IF k = <<>> THEN [s EXCEPT !.ret = TRUE]
                       ELSE IF Goes(one) THEN [one EXCEPT !.ret = TRUE] ELSE one
    [] nd.k = "call" /\ nd.x = "GET" ->
         IF s.in = <<>> THEN Undefined(s)
         ELSE [s EXCEPT !.val = Int_(Head(s.in)), !.in = Tail(@)]
    [] nd.k = "call" /\ nd.x = "PRINT" ->
         IF Goes(one) THEN [one EXCEPT !.out = Append(@, one.val[2])] ELSE one
    [] nd.k = "call" /\ nd.x = "MALLOC" ->
         IF Goes(one)
         THEN [one EXCEPT !.size = Append(@, one.val[2]), !.val = <<Len(one.size) + 1, 0>>]
         ELSE one
    [] nd.k = "call" /\ nd.x = "FREE" ->
         IF ~Goes(one) \/ one.val = Int_(0) THEN one
         ELSE IF one.val[2] = 0 /\ InBlock(one, one.val[1], 0)
         THEN [one EXCEPT !.size[one.val[1]] = 0] ELSE Undefined(one)
    [] OTHER ->
         LET f == p.fun[nd.x]
             \* the state and the values after the arguments
             args == FoldLeft(LAMBDA a, m : LET t == Value(p, m, a[1]) IN <<t, Append(a[2], t.val)>>,
                              <<s, <<>>>>, k)
             Param(v) == CHOOSE i \in DOMAIN f.params : <<f.params[i]>> = v
             loc == [v \in {<<f.params[i]>> : i \in DOMAIN f.params} |-> args[2][Param(v)]]
             t == Run(p, f.body, [Spend(args[1]) EXCEPT !.loc = loc])
         IN  IF ~Goes(args[1]) THEN args[1]
             ELSE [t EXCEPT !.loc = s.loc, !.ret = FALSE,
                            !.val = IF t.ret THEN t.val ELSE Unset]

Meaning(p, input) ==
  LET start == Started(p, input)
      Init_(n) == IF p.node[n].kids = <<>> THEN Int_(0) ELSE Run(p, p.node[n].kids[1], start).val
      decls == {Declared(p.node[n], TRUE, Init_(n)) : n \in p.globals}
      Global(v) == CHOOSE d \in decls : v \in DOMAIN d
      glob == [v \in UNION {DOMAIN d : d \in decls} |-> Global(v)[v]]
      end == Run(p, p.fun["main"].body, [start EXCEPT !.glob = glob])
  IN  [defined |-> end.how = "defined", ends |-> end.how # "too long", prints |-> end.out]
=============================================================================
