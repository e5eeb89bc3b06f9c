---------------------------- MODULE Interpreter ----------------------------
(***************************************************************************)
(* The interpreter of assignment 1: InterpreterVisitor walks the syntax    *)
(* tree, Environment keeps the frames and the heap.                        *)
(*                                                                         *)
(* The C++ stack of the visitor is the work of each frame: what is left to *)
(* do, a task being one of                                                 *)
(*   <<"visit", n>>   call the handler of node n                           *)
(*   <<"finish", n>>  the children of n are visited; do what n does        *)
(*   <<"branch", n>>, <<"loop", n>>  test the condition of n               *)
(* mVars and mArrs, which are searched alike, are one map from slots: <<v>>*)
(* is the variable v, <<v, i>> element i of the array v.                   *)
(***************************************************************************)
EXTENDS Integers, Sequences

CONSTANTS
  Program,      \* the programs that may be interpreted (CPrograms)
  Inputs,       \* the sequences of integers a run may read
  Addresses,    \* where malloc may put a block
  IntValues     \* how many values int has (2^32)

Builtins == {"GET", "PRINT", "MALLOC", "FREE"}
ExprKinds == {"num", "ref", "cast", "paren", "neg", "deref", "sub", "bin", "asg",
              "call", "sizeof"}
StmtKinds == {"none", "decl", "block", "if", "while", "for", "ret"}

\* What Clang's parser guarantees of the tree.
IsNode(p, n) ==
  LET nd == p.node[n]
      arity(least, most) == Len(nd.kids) \in least .. most
      Expr(i) == p.node[nd.kids[i]].k \in ExprKinds
  IN /\ nd.k \in ExprKinds \cup StmtKinds
     /\ nd.kids \in Seq(DOMAIN p.node \ p.globals)
     /\ nd.k \in ExprKinds => \A i \in DOMAIN nd.kids : Expr(i)
     /\ nd.k = "num" => nd.x \in Int
     /\ nd.k \in {"cast", "paren", "neg", "deref"} => arity(1, 1)
     /\ nd.k \in {"sub", "asg", "bin"} => arity(2, 2)
     /\ nd.k = "call" => \/ nd.x \in {"PRINT", "MALLOC", "FREE"} /\ arity(1, 1)
                         \/ nd.x = "GET"
                         \/ nd.x \in DOMAIN p.fun \ Builtins
                            /\ Len(nd.kids) = Len(p.fun[nd.x].params)
     /\ nd.k = "decl" => nd.x[2] \in Nat /\ arity(0, 1)
     /\ nd.k = "if" => arity(2, 3) /\ Expr(1)
     /\ nd.k = "while" => arity(2, 2) /\ Expr(1)
     /\ nd.k = "for" => /\ arity(4, 4)
                        /\ \A i \in 2 .. 3 : Expr(i) \/ p.node[nd.kids[i]].k = "none"
     /\ nd.k = "ret" => arity(0, 1) /\ \A i \in DOMAIN nd.kids : Expr(i)

\* A variable is a Decl object: no function declares a global once more.
GlobalNames(p) == {p.node[n].x[1] : n \in p.globals}

LocalDecls(p)  == {n \in DOMAIN p.node \ p.globals : p.node[n].k = "decl"}
Introduces(p, n) == {p.node[m].x[1] : m \in {n} \cap LocalDecls(p)}

\* What Clang's semantic analysis guarantees: a name is used where it is in scope. A node
\* knows the names in scope where it stands: those its parent knows, and what was declared
\* before it in the same block or in the head of the same for.
IsScoped(p, n) ==
  LET nd == p.node[n]
      Earlier(i) == UNION {Introduces(p, nd.kids[j]) : j \in 1 .. i - 1}
  IN /\ nd.k = "ref" => nd.x \in nd.scope
     /\ \A i \in DOMAIN nd.kids :
          /\ nd.k # "decl" => p.node[nd.kids[i]].scope \subseteq nd.scope \cup Earlier(i)
          /\ p.node[nd.kids[i]].k = "decl" => nd.k = "block" \/ (nd.k = "for" /\ i = 1)

IsProgram(p) ==
  /\ \A n \in DOMAIN p.node : IsNode(p, n) /\ IsScoped(p, n)
  /\ p.globals \subseteq {n \in DOMAIN p.node : p.node[n].k = "decl"}
  /\ \A n \in DOMAIN p.node \ p.globals :
       p.node[n].k = "decl" => p.node[n].x[1] \notin GlobalNames(p)
  /\ \A m, n \in LocalDecls(p) : Introduces(p, m) = Introduces(p, n) => m = n
  /\ "main" \in DOMAIN p.fun
  /\ \A f \in DOMAIN p.fun :
       LET params == {p.fun[f].params[i] : i \in DOMAIN p.fun[f].params} IN
       /\ p.fun[f].body \in DOMAIN p.node \ p.globals
       /\ p.node[p.fun[f].body].k = "block"
       /\ p.node[p.fun[f].body].scope \subseteq GlobalNames(p) \cup params
       /\ p.fun[f].params \in Seq(STRING \ GlobalNames(p))
       /\ \A n \in LocalDecls(p) : params \cap Introduces(p, n) = {}

ASSUME ProgramAssumption == \A p \in Program : IsProgram(p)
ASSUME InputAssumption == Inputs \subseteq Seq(Int)
ASSUME AddressAssumption == Addresses \subseteq Nat \ {0} /\ IntValues \in Nat \ {0}

VARIABLES
  prog,     \* the program interpreted
  frames,   \* mStack: the globals, main, then one frame per call in progress
  heap,     \* addrValMap
  live,     \* external: the blocks malloc has given and not got back
  input,    \* external: what scanf has not read
  output,   \* the numbers printed
  status    \* "running", "done", or "aborted" by an assertion

vars == <<prog, frames, heap, live, input, output, status>>

-----------------------------------------------------------------------------
(* Reading the tree and the frames.                                        *)

Kind(n) == prog.node[n].k
Data(n) == prog.node[n].x
Kids(n) == prog.node[n].kids

Bind(f, key, v) == [k \in DOMAIN f \cup {key} |-> IF k = key THEN v ELSE f[k]]

Depth == Len(frames)
Top   == frames[Depth]

Visits(ns) == [i \in DOMAIN ns |-> <<"visit", ns[i]>>]

\* VisitStmt: the children of n, never n itself.
Children(n) == Visits(Kids(n))

\* A long long stored in an int.
Cut(v) == ((v + IntValues \div 2) % IntValues) - IntValues \div 2

\* The size of a type with t stars; no size where the assertion fails.
TypeSize(t) == CASE t = 0 -> {4} [] t = 1 -> {8} [] OTHER -> {}

\* A slot is read and written in the frame nearest to the top that binds it (the mutant
\* begins with the globals). What is not known, here and below, is an empty set.
Holders(s)   == {i \in DOMAIN frames : s \in DOMAIN frames[i].slot}
Outermost(s) == {i \in Holders(s) : \A j \in Holders(s) : i <= j}
Innermost(s) == {i \in Holders(s) : \A j \in Holders(s) : j <= i}

\* getStmtVal.
StmtVal(n) == IF Kind(n) = "num" THEN {Data(n)}
              ELSE {Top.expr[m] : m \in {n} \cap DOMAIN Top.expr}

\* The slot a variable or subscript denotes.
Slots(n) ==
  LET base == Kids(n)[1]
      decl == IF Kind(base) = "cast" THEN Kids(base)[1] ELSE base
  IN CASE Kind(n) = "ref" -> {<<Data(n)>>}
       [] Kind(n) = "sub" /\ Kind(decl) = "ref" ->
            {<<Data(decl), Cut(i)>> : i \in StmtVal(Kids(n)[2])}
       [] OTHER -> {}

Places(n) == {p \in (DOMAIN frames) \X Slots(n) : p[1] \in Innermost(p[2])}

ExactVal(n) == IF Kind(n) \in {"ref", "sub"}
               THEN {frames[p[1]].slot[p[2]] : p \in Places(n)}
               ELSE StmtVal(n)

\* What initVars binds: only a literal initialiser counts.
DeclSlots(p, n) ==
  LET nd  == p.node[n]
      lit == {i \in DOMAIN nd.kids : p.node[nd.kids[i]].k = "num"}
  IN  IF lit = {} /\ nd.x[2] > 0
      THEN [s \in {<<nd.x[1], i>> : i \in 0 .. nd.x[2] - 1} |-> 0]
      ELSE [s \in {<<nd.x[1]>>} |-> IF lit = {} THEN 0 ELSE p.node[nd.kids[1]].x]

Merge(f, g) == [k \in DOMAIN f \cup DOMAIN g |-> IF k \in DOMAIN g THEN g[k] ELSE f[k]]

NoValues == [k \in {} |-> 0]

\* pc is the last call started here. call is the one this frame was pushed for, a
\* local of VisitCallExpr; 0 is none.
NewFrame(slot, work, call) ==
  [slot |-> slot, expr |-> NoValues, pc |-> 0, returned |-> FALSE, work |-> work, call |-> call]

Init ==
  /\ prog \in Program
  /\ input \in Inputs
  /\ LET decls == {DeclSlots(prog, n) : n \in prog.globals}
         Global(s) == CHOOSE d \in decls : s \in DOMAIN d
         slots == UNION {DOMAIN d : d \in decls}
     IN  frames = <<NewFrame([s \in slots |-> Global(s)[s]], <<>>, 0),
                    NewFrame(NoValues, Children(prog.fun["main"].body), 0)>>
  /\ heap = NoValues
  /\ live = {}
  /\ output = <<>>
  /\ status = "running"

-----------------------------------------------------------------------------
(* The walk.                                                               *)

Task == Head(Top.work)
Node == Task[2]

At(do, kinds) == /\ status = "running"
                 /\ Top.work # <<>>
                 /\ Task[1] = do
                 /\ Kind(Node) \in kinds

SetTop(f)    == frames' = [frames EXCEPT ![Depth] = f]
Done(f)      == [f EXCEPT !.work = Tail(Top.work)]
Becomes(todo) == SetTop([Top EXCEPT !.work = todo \o Tail(Top.work)])
Drop         == SetTop(Done(Top))
Yield(v)     == SetTop(Done([Top EXCEPT !.expr = Bind(Top.expr, Node, v)]))

\* What the handler of n does, in order.
Handler(n) ==
  LET k == Kids(n)
  IN CASE Kind(n) \in {"num", "ref", "none"} -> <<>>
       [] Kind(n) = "block"  -> Children(n)
       [] Kind(n) = "sub"    -> Visits(<<k[2]>>)
       [] Kind(n) \in {"sizeof", "decl"} -> <<<<"finish", n>>>>
       [] Kind(n) = "if"     -> Visits(<<k[1]>>) \o <<<<"branch", n>>>>
       [] Kind(n) = "while"  -> Visits(<<k[1]>>) \o <<<<"loop", n>>>>
       [] Kind(n) = "for"    -> Visits(<<k[1], k[2]>>) \o <<<<"loop", n>>>>
       [] OTHER              -> Children(n) \o <<<<"finish", n>>>>

\* Every handler gives up at once when the frame has returned (the mutant goes on).
VisitAnyway == /\ At("visit", ExprKinds \cup StmtKinds)
               /\ Becomes(Handler(Node))
               /\ UNCHANGED <<prog, heap, live, input, output, status>>

Visit == /\ At("visit", ExprKinds \cup StmtKinds)
         /\ ~Top.returned
         /\ Becomes(Handler(Node))
         /\ UNCHANGED <<prog, heap, live, input, output, status>>

SkipVisit == /\ At("visit", ExprKinds \cup StmtKinds)
             /\ Top.returned
             /\ Drop
             /\ UNCHANGED <<prog, heap, live, input, output, status>>

Branch ==
  /\ At("branch", {"if"})
  /\ \E c \in ExactVal(Kids(Node)[1]) :
       Becomes(IF Cut(c) # 0 THEN Visits(<<Kids(Node)[2]>>)
               ELSE Visits(SubSeq(Kids(Node), 3, Len(Kids(Node)))))
  /\ UNCHANGED <<prog, heap, live, input, output, status>>

LoopCond(n) == Kids(n)[IF Kind(n) = "for" THEN 2 ELSE 1]
LoopBody(n) == Kids(n)[IF Kind(n) = "for" THEN 4 ELSE 2]
LoopInc(n)  == IF Kind(n) = "for" THEN <<Kids(n)[3]>> ELSE <<>>

\* Neither loop looks at returned, nor wraps its body.
Loop ==
  /\ At("loop", {"while", "for"})
  /\ \E c \in ExactVal(LoopCond(Node)) :
       Becomes(IF Cut(c) = 0 THEN <<>>
               ELSE Children(LoopBody(Node)) \o Visits(LoopInc(Node))
                    \o Visits(<<LoopCond(Node)>>) \o <<<<"loop", Node>>>>)
  /\ UNCHANGED <<prog, heap, live, input, output, status>>

-----------------------------------------------------------------------------
(* Expressions.                                                            *)

Assign ==
  /\ At("finish", {"asg"})
  /\ LET l == Kids(Node)[1]
     IN \E v \in ExactVal(Kids(Node)[2]) :
          \/ /\ Kind(l) \in {"ref", "sub"}
             /\ \E p \in Places(l) :
                  LET i == p[1]
                      stored == [frames EXCEPT ![i] =
                                   [frames[i] EXCEPT !.slot = Bind(frames[i].slot, p[2], v)]]
                  IN  frames' = [stored EXCEPT ![Depth] = Done(stored[Depth])]
             /\ UNCHANGED heap
          \/ /\ Kind(l) = "deref"
             /\ \E a \in ExactVal(Kids(l)[1]) : heap' = Bind(heap, a, v)
             /\ Drop
          \/ /\ Kind(l) \notin {"ref", "sub", "deref", "neg"}
             /\ SetTop(Done([Top EXCEPT !.expr = Bind(Top.expr, l, v)]))
             /\ UNCHANGED heap
  /\ UNCHANGED <<prog, live, input, output, status>>

\* solveAddr: the integer added to a pointer counts in elements (the mutant takes the size
\* of the pointer).
ScaleByPointer(op, l, r) ==
  IF op[1] \in {"+", "-"} /\ op[2] > 0 THEN {<<l, r * size>> : size \in TypeSize(op[2])}
  ELSE {<<l, r>>}

Scale(op, l, r) ==
  LET pointer == op[1] \in {"+", "-"} /\ ((op[2] > 0) # (op[3] > 0))
  IN  CASE ~pointer -> {<<l, r>>}
        [] pointer /\ op[2] > 0 -> {<<l, r * size>> : size \in TypeSize(op[2] - 1)}
        [] pointer /\ op[3] > 0 -> {<<l * size, r>> : size \in TypeSize(op[3] - 1)}

Quotient(l, r) == LET Abs(i) == IF i < 0 THEN -i ELSE i
                      q == Abs(l) \div Abs(r)
                  IN  IF (l < 0) = (r < 0) THEN q ELSE -q

Truth(b) == IF b THEN 1 ELSE 0

\* The values the operator can give: none where it divides by zero or the type has no
\* size.
Results(op, l, r) ==
  CASE op[1] = ">" -> {Truth(l > r)}
    [] op[1] = "<" -> {Truth(l < r)}
    [] op[1] = "==" -> {Truth(l = r)}
    [] op[1] = "+" -> {p[1] + p[2] : p \in Scale(op, l, r)}
    [] op[1] = "-" -> {p[1] - p[2] : p \in Scale(op, l, r)}
    [] op[1] = "*" -> {l * r}
    [] op[1] = "/" -> {Quotient(l, d) : d \in {r} \ {0}}
    [] OTHER -> {}

\* The operators binop has a case for, and those whose operands it asks for. One that is
\* asked for and has no case leaves no value; of the others nothing is asked.
Operators == {">", "<", "==", "+", "-", "*", "/"}
Evaluated == Operators \cup {">=", "<=", "!=", "%"}

Operate ==
  /\ At("finish", {"bin"})
  /\ IF Data(Node)[1] \in Operators
     THEN \E l \in ExactVal(Kids(Node)[1]), r \in ExactVal(Kids(Node)[2]) :
            \E v \in Results(Data(Node), l, r) : Yield(v)
     ELSE /\ Data(Node)[1] \in Evaluated => \A i \in 1 .. 2 : ExactVal(Kids(Node)[i]) # {}
          /\ Drop
  /\ UNCHANGED <<prog, heap, live, input, output, status>>

CastValue ==
  /\ At("finish", {"cast"})
  /\ \E v \in ExactVal(Kids(Node)[1]) : Yield(v)
  /\ UNCHANGED <<prog, heap, live, input, output, status>>

\* uniop negates, or reads the heap, where all is 0 at first.
Uniop ==
  /\ At("finish", {"neg", "deref"})
  /\ \E v \in ExactVal(Kids(Node)[1]) :
       Yield(IF Kind(Node) = "neg" THEN -v
             ELSE IF v \in DOMAIN heap THEN heap[v] ELSE 0)
  /\ UNCHANGED <<prog, heap, live, input, output, status>>

ParenValue ==
  /\ At("finish", {"paren"})
  /\ \E v \in ExactVal(Kids(Node)[1]) : Yield(v)
  /\ UNCHANGED <<prog, heap, live, input, output, status>>

MSizeof ==
  /\ At("finish", {"sizeof"})
  /\ \E size \in TypeSize(Data(Node)) : Yield(size)
  /\ UNCHANGED <<prog, heap, live, input, output, status>>

\* A declaration binds its variable in the top frame (the mutant only if no frame has it).
DeclareUnknown ==
  /\ At("finish", {"decl"})
  /\ LET new == {s \in DOMAIN DeclSlots(prog, Node) : Holders(s) = {}}
     IN  SetTop(Done([Top EXCEPT !.slot = Merge(Top.slot, [s \in new |-> 0])]))
  /\ UNCHANGED <<prog, heap, live, input, output, status>>

Declare ==
  /\ At("finish", {"decl"})
  /\ SetTop(Done([Top EXCEPT !.slot = Merge(Top.slot, DeclSlots(prog, Node))]))
  /\ UNCHANGED <<prog, heap, live, input, output, status>>

-----------------------------------------------------------------------------
(* Calls. Every one becomes the frame's pc (with the mutant the first one  *)
(* does).                                                                  *)

AtCall(callees) == At("finish", {"call"}) /\ Data(Node) \in callees

CalledFirst == [Top EXCEPT !.pc = IF Top.pc = 0 THEN Node ELSE Top.pc]
Called == [Top EXCEPT !.pc = Node]
Answer(v) == SetTop(Done([Called EXCEPT !.expr = Bind(Top.expr, Node, v)]))

\* scanf; at the end of the input the value stays 0.
CallInput ==
  /\ AtCall({"GET"})
  /\ Answer(IF input = <<>> THEN 0 ELSE Head(input))
  /\ input' = IF input = <<>> THEN input ELSE Tail(input)
  /\ UNCHANGED <<prog, heap, live, output, status>>

CallOutput ==
  /\ AtCall({"PRINT"})
  /\ \E v \in ExactVal(Kids(Node)[1]) : output' = Append(output, v)
  /\ SetTop(Done(Called))
  /\ UNCHANGED <<prog, heap, live, input, status>>

\* external: malloc gives any place that overlaps no live block.
Fits(at, size) == \A b \in live : at + size <= b.at \/ b.at + b.size <= at

CallMalloc ==
  /\ AtCall({"MALLOC"})
  /\ \E v \in ExactVal(Kids(Node)[1]) :
       /\ Cut(v) >= 0
       /\ \E at \in {a \in Addresses : Fits(a, Cut(v))} :
            /\ live' = live \cup {[at |-> at, size |-> Cut(v)]}
            /\ Answer(at)
  /\ UNCHANGED <<prog, heap, input, output, status>>

\* The values stored in the block stay in the map.
CallFree ==
  /\ AtCall({"FREE"})
  /\ \E v \in ExactVal(Kids(Node)[1]) :
       /\ v = 0 \/ \E b \in live : b.at = v
       /\ live' = {b \in live : b.at # v}
  /\ SetTop(Done(Called))
  /\ UNCHANGED <<prog, heap, input, output, status>>

\* Arguments are read in the caller's frame and bound in the callee's.
CallFunction ==
  /\ AtCall(DOMAIN prog.fun \ Builtins)
  /\ \A i \in DOMAIN Kids(Node) : ExactVal(Kids(Node)[i]) # {}
  /\ LET f == prog.fun[Data(Node)]
         Arg(i) == CHOOSE v \in ExactVal(Kids(Node)[i]) : TRUE
         Param(s) == CHOOSE i \in DOMAIN f.params : <<f.params[i]>> = s
         bound == [s \in {<<f.params[i]>> : i \in DOMAIN f.params} |-> Arg(Param(s))]
     IN  frames' = Append([frames EXCEPT ![Depth] = Done(Called)],
                          NewFrame(bound, Children(f.body), Node))
  /\ UNCHANGED <<prog, heap, live, input, output, status>>

\* mreturn: the value goes to the call the frame below has started. The frame below
\* main's has started none: main is not marked as returned.
Return ==
  /\ At("finish", {"ret"})
  /\ Kids(Node) # <<>>
  /\ LET below == frames[Depth - 1]
     IN \E v \in ExactVal(Kids(Node)[1]) :
          IF below.pc = 0 THEN Drop
          ELSE frames' = [frames EXCEPT
                 ![Depth - 1] = [below EXCEPT !.expr = Bind(below.expr, below.pc, v)],
                 ![Depth] = [Done(Top) EXCEPT !.returned = TRUE]]
  /\ UNCHANGED <<prog, heap, live, input, output, status>>

\* popStack, when the body of the callee is visited (the mutant pops main as well).
LeaveAnyFunction ==
  /\ status = "running"
  /\ Top.work = <<>> /\ Depth > 1
  /\ frames' = SubSeq(frames, 1, Depth - 1)
  /\ UNCHANGED <<prog, heap, live, input, output, status>>

LeaveFunction ==
  /\ status = "running"
  /\ Top.work = <<>> /\ Depth > 2
  /\ frames' = SubSeq(frames, 1, Depth - 1)
  /\ UNCHANGED <<prog, heap, live, input, output, status>>

Finish ==
  /\ status = "running"
  /\ Top.work = <<>> /\ Depth = 2
  /\ status' = "done"
  /\ UNCHANGED <<prog, frames, heap, live, input, output>>

-----------------------------------------------------------------------------
(* Assertions, and what the library does not survive.                      *)

\* The expressions whose value the task at hand asks for.
Operands(n) ==
  LET k == Kids(n)
      address == IF Kind(k[1]) = "deref" THEN {Kids(k[1])[1]} ELSE {}
  IN CASE Kind(n) = "asg" -> {k[2]} \cup address
       [] Kind(n) \in {"while", "for"} -> {LoopCond(n)}
       [] Kind(n) = "if" -> {k[1]}
       [] Kind(n) = "bin" /\ Data(n)[1] \notin Evaluated -> {}
       [] OTHER -> {k[i] : i \in DOMAIN k}

Fails(n) ==
  \/ Kind(n) # "decl" /\ \E m \in Operands(n) : ExactVal(m) = {}
  \/ /\ Kind(n) = "asg"
     /\ LET l == Kids(n)[1]
        IN  Kind(l) = "neg" \/ (Kind(l) \in {"ref", "sub"} /\ Places(l) = {})
  \/ /\ Kind(n) = "bin" /\ Data(n)[1] \in Operators
     /\ \A l \in ExactVal(Kids(n)[1]), r \in ExactVal(Kids(n)[2]) : Results(Data(n), l, r) = {}
  \/ Kind(n) = "sizeof" /\ TypeSize(Data(n)) = {}
  \/ Kind(n) = "ret" /\ Kids(n) = <<>>
  \/ Kind(n) = "call" /\ Data(n) = "MALLOC" /\ \A v \in ExactVal(Kids(n)[1]) : Cut(v) < 0
  \/ /\ Kind(n) = "call" /\ Data(n) = "FREE"
     /\ \A v \in ExactVal(Kids(n)[1]) : v # 0 /\ \A b \in live : b.at # v

Abort == /\ status = "running"
         /\ Top.work # <<>> /\ Task[1] # "visit"
         /\ Fails(Node)
         /\ status' = "aborted"
         /\ UNCHANGED <<prog, frames, heap, live, input, output>>

Stopped == status # "running" /\ UNCHANGED vars

Next == \/ Visit \/ SkipVisit \/ Branch \/ Loop
        \/ Assign \/ Operate \/ CastValue \/ Uniop \/ ParenValue \/ MSizeof \/ Declare
        \/ CallInput \/ CallOutput \/ CallMalloc \/ CallFree \/ CallFunction
        \/ Return \/ LeaveFunction \/ Finish \/ Abort \/ Stopped

Spec == Init /\ [][Next]_vars /\ WF_vars(Next)

-----------------------------------------------------------------------------
(* Properties.                                                             *)

\* The nodes the visitor may meet: Environment::init has dealt with the globals.
Nodes_ == DOMAIN prog.node \ prog.globals
Tasks  == {"visit", "finish", "branch", "loop"} \X Nodes_

FrameOK(f) ==
  /\ f.slot \in [DOMAIN f.slot -> Int]
  /\ f.expr \in [DOMAIN f.expr -> Int]
  /\ DOMAIN f.expr \subseteq Nodes_
  /\ f.pc \in Nodes_ \cup {0}
  /\ f.call \in Nodes_ \cup {0}
  /\ f.returned \in BOOLEAN
  /\ f.work \in Seq(Tasks)

\* The type of the state. There is always a frame of the globals and one above it: back()
\* and mStack[size() - 2] exist whenever they are asked for.
TypeOK ==
  /\ frames \in Seq({frames[i] : i \in DOMAIN frames}) /\ Len(frames) >= 2
  /\ \A i \in DOMAIN frames : FrameOK(frames[i])
  /\ heap \in [DOMAIN heap -> Int]
  /\ live \subseteq [at : Int, size : Int]
  /\ input \in Seq(Int)
  /\ output \in Seq(Int)
  /\ status \in {"running", "done", "aborted"}

\* mreturn binds the value to the last call the frame below has started. That is the call
\* the returning frame was pushed for, however calls are nested in arguments.
CallPending == \A i \in 2 .. Depth - 1 : frames[i].pc = frames[i + 1].call

\* After its return statement a function does nothing: no output, no store, no value, until
\* its frame is popped (isReturned in every handler).
NothingAfterReturn ==
  [][Top.returned => /\ UNCHANGED <<heap, live, input, output>>
                     /\ \A i \in DOMAIN frames' : /\ frames'[i].slot = frames[i].slot
                                                  /\ frames'[i].expr = frames[i].expr]_vars

\* A variable or element that is assigned, if it is bound anywhere, is bound in the frame of
\* the function at hand or global: what bindDecl and bindArr find in the frames in between
\* is never what the program means.
AssignsInScope ==
  At("finish", {"asg"}) => \A s \in Slots(Kids(Node)[1]) :
                             Holders(s) # {} => s \in DOMAIN Top.slot \cup DOMAIN frames[1].slot

\* While a call is in progress the variables of the functions that wait for it stay what
\* they are, although names are looked up through their frames too, and so do the values
\* of their half evaluated expressions, but for the one of the call.
CallersUntouched ==
  [][\A i \in 2 .. Depth - 1 :
       /\ frames'[i].slot = frames[i].slot
       /\ \A n \in DOMAIN frames[i].expr \ {frames[i].pc} :
            n \in DOMAIN frames'[i].expr /\ frames'[i].expr[n] = frames[i].expr[n]]_vars
=============================================================================
