----------------------------- MODULE IRMachine -----------------------------
(***************************************************************************)
(* What LLVM says the analysed instructions do when the module runs: the   *)
(* reference for the analysis of FuncPtr.tla. Not code of the repository.  *)
(*                                                                         *)
(* A run starts in one of the functions, with unknown arguments, and takes *)
(* any successor at the end of a block. A step the language leaves         *)
(* undefined (a load, store or call through something that is not a        *)
(* pointer) stops the run.                                                 *)
(***************************************************************************)
EXTENDS PointsTo

CONSTANTS
    MaxObjects,     \* bound on the objects a run may allocate
    MaxCalls        \* bound on the calls in progress in a run

VARIABLES
    prog,           \* the module, as in FuncPtr.tla
    frames,         \* the calls in progress, the last one running
    memory          \* per object allocated so far the value of each field

machine == <<frames, memory>>

\* A function is its name, an address an object and a field.
Fun(f) == [object |-> 0, at |-> f]
Address(n, field) == [object |-> n, at |-> field]
Undefined == [object |-> 0, at |-> ""]

FirstField == "0"
Fields == {FirstField} \cup {inst.at[1] : inst \in {i \in UNION {
              {prog.code[b][k] : k \in DOMAIN prog.code[b]} : b \in DOMAIN prog.code} : i.op = "gep"}}

Init ==
    /\ frames = <<>>
    /\ memory = <<>>

Current == frames[Len(frames)]
Executing == frames # <<>> /\ Current.pos <= Len(prog.code[Current.block])
Inst == prog.code[Current.block][Current.pos]

Value(v) ==
    IF v \in DOMAIN prog.block THEN Fun(v)
    ELSE IF v \in DOMAIN Current.env THEN Current.env[v]
    ELSE Undefined

IsAddress(x) == x.object > 0

Extend(env, v, x) == [w \in DOMAIN env \cup {v} |-> IF w = v THEN x ELSE env[w]]

Assign(v, x) ==
    frames' = [frames EXCEPT ![Len(frames)].env = Extend(@, v, x), ![Len(frames)].pos = @ + 1]

Enter(f, args) ==
    [fn |-> f, block |-> prog.entry[f], from |-> "", pos |-> 1,
     env |-> [p \in {prog.param[f][i] : i \in DOMAIN args} |->
                 args[CHOOSE i \in DOMAIN args : prog.param[f][i] = p]]]

Start ==
    /\ frames = <<>> /\ memory = <<>>
    /\ \E f \in DOMAIN prog.entry : frames' = <<Enter(f, <<>>)>>
    /\ UNCHANGED memory

Allocate ==
    /\ Executing
    /\ Inst.op = "alloca" \/ (Inst.op = "call" /\ Value(Called(Inst)) = Fun("malloc"))
    /\ Len(memory) < MaxObjects
    /\ memory' = Append(memory, [k \in Fields |-> Undefined])
    /\ Assign(Inst.dst, Address(Len(memory) + 1, FirstField))

Compute ==
    /\ Executing
    /\ \/ /\ Inst.op = "load"
          /\ LET a == Value(Inst.src[1])
             IN  IsAddress(a) /\ Assign(Inst.dst, memory[a.object][a.at])
       \/ /\ Inst.op = "cast"
          /\ Assign(Inst.dst, Value(Inst.src[1]))
       \/ /\ Inst.op = "gep"
          /\ LET a == Value(Inst.src[1])
             IN  IsAddress(a) /\ Assign(Inst.dst, Address(a.object, Inst.at[1]))
       \/ /\ Inst.op = "phi"
          /\ \E i \in DOMAIN Inst.at :
                Inst.at[i] = Current.from /\ Assign(Inst.dst, Value(Inst.src[i]))
    /\ UNCHANGED memory

Write ==
    /\ Executing
    /\ Inst.op \in {"store", "memcpy"}
    /\ LET a == Value(Inst.dst)
           x == Value(Inst.src[1])
       IN  /\ IsAddress(a)
           /\ \/ Inst.op = "store" /\ memory' = [memory EXCEPT ![a.object][a.at] = x]
              \/ /\ Inst.op = "memcpy" /\ IsAddress(x)
                 /\ memory' = [memory EXCEPT ![a.object] = memory[x.object]]
    /\ frames' = [frames EXCEPT ![Len(frames)].pos = @ + 1]

Invoke ==
    /\ Executing
    /\ Inst.op = "call"
    /\ Len(frames) < MaxCalls
    /\ \E f \in DOMAIN prog.entry :
          /\ Value(Called(Inst)) = Fun(f)
          /\ frames' = Append(frames, Enter(f, [i \in DOMAIN Inst.src |-> Value(Inst.src[i])]))
    /\ UNCHANGED memory

Return ==
    /\ Executing
    /\ Inst.op = "ret"
    /\ Len(frames) > 1
    /\ LET n == Len(frames) - 1
           c == prog.code[frames[n].block][frames[n].pos]
           x == IF Inst.src = <<>> THEN Undefined ELSE Value(Inst.src[1])
       IN  frames' = [SubSeq(frames, 1, n) EXCEPT ![n].env = Extend(@, c.dst, x),
                                                  ![n].pos = @ + 1]
    /\ UNCHANGED memory

\* A branch on constants goes one way.
Taken(b) ==
    IF b \in DOMAIN prog.cond
    THEN {IF prog.cond[b].l > prog.cond[b].r THEN prog.cond[b].then ELSE prog.cond[b].else}
    ELSE prog.succ[b]

Branch ==
    /\ frames # <<>> /\ ~Executing
    /\ \E b \in Taken(Current.block) :
          frames' = [frames EXCEPT ![Len(frames)] =
                        [@ EXCEPT !.from = Current.block, !.block = b, !.pos = 1]]
    /\ UNCHANGED memory

Run == Start \/ Allocate \/ Compute \/ Write \/ Invoke \/ Return \/ Branch

\* The function about to be called, and the call instruction.
AtCall == Executing /\ Inst.op = "call"
Callee == Value(Called(Inst)).at
IsFun(x) == x.object = 0 /\ x.at # ""
=============================================================================
