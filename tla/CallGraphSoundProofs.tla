------------------------ MODULE CallGraphSoundProofs ------------------------
(***************************************************************************)
(* Whatever a run of a module calls, its call graph has, for every module  *)
(* whose functions pass from register to register only (OnlyPasses), as    *)
(* long as calls are of the callee's type (CallsMatch).                    *)
(*                                                                         *)
(* The argument: the builder has stopped with maps closed under its rules  *)
(* before the run begins (ClosedCorrect). A register that holds a function *)
(* is a function pointer, and the function is among its values or those of *)
(* what it is bound to. Every step of a run that copies a function into a  *)
(* register follows a rule the maps are closed under.                      *)
(***************************************************************************)
EXTENDS CallGraphSound, CallGraphProofs

\* The functions pointer u may be.
MayBe(u) == Image(pvVals, u) \cup UNION {Image(pvVals, v) : v \in Image(pvBinds, u)}

Blocks == UNION {prog.block[f] : f \in Func}

\* What registers and memory hold when m objects are allocated.
Stored(m) == {M!Undefined} \cup {M!Address(n, k) : n \in 1 .. m, k \in M!Fields}
Values(m) == Stored(m) \cup {M!Fun(f) : f \in Func}
Envs(m) == UNION {[D -> Values(m)] : D \in SUBSET prog.value}
Frames(m) ==
    [fn : Func, block : Blocks, from : Blocks \cup {""}, pos : Nat \ {0}, env : Envs(m)]

\* A register that holds a function is a pointer that may be it.
EnvOK(f, env) ==
    \A v \in DOMAIN env :
        M!IsFun(env[v]) => v \in prog.pointer /\ env[v].at \in MayBe(<<f, v>>)

\* A run is where control has brought it.
PlaceOK(fr) ==
    /\ fr.fn \in DOMAIN prog.entry
    /\ fr.block \in prog.block[fr.fn]
    /\ \/ fr.block = prog.entry[fr.fn]
       \/ /\ fr.from \in prog.block[fr.fn]
          /\ fr.block \in M!Taken(fr.from)
          /\ CanReach(fr.from)

FrameOK(fr) == PlaceOK(fr) /\ EnvOK(fr.fn, fr.env)

\* Below the frame of g: the call that g was called by.
CallOK(fr, g) ==
    LET c == prog.code[fr.block][fr.pos]
    IN  /\ fr.pos \in DOMAIN prog.code[fr.block]
        /\ c.op = "call"
        /\ g \in Image(callGraph, <<fr.fn, c>>)
        /\ \A i \in Code(g) :
              i.op = "ret" /\ i.src # <<>> /\ i.src[1] \in prog.pointer => c.dst \in prog.pointer

Typed ==
    /\ memory \in Seq([M!Fields -> Stored(Len(memory))])
    /\ frames \in Seq(Frames(Len(memory)))

Linked ==
    /\ \A n \in DOMAIN frames : FrameOK(frames[n])
    /\ \A n \in 1 .. Len(frames) - 1 : CallOK(frames[n], frames[n + 1].fn)

RunInv == Typed /\ Linked

\* Nothing runs before the builder has stopped.
SInv == /\ IInv
        /\ ~Done => frames = <<>> /\ memory = <<>>
        /\ RunInv
-----------------------------------------------------------------------------
\* A step of the run changes neither the module nor the maps.
LEMMA RunFrozen ==
  ASSUME UNCHANGED vars
  PROVE  /\ \A m : /\ Stored(m)' = Stored(m) /\ Values(m)' = Values(m)
                   /\ Envs(m)' = Envs(m) /\ Frames(m)' = Frames(m)
         /\ M!Fields' = M!Fields
         /\ \A fr : FrameOK(fr)' = FrameOK(fr)
         /\ \A fr, g : CallOK(fr, g)' = CallOK(fr, g)
  <1>1. prog' = prog /\ pvVals' = pvVals /\ pvBinds' = pvBinds /\ callGraph' = callGraph
    BY DEF vars
  <1>2. Func' = Func /\ M!Fields' = M!Fields /\ Blocks' = Blocks
    BY <1>1 DEF Func, M!Fields, M!FirstField, Blocks
  <1>3. \A m : Stored(m)' = Stored(m) /\ Values(m)' = Values(m)
    BY <1>2 DEF Stored, Values
  <1>4. \A m : Envs(m)' = Envs(m)
    BY <1>1, <1>3 DEF Envs
  <1>5. \A m : Frames(m)' = Frames(m)
    BY <1>2, <1>4 DEF Frames
  <1>6. \A u : MayBe(u)' = MayBe(u)
    BY <1>1 DEF MayBe, Image
  <1>7. \A f, env : EnvOK(f, env)' = EnvOK(f, env)
    BY <1>1, <1>6 DEF EnvOK
  <1>8. \A b : CanReach(b)' = CanReach(b)
    BY <1>1, <1>2 DEF CanReach, Deciding, Pred
  <1>9. \A fr : PlaceOK(fr)' = PlaceOK(fr)
    BY <1>1, <1>8 DEF PlaceOK, M!Taken
  <1>10. \A fr : FrameOK(fr)' = FrameOK(fr)
    BY <1>7, <1>9 DEF FrameOK
  <1>11. \A f : Code(f)' = Code(f)
    BY <1>1 DEF Code
  <1>12. \A fr, g : CallOK(fr, g)' = CallOK(fr, g)
    BY <1>1, <1>11 DEF CallOK, Image
  <1> QED
    BY <1>2, <1>3, <1>4, <1>5, <1>10, <1>12

\* More objects, more values.
LEMMA MoreValues ==
  ASSUME NEW m \in Nat, NEW n \in Nat, m <= n
  PROVE  Stored(m) \subseteq Stored(n) /\ Values(m) \subseteq Values(n)
         /\ Envs(m) \subseteq Envs(n) /\ Frames(m) \subseteq Frames(n)
  <1>1. 1 .. m \subseteq 1 .. n
    OBVIOUS
  <1>2. Stored(m) \subseteq Stored(n)
    BY <1>1 DEF Stored
  <1>3. Values(m) \subseteq Values(n)
    BY <1>2 DEF Values
  <1>4. Envs(m) \subseteq Envs(n)
    BY <1>3 DEF Envs
  <1>5. Frames(m) \subseteq Frames(n)
    BY <1>4 DEF Frames
  <1> QED
    BY <1>2, <1>3, <1>4, <1>5

\* Only the names of functions are functions.
LEMMA StoredNoFun ==
  ASSUME NEW m \in Nat, NEW x \in Stored(m)
  PROVE  ~M!IsFun(x)
  <1>1. ~M!IsFun(M!Undefined)
    BY DEF M!IsFun, M!Undefined
  <1>2. ASSUME NEW n \in 1 .. m, NEW k PROVE ~M!IsFun(M!Address(n, k))
    <2>1. M!Address(n, k).object = n
      BY DEF M!Address
    <2>2. n # 0
      OBVIOUS
    <2> QED
      BY <2>1, <2>2 DEF M!IsFun
  <1> QED
    BY <1>1, <1>2 DEF Stored

-----------------------------------------------------------------------------
\* What runs is an instruction of the function it is in.
LEMMA InstInCode ==
  ASSUME prog \in Program, NEW f \in Func, NEW b \in prog.block[f], NEW i \in DOMAIN prog.code[b]
  PROVE  prog.code[b][i] \in Code(f)
  BY DEF Code, CodeOf

LEMMA ExecutingInst ==
  ASSUME prog \in Program, RunInv, M!Executing
  PROVE  /\ Len(frames) \in DOMAIN frames
         /\ M!Current \in Frames(Len(memory)) /\ FrameOK(M!Current)
         /\ M!Current.pos \in DOMAIN prog.code[M!Current.block]
         /\ M!Inst \in Code(M!Current.fn)
  <1>1. Len(frames) \in DOMAIN frames /\ M!Current = frames[Len(frames)]
    BY DEF RunInv, Typed, M!Executing, M!Current
  <1>2. M!Current \in Frames(Len(memory)) /\ FrameOK(M!Current)
    BY <1>1 DEF RunInv, Typed, Linked
  <1>3. M!Current.fn \in Func /\ M!Current.block \in prog.block[M!Current.fn]
        /\ M!Current.pos \in Nat \ {0}
    BY <1>2 DEF Frames, FrameOK, PlaceOK
  <1>4. prog.code[M!Current.block] \in Seq(CodeOf(prog, M!Current.fn))
    BY <1>3, ProgramAssumption DEF IsModule, Func
  <1>5. M!Current.pos \in DOMAIN prog.code[M!Current.block]
    BY <1>3, <1>4 DEF M!Executing
  <1> QED
    BY <1>1, <1>2, <1>3, <1>5, InstInCode DEF M!Inst

\* The value of an operand is a value; one that is a function comes from a function's
\* name or from a pointer that may be it.
LEMMA OperandValue ==
  ASSUME prog \in Program, RunInv, frames # <<>>, NEW v
  PROVE  /\ M!Value(v) \in Values(Len(memory))
         /\ M!IsFun(M!Value(v)) =>
              \/ v \in Func /\ M!Value(v).at = v
              \/ /\ v \in prog.pointer
                 /\ M!Value(v).at \in MayBe(<<M!Current.fn, v>>)
  <1>1. DOMAIN prog.block = Func
    BY RunnableAssumption DEF IsRunnable, Func
  <1>2. M!Current \in Frames(Len(memory)) /\ FrameOK(M!Current)
    BY DEF RunInv, Typed, Linked, M!Current
  <1>3. M!Current.env \in Envs(Len(memory)) /\ EnvOK(M!Current.fn, M!Current.env)
    BY <1>2 DEF Frames, FrameOK
  <1>4. CASE v \in Func
    <2>1. M!Value(v) = M!Fun(v)
      BY <1>1, <1>4 DEF M!Value
    <2> QED
      BY <1>4, <2>1 DEF Values, M!Fun
  <1>5. CASE v \notin Func /\ v \in DOMAIN M!Current.env
    <2>1. M!Value(v) = M!Current.env[v]
      BY <1>1, <1>5 DEF M!Value
    <2>2. M!Value(v) \in Values(Len(memory))
      BY <1>3, <1>5, <2>1 DEF Envs
    <2> QED
      BY <1>3, <1>5, <2>1, <2>2 DEF EnvOK
  <1>6. CASE v \notin Func /\ v \notin DOMAIN M!Current.env
    <2>1. M!Value(v) = M!Undefined
      BY <1>1, <1>6 DEF M!Value
    <2>2. M!Undefined \in Values(Len(memory)) /\ ~M!IsFun(M!Undefined)
      BY DEF Values, Stored, M!IsFun, M!Undefined
    <2> QED
      BY <2>1, <2>2
  <1> QED
    BY <1>4, <1>5, <1>6

\* A value that is no address is a function or nothing.
LEMMA AddressStored ==
  ASSUME NEW m \in Nat, NEW x \in Values(m), M!IsAddress(x)
  PROVE  x.object \in 1 .. m /\ x.at \in M!Fields
  <1>1. ~M!IsAddress(M!Undefined) /\ \A f : ~M!IsAddress(M!Fun(f))
    BY DEF M!IsAddress, M!Fun, M!Undefined
  <1>2. PICK n \in 1 .. m, k \in M!Fields : x = M!Address(n, k)
    BY <1>1 DEF Values, Stored
  <1> QED
    BY <1>2 DEF M!Address

-----------------------------------------------------------------------------
\* What closed maps give a pointer: its own values, and those of what it is a copy of.
LEMMA ValueKnown ==
  ASSUME NEW u, NEW f, <<u, f>> \in pvVals
  PROVE  f \in MayBe(u)
  BY RelatedInImage DEF MayBe

LEMMA CopyKnown ==
  ASSUME IInv, Done, NEW u, NEW v, <<u, v>> \in pvBinds
  PROVE  MayBe(v) \subseteq MayBe(u)
  <1>1. Transitive(pvBinds) /\ Relation(pvBinds)
    BY DEF IInv, ClosedWhenDone, Closed, ControlOK
  <1>2. v \in Image(pvBinds, u)
    BY RelatedInImage
  <1>3. ASSUME NEW w \in Image(pvBinds, v) PROVE w \in Image(pvBinds, u)
    <2>1. <<v, w>> \in pvBinds
      BY <1>1, <1>3, InImageRelated
    <2>2. <<u, w>> \in pvBinds
      BY <1>1, <2>1 DEF Transitive
    <2> QED
      BY <2>2, RelatedInImage
  <1> QED
    BY <1>2, <1>3 DEF MayBe

\* A function called through a pointer is one the builder has found.
LEMMA CalledKnown ==
  ASSUME IInv, Done, RunInv, M!AtCall, M!IsFun(M!Value(Called(M!Inst)))
  PROVE  /\ <<M!Current.fn, M!Inst>> \in Site
         /\ M!Callee \in Image(callGraph, <<M!Current.fn, M!Inst>>)
  <1> DEFINE s == <<M!Current.fn, M!Inst>>
             v == Called(M!Inst)
  <1>1. prog \in Program /\ Closed(pvVals, pvBinds, callGraph) /\ Relation(callGraph)
    BY DEF IInv, ClosedWhenDone, ControlOK
  <1>2. M!Executing /\ M!Inst.op = "call" /\ frames # <<>>
    BY DEF M!AtCall, M!Executing
  <1>3. M!Inst \in Code(M!Current.fn) /\ M!Current.fn \in Func
    BY <1>1, <1>2, ExecutingInst DEF Frames
  <1>4. s \in Site
    BY <1>2, <1>3 DEF Site, InstsOf, Func, Code
  <1>5. M!Callee = M!Value(v).at
    BY DEF M!Callee, Called, M!Called
  <1>6. CalledPair(s) = <<M!Current.fn, v>>
    BY DEF CalledPair, FVPair
  <1>7. CASE v \in Func /\ M!Value(v).at = v
    <2>1. <<s, v>> \in callGraph
      BY <1>1, <1>4, <1>7 DEF Closed, DirectCalls
    <2> QED
      BY <1>4, <1>5, <1>7, <2>1, RelatedInImage
  <1>8. CASE M!Value(v).at \in MayBe(<<M!Current.fn, v>>)
    <2>1. ClosedAt(s, pvVals, pvBinds, callGraph)
      BY <1>1, <1>4 DEF Closed
    <2> QED
      BY <1>4, <1>5, <1>6, <1>8, <2>1 DEF ClosedAt, MayBe
  <1> QED
    BY <1>1, <1>2, <1>7, <1>8, OperandValue
-----------------------------------------------------------------------------
\* A register that is given a value: the frame stays well formed, if the value is nothing
\* the builder does not know.
Receives(fr, v, x) == [fr EXCEPT !.env = M!Extend(@, v, x), !.pos = @ + 1]

LEMMA AssignOK ==
  ASSUME NEW m, NEW fr \in Frames(m), FrameOK(fr),
         NEW v \in prog.value, NEW x \in Values(m),
         M!IsFun(x) => v \in prog.pointer /\ x.at \in MayBe(<<fr.fn, v>>)
  PROVE  /\ Receives(fr, v, x) \in Frames(m) /\ FrameOK(Receives(fr, v, x))
         /\ Receives(fr, v, x).fn = fr.fn
  <1> DEFINE D == DOMAIN fr.env \cup {v}
             env == M!Extend(fr.env, v, x)
             g == Receives(fr, v, x)
  <1>1. fr.env \in Envs(m)
    BY DEF Frames
  <1>2. DOMAIN fr.env \subseteq prog.value /\ \A w \in DOMAIN fr.env : fr.env[w] \in Values(m)
    BY <1>1 DEF Envs
  <1>3. DOMAIN env = D /\ \A w \in D : env[w] = IF w = v THEN x ELSE fr.env[w]
    BY DEF M!Extend
  <1>4. env \in [D -> Values(m)]
    <2>1. env = [w \in D |-> env[w]]
      BY DEF M!Extend
    <2>2. \A w \in D : env[w] \in Values(m)
      BY <1>2, <1>3
    <2> HIDE DEF env
    <2> QED
      BY <2>1, <2>2
  <1>5. env \in Envs(m)
    <2>1. D \in SUBSET prog.value
      BY <1>2
    <2> HIDE DEF D, env
    <2> QED
      BY <1>4, <2>1 DEF Envs
  <1>6. /\ g.fn = fr.fn /\ g.block = fr.block /\ g.from = fr.from
        /\ g.pos = fr.pos + 1 /\ g.env = env
        /\ g = [fn |-> fr.fn, block |-> fr.block, from |-> fr.from, pos |-> fr.pos + 1, env |-> env]
    <2>1. fr = [fn |-> fr.fn, block |-> fr.block, from |-> fr.from, pos |-> fr.pos, env |-> fr.env]
      BY DEF Frames
    <2> DEFINE e == env
    <2>2. g = [fr EXCEPT !.env = e, !.pos = fr.pos + 1]
      BY <2>1 DEF Receives
    <2> HIDE DEF g, e
    <2>3. g = [fn |-> fr.fn, block |-> fr.block, from |-> fr.from, pos |-> fr.pos + 1, env |-> e]
      BY <2>1, <2>2
    <2> QED
      BY <2>3 DEF e
  <1>7. g \in Frames(m)
    <2>1. fr.fn \in Func /\ fr.block \in Blocks /\ fr.from \in Blocks \cup {""}
      BY DEF Frames
    <2> HIDE DEF g, env
    <2>2. g = [fn |-> fr.fn, block |-> fr.block, from |-> fr.from, pos |-> fr.pos + 1, env |-> env]
      BY <1>6
    <2>3. fr.pos + 1 \in Nat \ {0}
      <3>1. fr.pos \in Nat
        BY DEF Frames
      <3> QED
        BY <3>1
    <2> QED
      BY <1>5, <2>1, <2>2, <2>3 DEF Frames
  <1>8. EnvOK(g.fn, g.env)
    <2> HIDE DEF g, env
    <2> QED
      BY <1>2, <1>3, <1>6 DEF EnvOK, FrameOK
  <1>9. PlaceOK(g)
    <2> HIDE DEF g, env
    <2> QED
      BY <1>6 DEF PlaceOK, FrameOK
  <1> QED
    BY <1>6, <1>7, <1>8, <1>9 DEF FrameOK

\* A step of the frame that runs, which stays in its function.
LEMMA TopStep ==
  ASSUME RunInv, UNCHANGED vars, frames # <<>>,
         Len(memory) <= Len(memory'), memory' \in Seq([M!Fields -> Stored(Len(memory'))]),
         NEW g \in Frames(Len(memory')), FrameOK(g), g.fn = M!Current.fn,
         frames' = [frames EXCEPT ![Len(frames)] = g]
  PROVE  RunInv'
  <1> DEFINE m == Len(memory)
             n == Len(memory')
             F == Frames(n)
             L == Len(frames)
  <1>1. m \in Nat /\ n \in Nat /\ L \in Nat /\ frames \in Seq(Frames(m))
    BY DEF RunInv, Typed
  <1>2. frames \in Seq(F)
    <2>1. Frames(m) \subseteq F
      BY <1>1, MoreValues
    <2> QED
      BY <1>1, <2>1
  <1>3. L \in DOMAIN frames /\ DOMAIN frames = 1 .. L /\ M!Current = frames[L]
    BY <1>1 DEF M!Current
  <1>4. frames' \in Seq(F) /\ Len(frames') = L
    <2>1. g \in F
      OBVIOUS
    <2> HIDE DEF F
    <2> QED
      BY <1>1, <1>2, <1>3, <2>1
  <1>5. \A i \in 1 .. L : frames'[i] = IF i = L THEN g ELSE frames[i]
    BY <1>3
  <1>6. Typed'
    <2>1. /\ \A k : Frames(k)' = Frames(k) /\ Stored(k)' = Stored(k)
          /\ M!Fields' = M!Fields
      BY RunFrozen
    <2> QED
      BY <1>4, <2>1 DEF Typed
  <1>7. \A i \in 1 .. L : FrameOK(frames'[i])
    BY <1>3, <1>5 DEF RunInv, Linked
  <1>8. ASSUME NEW i \in 1 .. L - 1 PROVE CallOK(frames'[i], frames'[i + 1].fn)
    <2>1. i \in 1 .. L /\ i + 1 \in 1 .. L /\ i # L
      BY <1>1
    <2>2. frames'[i] = frames[i] /\ frames'[i + 1].fn = frames[i + 1].fn
      BY <1>3, <1>5, <2>1
    <2> QED
      BY <2>2 DEF RunInv, Linked
  <1>9. Linked'
    <2>1. \A fr : FrameOK(fr)' = FrameOK(fr)
      BY RunFrozen
    <2>2. \A fr, h : CallOK(fr, h)' = CallOK(fr, h)
      BY RunFrozen
    <2>3. DOMAIN frames' = 1 .. L /\ Len(frames') = L
      BY <1>4
    <2>4. \A i \in DOMAIN frames' : FrameOK(frames[i])'
      BY <1>7, <2>1, <2>3
    <2>5. \A i \in 1 .. Len(frames') - 1 : CallOK(frames[i], frames[i + 1].fn)'
      BY <1>8, <2>2, <2>3
    <2> QED
      BY <2>4, <2>5 DEF Linked
  <1> QED
    BY <1>6, <1>9 DEF RunInv
\* What an instruction writes is a value of the module.
LEMMA DstValue ==
  ASSUME prog \in Program, NEW f \in Func, NEW i \in Code(f), i.op # "ret"
  PROVE  i.dst \in prog.value
  <1>1. IsModule(prog)
    BY ProgramAssumption
  <1> QED
    BY <1>1 DEF IsModule, Func, Code

LEMMA AssignStep ==
  ASSUME prog \in Program, RunInv, UNCHANGED vars, M!Executing, M!Inst.op # "ret",
         Len(memory) <= Len(memory'), memory' \in Seq([M!Fields -> Stored(Len(memory'))]),
         NEW x \in Values(Len(memory')), M!Assign(M!Inst.dst, x),
         M!IsFun(x) => /\ M!Inst.dst \in prog.pointer
                       /\ x.at \in MayBe(<<M!Current.fn, M!Inst.dst>>)
  PROVE  RunInv'
  <1> DEFINE v == M!Inst.dst
             fr == M!Current
             g == Receives(fr, v, x)
  <1>1. /\ Len(frames) \in DOMAIN frames /\ fr \in Frames(Len(memory)) /\ FrameOK(fr)
        /\ fr.fn \in Func /\ M!Inst \in Code(fr.fn) /\ fr = frames[Len(frames)]
    BY ExecutingInst DEF Frames, M!Current
  <1>2. v \in prog.value
    BY <1>1, DstValue
  <1>3. fr \in Frames(Len(memory'))
    <2>1. Len(memory) \in Nat /\ Len(memory') \in Nat
      BY DEF RunInv, Typed
    <2> QED
      BY <1>1, <2>1, MoreValues
  <1>4. frames # <<>>
    BY DEF M!Executing
  <1>5. frames' = [frames EXCEPT ![Len(frames)] = g]
    BY <1>1 DEF M!Assign, Receives
  <1>6. g \in Frames(Len(memory')) /\ FrameOK(g) /\ g.fn = fr.fn
    <2> HIDE DEF fr, v, g
    <2> QED
      BY <1>1, <1>2, <1>3, AssignOK DEF g, fr, v
  <1> HIDE DEF g
  <1> QED
    BY <1>4, <1>5, <1>6, TopStep

LEMMA AllocateStep ==
  ASSUME prog \in Program, RunInv, UNCHANGED vars, M!Allocate
  PROVE  RunInv'
  <1> DEFINE m == Len(memory)
             new == [k \in M!Fields |-> M!Undefined]
             x == M!Address(m + 1, M!FirstField)
  <1>1. m \in Nat /\ memory \in Seq([M!Fields -> Stored(m)])
    BY DEF RunInv, Typed
  <1>2. memory' = Append(memory, new) /\ Len(memory') = m + 1
    BY <1>1 DEF M!Allocate
  <1>3. Stored(m) \subseteq Stored(m + 1)
    BY <1>1, MoreValues
  <1>4. new \in [M!Fields -> Stored(m + 1)]
    BY DEF Stored
  <1>5. memory' \in Seq([M!Fields -> Stored(m + 1)])
    <2> DEFINE S == [M!Fields -> Stored(m)]
               T == [M!Fields -> Stored(m + 1)]
    <2>1. S \subseteq T
      BY <1>3
    <2>2. new \in T /\ memory \in Seq(S)
      BY <1>1, <1>4
    <2> HIDE DEF S, T, new
    <2>3. memory \in Seq(T)
      BY <2>1, <2>2
    <2>4. memory' \in Seq(T)
      BY <1>2, <2>2, <2>3
    <2> QED
      BY <2>4 DEF T
  <1>6. x \in Values(m + 1) /\ ~M!IsFun(x)
    <2>1. M!FirstField \in M!Fields
      BY DEF M!Fields
    <2>2. x \in Stored(m + 1)
      <3>1. m + 1 \in 1 .. m + 1
        BY <1>1
      <3> QED
        BY <2>1, <3>1 DEF Stored
    <2>3. ~M!IsFun(x)
      BY <1>1, <2>2, StoredNoFun
    <2> QED
      BY <2>2, <2>3 DEF Values
  <1>7. M!Executing /\ M!Inst.op # "ret" /\ M!Assign(M!Inst.dst, x)
    BY DEF M!Allocate
  <1> HIDE DEF x, new
  <1> QED
    BY <1>1, <1>2, <1>5, <1>6, <1>7, AssignStep
LEMMA ComputeStep ==
  ASSUME IInv, Done, OnlyPasses(prog), RunInv, UNCHANGED vars, M!Compute
  PROVE  RunInv'
  <1> DEFINE m == Len(memory)
             fr == M!Current
             i == M!Inst
  <1>1. prog \in Program /\ Closed(pvVals, pvBinds, callGraph)
    BY DEF IInv, ClosedWhenDone, ControlOK
  <1>2. /\ M!Executing /\ frames # <<>> /\ i.op \in {"load", "cast", "gep", "phi"}
        /\ memory' = memory
    BY DEF M!Compute, M!Executing
  <1>3. /\ fr.fn \in Func /\ FrameOK(fr) /\ i \in Code(fr.fn)
        /\ fr.pos \in DOMAIN prog.code[fr.block] /\ i = prog.code[fr.block][fr.pos]
    BY <1>1, <1>2, ExecutingInst DEF Frames, M!Inst
  <1>4. m \in Nat /\ memory \in Seq([M!Fields -> Stored(m)])
    BY DEF RunInv, Typed
  <1>5. i.op # "ret" /\ m <= Len(memory') /\ memory' \in Seq([M!Fields -> Stored(Len(memory'))])
    BY <1>2, <1>4
  <1>6. ASSUME NEW x \in Values(m), M!Assign(i.dst, x), ~M!IsFun(x)
        PROVE  RunInv'
    BY <1>1, <1>2, <1>5, <1>6, AssignStep
  <1>7. CASE i.op = "load"
    <2> DEFINE a == M!Value(i.src[1])
               x == memory[a.object][a.at]
    <2>1. M!IsAddress(a) /\ M!Assign(i.dst, x)
      BY <1>7 DEF M!Compute
    <2>2. a.object \in 1 .. m /\ a.at \in M!Fields
      BY <1>1, <1>2, <1>4, <2>1, OperandValue, AddressStored
    <2>3. x \in Stored(m)
      BY <1>4, <2>2
    <2>4. x \in Values(m) /\ ~M!IsFun(x)
      BY <1>4, <2>3, StoredNoFun DEF Values
    <2> QED
      BY <2>1, <2>4, <1>6
  <1>8. CASE i.op = "cast"
    <2> DEFINE x == M!Value(i.src[1])
    <2>1. M!Assign(i.dst, x)
      BY <1>8 DEF M!Compute
    <2>2. i.src[1] \notin Func \cup prog.pointer
      BY <1>3, <1>8 DEF OnlyPasses, Func, Code
    <2>3. x \in Values(m) /\ ~M!IsFun(x)
      BY <1>1, <1>2, <2>2, OperandValue
    <2> QED
      BY <2>1, <2>3, <1>6
  <1>9. CASE i.op = "gep"
    <2> DEFINE a == M!Value(i.src[1])
               x == M!Address(a.object, i.at[1])
    <2>1. M!IsAddress(a) /\ M!Assign(i.dst, x)
      BY <1>9 DEF M!Compute
    <2>2. a.object \in 1 .. m
      BY <1>1, <1>2, <1>4, <2>1, OperandValue, AddressStored
    <2>3. i.at[1] \in M!Fields
      <3>1. prog.block[fr.fn] \subseteq DOMAIN prog.code /\ fr.block \in prog.block[fr.fn]
        BY <1>1, <1>3, RunnableAssumption DEF IsRunnable, Func, FrameOK, PlaceOK
      <3>2. i \in UNION {{prog.code[b][k] : k \in DOMAIN prog.code[b]} : b \in DOMAIN prog.code}
        BY <1>3, <3>1
      <3> QED
        BY <1>9, <3>2 DEF M!Fields
    <2>4. x \in Stored(m)
      BY <2>2, <2>3 DEF Stored
    <2>5. x \in Values(m) /\ ~M!IsFun(x)
      BY <1>4, <2>4, StoredNoFun DEF Values
    <2> QED
      BY <2>1, <2>5, <1>6
  <1>10. CASE i.op = "phi"
    <2>1. PICK j \in DOMAIN i.at : i.at[j] = fr.from /\ M!Assign(i.dst, M!Value(i.src[j]))
      BY <1>10 DEF M!Compute
    <2> DEFINE v == i.src[j]
               x == M!Value(v)
               s == <<fr.fn, i>>
    <2>2. /\ DOMAIN i.at = DOMAIN i.src
          /\ v \in Func \cup prog.pointer => i.dst \in prog.pointer
      <3>1. /\ DOMAIN i.at = DOMAIN i.src
            /\ \A k \in DOMAIN i.src :
                  i.src[k] \in FuncsOf(prog) \cup prog.pointer => i.dst \in prog.pointer
        BY <1>1, <1>3, <1>10, RunnableAssumption DEF IsRunnable, Func, Code
      <3> QED
        BY <2>1, <3>1 DEF Func
    <2>3. CanReach(i.at[j])
      <3>1. fr.block # prog.entry[fr.fn]
        BY <1>1, <1>3, <1>10, RunnableAssumption DEF IsRunnable, FrameOK, PlaceOK
      <3> QED
        BY <1>3, <2>1, <3>1 DEF FrameOK, PlaceOK
    <2>4. s \in Phis
      BY <1>3, <1>10 DEF Phis, InstsOf, Func, Code
    <2>5. v \in Incoming(s)
      BY <2>1, <2>2, <2>3 DEF Incoming
    <2>6. ResultPair(s) = <<fr.fn, i.dst>> /\ FVPair(s, v) = <<fr.fn, v>>
      BY DEF ResultPair, FVPair
    <2>7. x \in Values(m)
      BY <1>1, <1>2, OperandValue
    <2>8. CASE v \in Func /\ x.at = v
      <3>1. <<ResultPair(s), v>> \in pvVals
        BY <1>1, <2>4, <2>5, <2>8 DEF Closed, IntraPVVals
      <3>2. x.at \in MayBe(<<fr.fn, i.dst>>)
        BY <2>6, <2>8, <3>1, ValueKnown
      <3> QED
        BY <1>1, <1>2, <1>5, <2>1, <2>2, <2>7, <2>8, <3>2, AssignStep
    <2>9. CASE v \in prog.pointer /\ x.at \in MayBe(<<fr.fn, v>>)
      <3>1. <<ResultPair(s), FVPair(s, v)>> \in pvBinds
        BY <1>1, <2>4, <2>5, <2>9 DEF Closed, IntraPVBinds
      <3>2. x.at \in MayBe(<<fr.fn, i.dst>>)
        BY <2>6, <2>9, <3>1, CopyKnown
      <3> QED
        BY <1>1, <1>2, <1>5, <2>1, <2>2, <2>7, <2>9, <3>2, AssignStep
    <2>10. CASE ~M!IsFun(x)
      BY <1>6, <2>1, <2>7, <2>10
    <2> QED
      BY <1>1, <1>2, <2>8, <2>9, <2>10, OperandValue
  <1> QED
    BY <1>2, <1>7, <1>8, <1>9, <1>10

\* A value that is no function can be stored.
LEMMA NoFunStored ==
  ASSUME NEW m, NEW x \in Values(m), ~M!IsFun(x)
  PROVE  x \in Stored(m)
  <1>1. \A f : M!IsFun(M!Fun(f)) \/ M!Fun(f) = M!Undefined
    BY DEF M!IsFun, M!Fun, M!Undefined
  <1> QED
    BY <1>1 DEF Values, Stored

LEMMA WriteStep ==
  ASSUME IInv, OnlyPasses(prog), RunInv, UNCHANGED vars, M!Write
  PROVE  RunInv'
  <1> DEFINE m == Len(memory)
             fr == M!Current
             i == M!Inst
             g == [fr EXCEPT !.pos = @ + 1]
             S == [M!Fields -> Stored(m)]
             a == M!Value(i.dst)
             x == M!Value(i.src[1])
  <1>1. prog \in Program
    BY DEF IInv, ControlOK
  <1>2. M!Executing /\ frames # <<>> /\ i.op \in {"store", "memcpy"} /\ M!IsAddress(a)
    BY DEF M!Write, M!Executing
  <1>3. /\ Len(frames) \in DOMAIN frames /\ fr \in Frames(m) /\ FrameOK(fr)
        /\ fr.fn \in Func /\ i \in Code(fr.fn) /\ fr = frames[Len(frames)]
    BY <1>1, <1>2, ExecutingInst DEF Frames, M!Current
  <1>4. m \in Nat /\ memory \in Seq(S)
    BY DEF RunInv, Typed
  <1>5. a.object \in 1 .. m /\ a.at \in M!Fields /\ x \in Values(m)
    BY <1>1, <1>2, <1>4, OperandValue, AddressStored
  <1>6. memory' \in Seq(S) /\ Len(memory') = m
    <2>1. CASE i.op = "store" /\ memory' = [memory EXCEPT ![a.object][a.at] = x]
      <3>1. i.src[1] \notin Func \cup prog.pointer
        BY <1>3, <2>1 DEF OnlyPasses, Func, Code
      <3>2. ~M!IsFun(x)
        BY <1>1, <1>2, <3>1, OperandValue
      <3>3. x \in Stored(m)
        BY <1>5, <3>2, NoFunStored
      <3>4. memory[a.object] \in S
        BY <1>4, <1>5
      <3> DEFINE T == [memory[a.object] EXCEPT ![a.at] = x]
      <3>5. T \in S
        BY <3>3, <3>4
      <3>6. memory' = [memory EXCEPT ![a.object] = T]
        BY <2>1
      <3> HIDE DEF T, S
      <3> QED
        BY <1>4, <1>5, <3>5, <3>6
    <2>2. CASE /\ i.op = "memcpy" /\ M!IsAddress(x)
               /\ memory' = [memory EXCEPT ![a.object] = memory[x.object]]
      <3>1. x.object \in 1 .. m
        BY <1>4, <1>5, <2>2, AddressStored
      <3> HIDE DEF S
      <3>2. memory[x.object] \in S
        BY <1>4, <3>1
      <3> QED
        BY <1>4, <1>5, <2>2, <3>2
    <2> QED
      BY <2>1, <2>2 DEF M!Write
  <1>7. /\ g.fn = fr.fn /\ g.block = fr.block /\ g.from = fr.from /\ g.env = fr.env
        /\ g.pos = fr.pos + 1
        /\ g = [fn |-> fr.fn, block |-> fr.block, from |-> fr.from, pos |-> fr.pos + 1, env |-> fr.env]
    <2>1. fr = [fn |-> fr.fn, block |-> fr.block, from |-> fr.from, pos |-> fr.pos, env |-> fr.env]
      BY <1>3 DEF Frames
    <2> HIDE DEF fr
    <2> QED
      BY <2>1
  <1>8. g \in Frames(m)
    <2>1. fr.fn \in Func /\ fr.block \in Blocks /\ fr.from \in Blocks \cup {""} /\ fr.env \in Envs(m)
      BY <1>3 DEF Frames
    <2>2. fr.pos \in Nat
      BY <1>3 DEF Frames
    <2>3. fr.pos + 1 \in Nat \ {0}
      BY <2>2
    <2> HIDE DEF g
    <2> QED
      BY <1>7, <2>1, <2>3 DEF Frames
  <1>9. FrameOK(g)
    <2> HIDE DEF g
    <2> QED
      BY <1>3, <1>7 DEF FrameOK, PlaceOK
  <1>10. frames' = [frames EXCEPT ![Len(frames)] = g]
    BY <1>3 DEF M!Write
  <1>11. memory' \in Seq([M!Fields -> Stored(Len(memory'))]) /\ Len(memory) <= Len(memory')
    BY <1>4, <1>6
  <1> HIDE DEF g
  <1> QED
    BY <1>2, <1>6, <1>7, <1>8, <1>9, <1>10, <1>11, TopStep

\* A block left towards a successor is one that canReach lets through.
LEMMA LeftBlock ==
  ASSUME prog \in Program, OnlyPasses(prog), NEW f \in DOMAIN prog.entry,
         NEW b \in prog.block[f], NEW d \in prog.succ[b],
         \/ b = prog.entry[f]
         \/ \E c \in prog.block[f] : b \in M!Taken(c)
  PROVE  CanReach(b)
  <1>1. IsRunnable(prog)
    BY RunnableAssumption
  <1>2. f \in Func
    BY <1>1 DEF IsRunnable, Func
  <1> SUFFICES ASSUME NEW c \in Deciding(b) \cap DOMAIN prog.cond
               PROVE  LET cmp == prog.cond[c]
                      IN  /\ ~(AlwaysFalse(cmp) /\ b = cmp.then)
                          /\ ~(AlwaysTrue(cmp) /\ b = cmp.else)
    BY DEF CanReach
  <1>3. CASE Cardinality(prog.succ[b]) = 1
    <2>1. c \in Pred(b) /\ Pred(b) = {c}
      BY <1>3 DEF Deciding
    <2>2. PICK g \in Func : c \in prog.block[g] /\ b \in prog.succ[c]
      BY <2>1 DEF Pred
    <2>3. b # prog.entry[f]
      BY <1>1, <2>2 DEF IsRunnable, Func
    <2>4. PICK e \in prog.block[f] : b \in M!Taken(e)
      BY <2>3
    <2>5. b \in prog.succ[e]
      BY <1>1, <1>2, <2>4 DEF IsRunnable, Func, M!Taken
    <2>6. e = c
      BY <1>2, <2>1, <2>5 DEF Pred
    <2>7. prog.cond[c].then # prog.cond[c].else /\ prog.cond[c].l \in Int /\ prog.cond[c].r \in Int
      BY <1>1, <2>2 DEF IsRunnable, Func
    <2>8. b = IF prog.cond[c].l > prog.cond[c].r THEN prog.cond[c].then ELSE prog.cond[c].else
      BY <2>4, <2>6 DEF M!Taken
    <2> QED
      BY <2>7, <2>8 DEF AlwaysTrue, AlwaysFalse
  <1>4. CASE Cardinality(prog.succ[b]) # 1
    <2>1. c = b
      BY <1>4 DEF Deciding
    <2>2. b \notin prog.succ[b]
      BY <1>2, <2>1 DEF OnlyPasses, Func
    <2>3. prog.succ[b] = {prog.cond[b].then, prog.cond[b].else}
      BY <1>1, <1>2, <2>1 DEF IsRunnable, Func
    <2> QED
      BY <2>1, <2>2, <2>3
  <1> QED
    BY <1>3, <1>4

LEMMA BranchStep ==
  ASSUME IInv, OnlyPasses(prog), RunInv, UNCHANGED vars, M!Branch
  PROVE  RunInv'
  <1> DEFINE m == Len(memory)
             fr == M!Current
  <1>1. prog \in Program /\ IsRunnable(prog)
    BY RunnableAssumption DEF IInv, ControlOK
  <1>2. PICK b \in M!Taken(fr.block) :
           frames' = [frames EXCEPT ![Len(frames)] =
                         [@ EXCEPT !.from = fr.block, !.block = b, !.pos = 1]]
    BY DEF M!Branch
  <1> DEFINE g == [fr EXCEPT !.from = fr.block, !.block = b, !.pos = 1]
  <1>3. frames # <<>> /\ memory' = memory
    BY DEF M!Branch
  <1>4. m \in Nat /\ memory \in Seq([M!Fields -> Stored(m)])
    BY DEF RunInv, Typed
  <1>5. Len(frames) \in DOMAIN frames /\ fr = frames[Len(frames)] /\ fr \in Frames(m) /\ FrameOK(fr)
    BY <1>3 DEF RunInv, Typed, Linked, M!Current
  <1>6. /\ fr.fn \in Func /\ fr.fn \in DOMAIN prog.entry /\ fr.block \in prog.block[fr.fn]
        /\ fr.env \in Envs(m) /\ EnvOK(fr.fn, fr.env)
    BY <1>5 DEF Frames, FrameOK, PlaceOK
  <1>7. frames' = [frames EXCEPT ![Len(frames)] = g]
    BY <1>2, <1>5
  <1>8. g = [fn |-> fr.fn, block |-> b, from |-> fr.block, pos |-> 1, env |-> fr.env]
    <2>1. fr = [fn |-> fr.fn, block |-> fr.block, from |-> fr.from, pos |-> fr.pos, env |-> fr.env]
      BY <1>5 DEF Frames
    <2>2. g = [fr EXCEPT !.from = fr.block, !.block = b, !.pos = 1]
      OBVIOUS
    <2> HIDE DEF fr, g
    <2> QED
      BY <2>1, <2>2
  <1>9. b \in prog.succ[fr.block]
    BY <1>1, <1>2, <1>6 DEF IsRunnable, Func, M!Taken
  <1>10. b \in prog.block[fr.fn]
    BY <1>1, <1>6, <1>9 DEF IsRunnable, Func
  <1> HIDE DEF g, fr
  <1>11. g \in Frames(m) /\ g.fn = fr.fn
    <2>1. b \in Blocks /\ fr.block \in Blocks
      BY <1>6, <1>10 DEF Blocks
    <2>2. 1 \in Nat \ {0}
      OBVIOUS
    <2> QED
      BY <1>6, <1>8, <2>1, <2>2 DEF Frames
  <1>12. CanReach(fr.block)
    <2>1. \/ fr.block = prog.entry[fr.fn]
          \/ \E c \in prog.block[fr.fn] : fr.block \in M!Taken(c)
      BY <1>5 DEF FrameOK, PlaceOK
    <2> QED
      BY <1>1, <1>6, <1>9, <2>1, LeftBlock
  <1>13. PlaceOK(g)
    BY <1>2, <1>6, <1>8, <1>10, <1>12 DEF PlaceOK, fr
  <1>14. FrameOK(g)
    BY <1>6, <1>8, <1>13 DEF FrameOK
  <1>15. memory' \in Seq([M!Fields -> Stored(Len(memory'))]) /\ Len(memory) <= Len(memory')
    BY <1>3, <1>4
  <1> QED
    BY <1>3, <1>7, <1>11, <1>14, <1>15, TopStep DEF fr

-----------------------------------------------------------------------------
\* A function is entered with what it is passed.
LEMMA EnterOK ==
  ASSUME prog \in Program, NEW m, NEW f \in DOMAIN prog.entry,
         NEW args, DOMAIN args \subseteq DOMAIN prog.param[f],
         \A i \in DOMAIN args :
             /\ args[i] \in Values(m)
             /\ M!IsFun(args[i]) => /\ prog.param[f][i] \in prog.pointer
                                    /\ args[i].at \in MayBe(<<f, prog.param[f][i]>>)
  PROVE  M!Enter(f, args) \in Frames(m) /\ FrameOK(M!Enter(f, args)) /\ M!Enter(f, args).fn = f
  <1> DEFINE P == {prog.param[f][i] : i \in DOMAIN args}
             of(p) == CHOOSE i \in DOMAIN args : prog.param[f][i] = p
             env == [p \in P |-> args[of(p)]]
             g == M!Enter(f, args)
  <1>1. IsRunnable(prog)
    BY RunnableAssumption
  <1>2. f \in Func /\ prog.entry[f] \in prog.block[f]
    BY <1>1 DEF IsRunnable, Func
  <1>3. \A p \in P : of(p) \in DOMAIN args /\ prog.param[f][of(p)] = p
    OBVIOUS
  <1>4. P \subseteq prog.value
    BY <1>2, Operands
  <1>5. env \in [P -> Values(m)]
    BY <1>3
  <1>6. env \in Envs(m)
    <2> HIDE DEF P, env
    <2> QED
      BY <1>4, <1>5 DEF Envs
  <1>7. EnvOK(f, env)
    <2>1. \A p \in P : env[p] = args[of(p)]
      OBVIOUS
    <2>2. DOMAIN env = P
      OBVIOUS
    <2> HIDE DEF P, env, of
    <2> QED
      BY <1>3, <2>1, <2>2 DEF EnvOK
  <1>8. g = [fn |-> f, block |-> prog.entry[f], from |-> "", pos |-> 1, env |-> env]
    BY DEF M!Enter
  <1> HIDE DEF g, env
  <1>9. g \in Frames(m) /\ g.fn = f
    <2>1. prog.entry[f] \in Blocks /\ "" \in Blocks \cup {""} /\ 1 \in Nat \ {0}
      BY <1>2 DEF Blocks
    <2> QED
      BY <1>2, <1>6, <1>8, <2>1 DEF Frames
  <1>10. PlaceOK(g)
    BY <1>2, <1>8 DEF PlaceOK
  <1>11. FrameOK(g)
    BY <1>7, <1>8, <1>10 DEF FrameOK
  <1> QED
    BY <1>9, <1>11 DEF g

LEMMA StartStep ==
  ASSUME IInv, RunInv, UNCHANGED vars, M!Start
  PROVE  RunInv'
  <1>1. prog \in Program /\ frames = <<>> /\ memory = <<>> /\ memory' = <<>>
    BY DEF IInv, ControlOK, M!Start
  <1>2. PICK f \in DOMAIN prog.entry : frames' = <<M!Enter(f, <<>>)>>
    BY DEF M!Start
  <1> DEFINE g == M!Enter(f, <<>>)
  <1>3. g \in Frames(0) /\ FrameOK(g)
    <2> DEFINE args == <<>>
    <2>1. DOMAIN args = {}
      OBVIOUS
    <2> HIDE DEF args
    <2>2. M!Enter(f, args) \in Frames(0) /\ FrameOK(M!Enter(f, args))
      BY <1>1, <2>1, EnterOK
    <2> QED
      BY <2>2 DEF args
  <1> HIDE DEF g
  <1>4. frames' = <<g>>
    BY <1>2 DEF g
  <1>5. Len(memory') = 0 /\ Len(frames') = 1 /\ DOMAIN frames' = {1} /\ frames'[1] = g
    BY <1>1, <1>4
  <1>6. Typed'
    <2>1. \A k : Frames(k)' = Frames(k) /\ Stored(k)' = Stored(k)
      BY RunFrozen
    <2>2. frames' \in Seq(Frames(0))
      BY <1>3, <1>4
    <2>3. memory' \in Seq([M!Fields' -> Stored(0)])
      BY <1>1
    <2> QED
      BY <1>5, <2>1, <2>2, <2>3 DEF Typed
  <1>7. Linked'
    <2>1. \A fr : FrameOK(fr)' = FrameOK(fr)
      BY RunFrozen
    <2>2. \A i \in DOMAIN frames' : FrameOK(frames[i])'
      BY <1>3, <1>5, <2>1
    <2>3. 1 .. Len(frames') - 1 = {}
      BY <1>5
    <2> QED
      BY <2>2, <2>3 DEF Linked
  <1> QED
    BY <1>6, <1>7 DEF RunInv

\* What a call passes is bound to the parameters of every callee the call graph has.
LEMMA ArgumentKnown ==
  ASSUME IInv, Done, RunInv, M!Executing, M!Inst.op = "call",
         <<M!Current.fn, M!Inst>> \in Site,
         NEW f \in Image(callGraph, <<M!Current.fn, M!Inst>>),
         NEW j \in DOMAIN M!Inst.src, M!IsFun(M!Value(M!Inst.src[j]))
  PROVE  M!Value(M!Inst.src[j]).at \in MayBe(<<f, prog.param[f][j]>>)
  <1> DEFINE s == <<M!Current.fn, M!Inst>>
             v == M!Inst.src[j]
             x == M!Value(v)
             u == <<f, prog.param[f][j]>>
  <1>1. prog \in Program /\ ClosedAt(s, pvVals, pvBinds, callGraph) /\ frames # <<>>
    BY DEF IInv, ClosedWhenDone, ControlOK, Closed, M!Executing
  <1>2. /\ ParamVals(s, Image(callGraph, s)) \subseteq pvVals
        /\ ParamBinds(s, Image(callGraph, s)) \subseteq pvBinds
    BY <1>1 DEF ClosedAt
  <1>3. s[2] = M!Inst /\ j \in Args(s) /\ FVPair(s, v) = <<M!Current.fn, v>>
    BY DEF Args, FVPair
  <1>4. CASE v \in Func /\ x.at = v
    <2>1. <<u, v>> \in ParamVals(s, Image(callGraph, s))
      BY <1>3, <1>4 DEF ParamVals
    <2> QED
      BY <1>2, <1>4, <2>1, ValueKnown
  <1>5. CASE v \in prog.pointer /\ x.at \in MayBe(<<M!Current.fn, v>>)
    <2>1. <<u, FVPair(s, v)>> \in ParamBinds(s, Image(callGraph, s))
      BY <1>3, <1>5 DEF ParamBinds
    <2>2. <<u, <<M!Current.fn, v>>>> \in pvBinds
      BY <1>2, <1>3, <2>1
    <2> QED
      BY <1>5, <2>2, CopyKnown
  <1> QED
    BY <1>1, <1>4, <1>5, OperandValue

LEMMA InvokeStep ==
  ASSUME IInv, Done, OnlyPasses(prog), CallsMatch, RunInv, UNCHANGED vars, M!Invoke
  PROVE  RunInv'
  <1> DEFINE m == Len(memory)
             L == Len(frames)
             fr == M!Current
             i == M!Inst
             s == <<fr.fn, i>>
             args == [j \in DOMAIN i.src |-> M!Value(i.src[j])]
  <1>1. prog \in Program /\ IsRunnable(prog)
    BY RunnableAssumption DEF IInv, ControlOK
  <1>2. PICK f \in DOMAIN prog.entry :
           M!Value(Called(i)) = M!Fun(f) /\ frames' = Append(frames, M!Enter(f, args))
    BY DEF M!Invoke, Called, M!Called
  <1> DEFINE g == M!Enter(f, args)
  <1>3. M!Executing /\ i.op = "call" /\ M!AtCall /\ memory' = memory /\ frames # <<>>
    BY DEF M!Invoke, M!AtCall, M!Executing
  <1>4. /\ L \in DOMAIN frames /\ fr = frames[L] /\ fr.fn \in Func
        /\ fr.pos \in DOMAIN prog.code[fr.block] /\ i \in Code(fr.fn)
        /\ i = prog.code[fr.block][fr.pos]
    BY <1>1, <1>3, ExecutingInst DEF Frames, M!Current, M!Inst
  <1>5. M!IsFun(M!Value(Called(i))) /\ M!Callee = f
    <2>1. f # ""
      <3>1. DOMAIN prog.entry \subseteq FuncsOf(prog)
        BY <1>1 DEF IsRunnable
      <3> QED
        BY <1>1, <3>1, NamedAssumption
    <2>2. M!Callee = M!Value(Called(i)).at
      BY DEF M!Callee, Called, M!Called
    <2>3. M!Fun(f).object = 0 /\ M!Fun(f).at = f
      BY DEF M!Fun
    <2> HIDE DEF i
    <2> QED
      BY <1>2, <2>1, <2>2, <2>3 DEF M!IsFun
  <1>6. s \in Site /\ f \in Image(callGraph, s)
    BY <1>3, <1>5, CalledKnown
  <1>7. /\ DOMAIN i.src \subseteq DOMAIN prog.param[f]
        /\ \A j \in DOMAIN i.src :
              i.src[j] \in Func \cup prog.pointer => prog.param[f][j] \in prog.pointer
        /\ \A k \in Code(f) :
              k.op = "ret" /\ k.src # <<>> /\ k.src[1] \in prog.pointer => i.dst \in prog.pointer
    BY <1>2, <1>3, <1>5 DEF CallsMatch
  <1>8. DOMAIN args = DOMAIN i.src /\ \A j \in DOMAIN i.src : args[j] = M!Value(i.src[j])
    OBVIOUS
  <1>9. ASSUME NEW j \in DOMAIN args
        PROVE  /\ args[j] \in Values(m)
               /\ M!IsFun(args[j]) => /\ prog.param[f][j] \in prog.pointer
                                      /\ args[j].at \in MayBe(<<f, prog.param[f][j]>>)
    <2>1. args[j] \in Values(m)
      BY <1>1, <1>3, <1>8, OperandValue
    <2>2. ASSUME M!IsFun(args[j])
          PROVE  args[j].at \in MayBe(<<f, prog.param[f][j]>>) /\ prog.param[f][j] \in prog.pointer
      <3>1. args[j].at \in MayBe(<<f, prog.param[f][j]>>)
        BY <1>3, <1>6, <1>8, <2>2, ArgumentKnown
      <3>2. i.src[j] \in Func \cup prog.pointer
        BY <1>1, <1>3, <1>8, <2>2, OperandValue
      <3> QED
        BY <1>7, <1>8, <3>1, <3>2
    <2> QED
      BY <2>1, <2>2
  <1>10. g \in Frames(m) /\ FrameOK(g) /\ g.fn = f
    <2> HIDE DEF args
    <2> QED
      BY <1>1, <1>7, <1>8, <1>9, EnterOK
  <1>11. CallOK(fr, f)
    BY <1>3, <1>4, <1>6, <1>7 DEF CallOK
  <1> HIDE DEF g
  <1>12. m \in Nat /\ L \in Nat /\ frames \in Seq(Frames(m)) /\ DOMAIN frames = 1 .. L
    BY DEF RunInv, Typed
  <1>13. /\ frames' = Append(frames, g) /\ Len(frames') = L + 1 /\ DOMAIN frames' = 1 .. L + 1
         /\ frames'[L + 1] = g /\ \A k \in 1 .. L : frames'[k] = frames[k]
    BY <1>2, <1>12 DEF g
  <1>14. Typed'
    <2>1. \A k : Frames(k)' = Frames(k) /\ Stored(k)' = Stored(k)
      BY RunFrozen
    <2>2. M!Fields' = M!Fields
      BY RunFrozen
    <2>3. frames' \in Seq(Frames(m))
      BY <1>10, <1>12, <1>13
    <2> QED
      BY <1>3, <2>1, <2>2, <2>3 DEF Typed, RunInv
  <1>15. \A k \in 1 .. L + 1 : FrameOK(frames'[k])
    BY <1>10, <1>12, <1>13 DEF RunInv, Linked
  <1>16. ASSUME NEW k \in 1 .. L PROVE CallOK(frames'[k], frames'[k + 1].fn)
    <2>1. CASE k = L
      BY <1>4, <1>10, <1>11, <1>13, <2>1
    <2>2. CASE k # L
      <3>1. k \in 1 .. L - 1 /\ k + 1 \in 1 .. L
        <4>1. L \in Nat
          BY <1>12
        <4> HIDE DEF L
        <4> QED
          BY <2>2, <4>1
      <3>2. frames'[k] = frames[k] /\ frames'[k + 1] = frames[k + 1]
        BY <1>13, <3>1
      <3> QED
        BY <3>1, <3>2 DEF RunInv, Linked
    <2> QED
      BY <2>1, <2>2
  <1>17. Linked'
    <2>1. \A h : FrameOK(h)' = FrameOK(h)
      BY RunFrozen
    <2>2. \A h, k : CallOK(h, k)' = CallOK(h, k)
      BY RunFrozen
    <2>3. \A k \in DOMAIN frames' : FrameOK(frames[k])'
      BY <1>13, <1>15, <2>1
    <2>4. \A k \in 1 .. Len(frames') - 1 : CallOK(frames[k], frames[k + 1].fn)'
      BY <1>12, <1>13, <1>16, <2>2
    <2> QED
      BY <2>3, <2>4 DEF Linked
  <1> QED
    BY <1>14, <1>17 DEF RunInv

\* What a function returns is bound to the result of every call of it.
LEMMA ResultKnown ==
  ASSUME IInv, Done, NEW s \in Site, NEW f \in Func, f \in Image(callGraph, s),
         NEW i \in Code(f), i.op = "ret", i.src # <<>>,
         i.src[1] \in prog.pointer, s[2].dst \in prog.pointer
  PROVE  MayBe(<<f, i.src[1]>>) \subseteq MayBe(ResultPair(s))
  <1>1. /\ prog \in Program /\ IsRunnable(prog) /\ IsModule(prog)
        /\ ClosedAt(s, pvVals, pvBinds, callGraph)
    BY RunnableAssumption, ProgramAssumption DEF IInv, ClosedWhenDone, ControlOK, Closed
  <1>2. s[1] \in Func /\ s[2] \in Code(s[1]) /\ s[2].op = "call"
    BY DEF Site, InstsOf, Func, Code
  <1>3. s[2].dst \in prog.scalar
    BY <1>1, <1>2 DEF IsRunnable, Func, Code
  <1>4. f \in prog.scalar
    BY <1>1 DEF IsRunnable, Func, Code
  <1>5. 1 \in DOMAIN i.src
    <2>1. i.src \in Seq(prog.value)
      BY <1>1 DEF IsModule, Func, Code
    <2> QED
      BY <2>1
  <1>6. i.src[1] \in RetVals(f)
    BY <1>4, <1>5 DEF RetVals
  <1>7. <<ResultPair(s), <<f, i.src[1]>>>> \in RetBinds(s, Image(callGraph, s))
    BY <1>3, <1>6 DEF RetBinds
  <1>8. <<ResultPair(s), <<f, i.src[1]>>>> \in pvBinds
    BY <1>1, <1>7 DEF ClosedAt
  <1> QED
    BY <1>8, CopyKnown

LEMMA ReturnStep ==
  ASSUME IInv, Done, OnlyPasses(prog), RunInv, UNCHANGED vars, M!Return
  PROVE  RunInv'
  <1> DEFINE m == Len(memory)
             n == Len(frames) - 1
             fr == M!Current
             i == M!Inst
             below == frames[n]
             c == prog.code[below.block][below.pos]
             x == IF i.src = <<>> THEN M!Undefined ELSE M!Value(i.src[1])
             g == Receives(below, c.dst, x)
             s == <<below.fn, c>>
  <1>1. prog \in Program
    BY DEF IInv, ControlOK
  <1>2. M!Executing /\ i.op = "ret" /\ Len(frames) > 1 /\ memory' = memory /\ frames # <<>>
    BY DEF M!Return, M!Executing
  <1>3. m \in Nat /\ frames \in Seq(Frames(m)) /\ Len(frames) \in Nat /\ DOMAIN frames = 1 .. n + 1
    BY DEF RunInv, Typed
  <1>4. n \in Nat \ {0} /\ n \in 1 .. n /\ n \in DOMAIN frames /\ n + 1 = Len(frames)
    <2>1. n \in Nat \ {0} /\ n + 1 = Len(frames)
      BY <1>2, <1>3
    <2>2. n \in 1 .. n /\ n \in 1 .. n + 1
      <3> HIDE DEF n
      <3> QED
        BY <2>1
    <2> QED
      BY <1>3, <2>1, <2>2
  <1>5. fr = frames[n + 1] /\ fr.fn \in Func /\ i \in Code(fr.fn)
    BY <1>1, <1>2, <1>4, ExecutingInst DEF Frames, M!Current
  <1>6. below \in Frames(m) /\ FrameOK(below) /\ CallOK(below, fr.fn)
    BY <1>3, <1>4, <1>5 DEF RunInv, Linked
  <1>7. below.fn \in Func /\ below.block \in prog.block[below.fn]
    BY <1>6 DEF Frames, FrameOK, PlaceOK
  <1>8. c.op = "call" /\ c \in Code(below.fn) /\ s \in Site /\ fr.fn \in Image(callGraph, s)
    <2>1. below.pos \in DOMAIN prog.code[below.block] /\ c.op = "call"
          /\ fr.fn \in Image(callGraph, s)
      BY <1>6 DEF CallOK
    <2>2. c \in Code(below.fn)
      BY <1>1, <1>7, <2>1, InstInCode
    <2> HIDE DEF c
    <2> QED
      BY <1>7, <2>1, <2>2 DEF Site, InstsOf, Func, Code
  <1>9. x \in Values(m)
    <2>1. M!Undefined \in Values(m)
      BY DEF Values, Stored
    <2> QED
      BY <1>1, <1>2, <2>1, OperandValue
  <1>10. ASSUME M!IsFun(x)
         PROVE  c.dst \in prog.pointer /\ x.at \in MayBe(<<below.fn, c.dst>>)
    <2>1. i.src # <<>> /\ x = M!Value(i.src[1])
      <3>1. ~M!IsFun(M!Undefined)
        BY DEF M!IsFun, M!Undefined
      <3> QED
        BY <1>10, <3>1
    <2>2. i.src[1] \notin Func
      BY <1>2, <1>5, <2>1 DEF OnlyPasses, Func, Code
    <2>3. i.src[1] \in prog.pointer /\ x.at \in MayBe(<<fr.fn, i.src[1]>>)
      BY <1>1, <1>2, <1>10, <2>1, <2>2, OperandValue
    <2>4. c.dst \in prog.pointer
      BY <1>2, <1>5, <1>6, <2>1, <2>3 DEF CallOK
    <2>5. s[2] = c /\ ResultPair(s) = <<below.fn, c.dst>>
      BY DEF ResultPair, FVPair
    <2> HIDE DEF s, c, x, below, fr, i
    <2>6. MayBe(<<fr.fn, i.src[1]>>) \subseteq MayBe(ResultPair(s))
      BY <1>2, <1>5, <1>8, <2>1, <2>3, <2>4, <2>5, ResultKnown
    <2> QED
      BY <2>3, <2>4, <2>5, <2>6
  <1>11. c.dst \in prog.value
    BY <1>1, <1>7, <1>8, DstValue
  <1>12. g \in Frames(m) /\ FrameOK(g) /\ g.fn = below.fn
    <2> HIDE DEF x, c, below
    <2> QED
      BY <1>6, <1>9, <1>10, <1>11, AssignOK
  <1>13. frames' = [SubSeq(frames, 1, n) EXCEPT ![n] = g]
    <2>1. SubSeq(frames, 1, n)[n] = below /\ n \in DOMAIN SubSeq(frames, 1, n)
      BY <1>3, <1>4
    <2>2. frames' = [SubSeq(frames, 1, n) EXCEPT ![n].env = M!Extend(@, c.dst, x),
                                                 ![n].pos = @ + 1]
      BY DEF M!Return
    <2> QED
      BY <2>1, <2>2 DEF Receives
  <1> HIDE DEF g, n
  <1>14. /\ frames' \in Seq(Frames(m)) /\ Len(frames') = n /\ DOMAIN frames' = 1 .. n
         /\ \A k \in 1 .. n : frames'[k] = IF k = n THEN g ELSE frames[k]
    <2> DEFINE T == SubSeq(frames, 1, n)
    <2>1. T \in Seq(Frames(m)) /\ Len(T) = n /\ DOMAIN T = 1 .. n /\ \A k \in 1 .. n : T[k] = frames[k]
      BY <1>3, <1>4
    <2>2. frames' = [T EXCEPT ![n] = g]
      BY <1>13
    <2> HIDE DEF T
    <2> QED
      BY <1>4, <1>12, <2>1, <2>2
  <1>15. Typed'
    <2>1. \A k : Frames(k)' = Frames(k) /\ Stored(k)' = Stored(k)
      BY RunFrozen
    <2>2. M!Fields' = M!Fields
      BY RunFrozen
    <2> QED
      BY <1>2, <1>14, <2>1, <2>2 DEF Typed, RunInv
  <1>16. \A k \in 1 .. n : FrameOK(frames'[k])
    BY <1>3, <1>4, <1>12, <1>14 DEF RunInv, Linked
  <1>17. ASSUME NEW k \in 1 .. n - 1 PROVE CallOK(frames'[k], frames'[k + 1].fn)
    <2>1. k \in 1 .. n /\ k + 1 \in 1 .. n /\ k # n /\ k \in 1 .. Len(frames) - 1
      BY <1>4
    <2>2. frames'[k] = frames[k] /\ frames'[k + 1].fn = frames[k + 1].fn
      BY <1>12, <1>14, <2>1
    <2> QED
      BY <2>1, <2>2 DEF RunInv, Linked
  <1>18. Linked'
    <2>1. \A h : FrameOK(h)' = FrameOK(h)
      BY RunFrozen
    <2>2. \A h, k : CallOK(h, k)' = CallOK(h, k)
      BY RunFrozen
    <2>3. \A k \in DOMAIN frames' : FrameOK(frames[k])'
      BY <1>14, <1>16, <2>1
    <2>4. \A k \in 1 .. Len(frames') - 1 : CallOK(frames[k], frames[k + 1].fn)'
      BY <1>14, <1>17, <2>2
    <2> QED
      BY <2>3, <2>4 DEF Linked
  <1> QED
    BY <1>15, <1>18 DEF RunInv

-----------------------------------------------------------------------------
LEMMA ExecuteStep ==
  ASSUME IInv, OnlyPasses(prog), CallsMatch, RunInv, Execute
  PROVE  RunInv'
  <1>1. Done /\ UNCHANGED vars
    BY DEF Execute
  <1> QED
    BY <1>1, StartStep, AllocateStep, ComputeStep, WriteStep, InvokeStep, ReturnStep, BranchStep
       DEF Execute, M!Run, IInv, ControlOK

LEMMA SoundInvStep ==
  ASSUME SInv, OnlyPasses(prog), CallsMatch, [SoundNext]_SoundVars
  PROVE  SInv'
  <1>1. IInv'
    <2>1. [Next]_vars
      BY DEF SoundNext, SoundVars, Analyse, Execute
    <2> QED
      BY <2>1, StepControl, StepBase, StepQuiet, StepClosed DEF SInv, IInv
  <1>2. CASE Analyse
    <2>1. frames' = frames /\ memory' = memory
      BY <1>2 DEF Analyse
    <2>2. CASE Done
      <3>1. UNCHANGED vars
        BY <1>2, <2>2 DEF Analyse, Next, Done, TakeKey, MergeBinds, StartBuild, VisitCall,
                          EndRound, Finished
      <3>2. RunInv'
        BY <2>1, <3>1, RunFrozen DEF SInv, RunInv, Typed, Linked
      <3>3. Done'
        BY <2>2, <3>1 DEF Done, vars
      <3> QED
        BY <1>1, <3>2, <3>3 DEF SInv
    <2>3. CASE ~Done
      <3>1. frames' = <<>> /\ memory' = <<>>
        BY <2>1, <2>3 DEF SInv
      <3>2. RunInv'
        BY <3>1 DEF RunInv, Typed, Linked
      <3> QED
        BY <1>1, <3>1, <3>2 DEF SInv
    <2> QED
      BY <2>2, <2>3
  <1>3. CASE Execute
    <2>1. RunInv'
      BY <1>3, ExecuteStep DEF SInv
    <2>2. Done'
      BY <1>3 DEF Execute, Done, vars
    <2> QED
      BY <1>1, <2>1, <2>2 DEF SInv
  <1>4. CASE UNCHANGED SoundVars
    <2>1. UNCHANGED vars /\ frames' = frames /\ memory' = memory
      BY <1>4 DEF SoundVars
    <2>2. RunInv'
      BY <2>1, RunFrozen DEF SInv, RunInv, Typed, Linked
    <2>3. Done' = Done
      BY <2>1 DEF Done, vars
    <2> QED
      BY <1>1, <2>1, <2>2, <2>3 DEF SInv
  <1> QED
    BY <1>2, <1>3, <1>4 DEF SoundNext

\* The call graph has every call a run makes, if the module passes functions the way the
\* builder looks at (LLVMAssignment.cpp:283-373) and calls them by their own type. The run
\* "returns_literal" shows that a function returned by its name is missed.
THEOREM SoundCallGraph ==
    SoundSpec => ([](OnlyPasses(prog) /\ CallsMatch) => []CalleesComplete)
  <1>1. SoundInit => SInv
    <2> SUFFICES ASSUME SoundInit PROVE SInv
      OBVIOUS
    <2>1. IInv /\ frames = <<>> /\ memory = <<>>
      BY InitInv DEF SoundInit, M!Init
    <2>2. RunInv
      BY <2>1 DEF RunInv, Typed, Linked
    <2> QED
      BY <2>1, <2>2 DEF SInv
  <1>2. SInv /\ (OnlyPasses(prog) /\ CallsMatch) /\ [SoundNext]_SoundVars => SInv'
    BY SoundInvStep
  <1>3. SInv => CalleesComplete
    <2> SUFFICES ASSUME SInv, M!AtCall, M!IsFun(M!Value(Called(M!Inst)))
                 PROVE  <<<<M!Current.fn, M!Inst>>, M!Callee>> \in callGraph
      BY DEF CalleesComplete
    <2>1. Done
      BY DEF SInv, M!AtCall, M!Executing
    <2>2. M!Callee \in Image(callGraph, <<M!Current.fn, M!Inst>>)
      BY <2>1, CalledKnown DEF SInv
    <2> QED
      BY <2>2, InImageRelated DEF SInv, IInv, ControlOK
  <1> QED
    BY <1>1, <1>2, <1>3, PTL DEF SoundSpec
=============================================================================
