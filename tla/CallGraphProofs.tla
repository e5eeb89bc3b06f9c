-------------------------- MODULE CallGraphProofs --------------------------
(***************************************************************************)
(* When the builder of CallGraph.tla stops, its maps are the least ones    *)
(* closed under its rules, for every module and every order of the maps.   *)
(*                                                                         *)
(* Closed: a round that adds nothing has looked at every pair of bindings  *)
(* and at every call while pvVals and pvBinds stood still. The invariant   *)
(* says, at each moment of such a round, what has been looked at so far.   *)
(* Least: every step only adds what any closed maps have too.              *)
(***************************************************************************)
EXTENDS CallGraph, Iteration, TLAPS

\* A relation is a set of pairs.
Relation(R) == \A e \in R : e = <<e[1], e[2]>>

ControlOK ==
    /\ prog \in Program
    /\ phase \in {"merge", "build", "done"}
    /\ at \in Nat \ {0}
    /\ changed \in BOOLEAN
    /\ Relation(pvBinds) /\ Relation(pvVals) /\ Relation(callGraph)

\* What the builder started from stays.
Base ==
    /\ IntraPVVals \subseteq pvVals
    /\ IntraPVBinds \subseteq pvBinds
    /\ DirectCalls \subseteq callGraph

\* The bindings of the keys visited have been merged, those of the key in hand
\* except through the bindings left.
MergedSoFar ==
    \A e, d \in pvBinds :
        e[2] = d[1] /\ e[1] \notin todo /\ ~(e[1] = key /\ e[2] \in left)
            => <<e[1], d[2]>> \in pvBinds

\* The calls visited satisfy their rules.
VisitedSoFar ==
    \A i \in DOMAIN prog.call :
        i < at => ClosedAt(prog.call[i], pvVals, pvBinds, callGraph)

QuietRound ==
    /\ phase = "merge" /\ ~changed => MergedSoFar
    /\ phase = "build" /\ ~changed => Transitive(pvBinds) /\ VisitedSoFar

IInv == ControlOK /\ Base /\ QuietRound /\ ClosedWhenDone

-----------------------------------------------------------------------------
LEMMA InitControl == Init => ControlOK
  <1> SUFFICES ASSUME Init PROVE ControlOK
    OBVIOUS
  <1>1. Relation(IntraPVBinds)
    BY DEF Relation, IntraPVBinds
  <1>2. Relation(IntraPVVals)
    BY DEF Relation, IntraPVVals
  <1>3. Relation(DirectCalls)
    BY DEF Relation, DirectCalls
  <1>4. Relation(pvBinds) /\ Relation(pvVals) /\ Relation(callGraph)
    BY <1>1, <1>2, <1>3 DEF Init
  <1>5. at \in Nat \ {0}
    <2>1. at = 1
      BY DEF Init
    <2> QED
      BY <2>1
  <1> QED
    BY <1>4, <1>5 DEF Init, ControlOK

LEMMA InitInv == Init => IInv
  <1> SUFFICES ASSUME Init PROVE IInv
    OBVIOUS
  <1>1. ControlOK
    BY InitControl
  <1>2. Base
    BY DEF Init, Base
  <1>3. QuietRound
    BY DEF Init, QuietRound, MergedSoFar
  <1>4. ClosedWhenDone
    BY DEF Init, ClosedWhenDone, Done
  <1> QED
    BY <1>1, <1>2, <1>3, <1>4 DEF IInv

-----------------------------------------------------------------------------
\* What depends on the module alone is the same after a step.
LEMMA Frozen ==
  ASSUME [Next]_vars
  PROVE  prog' = prog
  BY DEF Next, vars, TakeKey, MergeBinds, StartBuild, VisitCall, EndRound, Finished

LEMMA FrozenRules ==
  ASSUME prog' = prog
  PROVE  /\ IntraPVVals' = IntraPVVals /\ IntraPVBinds' = IntraPVBinds
         /\ DirectCalls' = DirectCalls /\ Site' = Site
  BY DEF IntraPVVals, IntraPVBinds, DirectCalls, Site, Phis, Func, ResultPair, FVPair,
         Incoming, CanReach, Deciding, Pred

\* The new pairs of each action are pairs.
LEMMA StepControl ==
  ASSUME ControlOK, [Next]_vars
  PROVE  ControlOK'
  <1>1. prog' = prog
    BY Frozen
  <1>2. ASSUME NEW u \in todo, TakeKey(u) PROVE ControlOK'
    BY <1>2 DEF TakeKey, ControlOK
  <1>3. ASSUME NEW v \in left, MergeBinds(v) PROVE ControlOK'
    <2>1. Relation(pvBinds')
      BY <1>3 DEF MergeBinds, ControlOK, Relation
    <2> QED
      BY <1>3, <2>1 DEF MergeBinds, ControlOK
  <1>4. CASE StartBuild
    BY <1>4 DEF StartBuild, ControlOK
  <1>5. CASE VisitCall
    <2> DEFINE s == prog.call[at]
    <2> DEFINE F == Image(callGraph', s)
    <2>1. Relation(ParamVals(s, F)) /\ Relation(ParamBinds(s, F)) /\ Relation(RetBinds(s, F))
      BY DEF Relation, ParamVals, ParamBinds, RetBinds
    <2>2. Relation(callGraph')
      BY <1>5 DEF VisitCall, ControlOK, Relation
    <2>3. pvVals' = pvVals \cup ParamVals(s, F)
      BY <1>5 DEF VisitCall
    <2>4. pvBinds' = pvBinds \cup ParamBinds(s, F) \cup RetBinds(s, F)
      BY <1>5 DEF VisitCall
    <2>5. Relation(pvVals') /\ Relation(pvBinds')
      BY <2>1, <2>3, <2>4 DEF ControlOK, Relation
    <2>6. changed' \in BOOLEAN /\ at' \in Nat \ {0} /\ phase' = phase
      BY <1>5 DEF VisitCall, ControlOK
    <2> QED
      BY <1>1, <2>2, <2>5, <2>6 DEF ControlOK
  <1>6. CASE EndRound
    BY <1>6 DEF EndRound, ControlOK
  <1>7. CASE UNCHANGED vars
    BY <1>7 DEF vars, ControlOK
  <1> QED
    BY <1>2, <1>3, <1>4, <1>5, <1>6, <1>7 DEF Next, Finished

LEMMA StepBase ==
  ASSUME Base, [Next]_vars
  PROVE  Base'
  <1>1. pvVals \subseteq pvVals' /\ pvBinds \subseteq pvBinds' /\ callGraph \subseteq callGraph'
    BY DEF Next, vars, TakeKey, MergeBinds, StartBuild, VisitCall, EndRound, Finished
  <1>2. prog' = prog
    BY Frozen
  <1> QED
    BY <1>1, <1>2, FrozenRules DEF Base

-----------------------------------------------------------------------------
\* What a relation gives for x is what it pairs with x.
LEMMA RelatedInImage ==
  ASSUME NEW R, NEW x, NEW y, <<x, y>> \in R
  PROVE  y \in Image(R, x)
  <1>1. <<x, y>> \in {d \in R : d[1] = x}
    OBVIOUS
  <1> QED
    BY <1>1 DEF Image

\* The calls of a module are those its list holds.
LEMMA CallsInOrder ==
  ASSUME ControlOK
  PROVE  /\ Len(prog.call) \in Nat
         /\ DOMAIN prog.call = 1 .. Len(prog.call)
         /\ Site = {prog.call[i] : i \in DOMAIN prog.call}
  <1>1. /\ {prog.call[i] : i \in DOMAIN prog.call} = InstsOf(prog, "call")
        /\ prog.call \in Seq(InstsOf(prog, "call"))
    BY ProgramAssumption DEF ControlOK, IsModule
  <1> QED
    BY <1>1 DEF Site

\* The rules of a call are the same after a step.
LEMMA SameRules ==
  ASSUME NEW s, prog' = prog,
         ClosedAt(s, pvVals', pvBinds', callGraph')
  PROVE  ClosedAt(s, pvVals, pvBinds, callGraph)'
  <1>1. \A F : /\ ParamVals(s, F)' = ParamVals(s, F)
               /\ ParamBinds(s, F)' = ParamBinds(s, F)
               /\ RetBinds(s, F)' = RetBinds(s, F)
    BY DEF ParamVals, ParamBinds, RetBinds, RetVals, Code, Func, Args, FVPair, ResultPair
  <1> QED
    BY <1>1 DEF ClosedAt, CalledPair, FVPair, Image

LEMMA QuietTakeKey ==
  ASSUME QuietRound, NEW u \in todo, TakeKey(u)
  PROVE  QuietRound'
  <1> SUFFICES ASSUME ~changed' PROVE MergedSoFar'
    BY DEF QuietRound, TakeKey
  <1>1. MergedSoFar
    BY DEF QuietRound, TakeKey
  <1> SUFFICES ASSUME NEW e \in pvBinds, NEW d \in pvBinds, e[2] = d[1],
                      e[1] \notin todo', ~(e[1] = key' /\ e[2] \in left')
               PROVE  <<e[1], d[2]>> \in pvBinds
    BY DEF MergedSoFar, TakeKey
  <1>2. e[1] # u
    BY DEF TakeKey, Image
  <1> QED
    BY <1>1, <1>2 DEF MergedSoFar, TakeKey

\* A merge that adds nothing shows that its binding needs nothing.
LEMMA QuietMerge ==
  ASSUME ControlOK, QuietRound, NEW v \in left, MergeBinds(v)
  PROVE  QuietRound'
  <1> SUFFICES ASSUME ~changed' PROVE MergedSoFar'
    BY DEF QuietRound, MergeBinds
  <1>1. ~changed /\ Image(pvBinds, v) \subseteq Image(pvBinds, key)
    BY DEF MergeBinds, ControlOK
  <1>2. pvBinds' = pvBinds /\ left' = left \ {v}
    BY <1>1 DEF MergeBinds
  <1>3. MergedSoFar
    BY <1>1 DEF QuietRound, MergeBinds
  <1> SUFFICES ASSUME NEW e \in pvBinds, NEW d \in pvBinds, e[2] = d[1],
                      e[1] \notin todo, ~(e[1] = key /\ e[2] \in left \ {v})
               PROVE  <<e[1], d[2]>> \in pvBinds
    BY <1>2 DEF MergedSoFar, MergeBinds
  <1>4. CASE e[1] = key /\ e[2] = v
    <2>1. d[2] \in Image(pvBinds, key)
      BY <1>1, <1>4 DEF Image
    <2> QED
      BY <2>1, <1>4 DEF Image, ControlOK, Relation
  <1>5. CASE ~(e[1] = key /\ e[2] = v)
    BY <1>3, <1>5 DEF MergedSoFar
  <1> QED
    BY <1>4, <1>5

\* A visit that adds nothing shows that its call satisfies its rules.
LEMMA QuietVisit ==
  ASSUME ControlOK, QuietRound, VisitCall
  PROVE  QuietRound'
  <1> SUFFICES ASSUME ~changed' PROVE Transitive(pvBinds)' /\ VisitedSoFar'
    BY DEF QuietRound, VisitCall
  <1> DEFINE s == prog.call[at]
             F == Image(callGraph', s)
             vals == ParamVals(s, F)
             binds == ParamBinds(s, F) \cup RetBinds(s, F)
  <1>1. ~changed /\ vals \subseteq pvVals /\ binds \subseteq pvBinds
    BY DEF VisitCall, ControlOK, Adds
  <1>2. pvVals' = pvVals /\ pvBinds' = pvBinds /\ prog' = prog /\ at' = at + 1
    BY <1>1 DEF VisitCall
  <1>3. Transitive(pvBinds) /\ VisitedSoFar
    BY <1>1 DEF QuietRound, VisitCall
  <1>4. Transitive(pvBinds)'
    BY <1>2, <1>3 DEF Transitive
  <1>5. Found(s) \subseteq F
    <2>1. \A f \in Found(s) : <<s, f>> \in callGraph'
      BY DEF VisitCall
    <2> QED
      BY <2>1, RelatedInImage
  <1>6. ClosedAt(s, pvVals, pvBinds, callGraph')
    BY <1>1, <1>5 DEF ClosedAt, Found
  <1>7. ASSUME NEW i \in DOMAIN prog.call, i < at + 1
        PROVE  ClosedAt(prog.call[i], pvVals, pvBinds, callGraph)'
    <2> DEFINE t == prog.call[i]
    <2>1. CASE t = s
      BY <1>2, <1>6, <2>1, SameRules
    <2>2. CASE t # s
      <3>1. Image(callGraph', t) = Image(callGraph, t)
        BY <2>2 DEF VisitCall, Image
      <3>2. ClosedAt(t, pvVals, pvBinds, callGraph)
        BY <1>3, <1>7, <2>2, CallsInOrder DEF VisitedSoFar, ControlOK
      <3>3. ClosedAt(t, pvVals', pvBinds', callGraph')
        BY <1>2, <3>1, <3>2 DEF ClosedAt
      <3> QED
        BY <1>2, <3>3, SameRules
    <2> QED
      BY <2>1, <2>2
  <1> QED
    BY <1>2, <1>4, <1>7 DEF VisitedSoFar

LEMMA StepQuiet ==
  ASSUME ControlOK, QuietRound, [Next]_vars
  PROVE  QuietRound'
  <1>1. ASSUME NEW u \in todo, TakeKey(u) PROVE QuietRound'
    BY <1>1, QuietTakeKey
  <1>2. ASSUME NEW v \in left, MergeBinds(v) PROVE QuietRound'
    BY <1>2, QuietMerge
  <1>3. CASE StartBuild
    <2> SUFFICES ASSUME ~changed PROVE Transitive(pvBinds)' /\ VisitedSoFar'
      BY <1>3 DEF QuietRound, StartBuild
    <2>1. MergedSoFar
      BY <1>3 DEF QuietRound, StartBuild
    <2>2. Transitive(pvBinds)'
      BY <1>3, <2>1 DEF StartBuild, MergedSoFar, Transitive
    <2>3. VisitedSoFar'
      BY <1>3, CallsInOrder DEF StartBuild, VisitedSoFar
    <2> QED
      BY <2>2, <2>3
  <1>4. CASE VisitCall
    BY <1>4, QuietVisit
  <1>5. CASE EndRound
    <2> SUFFICES ASSUME changed, phase' = "merge" PROVE MergedSoFar'
      BY <1>5 DEF QuietRound, EndRound
    <2> QED
      BY <1>5 DEF EndRound, MergedSoFar
  <1>6. CASE UNCHANGED vars
    <2>1. \A s : ClosedAt(s, pvVals, pvBinds, callGraph)
                     => ClosedAt(s, pvVals, pvBinds, callGraph)'
      BY <1>6, SameRules DEF vars
    <2> QED
      BY <1>6, <2>1 DEF vars, QuietRound, MergedSoFar, Transitive, VisitedSoFar
  <1> QED
    BY <1>1, <1>2, <1>3, <1>4, <1>5, <1>6 DEF Next, Finished

\* The round that ends the work has been quiet to its end.
LEMMA StepClosed ==
  ASSUME IInv, [Next]_vars
  PROVE  ClosedWhenDone'
  <1> SUFFICES ASSUME Done' PROVE Closed(pvVals, pvBinds, callGraph)'
    BY DEF ClosedWhenDone
  <1>1. prog' = prog
    BY Frozen
  <1>2. pvVals' = pvVals /\ pvBinds' = pvBinds /\ callGraph' = callGraph
    BY DEF Next, vars, TakeKey, MergeBinds, StartBuild, VisitCall, EndRound, Finished, Done
  <1>3. Closed(pvVals, pvBinds, callGraph)
    <2>1. CASE EndRound
      <3>1. Transitive(pvBinds) /\ VisitedSoFar /\ at > Len(prog.call)
        BY <2>1 DEF EndRound, IInv, QuietRound, Done
      <3>2. \A s \in Site : ClosedAt(s, pvVals, pvBinds, callGraph)
        BY <3>1, CallsInOrder DEF VisitedSoFar, IInv, ControlOK
      <3> QED
        BY <3>1, <3>2 DEF Closed, IInv, Base
    <2>2. CASE ~EndRound
      BY <2>2 DEF Next, vars, TakeKey, MergeBinds, StartBuild, VisitCall, Finished, Done,
                  IInv, ClosedWhenDone
    <2> QED
      BY <2>1, <2>2
  <1>4. \A s \in Site' : ClosedAt(s, pvVals, pvBinds, callGraph)'
    BY <1>1, <1>2, <1>3, SameRules, FrozenRules DEF Closed
  <1> QED
    BY <1>1, <1>2, <1>3, <1>4, FrozenRules DEF Closed, Transitive

\* Whatever the order of the maps, when no round adds anything any more, the values,
\* the bindings and the callees satisfy every rule of the builder: the loop of
\* runOnModule (LLVMAssignment.cpp:463-492) does not stop too early.
THEOREM ClosedCorrect == Spec => []ClosedWhenDone
  <1>1. IInv /\ [Next]_vars => IInv'
    BY StepControl, StepBase, StepQuiet, StepClosed DEF IInv
  <1>2. IInv => ClosedWhenDone
    BY DEF IInv
  <1> QED
    BY InitInv, <1>1, <1>2, PTL DEF Spec

-----------------------------------------------------------------------------
\* The maps hold no more than any maps that satisfy the rules.
BelowEveryClosed ==
    \A vals, binds, calls :
        /\ Relation(vals) /\ Relation(binds) /\ Relation(calls)
        /\ Closed(vals, binds, calls)
        => pvVals \subseteq vals /\ pvBinds \subseteq binds /\ callGraph \subseteq calls

\* The bindings left are bindings of the key in hand.
LeftBound == left \subseteq Image(pvBinds, key)

LInv == ControlOK /\ LeftBound /\ BelowEveryClosed

LEMMA ImageMonotone ==
  ASSUME NEW R, NEW S, R \subseteq S, NEW x
  PROVE  Image(R, x) \subseteq Image(S, x)
  BY DEF Image

LEMMA InImageRelated ==
  ASSUME NEW R, Relation(R), NEW x, NEW y \in Image(R, x)
  PROVE  <<x, y>> \in R
  BY DEF Image, Relation

\* What a call passes grows with its callees.
LEMMA PassedMonotone ==
  ASSUME NEW s, NEW F, NEW G, F \subseteq G
  PROVE  /\ ParamVals(s, F) \subseteq ParamVals(s, G)
         /\ ParamBinds(s, F) \subseteq ParamBinds(s, G)
         /\ RetBinds(s, F) \subseteq RetBinds(s, G)
  BY DEF ParamVals, ParamBinds, RetBinds

LEMMA StepLeft ==
  ASSUME ControlOK, LeftBound, [Next]_vars
  PROVE  LeftBound'
  <1>1. ASSUME NEW u \in todo, TakeKey(u) PROVE LeftBound'
    BY <1>1 DEF TakeKey, LeftBound, Image
  <1>2. ASSUME NEW v \in left, MergeBinds(v) PROVE LeftBound'
    <2> DEFINE new == Image(pvBinds, v) \ Image(pvBinds, key)
    <2>1. pvBinds \subseteq pvBinds' /\ key' = key /\ left' \subseteq left \cup new
      BY <1>2 DEF MergeBinds
    <2>2. \A w \in new : <<key, w>> \in pvBinds'
      BY <1>2 DEF MergeBinds
    <2>3. new \subseteq Image(pvBinds', key)
      BY <2>2, RelatedInImage
    <2>4. Image(pvBinds, key) \subseteq Image(pvBinds', key)
      BY <2>1, ImageMonotone
    <2>5. left' \subseteq Image(pvBinds', key')
      BY <2>1, <2>3, <2>4 DEF LeftBound
    <2> QED
      BY <2>5 DEF LeftBound, Image
  <1>3. CASE StartBuild \/ EndRound \/ Finished \/ UNCHANGED vars
    BY <1>3 DEF StartBuild, EndRound, Finished, vars, LeftBound, Image
  <1>4. CASE VisitCall
    <2>1. pvBinds \subseteq pvBinds' /\ key' = key /\ left' = left
      BY <1>4 DEF VisitCall
    <2>2. Image(pvBinds, key) \subseteq Image(pvBinds', key)
      BY <2>1, ImageMonotone
    <2>3. left' \subseteq Image(pvBinds', key')
      BY <2>1, <2>2 DEF LeftBound
    <2> QED
      BY <2>3 DEF LeftBound, Image
  <1> QED
    BY <1>1, <1>2, <1>3, <1>4 DEF Next

\* Which maps are closed depends on the module alone.
LEMMA SameClosed ==
  ASSUME prog' = prog, NEW vals, NEW binds, NEW calls
  PROVE  Closed(vals, binds, calls)' = Closed(vals, binds, calls)
  <1>1. \A s, F : /\ ParamVals(s, F)' = ParamVals(s, F)
                  /\ ParamBinds(s, F)' = ParamBinds(s, F)
                  /\ RetBinds(s, F)' = RetBinds(s, F)
    BY DEF ParamVals, ParamBinds, RetBinds, RetVals, Code, Func, Args, FVPair, ResultPair
  <1> QED
    BY <1>1, FrozenRules DEF Closed, ClosedAt, CalledPair, FVPair, Image, Transitive

\* A step from below closed maps stays below them.
LEMMA StepBelow ==
  ASSUME LInv, [Next]_vars, NEW vals, NEW binds, NEW calls,
         Relation(vals), Relation(binds), Relation(calls), Closed(vals, binds, calls)
  PROVE  pvVals' \subseteq vals /\ pvBinds' \subseteq binds /\ callGraph' \subseteq calls
  <1>1. pvVals \subseteq vals /\ pvBinds \subseteq binds /\ callGraph \subseteq calls
    BY DEF LInv, BelowEveryClosed
  <1>2. ASSUME NEW v \in left, MergeBinds(v)
        PROVE  pvVals' \subseteq vals /\ pvBinds' \subseteq binds /\ callGraph' \subseteq calls
    <2>1. <<key, v>> \in binds
      BY <1>1, <1>2, InImageRelated DEF LInv, LeftBound, ControlOK
    <2>2. \A w \in Image(pvBinds, v) : <<key, w>> \in binds
      <3>1. \A w \in Image(pvBinds, v) : <<v, w>> \in binds
        BY <1>1, InImageRelated DEF LInv, ControlOK
      <3>2. Transitive(binds)
        BY DEF Closed
      <3> QED
        BY <2>1, <3>1, <3>2 DEF Transitive
    <2> QED
      BY <1>1, <1>2, <2>2 DEF MergeBinds
  <1>3. ASSUME VisitCall
        PROVE  pvVals' \subseteq vals /\ pvBinds' \subseteq binds /\ callGraph' \subseteq calls
    <2> DEFINE s == prog.call[at]
               F == Image(callGraph', s)
               G == Image(calls, s)
    <2>1. s \in Site
      <3>1. at \in 1 .. Len(prog.call)
        BY <1>3, CallsInOrder DEF VisitCall, LInv, ControlOK
      <3> QED
        BY <3>1, CallsInOrder DEF LInv
    <2>2. ClosedAt(s, vals, binds, calls)
      BY <2>1 DEF Closed
    <2>3. Found(s) \subseteq G
      <3>1. Image(pvVals, CalledPair(s)) \subseteq G
        BY <1>1, <2>2, ImageMonotone DEF ClosedAt
      <3>2. ASSUME NEW v \in Image(pvBinds, CalledPair(s))
            PROVE  Image(pvVals, v) \subseteq G
        <4>1. v \in Image(binds, CalledPair(s))
          BY <1>1, <3>2, ImageMonotone
        <4>2. Image(vals, v) \subseteq G
          BY <2>2, <4>1 DEF ClosedAt
        <4> QED
          BY <1>1, <4>2, ImageMonotone
      <3> QED
        BY <3>1, <3>2 DEF Found
    <2>4. callGraph' \subseteq calls
      <3>1. \A f \in Found(s) : <<s, f>> \in calls
        BY <2>3, InImageRelated
      <3> QED
        BY <1>1, <1>3, <3>1 DEF VisitCall
    <2>5. F \subseteq G
      BY <2>4, ImageMonotone
    <2>6. /\ ParamVals(s, F) \subseteq vals
          /\ ParamBinds(s, F) \cup RetBinds(s, F) \subseteq binds
      <3>1. /\ ParamVals(s, F) \subseteq ParamVals(s, G)
            /\ ParamBinds(s, F) \subseteq ParamBinds(s, G)
            /\ RetBinds(s, F) \subseteq RetBinds(s, G)
        <4> HIDE DEF s, F, G
        <4> QED
          BY <2>5, PassedMonotone
      <3>2. /\ ParamVals(s, G) \subseteq vals
            /\ ParamBinds(s, G) \cup RetBinds(s, G) \subseteq binds
        BY <2>2 DEF ClosedAt
      <3> QED
        BY <3>1, <3>2
    <2> QED
      BY <1>1, <1>3, <2>4, <2>6 DEF VisitCall
  <1> QED
    BY <1>1, <1>2, <1>3 DEF Next, vars, TakeKey, StartBuild, EndRound, Finished

LEMMA BelowInductive == Spec => []LInv
  <1>1. Init => LInv
    <2> SUFFICES ASSUME Init PROVE LInv
      OBVIOUS
    <2>1. LeftBound
      BY DEF Init, LeftBound
    <2>2. BelowEveryClosed
      BY DEF Init, BelowEveryClosed, Closed
    <2> QED
      BY <2>1, <2>2, InitControl DEF LInv
  <1>2. LInv /\ [Next]_vars => LInv'
    <2> SUFFICES ASSUME LInv, [Next]_vars PROVE LInv'
      OBVIOUS
    <2>1. prog' = prog
      BY Frozen
    <2>2. BelowEveryClosed'
      BY <2>1, StepBelow, SameClosed DEF BelowEveryClosed, Relation
    <2> QED
      BY <2>2, StepControl, StepLeft DEF LInv
  <1> QED
    BY <1>1, <1>2, PTL DEF Spec

\* Nothing is in the call graph without a reason: the maps of the builder are at all
\* times below every maps closed under its rules; with ClosedCorrect, they are the
\* least such maps when it stops, and so the same for every order of the maps.
THEOREM LeastCorrect == Spec => []BelowEveryClosed
  <1>1. LInv => BelowEveryClosed
    BY DEF LInv
  <1> QED
    BY <1>1, BelowInductive, PTL
-----------------------------------------------------------------------------
(***************************************************************************)
(* The second description: pointers traced back through the copies.        *)
(***************************************************************************)

\* What a function takes on a finite set is finite.
LEMMA FiniteRange ==
  ASSUME NEW S, IsFiniteSet(S), NEW f, f = [x \in S |-> f[x]]
  PROVE  LET T == {f[x] : x \in S} IN IsFiniteSet(T) /\ Cardinality(T) <= Cardinality(S)
  <1> DEFINE T == {f[x] : x \in S}
  <1>1. f \in Surjection(S, T)
    BY DEF Surjection
  <1> HIDE DEF T
  <1>2. IsFiniteSet(T) /\ Cardinality(T) <= Cardinality(S)
    BY <1>1, FS_Surjection
  <1> QED
    BY <1>2 DEF T

\* TracedBack is the least set that holds u and the target of each edge from one of its
\* members.
LEMMA TracedBackLeast ==
  ASSUME NEW E, IsFiniteSet(E), NEW u
  PROVE  /\ u \in TracedBack(E, u)
         /\ \A e \in E : e[1] \in TracedBack(E, u) => e[2] \in TracedBack(E, u)
         /\ \A Y : u \in Y /\ (\A e \in E : e[1] \in Y => e[2] \in Y) => TracedBack(E, u) \subseteq Y
  <1> DEFINE target == [e \in E |-> e[2]]
             W == {target[e] : e \in E}
             V == W \cup {u}
             F == [X \in SUBSET V |-> X \cup {e[2] : e \in {d \in E : d[1] \in X}}]
             Step(g) == [n \in Nat |->
                 IF n = 0 THEN {u}
                 ELSE UNION {X \cup {e[2] : e \in {d \in E : d[1] \in X}} : X \in {g[n - 1]}}]
             within == CHOOSE g : g = Step(g)
             N == Cardinality(E)
  <1>1. N \in Nat /\ IsFiniteSet(V \ {u}) /\ Cardinality(V \ {u}) <= N
    <2>1. IsFiniteSet(W) /\ Cardinality(W) <= N
      <3>1. target = [e \in E |-> target[e]]
        OBVIOUS
      <3> HIDE DEF target
      <3> QED
        BY <3>1, FiniteRange
    <2>2. V \ {u} \in SUBSET W
      OBVIOUS
    <2> HIDE DEF V, W, N
    <2>3. /\ IsFiniteSet(V \ {u}) /\ Cardinality(V \ {u}) <= Cardinality(W)
          /\ Cardinality(V \ {u}) \in Nat /\ Cardinality(W) \in Nat
      BY <2>1, <2>2, FS_Subset, FS_CardinalityType
    <2>4. N \in Nat
      BY FS_CardinalityType DEF N
    <2> QED
      BY <2>1, <2>3, <2>4
  <1>2. \A e \in E : e[2] \in V
    OBVIOUS
  <1> HIDE DEF V, W
  <1>3. u \in V
    BY DEF V
  <1>4. StaysIn(F, V) /\ Inflates(F, V) /\ {u} \in SUBSET V
    BY <1>2, <1>3 DEF StaysIn, Inflates
  <1>5. within = Step(within)
    <2>1. PICK g : Iterates(g, F, {u}, V)
      <3> HIDE DEF F
      <3> QED
        BY <1>4, IterationExists
    <2>2. \A n \in Nat : n # 0 => g[n - 1] \in SUBSET V /\ g[n] = F[g[n - 1]]
      <3>1. \A n \in Nat : n # 0 => n - 1 \in Nat /\ n = (n - 1) + 1
        OBVIOUS
      <3> HIDE DEF F
      <3> QED
        BY <2>1, <3>1 DEF Iterates
    <2>3. ASSUME NEW n \in Nat, n # 0
          PROVE  g[n] = UNION {X \cup {e[2] : e \in {d \in E : d[1] \in X}} : X \in {g[n - 1]}}
      <3>1. g[n - 1] \in SUBSET V /\ g[n] = F[g[n - 1]]
        BY <2>2, <2>3
      <3> HIDE DEF F
      <3>2. F[g[n - 1]] = g[n - 1] \cup {e[2] : e \in {d \in E : d[1] \in g[n - 1]}}
        BY <3>1 DEF F
      <3> QED
        BY <3>1, <3>2
    <2>4. g = Step(g)
      BY <2>1, <2>3 DEF Iterates
    <2> HIDE DEF Step
    <2> QED
      BY <2>4
  <1>6. TracedBack(E, u) = within[N]
    BY DEF TracedBack
  <1> HIDE DEF within
  <1>7. ASSUME NEW n \in Nat, within[n] \in SUBSET V
        PROVE  within[n + 1] = F[within[n]]
    <2>1. n + 1 # 0 /\ (n + 1) - 1 = n /\ n + 1 \in Nat
      OBVIOUS
    <2>2. within[n + 1] = UNION {X \cup {e[2] : e \in {d \in E : d[1] \in X}} : X \in {within[n]}}
      BY <1>5, <2>1
    <2> QED
      BY <1>7, <2>2
  <1>8. within = [n \in Nat |-> within[n]] /\ within[0] = {u}
    BY <1>5
  <1>9. LeastFixed(within[N], F, {u}, V)
    <2> HIDE DEF F, Step, N
    <2>1. Iterates(within, F, {u}, V)
      BY <1>4, <1>7, <1>8, IteratesByStep
    <2> QED
      BY <1>1, <1>4, <2>1, LeastFixedPoint
  <1>10. within[N] \in SUBSET V /\ u \in within[N] /\ F[within[N]] = within[N]
    <2> HIDE DEF F
    <2> QED
      BY <1>9 DEF LeastFixed
  <1>11. \A e \in E : e[1] \in within[N] => e[2] \in within[N]
    BY <1>10
  <1>12. ASSUME NEW Y, u \in Y, \A e \in E : e[1] \in Y => e[2] \in Y
         PROVE  within[N] \subseteq Y
    <2>1. \A X \in SUBSET V : X \subseteq Y => F[X] \subseteq Y
      BY <1>12
    <2> HIDE DEF F
    <2> QED
      BY <1>9, <1>12, <2>1 DEF LeastFixed
  <1> QED
    BY <1>6, <1>10, <1>11, <1>12

-----------------------------------------------------------------------------
\* A union of finitely many finite sets is finite.
LEMMA FiniteUnion ==
  ASSUME NEW S, IsFiniteSet(S), NEW f, f = [x \in S |-> f[x]],
         \A x \in S : IsFiniteSet(f[x])
  PROVE  IsFiniteSet(UNION {f[x] : x \in S})
  <1> DEFINE T == {f[x] : x \in S}
  <1>1. IsFiniteSet(T)
    BY FiniteRange
  <1>2. \A X \in T : IsFiniteSet(X)
    OBVIOUS
  <1> HIDE DEF T
  <1>3. IsFiniteSet(UNION T)
    BY <1>1, <1>2, FS_UNION
  <1> QED
    BY <1>3 DEF T

\* A sequence has finitely many elements.
LEMMA FiniteDomain ==
  ASSUME NEW S, NEW s \in Seq(S)
  PROVE  IsFiniteSet(DOMAIN s)
  <1>1. DOMAIN s = 1 .. Len(s) /\ Len(s) \in Nat
    OBVIOUS
  <1> QED
    BY <1>1, FS_Interval

\* A module has finitely many functions, and a function finitely many instructions, each
\* with finitely many operands.
LEMMA FiniteModule ==
  ASSUME NEW p \in Program
  PROVE  /\ IsFiniteSet(FuncsOf(p))
         /\ \A f \in FuncsOf(p) :
              /\ IsFiniteSet(CodeOf(p, f))
              /\ \A i \in CodeOf(p, f) : IsFiniteSet(DOMAIN i.src)
  <1>1. IsModule(p)
    BY ProgramAssumption
  <1>2. IsFiniteSet(FuncsOf(p))
    <2> DEFINE D == DOMAIN p.fun
               g == [x \in D |-> p.fun[x]]
    <2>1. IsFiniteSet(D) /\ g = [x \in D |-> g[x]]
      BY <1>1, FiniteDomain DEF IsModule
    <2> HIDE DEF g
    <2>2. IsFiniteSet({g[x] : x \in D})
      BY <2>1, FiniteRange
    <2>3. {g[x] : x \in D} = FuncsOf(p)
      BY DEF g, FuncsOf
    <2> QED
      BY <2>2, <2>3
  <1>3. ASSUME NEW f \in FuncsOf(p), NEW b \in p.block[f]
        PROVE  IsFiniteSet({p.code[b][i] : i \in DOMAIN p.code[b]})
    <2> DEFINE D == DOMAIN p.code[b]
               g == [x \in D |-> p.code[b][x]]
    <2>1. IsFiniteSet(D) /\ g = [x \in D |-> g[x]]
      BY <1>1, FiniteDomain DEF IsModule
    <2> HIDE DEF g
    <2>2. IsFiniteSet({g[x] : x \in D})
      BY <2>1, FiniteRange
    <2>3. {g[x] : x \in D} = {p.code[b][i] : i \in DOMAIN p.code[b]}
      BY DEF g
    <2> QED
      BY <2>2, <2>3
  <1>4. ASSUME NEW f \in FuncsOf(p)
        PROVE  IsFiniteSet(CodeOf(p, f))
    <2> DEFINE S == p.block[f]
               g == [b \in S |-> {p.code[b][i] : i \in DOMAIN p.code[b]}]
    <2>1. IsFiniteSet(S) /\ g = [b \in S |-> g[b]] /\ \A b \in S : IsFiniteSet(g[b])
      BY <1>1, <1>3 DEF IsModule
    <2>2. UNION {g[b] : b \in S} = CodeOf(p, f)
      <3>1. {g[b] : b \in S} = {{p.code[b][i] : i \in DOMAIN p.code[b]} : b \in p.block[f]}
        OBVIOUS
      <3> HIDE DEF g
      <3> QED
        BY <3>1 DEF CodeOf
    <2> HIDE DEF S, g
    <2> QED
      BY <2>1, <2>2, FiniteUnion
  <1>5. ASSUME NEW f \in FuncsOf(p), NEW i \in CodeOf(p, f)
        PROVE  IsFiniteSet(DOMAIN i.src)
    BY <1>1, FiniteDomain DEF IsModule
  <1> QED
    BY <1>2, <1>4, <1>5

\* So are the instructions of one kind in a module.
LEMMA FiniteInsts ==
  ASSUME NEW p \in Program, NEW op
  PROVE  /\ IsFiniteSet(InstsOf(p, op))
         /\ \A s \in InstsOf(p, op) : s[1] \in FuncsOf(p) /\ s[2] \in CodeOf(p, s[1])
                                     /\ s = <<s[1], s[2]>>
  <1> DEFINE Of(f) == {inst \in CodeOf(p, f) : inst.op = op}
             G == [f \in FuncsOf(p) |-> {<<f, inst>> : inst \in Of(f)}]
  <1>1. ASSUME NEW f \in FuncsOf(p) PROVE IsFiniteSet(G[f])
    <2> DEFINE S == Of(f)
               g == [inst \in S |-> <<f, inst>>]
    <2>1. S \in SUBSET CodeOf(p, f) /\ IsFiniteSet(CodeOf(p, f))
      BY FiniteModule
    <2>2. IsFiniteSet(S) /\ g = [inst \in S |-> g[inst]]
      <3> HIDE DEF Of
      <3> QED
        BY <2>1, FS_Subset
    <2>3. {g[inst] : inst \in S} = G[f]
      OBVIOUS
    <2> HIDE DEF S, g, G
    <2> QED
      BY <2>2, <2>3, FiniteRange
  <1>2. UNION {G[f] : f \in FuncsOf(p)} = InstsOf(p, op) /\ G = [f \in FuncsOf(p) |-> G[f]]
    BY DEF InstsOf
  <1>3. IsFiniteSet(FuncsOf(p))
    BY FiniteModule
  <1>4. IsFiniteSet(InstsOf(p, op))
    <2> HIDE DEF G
    <2> QED
      BY <1>1, <1>2, <1>3, FiniteUnion
  <1>5. ASSUME NEW s \in InstsOf(p, op)
        PROVE  s[1] \in FuncsOf(p) /\ s[2] \in CodeOf(p, s[1]) /\ s = <<s[1], s[2]>>
    BY DEF InstsOf
  <1> QED
    BY <1>4, <1>5

\* A call has finitely many arguments, a function finitely many returned values, a phi
\* finitely many operands.
LEMMA FiniteOperands ==
  ASSUME prog \in Program
  PROVE  /\ IsFiniteSet(Site) /\ IsFiniteSet(Phis) /\ IsFiniteSet(Func)
         /\ \A s \in Site : IsFiniteSet(Args(s)) /\ s[1] \in Func
         /\ \A s \in Phis : IsFiniteSet(Incoming(s)) /\ s[1] \in Func
         /\ \A f \in Func : IsFiniteSet(RetVals(f))
  <1>1. IsFiniteSet(Site) /\ IsFiniteSet(Phis) /\ IsFiniteSet(Func)
    BY FiniteInsts, FiniteModule DEF Site, Phis, Func
  <1>2. \A s \in Site : IsFiniteSet(Args(s)) /\ s[1] \in Func
    BY FiniteInsts, FiniteModule DEF Site, Func, Args
  <1>3. ASSUME NEW i, IsFiniteSet(DOMAIN i.src)
        PROVE  IsFiniteSet({i.src[j] : j \in DOMAIN i.src})
    <2> DEFINE D == DOMAIN i.src
               g == [j \in D |-> i.src[j]]
    <2>1. IsFiniteSet(D) /\ g = [j \in D |-> g[j]]
      BY <1>3
    <2>2. {g[j] : j \in D} = {i.src[j] : j \in D}
      OBVIOUS
    <2> HIDE DEF g
    <2>3. IsFiniteSet({g[j] : j \in D})
      BY <2>1, FiniteRange
    <2> QED
      BY <2>2, <2>3
  <1>4. ASSUME NEW s \in Phis PROVE IsFiniteSet(Incoming(s)) /\ s[1] \in Func
    <2>1. IsFiniteSet(DOMAIN s[2].src) /\ s[1] \in Func
      BY FiniteInsts, FiniteModule DEF Phis, Func
    <2>2. IsFiniteSet({s[2].src[j] : j \in DOMAIN s[2].src})
      BY <2>1, <1>3
    <2>3. Incoming(s) \in SUBSET {s[2].src[j] : j \in DOMAIN s[2].src}
      BY DEF Incoming
    <2> QED
      BY <2>1, <2>2, <2>3, FS_Subset
  <1>5. ASSUME NEW f \in Func PROVE IsFiniteSet(RetVals(f))
    <2> DEFINE S == {i \in Code(f) : i.op = "ret"}
               g == [i \in S |-> {i.src[j] : j \in DOMAIN i.src}]
    <2>1. IsFiniteSet(Code(f)) /\ \A i \in Code(f) : IsFiniteSet(DOMAIN i.src)
      BY FiniteModule DEF Func, Code
    <2>2. S \in SUBSET Code(f)
      OBVIOUS
    <2>3. IsFiniteSet(S) /\ \A i \in S : IsFiniteSet(g[i])
      <3>1. IsFiniteSet(S)
        <4> HIDE DEF S
        <4> QED
          BY <2>1, <2>2, FS_Subset
      <3>2. \A i \in S : IsFiniteSet({i.src[j] : j \in DOMAIN i.src})
        BY <2>1, <1>3
      <3> QED
        BY <3>1, <3>2
    <2>4. RetVals(f) = UNION {g[i] : i \in S} \/ RetVals(f) = {}
      <3>1. {g[i] : i \in S} = {{i.src[j] : j \in DOMAIN i.src} : i \in S}
        OBVIOUS
      <3> HIDE DEF g
      <3> QED
        BY <3>1 DEF RetVals
    <2>5. g = [i \in S |-> g[i]]
      OBVIOUS
    <2> HIDE DEF S, g
    <2>6. IsFiniteSet(UNION {g[i] : i \in S})
      BY <2>3, <2>5, FiniteUnion
    <2> QED
      BY <2>4, <2>6, FS_EmptySet
  <1> QED
    BY <1>1, <1>2, <1>4, <1>5

\* The values of S, as values of a, paired with x.
PairsWith(x, a, S) == {<<x, <<a, v>> >> : v \in S}

LEMMA FinitePairs ==
  ASSUME NEW S, IsFiniteSet(S), NEW x, NEW a
  PROVE  IsFiniteSet(PairsWith(x, a, S))
  <1> DEFINE g == [v \in S |-> <<x, <<a, v>> >>]
  <1>1. g = [v \in S |-> g[v]] /\ {g[v] : v \in S} = PairsWith(x, a, S)
    BY DEF PairsWith
  <1> HIDE DEF g
  <1> QED
    BY <1>1, FiniteRange

\* The copies the rules ask for, whatever the calls found, are finitely many.
LEMMA FiniteCopies ==
  ASSUME prog \in Program, NEW calls \in SUBSET (Site \X Func)
  PROVE  IsFiniteSet(Copies(calls))
  <1>1. IsFiniteSet(IntraPVBinds)
    <2> DEFINE g == [s \in Phis |-> {<<ResultPair(s), FVPair(s, v)>> : v \in Incoming(s) \cap prog.pointer}]
    <2>1. ASSUME NEW s \in Phis PROVE IsFiniteSet(g[s])
      <3>1. IsFiniteSet(Incoming(s) \cap prog.pointer)
        BY FiniteOperands, FS_Intersection
      <3>2. g[s] = PairsWith(ResultPair(s), s[1], Incoming(s) \cap prog.pointer)
        BY DEF FVPair, PairsWith
      <3> HIDE DEF g
      <3> QED
        BY <3>1, <3>2, FinitePairs
    <2>2. IntraPVBinds = UNION {g[s] : s \in Phis} /\ g = [s \in Phis |-> g[s]]
      BY DEF IntraPVBinds
    <2> HIDE DEF g
    <2> QED
      BY <2>1, <2>2, FiniteOperands, FiniteUnion
  <1>2. ASSUME NEW s \in Site PROVE IsFiniteSet(ParamBinds(s, Image(calls, s)))
    <2> DEFINE F == Image(calls, s)
               J == {k \in Args(s) : s[2].src[k] \in prog.pointer}
               D == F \X J
               g == [d \in D |-> << <<d[1], prog.param[d[1]][d[2]]>>, FVPair(s, s[2].src[d[2]])>>]
    <2>1. IsFiniteSet(F)
      <3>1. F \in SUBSET Func
        BY DEF Image
      <3> HIDE DEF F
      <3> QED
        BY <3>1, FiniteOperands, FS_Subset
    <2>2. IsFiniteSet(J)
      <3>1. J \in SUBSET Args(s) /\ IsFiniteSet(Args(s))
        BY FiniteOperands
      <3> HIDE DEF J
      <3> QED
        BY <3>1, FS_Subset
    <2>3. g = [d \in D |-> g[d]]
      OBVIOUS
    <2>4. ParamBinds(s, F) = {g[d] : d \in D}
      <3> HIDE DEF F
      <3>1. ASSUME NEW f \in F, NEW j \in J
            PROVE  g[<<f, j>>] = << <<f, prog.param[f][j]>>, FVPair(s, s[2].src[j])>>
        OBVIOUS
      <3>2. \A d \in D : d[1] \in F /\ d[2] \in J /\ d = <<d[1], d[2]>>
        OBVIOUS
      <3>3. ParamBinds(s, F) = {<< <<f, prog.param[f][j]>>, FVPair(s, s[2].src[j])>> : f \in F, j \in J}
        BY DEF ParamBinds
      <3> HIDE DEF J, g
      <3>4. ASSUME NEW y \in {g[d] : d \in D} PROVE y \in ParamBinds(s, F)
        BY <3>1, <3>2, <3>3
      <3>5. ASSUME NEW y \in ParamBinds(s, F) PROVE y \in {g[d] : d \in D}
        <4>1. PICK f \in F, j \in J : y = << <<f, prog.param[f][j]>>, FVPair(s, s[2].src[j])>>
          BY <3>3
        <4>2. <<f, j>> \in D /\ y = g[<<f, j>>]
          BY <3>1, <4>1
        <4> HIDE DEF D
        <4> QED
          BY <4>2
      <3> QED
        BY <3>4, <3>5
    <2> HIDE DEF F, J, g
    <2>5. IsFiniteSet(D)
      BY <2>1, <2>2, FS_Product
    <2> HIDE DEF D
    <2>6. IsFiniteSet(ParamBinds(s, F))
      BY <2>3, <2>4, <2>5, FiniteRange
    <2> QED
      BY <2>6 DEF F
  <1>3. ASSUME NEW s \in Site PROVE IsFiniteSet(RetBinds(s, Image(calls, s)))
    <2> DEFINE F == Image(calls, s)
               g == [f \in F |-> PairsWith(ResultPair(s), f, RetVals(f))]
    <2>1. IsFiniteSet(F) /\ F \subseteq Func
      <3>1. F \in SUBSET Func
        BY DEF Image
      <3> HIDE DEF F
      <3> QED
        BY <3>1, FiniteOperands, FS_Subset
    <2> HIDE DEF F
    <2>2. \A f \in F : IsFiniteSet(g[f])
      BY <2>1, FiniteOperands, FinitePairs
    <2>3. RetBinds(s, F) = UNION {g[f] : f \in F} \/ RetBinds(s, F) = {}
      <3>1. {g[f] : f \in F} = {{<<ResultPair(s), <<f, v>> >> : v \in RetVals(f)} : f \in F}
        BY DEF PairsWith
      <3> HIDE DEF g
      <3> QED
        BY <3>1 DEF RetBinds
    <2>4. g = [f \in F |-> g[f]]
      OBVIOUS
    <2> HIDE DEF g
    <2>5. IsFiniteSet(UNION {g[f] : f \in F})
      BY <2>1, <2>2, <2>4, FiniteUnion
    <2>6. IsFiniteSet(RetBinds(s, F))
      BY <2>3, <2>5, FS_EmptySet
    <2> QED
      BY <2>6 DEF F
  <1>4. IsFiniteSet(UNION {ParamBinds(s, Image(calls, s)) \cup RetBinds(s, Image(calls, s)) : s \in Site})
    <2> DEFINE g == [s \in Site |-> ParamBinds(s, Image(calls, s)) \cup RetBinds(s, Image(calls, s))]
    <2>1. \A s \in Site : IsFiniteSet(g[s])
      BY <1>2, <1>3, FS_Union
    <2>2. /\ g = [s \in Site |-> g[s]]
          /\ UNION {g[s] : s \in Site} =
               UNION {ParamBinds(s, Image(calls, s)) \cup RetBinds(s, Image(calls, s)) : s \in Site}
      OBVIOUS
    <2> HIDE DEF g
    <2>3. IsFiniteSet(UNION {g[s] : s \in Site})
      BY <2>1, <2>2, FiniteOperands, FiniteUnion
    <2> QED
      BY <2>2, <2>3
  <1> QED
    BY <1>1, <1>4, FS_Union DEF Copies

\* What one more round of tracing back makes of the calls found so far.
Traced(C) == MoreCalls(C, Copies(C), Assigned(C))

\* Tracing back leads from calls to functions.
LEMMA TracedTyped ==
  ASSUME NEW C \in SUBSET (Site \X Func)
  PROVE  Traced(C) \in SUBSET (Site \X Func)
  <1>1. \A u : Image(Assigned(C), u) \subseteq Func
    <2>1. \A u : Image(IntraPVVals, u) \subseteq Func
      BY DEF Image, IntraPVVals
    <2>2. \A s, F, u : Image(ParamVals(s, F), u) \subseteq Func
      BY DEF Image, ParamVals
    <2>3. ASSUME NEW u, NEW f \in Image(Assigned(C), u) PROVE f \in Func
      <3>1. PICK d \in Assigned(C) : d[1] = u /\ f = d[2]
        BY <2>3 DEF Image
      <3>2. CASE d \in IntraPVVals
        BY <2>1, <3>1, <3>2 DEF Image
      <3>3. CASE d \notin IntraPVVals
        <4>1. PICK s \in Site : d \in ParamVals(s, Image(C, s))
          BY <3>1, <3>3 DEF Assigned
        <4>2. f \in Image(ParamVals(s, Image(C, s)), u)
          BY <3>1, <4>1 DEF Image
        <4> QED
          BY <2>2, <4>2
      <3> QED
        BY <3>2, <3>3
    <2> QED
      BY <2>3
  <1>2. ASSUME NEW x \in Traced(C), x \notin C PROVE x \in Site \X Func
    <2>1. PICK s \in Site : x \in UNION {{<<s, f>> : f \in Image(Assigned(C), u)} :
                                            u \in TracedBack(Copies(C), CalledPair(s))}
      BY <1>2 DEF Traced, MoreCalls
    <2>2. PICK u : x \in {<<s, f>> : f \in Image(Assigned(C), u)}
      BY <2>1
    <2> QED
      BY <1>1, <2>2
  <1> QED
    BY <1>2

\* TracedCalls is the least set of calls that holds the direct ones and that tracing back
\* leaves alone.
LEMMA TracedCallsLeast ==
  ASSUME prog \in Program
  PROVE  /\ TracedCalls \in SUBSET (Site \X Func)
         /\ DirectCalls \subseteq TracedCalls
         /\ Traced(TracedCalls) = TracedCalls
         /\ \A Y : /\ DirectCalls \subseteq Y
                   /\ \A C \in SUBSET (Site \X Func) : C \subseteq Y => Traced(C) \subseteq Y
                   => TracedCalls \subseteq Y
  <1> DEFINE V == Site \X Func
             F == [C \in SUBSET V |-> Traced(C)]
             Step(g) == [n \in Nat |->
                 IF n = 0 THEN DirectCalls
                 ELSE UNION {MoreCalls(C, Copies(C), Assigned(C)) : C \in {g[n - 1]}}]
             after == CHOOSE g : g = Step(g)
             N == Cardinality(Site) * Cardinality(Func)
  <1>1. N \in Nat /\ IsFiniteSet(V \ DirectCalls) /\ Cardinality(V \ DirectCalls) <= N
    <2>1. IsFiniteSet(V) /\ Cardinality(V) = N /\ Cardinality(V) \in Nat
      BY FiniteOperands, FS_Product, FS_CardinalityType
    <2> HIDE DEF V, N
    <2>2. V \ DirectCalls \in SUBSET V
      OBVIOUS
    <2> QED
      BY <2>1, <2>2, FS_Subset
  <1>2. /\ StaysIn(F, V) /\ DirectCalls \in SUBSET V
        /\ \A C \in SUBSET V : F[C] = Traced(C)
    BY TracedTyped DEF StaysIn, DirectCalls
  <1>3. Inflates(F, V)
    BY DEF Inflates, Traced, MoreCalls
  <1> HIDE DEF F, V
  <1>4. after = Step(after)
    <2>1. PICK g : Iterates(g, F, DirectCalls, V)
      BY <1>2, IterationExists
    <2>2. \A n \in Nat : n # 0 => g[n - 1] \in SUBSET V /\ g[n] = F[g[n - 1]]
      <3>1. \A n \in Nat : n # 0 => n - 1 \in Nat /\ n = (n - 1) + 1
        OBVIOUS
      <3> QED
        BY <2>1, <3>1 DEF Iterates
    <2>3. ASSUME NEW n \in Nat, n # 0
          PROVE  g[n] = UNION {MoreCalls(C, Copies(C), Assigned(C)) : C \in {g[n - 1]}}
      <3>1. g[n] = Traced(g[n - 1])
        BY <1>2, <2>2, <2>3
      <3> QED
        BY <3>1 DEF Traced
    <2>4. g = Step(g)
      BY <2>1, <2>3 DEF Iterates
    <2> HIDE DEF Step
    <2> QED
      BY <2>4
  <1>5. TracedCalls = after[N]
    BY DEF TracedCalls
  <1> HIDE DEF after
  <1>6. ASSUME NEW n \in Nat, after[n] \in SUBSET V
        PROVE  after[n + 1] = F[after[n]]
    <2>1. n + 1 # 0 /\ (n + 1) - 1 = n /\ n + 1 \in Nat
      OBVIOUS
    <2>2. after[n + 1] = UNION {MoreCalls(C, Copies(C), Assigned(C)) : C \in {after[n]}}
      BY <1>4, <2>1
    <2> QED
      BY <1>2, <1>6, <2>2 DEF Traced
  <1>7. after = [n \in Nat |-> after[n]] /\ after[0] = DirectCalls
    BY <1>4
  <1>8. LeastFixed(after[N], F, DirectCalls, V)
    <2> HIDE DEF Step, N
    <2>1. Iterates(after, F, DirectCalls, V)
      BY <1>2, <1>6, <1>7, IteratesByStep
    <2> QED
      BY <1>1, <1>3, <2>1, LeastFixedPoint
  <1>9. after[N] \in SUBSET V /\ DirectCalls \subseteq after[N] /\ Traced(after[N]) = after[N]
    BY <1>2, <1>8 DEF LeastFixed
  <1>10. ASSUME NEW Y, DirectCalls \subseteq Y,
                \A C \in SUBSET V : C \subseteq Y => Traced(C) \subseteq Y
         PROVE  after[N] \subseteq Y
    <2>1. \A C \in SUBSET V : C \subseteq Y => F[C] \subseteq Y
      BY <1>2, <1>10
    <2> QED
      BY <1>8, <1>10, <2>1 DEF LeastFixed
  <1> QED
    BY <1>5, <1>9, <1>10 DEF V

\* The copies and the assignments of fewer calls are fewer.
LEMMA CopiesBelow ==
  ASSUME NEW C, C \subseteq callGraph, Closed(pvVals, pvBinds, callGraph)
  PROVE  Copies(C) \subseteq pvBinds /\ Assigned(C) \subseteq pvVals
  <1>1. ASSUME NEW s \in Site
        PROVE  /\ ParamVals(s, Image(C, s)) \subseteq pvVals
               /\ ParamBinds(s, Image(C, s)) \subseteq pvBinds
               /\ RetBinds(s, Image(C, s)) \subseteq pvBinds
    <2>1. ClosedAt(s, pvVals, pvBinds, callGraph)
      BY DEF Closed
    <2>2. Image(C, s) \subseteq Image(callGraph, s)
      BY ImageMonotone
    <2> QED
      BY <2>1, <2>2, PassedMonotone DEF ClosedAt
  <1>2. IntraPVBinds \subseteq pvBinds /\ IntraPVVals \subseteq pvVals
    BY DEF Closed
  <1>3. Copies(C) \subseteq pvBinds
    BY <1>1, <1>2 DEF Copies
  <1>4. Assigned(C) \subseteq pvVals
    BY <1>1, <1>2 DEF Assigned
  <1> QED
    BY <1>3, <1>4

\* Whatever can be traced back is in the call graph once its maps are closed.
LEMMA TracedFound ==
  ASSUME ControlOK, Closed(pvVals, pvBinds, callGraph)
  PROVE  TracedCalls \subseteq callGraph
  <1>1. ASSUME NEW C \in SUBSET (Site \X Func), C \subseteq callGraph
        PROVE  Traced(C) \subseteq callGraph
    <2> SUFFICES ASSUME NEW s \in Site, NEW u \in TracedBack(Copies(C), CalledPair(s)),
                        NEW f \in Image(Assigned(C), u)
                 PROVE  <<s, f>> \in callGraph
      BY <1>1 DEF Traced, MoreCalls
    <2> DEFINE c == CalledPair(s)
               Y == {c} \cup Image(pvBinds, c)
    <2>1. Copies(C) \subseteq pvBinds /\ Assigned(C) \subseteq pvVals
      BY <1>1, CopiesBelow
    <2>2. IsFiniteSet(Copies(C))
      BY FiniteCopies DEF ControlOK
    <2>3. ASSUME NEW e \in Copies(C), e[1] \in Y PROVE e[2] \in Y
      <3>1. e \in pvBinds /\ e = <<e[1], e[2]>>
        BY <2>1 DEF ControlOK, Relation
      <3>2. CASE e[1] = c
        BY <3>1, <3>2, RelatedInImage
      <3>3. CASE e[1] \in Image(pvBinds, c)
        <4>1. <<c, e[1]>> \in pvBinds
          BY <3>3, InImageRelated DEF ControlOK
        <4>2. <<c, e[2]>> \in pvBinds
          BY <3>1, <4>1 DEF Closed, Transitive
        <4> QED
          BY <4>2, RelatedInImage
      <3> QED
        BY <2>3, <3>2, <3>3
    <2>4. u \in Y
      <3>1. c \in Y
        OBVIOUS
      <3> HIDE DEF Y, c
      <3>2. TracedBack(Copies(C), c) \subseteq Y
        BY <2>2, <2>3, <3>1, TracedBackLeast
      <3> QED
        BY <3>2 DEF c
    <2>5. f \in Image(pvVals, u)
      BY <2>1, ImageMonotone
    <2>6. ClosedAt(s, pvVals, pvBinds, callGraph)
      BY DEF Closed
    <2>7. f \in Image(callGraph, s)
      BY <2>4, <2>5, <2>6 DEF ClosedAt
    <2> QED
      BY <2>7, InImageRelated DEF ControlOK
  <1>2. DirectCalls \subseteq callGraph
    BY DEF Closed
  <1> QED
    BY <1>1, <1>2, TracedCallsLeast DEF ControlOK

\* The copies are pairs, and so are the assignments.
LEMMA CopiesRelation == \A C : Relation(Copies(C)) /\ Relation(Assigned(C))
  <1> SUFFICES ASSUME NEW C PROVE Relation(Copies(C)) /\ Relation(Assigned(C))
    OBVIOUS
  <1>1. Relation(IntraPVBinds) /\ Relation(IntraPVVals)
    BY DEF Relation, IntraPVBinds, IntraPVVals
  <1>2. \A s, F : Relation(ParamBinds(s, F)) /\ Relation(RetBinds(s, F)) /\ Relation(ParamVals(s, F))
    BY DEF Relation, ParamBinds, RetBinds, ParamVals
  <1>3. Relation(Copies(C))
    BY <1>1, <1>2 DEF Copies, Relation
  <1>4. Relation(Assigned(C))
    BY <1>1, <1>2 DEF Assigned, Relation
  <1> QED
    BY <1>3, <1>4

\* The calls traced back, with what they copy and assign, satisfy the rules.
CopyPaths(C) == UNION {{<<e[1], y>> : y \in TracedBack(Copies(C), e[2])} : e \in Copies(C)}

LEMMA TracedClosed ==
  ASSUME prog \in Program
  PROVE  /\ Relation(CopyPaths(TracedCalls))
         /\ Relation(Assigned(TracedCalls))
         /\ Relation(TracedCalls)
         /\ Closed(Assigned(TracedCalls), CopyPaths(TracedCalls), TracedCalls)
  <1> DEFINE C == TracedCalls
             E == Copies(C)
             B == CopyPaths(C)
             A == Assigned(C)
  <1>1. C \in SUBSET (Site \X Func) /\ DirectCalls \subseteq C /\ Traced(C) = C
    BY TracedCallsLeast
  <1> HIDE DEF C
  <1>2. IsFiniteSet(E) /\ Relation(E) /\ Relation(A)
    BY <1>1, FiniteCopies, CopiesRelation
  <1>3. \A u : /\ u \in TracedBack(E, u)
               /\ \A e \in E : e[1] \in TracedBack(E, u) => e[2] \in TracedBack(E, u)
               /\ \A Y : u \in Y /\ (\A e \in E : e[1] \in Y => e[2] \in Y)
                             => TracedBack(E, u) \subseteq Y
    <2> HIDE DEF E
    <2> QED
      BY <1>2, TracedBackLeast
  <1>4. \A x, y : <<x, y>> \in B <=> \E e \in E : e[1] = x /\ y \in TracedBack(E, e[2])
    BY DEF CopyPaths
  <1>5. Relation(B) /\ Relation(C)
    BY <1>1 DEF CopyPaths, Relation
  <1> HIDE DEF E, B, A
  <1>6. \A u, w : w \in TracedBack(E, u) => TracedBack(E, w) \subseteq TracedBack(E, u)
    BY <1>3
  <1>7. E \subseteq B
    BY <1>2, <1>3, <1>4 DEF Relation
  <1>8. Transitive(B)
    <2> SUFFICES ASSUME NEW e \in B, NEW d \in B, e[2] = d[1] PROVE <<e[1], d[2]>> \in B
      BY DEF Transitive
    <2>1. PICK a \in E : a[1] = e[1] /\ e[2] \in TracedBack(E, a[2])
      BY <1>4, <1>5 DEF Relation
    <2>2. PICK b \in E : b[1] = d[1] /\ d[2] \in TracedBack(E, b[2])
      BY <1>4, <1>5 DEF Relation
    <2>3. b[2] \in TracedBack(E, a[2])
      BY <1>3, <2>1, <2>2
    <2>4. d[2] \in TracedBack(E, a[2])
      BY <1>6, <2>2, <2>3
    <2> QED
      BY <1>4, <2>1, <2>4
  <1>9. ASSUME NEW s \in Site PROVE ClosedAt(s, A, B, C)
    <2>1. ASSUME NEW u \in TracedBack(E, CalledPair(s)), NEW f \in Image(A, u)
          PROVE  f \in Image(C, s)
      <3>1. <<s, f>> \in Traced(C)
        BY <2>1 DEF Traced, MoreCalls, E, A
      <3> QED
        BY <1>1, <3>1, RelatedInImage
    <2>2. Image(A, CalledPair(s)) \subseteq Image(C, s)
      BY <1>3, <2>1
    <2>3. ASSUME NEW v \in Image(B, CalledPair(s))
          PROVE  Image(A, v) \subseteq Image(C, s)
      <3>1. <<CalledPair(s), v>> \in B
        BY <1>5, <2>3, InImageRelated
      <3>2. PICK e \in E : e[1] = CalledPair(s) /\ v \in TracedBack(E, e[2])
        BY <1>4, <3>1
      <3>3. v \in TracedBack(E, CalledPair(s))
        BY <1>3, <1>6, <3>2
      <3> QED
        BY <2>1, <3>3
    <2>4. ParamVals(s, Image(C, s)) \subseteq A
      BY DEF A, Assigned
    <2>5. ParamBinds(s, Image(C, s)) \cup RetBinds(s, Image(C, s)) \subseteq E
      BY DEF E, Copies
    <2> QED
      BY <1>7, <2>2, <2>3, <2>4, <2>5 DEF ClosedAt
  <1>10. IntraPVVals \subseteq A /\ IntraPVBinds \subseteq E
    BY DEF A, E, Assigned, Copies
  <1>11. Closed(A, B, C)
    BY <1>1, <1>7, <1>8, <1>9, <1>10 DEF Closed
  <1> QED
    BY <1>2, <1>5, <1>11 DEF A, B, C

\* The call graph is exactly the one found by tracing called pointers back through the
\* copies, on every module: the loop of runOnModule, which merges sets while they grow
\* and does not count new calls as a change, misses nothing and adds nothing.
THEOREM ExactCorrect == Spec => []ExactWhenDone
  <1>1. LInv /\ ClosedWhenDone => ExactWhenDone
    <2> SUFFICES ASSUME LInv, ClosedWhenDone, Done PROVE callGraph = TracedCalls
      BY DEF ExactWhenDone
    <2>1. ControlOK /\ Closed(pvVals, pvBinds, callGraph)
      BY DEF LInv, ClosedWhenDone
    <2>2. TracedCalls \subseteq callGraph
      BY <2>1, TracedFound
    <2>3. callGraph \subseteq TracedCalls
      BY <2>1, TracedClosed DEF LInv, BelowEveryClosed, ControlOK
    <2> QED
      BY <2>2, <2>3
  <1> QED
    BY <1>1, BelowInductive, ClosedCorrect, PTL
-----------------------------------------------------------------------------
\* No call is bound to a function with fewer parameters than it has arguments: getArg
\* (LLVMAssignment.cpp:325, 339) asks for a parameter per argument without counting them.
ArgumentsFit == \A e \in callGraph : Args(e[1]) \subseteq DOMAIN prog.param[e[2]]

\* Operands, results, called values and parameters are values of the module.
LEMMA Operands ==
  ASSUME prog \in Program
  PROVE  /\ \A f \in Func : f \in prog.value /\ \A j \in DOMAIN prog.param[f] :
                                prog.param[f][j] \in prog.value
         /\ \A f \in Func : \A i \in Code(f) : \A j \in DOMAIN i.src : i.src[j] \in prog.value
         /\ \A s \in Phis : s[1] \in Func /\ s[2] \in Code(s[1]) /\ s[2].dst \in prog.value
         /\ \A s \in Site : /\ s[1] \in Func /\ s[2] \in Code(s[1])
                            /\ s[2].dst \in prog.value /\ Called(s[2]) \in prog.value
  <1>1. IsModule(prog)
    BY ProgramAssumption
  <1>2. \A S, s : s \in Seq(S) => \A i \in DOMAIN s : s[i] \in S
    OBVIOUS
  <1>3. ASSUME NEW f \in Func
        PROVE  f \in prog.value /\ \A j \in DOMAIN prog.param[f] : prog.param[f][j] \in prog.value
    <2>1. prog.fun \in Seq(prog.value) /\ prog.param[f] \in Seq(prog.value)
      BY <1>1 DEF IsModule, Func
    <2> QED
      BY <1>2, <2>1 DEF Func, FuncsOf
  <1>4. ASSUME NEW f \in Func, NEW i \in Code(f)
        PROVE  \A j \in DOMAIN i.src : i.src[j] \in prog.value
    <2>1. i.src \in Seq(prog.value)
      BY <1>1 DEF IsModule, Func, Code
    <2> QED
      BY <1>2, <2>1
  <1>5. ASSUME NEW op, NEW s \in InstsOf(prog, op)
        PROVE  s[1] \in Func /\ s[2] \in Code(s[1]) /\ s[2].op = op
    BY DEF InstsOf, Func, Code
  <1>6. ASSUME NEW s \in Phis
        PROVE  s[1] \in Func /\ s[2] \in Code(s[1]) /\ s[2].dst \in prog.value
    BY <1>1, <1>5 DEF Phis, IsModule, Func, Code
  <1>7. ASSUME NEW s \in Site
        PROVE  /\ s[1] \in Func /\ s[2] \in Code(s[1])
               /\ s[2].dst \in prog.value /\ Called(s[2]) \in prog.value
    BY <1>1, <1>5 DEF Site, IsModule, Func, Code
  <1> QED
    BY <1>3, <1>4, <1>6, <1>7

\* What the builder starts from is between pairs of a function and a value.
LEMMA StartTyped ==
  ASSUME prog \in Program
  PROVE  /\ IntraPVVals \subseteq Pair \X Func
         /\ IntraPVBinds \subseteq Pair \X Pair
         /\ DirectCalls \subseteq Site \X Func
  <1>1. \A s \in Phis : ResultPair(s) \in Pair
    BY Operands DEF ResultPair, FVPair, Pair
  <1>2. \A s \in Phis : \A v \in Incoming(s) : FVPair(s, v) \in Pair
    BY Operands DEF Incoming, FVPair, Pair
  <1>3. IntraPVVals \subseteq Pair \X Func
    BY <1>1 DEF IntraPVVals
  <1>4. IntraPVBinds \subseteq Pair \X Pair
    BY <1>1, <1>2 DEF IntraPVBinds
  <1> QED
    BY <1>3, <1>4 DEF DirectCalls

\* So is what a call passes to callees that have a parameter for each argument.
LEMMA PassedTyped ==
  ASSUME prog \in Program, NEW s \in Site, NEW F, F \subseteq Func,
         \A f \in F : Args(s) \subseteq DOMAIN prog.param[f]
  PROVE  /\ ParamVals(s, F) \subseteq Pair \X Func
         /\ ParamBinds(s, F) \cup RetBinds(s, F) \subseteq Pair \X Pair
  <1>1. \A f \in F : \A j \in Args(s) : <<f, prog.param[f][j]>> \in Pair
    BY Operands DEF Pair
  <1>2. \A j \in Args(s) : FVPair(s, s[2].src[j]) \in Pair
    BY Operands DEF Pair, FVPair, Args
  <1>3. ParamVals(s, F) \subseteq Pair \X Func
    BY <1>1 DEF ParamVals
  <1>4. ParamBinds(s, F) \subseteq Pair \X Pair
    BY <1>1, <1>2 DEF ParamBinds
  <1>5. \A f \in F : \A v \in RetVals(f) : <<f, v>> \in Pair
    <2> SUFFICES ASSUME NEW f \in F, NEW v \in RetVals(f) PROVE v \in prog.value
      BY DEF Pair
    <2>1. PICK i \in Code(f) : \E j \in DOMAIN i.src : v = i.src[j]
      BY DEF RetVals
    <2> QED
      BY <2>1, Operands
  <1>6. ResultPair(s) \in Pair
    BY Operands DEF ResultPair, FVPair, Pair
  <1>7. RetBinds(s, F) \subseteq Pair \X Pair
    BY <1>5, <1>6 DEF RetBinds
  <1> QED
    BY <1>3, <1>4, <1>7

LEMMA InitTypes == Init => TypeOK
  <1> SUFFICES ASSUME Init PROVE TypeOK
    OBVIOUS
  <1>1. prog \in Program /\ IsModule(prog)
    BY ProgramAssumption DEF Init
  <1>2. pvVals \subseteq Pair \X Func /\ pvBinds \subseteq Pair \X Pair /\ callGraph \subseteq Site \X Func
    BY <1>1, StartTyped DEF Init
  <1>3. keys = {e[1] : e \in callGraph} /\ keys \subseteq Site
    BY <1>2 DEF Init
  <1>4. todo \subseteq Pair /\ key = <<>> /\ left = {}
    BY <1>2 DEF Init
  <1>5. at \in 1 .. Len(prog.call) + 1
    BY <1>1, InitControl, CallsInOrder DEF Init
  <1> QED
    BY <1>1, <1>2, <1>3, <1>4, <1>5 DEF Init, TypeOK

\* The sets the types are made of depend on the module alone.
LEMMA FrozenTypes ==
  ASSUME prog' = prog
  PROVE  Func' = Func /\ Pair' = Pair /\ Site' = Site
  BY DEF Func, Pair, Site

LEMMA StepTypes ==
  ASSUME ControlOK, LeftBound, TypeOK, ArgumentsFit', [Next]_vars
  PROVE  TypeOK'
  <1>1. prog' = prog
    BY Frozen
  <1>2. Func' = Func /\ Pair' = Pair /\ Site' = Site
    BY <1>1, FrozenTypes
  <1>3. /\ Len(prog.call) \in Nat /\ DOMAIN prog.call = 1 .. Len(prog.call)
        /\ Site = {prog.call[i] : i \in DOMAIN prog.call}
    BY CallsInOrder
  <1>4. \A R, X, Y, x : R \subseteq X \X Y => Image(R, x) \subseteq Y
    BY DEF Image
  <1>5. \A R, X, Y : R \subseteq X \X Y => {e[1] : e \in R} \subseteq X
    OBVIOUS
  <1>6. ASSUME NEW u \in todo, TakeKey(u) PROVE TypeOK'
    <2>1. left' \subseteq Pair /\ key' \in Pair /\ todo' \subseteq Pair
      BY <1>4, <1>6 DEF TakeKey, TypeOK
    <2> QED
      BY <1>1, <1>2, <1>6, <2>1 DEF TakeKey, TypeOK
  <1>7. ASSUME NEW v \in left, MergeBinds(v) PROVE TypeOK'
    <2> DEFINE new == Image(pvBinds, v) \ Image(pvBinds, key)
    <2>1. Image(pvBinds, v) \subseteq Pair
      BY <1>4 DEF TypeOK
    <2>2. left' \subseteq left \cup new /\ pvBinds' = pvBinds \cup {<<key, w>> : w \in new}
      BY <1>7 DEF MergeBinds
    <2>3. key \in Pair
      <3>1. <<key, v>> \in pvBinds
        BY InImageRelated DEF LeftBound, ControlOK
      <3> QED
        BY <3>1 DEF TypeOK
    <2>4. left' \subseteq Pair /\ pvBinds' \subseteq Pair \X Pair
      BY <2>1, <2>2, <2>3 DEF TypeOK
    <2> QED
      BY <1>1, <1>2, <1>7, <2>4 DEF MergeBinds, TypeOK
  <1>8. CASE StartBuild
    BY <1>1, <1>2, <1>3, <1>8 DEF StartBuild, TypeOK
  <1>9. CASE VisitCall
    <2> DEFINE s == prog.call[at]
               F == Image(callGraph', s)
    <2>1. s \in Site /\ at' \in 1 .. Len(prog.call) + 1
      BY <1>3, <1>9 DEF VisitCall, TypeOK
    <2>2. Found(s) \subseteq Func
      <3>1. \A v : Image(pvVals, v) \subseteq Func
        BY <1>4 DEF TypeOK
      <3> QED
        BY <3>1 DEF Found
    <2>3. callGraph' = callGraph \cup {<<s, f>> : f \in Found(s)}
      BY <1>9 DEF VisitCall
    <2>4. callGraph' \subseteq Site \X Func
      BY <2>1, <2>2, <2>3 DEF TypeOK
    <2>5. F \subseteq Func
      BY <1>4, <2>4
    <2>6. \A f \in F : <<s, f>> \in callGraph'
      BY <2>4 DEF Image
    <2>7. \A f \in F : Args(s) \subseteq DOMAIN prog.param[f]
      <3>1. \A e \in callGraph' : Args(e[1]) \subseteq DOMAIN prog.param[e[2]]
        BY <1>1 DEF ArgumentsFit, Args
      <3> QED
        BY <2>6, <3>1
    <2>8. /\ pvVals' = pvVals \cup ParamVals(s, F)
          /\ pvBinds' = pvBinds \cup ParamBinds(s, F) \cup RetBinds(s, F)
      BY <1>9 DEF VisitCall
    <2>9. /\ ParamVals(s, F) \subseteq Pair \X Func
          /\ ParamBinds(s, F) \cup RetBinds(s, F) \subseteq Pair \X Pair
      <3> HIDE DEF F, s
      <3> QED
        BY <2>1, <2>5, <2>7, PassedTyped DEF TypeOK, ControlOK
    <2>10. pvVals' \subseteq Pair \X Func /\ pvBinds' \subseteq Pair \X Pair
      <3> HIDE DEF F, s
      <3> QED
        BY <2>8, <2>9 DEF TypeOK
    <2>11. /\ keys' = IF F # {} \/ LooksUp(s) THEN keys \cup {s} ELSE keys
           /\ UNCHANGED <<phase, todo, key, left>> /\ changed' \in BOOLEAN
      BY <1>9 DEF VisitCall, TypeOK
    <2>12. {e[1] : e \in callGraph'} \subseteq keys' /\ keys' \subseteq Site
      <3>1. ASSUME NEW e \in callGraph' PROVE e[1] \in keys'
        <4>1. CASE e \in callGraph
          BY <4>1, <2>11 DEF TypeOK
        <4>2. CASE e[1] = s
          <5>1. e = <<s, e[2]>>
            BY <4>2, <2>4
          <5>2. F # {}
            BY <5>1, RelatedInImage
          <5> QED
            BY <4>2, <5>2, <2>11
        <4> QED
          BY <4>1, <4>2, <2>3
      <3>2. keys' \subseteq Site
        BY <2>1, <2>11 DEF TypeOK
      <3> HIDE DEF s, F
      <3> QED
        BY <3>1, <3>2
    <2> HIDE DEF s, F
    <2> QED
      BY <1>1, <1>2, <2>1, <2>4, <2>10, <2>11, <2>12 DEF TypeOK
  <1>10. CASE EndRound
    <2>1. {e[1] : e \in pvBinds} \subseteq Pair
      BY <1>5 DEF TypeOK
    <2> QED
      BY <1>1, <1>2, <1>10, <2>1 DEF EndRound, TypeOK
  <1>11. CASE UNCHANGED vars
    BY <1>1, <1>2, <1>11 DEF vars, TypeOK
  <1> QED
    BY <1>6, <1>7, <1>8, <1>9, <1>10, <1>11 DEF Next, Finished

\* The maps of the pass hold what their types say, as long as no call is bound to a function
\* it has too many arguments for. A call of printf is; the parameter asked for is then past
\* the end of the callee's list.
THEOREM TypeCorrect == Spec => ([]ArgumentsFit => []TypeOK)
  <1>1. Init => TypeOK /\ ControlOK /\ LeftBound
    BY InitTypes, InitControl DEF Init, LeftBound
  <1>2. /\ ControlOK /\ LeftBound /\ TypeOK /\ ArgumentsFit' /\ [Next]_vars
        => ControlOK' /\ LeftBound' /\ TypeOK'
    BY StepTypes, StepLeft, StepControl
  <1> QED
    BY <1>1, <1>2, PTL DEF Spec
=============================================================================
