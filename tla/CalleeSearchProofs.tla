------------------------- MODULE CalleeSearchProofs -------------------------
(***************************************************************************)
(* The search for callees links exactly the functions the called value may *)
(* denote, for every set of values and every points-to map.                *)
(***************************************************************************)
EXTENDS CalleeSearch, Iteration, TLAPS

(***************************************************************************)
(* What was visited and what waits stays within every closed set; what     *)
(* hangs below a visited value was visited or waits; and the functions     *)
(* linked are the functions visited.                                       *)
(***************************************************************************)
Contained == \A X \in SUBSET Value : Closed(X) => worklist \cup visited \subseteq X

Covered ==
    /\ called \in worklist \cup visited
    /\ \A u \in visited \ Func : funcPtrMap[u] \subseteq worklist \cup visited

IInv ==
    /\ TypeOK
    /\ VisitedOnce
    /\ Contained
    /\ Covered
    /\ linked = visited \cap Func

LEMMA IInvInit == Init => IInv
BY FuncAssumption
DEF Init, IInv, TypeOK, VisitedOnce, Contained, Covered, Closed

LEMMA IInvNext == IInv /\ [Next]_vars => IInv'
<1>. SUFFICES ASSUME IInv, [Next]_vars PROVE IInv'
    OBVIOUS
<1>1. ASSUME NEW u \in Value, Visit(u) PROVE IInv'
  <2>1. /\ TypeOK /\ VisitedOnce /\ Contained /\ Covered /\ linked = visited \cap Func
        /\ u \in worklist /\ visited' = visited \cup {u}
        /\ funcPtrMap' = funcPtrMap /\ called' = called
        /\ funcPtrMap[u] \subseteq Value
      BY <1>1 DEF IInv, Visit, TypeOK
  <2>2. CASE u \in Func
    <3>1. worklist' = worklist \ {u} /\ linked' = linked \cup {u}
        BY <1>1, <2>2 DEF Visit, IsFunction, LinkCallSiteAndCallee
    <3>2. TypeOK' /\ VisitedOnce'
        BY <2>1, <2>2, <3>1 DEF TypeOK, VisitedOnce
    <3>3. Contained'
        BY <2>1, <3>1 DEF Contained, Closed
    <3>4. Covered'
        BY <2>1, <2>2, <3>1 DEF Covered
    <3>. QED BY <2>1, <2>2, <3>1, <3>2, <3>3, <3>4 DEF IInv
  <2>3. CASE u \notin Func
    <3>1. worklist' = (worklist \ {u}) \cup (funcPtrMap[u] \ visited') /\ linked' = linked
        BY <1>1, <2>3 DEF Visit, IsFunction, NewTargets
    <3>2. TypeOK' /\ VisitedOnce'
        BY <2>1, <2>3, <3>1 DEF TypeOK, VisitedOnce
    <3>3. Contained'
      <4>1. ASSUME NEW X \in SUBSET Value, Closed(X)
            PROVE  worklist' \cup visited' \subseteq X
        <5>1. worklist \cup visited \subseteq X
            BY <2>1, <4>1 DEF Contained
        <5>2. funcPtrMap[u] \subseteq X
            BY <2>1, <2>3, <4>1, <5>1 DEF Closed
        <5>. QED BY <2>1, <3>1, <5>1, <5>2
      <4>. QED BY <2>1, <4>1 DEF Contained, Closed
    <3>4. Covered'
        BY <2>1, <3>1 DEF Covered
    <3>. QED BY <2>1, <2>3, <3>1, <3>2, <3>3, <3>4 DEF IInv
  <2>. QED BY <2>2, <2>3
<1>2. CASE UNCHANGED vars
    BY <1>2 DEF vars, IInv, TypeOK, VisitedOnce, Contained, Covered, Closed
<1>. QED BY <1>1, <1>2 DEF Next, Finished

LEMMA Inductive == Spec => []IInv
BY IInvInit, IInvNext, PTL DEF Spec

\* The worklist and the visited set hold values of the module, and only functions are linked.
THEOREM TypeCorrect == Spec => []TypeOK
<1>1. IInv => TypeOK
    BY DEF IInv
<1>. QED BY <1>1, Inductive, PTL

\* No value is ever on the worklist again after its visit, cycles included.
THEOREM NoRevisit == Spec => []VisitedOnce
<1>1. IInv => VisitedOnce
    BY DEF IInv
<1>. QED BY <1>1, Inductive, PTL

LEMMA DoneLinks == IInv => LinksWhatIsDenoted
<1>. SUFFICES ASSUME IInv, Done PROVE linked = Denoted \cap Func
    BY DEF LinksWhatIsDenoted
<1>1. Closed(visited)
    BY DEF IInv, Covered, Done, Closed
<1>2. visited = Denoted
    BY <1>1 DEF IInv, TypeOK, Contained, Denoted
<1>. QED BY <1>2 DEF IInv

\* getCallees adds to CalleeMap[CI] the functions the called value may denote
\* through the points-to sets, and no other.
THEOREM LinksCorrect == Spec => []LinksWhatIsDenoted
BY DoneLinks, Inductive, PTL

-----------------------------------------------------------------------------
(***************************************************************************)
(* The operator FuncPtr.tla uses for the search.                           *)
(***************************************************************************)

\* SearchedFrom is the least set that holds v and what its members that are not
\* functions point to.
LEMMA SearchedFromLeast ==
    ASSUME NEW S \in [Value -> SUBSET Value], NEW v \in Value
    PROVE  LET R == SearchedFrom(S, Func, v)
           IN  /\ R \in SUBSET Value /\ v \in R
               /\ \A u \in R \ Func : S[u] \subseteq R
               /\ \A Y : v \in Y /\ (\A u \in Y \ Func : S[u] \subseteq Y) => R \subseteq Y
<1>1. DOMAIN S = Value /\ IsFiniteSet(Value)
    BY FuncAssumption
<1>2. SearchedFrom(S, Func, v) = Searched(Value, S, Func, v)
    BY <1>1 DEF SearchedFrom, Searched
<1>. QED BY <1>1, <1>2, SearchedLeast

\* The operator by which FuncPtr.tla takes the whole search in one step is what the
\* search of FuncPtr.cpp links, element by element, in every order of its worklist.
THEOREM SearchedFromCorrect == Spec => []MatchesSearchedFrom
<1>1. IInv => MatchesSearchedFrom
  <2>. SUFFICES ASSUME IInv, Done
                PROVE  linked = SearchedFrom(funcPtrMap, Func, called) \cap Func
      BY DEF MatchesSearchedFrom
  <2>. DEFINE R == SearchedFrom(funcPtrMap, Func, called)
  <2>1. funcPtrMap \in [Value -> SUBSET Value] /\ called \in Value
      BY DEF IInv, TypeOK
  <2>2. /\ R \in SUBSET Value /\ called \in R
        /\ \A u \in R \ Func : funcPtrMap[u] \subseteq R
        /\ \A Y : called \in Y /\ (\A u \in Y \ Func : funcPtrMap[u] \subseteq Y) => R \subseteq Y
      BY <2>1, SearchedFromLeast
  <2>. HIDE DEF R
  <2>3. visited \subseteq R
      BY <2>2 DEF IInv, Contained, Closed
  <2>4. R \subseteq visited
      BY <2>2 DEF IInv, Covered, Done
  <2>. QED BY <2>3, <2>4 DEF IInv, R
<1>. QED BY <1>1, Inductive, PTL

-----------------------------------------------------------------------------
(* The search implements LinkCallees.                                      *)

LEMMA PromiseInit == Init => Promise!Init
BY FuncAssumption DEF Init, Promise!Init, Done

LEMMA WithinDenoted == IInv => linked \subseteq Denoted \cap Func
BY DEF IInv, TypeOK, Contained, Denoted

LEMMA SameDenoted ==
  ASSUME funcPtrMap' = funcPtrMap, called' = called
  PROVE  Denoted' = Denoted
BY DEF Denoted, Closed

\* A visit of a function links it, for the first time; a visit of another value links
\* nothing and may be the last.
LEMMA PromiseStep == IInv /\ IInv' /\ [Next]_vars => [Promise!Next]_(Promise!vars)
<1>. SUFFICES ASSUME IInv, IInv', [Next]_vars PROVE [Promise!Next]_(Promise!vars)
    OBVIOUS
<1>1. ASSUME NEW u \in Value, Visit(u) PROVE [Promise!Next]_(Promise!vars)
  <2>1. (Denoted \cap Func)' = Denoted \cap Func
      BY <1>1, SameDenoted DEF Visit
  <2>2. ~Done
      BY <1>1 DEF Visit, Done
  <2>3. linked' \subseteq Denoted \cap Func
      BY <2>1, WithinDenoted DEF IInv, TypeOK, VisitedOnce, Contained, Covered, Closed, Denoted
  <2>4. Done' => linked' = Denoted \cap Func
      BY <2>1, DoneLinks DEF LinksWhatIsDenoted, IInv, TypeOK, VisitedOnce, Contained, Covered,
                             Closed, Denoted, Done
  <2>5. CASE u \in Func
    <3>1. linked' = linked \cup {u} /\ u \notin linked
        BY <1>1, <2>5 DEF Visit, IsFunction, LinkCallSiteAndCallee, IInv, VisitedOnce
    <3>2. u \in (Denoted \cap Func) \ linked
        BY <2>3, <3>1
    <3>3. Done' \in {FALSE, linked' = Denoted \cap Func}
        BY <2>4 DEF Done
    <3>. QED BY <2>1, <2>2, <3>1, <3>2, <3>3 DEF Promise!Next, Promise!Link
  <2>6. CASE u \notin Func
    <3>1. linked' = linked
        BY <1>1, <2>6 DEF Visit, IsFunction
    <3>2. CASE Done'
        BY <2>1, <2>2, <2>4, <3>1, <3>2 DEF Promise!Next, Promise!Return, Done
    <3>3. CASE ~Done'
        BY <2>1, <2>2, <3>1, <3>3 DEF Promise!vars, Done
    <3>. QED BY <3>2, <3>3
  <2>. QED BY <2>5, <2>6
<1>2. CASE UNCHANGED vars
  <2>1. UNCHANGED <<Denoted \cap Func, linked, Done>>
      BY <1>2, SameDenoted DEF vars, Done
  <2>. QED BY <2>1 DEF Promise!vars
<1>. QED BY <1>1, <1>2 DEF Next, Finished

\* The search implements its promise on every points-to map, cyclic ones included, and in
\* every order of the worklist. That it returns at all is Termination, which TLC checks.
THEOREM SearchImplements == Spec => KeepsPromise
BY PromiseInit, PromiseStep, IInvInit, IInvNext, Inductive, PTL DEF Spec, KeepsPromise, Promise!Spec
=============================================================================
