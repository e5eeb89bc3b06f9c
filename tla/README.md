# Verification of the interpreter and the two analyses

The repository holds three course projects on top of Clang and LLVM:

| part | source | what it does |
|---|---|---|
| assignment 1 | `assignment1/src/Environment.h`, `ASTInterpreter.cpp` | interprets a C subset by walking Clang's AST |
| assignment 2 | `assignment2/src/LLVMAssignment.cpp` | builds a call graph from flow-insensitive bindings of function pointers |
| assignment 3 | `assignment3/src/Dataflow.h` | generic worklist solvers, backward and forward |
| | `assignment3/src/Liveness.h` | a liveness pass, the example client of the backward solver |
| | `assignment3/src/FuncPtr.h`, `FuncPtr.cpp` | a flow-sensitive points-to analysis, client of the forward solver |
| drivers | `assignment3/src/LLVMAssignment.cpp`, `main` of assignment 2 | read bitcode, run mem2reg, run the pass once |
| judges | `assignment*/judge` | compare what is printed with the comment at the end of a test |

## Inventory

**Solvers (Dataflow.h).** State: a worklist of blocks and, per block, the value on
entry and on exit. Operations: take a block, merge the neighbours, run the visitor over
its instructions, requeue the neighbours on a change. The worklist is a
`std::set<BasicBlock *>`, so its order is that of addresses. Correct when it ends and
when no block is left that has not seen what its neighbours hold.

**Liveness.** The visitor kills the value defined and adds the operands. Correct when
the result is liveness along paths.

**Points-to analysis (FuncPtr).** State: the points-to map flowing through a block;
shared by all functions: the solver's results, the callees found per call
(`CalleeMap`), the calls found per function (`CallerMap`), allocation sites
(`AllocMap`). The solver and the visitor call each other: at a call, `processCallInst`
merges the caller's facts into the callee's entry block and starts the solver on the
callee; when that returns, the exit of the callee becomes the caller's value. All these
activations write to one result map. Correct when the callees it lists include all
that a run calls, when facts reach callees, and when it ends.

**Call graph builder (assignment 2).** State: `pvVals` (pointer to functions),
`pvBinds` (pointer to pointers it may copy), `callGraph`. It alternates between
closing `pvBinds` under transitivity and visiting all calls, until a round adds
nothing. Correct when what it stops with is closed and minimal, whatever the order of
the maps, and includes all calls of a run.

**Interpreter (assignment 1).** State: `mStack`, a stack of frames, each with its
variables, its arrays, the values of the expressions evaluated in it, the call it has
started last and a flag `returned`; `addrValMap`, a map from addresses to values that
`malloc`ed places are read and written through. The first frame holds the globals, the
second belongs to `main`. Operations: one handler per kind of expression and statement.
A call pushes a frame, visits the body and pops the frame; a return writes its value into
the frame below and sets the flag, at which every later handler of the frame turns back.
Names are looked up from the top of the stack to the globals, through the callers. Correct
when it prints what the compiled program prints, as `judge/grade.sh` compares.

What is hard here is order, recursion and fixed points, not concurrency: one thread
runs each program, nothing is persisted. In the interpreter it is what is left of one
call, one turn of a loop or one block of the heap when the next begins. The orders come from sets and maps ordered by
addresses, of which a test sees one. `PROJECT.json` lists the hazards line by line.

## Modules

| module | models |
|---|---|
| `Liveness` | `compBackwardDataflow` with the liveness visitor, block by block and instruction by instruction |
| `LivenessProofs` | theorems about it |
| `PointsTo` | the points-to map and what one instruction does to it (`merge`, `updateDstPointsToWithSrcPointsTo`, `processLoadInst` ...) |
| `CalleeSearch`, `CalleeSearchProofs` | `getCallees` on an indirect call, step by step; theorems |
| `LinkCallees` | abstract: what the search promises its caller |
| `FuncPtr` | `runOnModule`, `compForwardDataflowInter` and `processCallInst` with the stack of activations |
| `FuncPtrProofs` | theorems about it: the solver's invariants; what calls keep |
| `IRMachine` | external: what the analysed instructions do when a module runs |
| `FuncPtrSound` | `FuncPtr`, then `IRMachine` on the same module |
| `FuncPtrSoundProofs` | the analysis lists whatever a run calls |
| `CallGraph` | the pass of assignment 2 |
| `CallGraphProofs` | theorems about it |
| `CallGraphSound` | `CallGraph`, then `IRMachine` on the same module |
| `CallGraphSoundProofs` | the call graph has whatever a run calls |
| `Interpreter` | the visitor and `Environment` of assignment 1, one action per handler |
| `InterpreterProofs` | theorems about it |
| `CProgram` | abstract: a run of a C program as its user sees it |
| `CSemantics` | external: what the language says a program prints |
| `InterpretsC` | `Interpreter` beside the meaning of its program, shown to implement `CProgram` |
| `CPrograms` | syntax trees to run on: constructors, seven tests of the repository |
| `Iteration` | induction on the natural numbers, and iterations of a function on finite sets: lemmas only |
| `IRModules`, `TestModules`, `CallGraphTests`, `FamilyModules` | modules to run on: constructors, tests of the repository instruction by instruction, families of small programs |
| `MC...` | instances for TLC |

How state corresponds to code:

* A `std::map` from a value to a set is a total function with `{}` for "no key" in
  `PointsTo` (no step of the code stores an empty set) and a set of pairs in
  `CallGraph`. There entries can be empty, and `keys` says which calls have one.
* The worklist's order, the order of callees and the first element of a `SmallPtrSet`
  are nondeterministic choices. Where the code treats the first element differently (a
  strong update, then merges), `PointsTo` returns the set of outcomes.
* The C++ stack is `stack` in `FuncPtr`: a frame is the function, its worklist, the
  block and position in hand, the value, and what is left of the loop over callees.
* A module of the analysed program is a record: functions, blocks, successors, code.
  Arithmetic, comparisons and debug intrinsics are left out of the code where no
  handler looks at them; an operand that can have no points-to set is `"undef"`.
* A syntax tree is a table of nodes in `Interpreter`; a node's number stands for its
  address. What is left of the C++ stack of the visitor is the `work` of each frame: a
  handler visits children and then does something, and puts just that in front of
  the work. A loop puts its body, step and condition and then itself.
* `mVars` and `mArrs` are one map from slots (a variable, or an array and an index), as
  they are searched alike. `initVars`, `getStmtVal`, `getExactVal` and `solveAddr` are the
  operators `DeclSlots`, `StmtVal`, `ExactVal` and `Scale`. An operator gives the empty set where the
  code's assertion fails; `Abort` is that step.
* `live`, the blocks `malloc` has given, is the C library's state; which free
  place it gives is a nondeterministic choice. `Cut` is the conversion of a `long long`
  to `int`, of `IntValues` values. The other arithmetic is unbounded: where the code's overflows, so does
  the C program's, which is undefined.

What the models take for granted is named where it is declared, and TLC evaluates it on
every module and program of the runs.

* `IsProgram` is what Clang guarantees of a tree: the arities; that a variable is a `Decl`
  object, so that no function declares a global, a parameter or another declaration's variable
  once more; that a declaration stands in a block or in the head of a `for`; and that a name is
  used where it is in scope (`IsScoped`). Each node has the names that are in scope there: a function's body
  knows the globals and the parameters, a child what its parent knows and what was declared
  before it in the same block or head. A function that is called is one of the four builtins
  or has a body, as the grammar of `src/README.md` has it: for another one, `call` would push a frame that
  `VisitCallExpr` never pops.
* `IsModule` (one in each of `FuncPtr` and `CallGraph`) is the shape of an LLVM module
  (functions have finitely many blocks, operands are values of the module, the constants `i32 0`, `i32 1`, ... differ) and what the
  code relies on and does not check: one exit block per function and no external callee
  but `malloc` for assignment 3; for assignment 2 no switch and no chain of
  unconditional branches where `canReach` asks for a condition. Modules that break these
  end in an assertion or in undefined behaviour of the analysis and are listed as hazards.
* `IsRunnable` (one in each of `CallGraphSound` and `FuncPtrSound`) is what LLVM's verifier adds for a module that is run:
  branches stay in their function, nothing branches to the entry block, phis have a value
  per incoming block; in `CallGraphSound` that phis, calls and returns are of their operands' types, in
  `FuncPtrSound` that registers have one definition and belong to one function. `NamedAssumption`: functions have names.
* `FunctionAssumption`, `FuncAssumption`: a function has finitely many blocks and
  variables, a points-to map finitely many values.
* `ReturningAssumption`, `PassingAssumption`, `FamilyCovered` (of `MCFuncPtr`, `MCCallGraph` and `MCFuncPtrSound`): the
  modules of the runs, those of the last without a `memcpy`, are such that three theorems below apply to them.

## Runs

| run | what it shows | instance |
|---|---|---|
| `liveness` | the solver ends; its result is liveness along paths; blocks off the worklist are up to date; values only grow | every SSA placement of the five instructions of a counting loop in three blocks, over every control flow graph of at most two successors per block, in every order |
| `callee_search` | the search ends, visits nothing twice and links what the called value may denote; the operator `SearchedFrom` of `PointsTo` is the same; the search implements `LinkCallees` | every points-to map over two functions and three values, cyclic maps included |
| `funcptr` | nested activations leave no block out of date; a callee's entry holds what its caller knows; calls keep pointers; the linked calls make no circle and no function is entered while it is being analysed; allocations have sites of their own; the expected callees | six tests of `assignment3/test` and 81 programs with a loop, in every order of blocks and callees |
| `funcptr_sound` | whatever the program calls is listed; the analysis does what `SoundPointsTo` takes of it (`WithinReach`) | 162 programs: three pointers, two statements out of nine (stores, stores through a pointer to a pointer, loads, memcpy, calls of two helpers), branch, optional loop |
| `call_graph` | the builder ends with a closed call graph, equal to the one defined by reachability, equal to the one the tests list; whatever the program calls is in it | six tests of `assignment2/test` and five programs passing function pointers round a loop through two selectors and a recursive one, with and without a constant condition, in every order |
| `interpreter` | it prints what C says and ends (`RunsAsInC`); a value returned goes to the call that waits for it; nothing happens between a return and the end of its function; callers' variables and half evaluated expressions stay what they are; an assignment never lands in a frame between the one at hand and the globals | seven tests of `assignment1/test`, 49 recursive programs and one that returns inside a loop, each with two inputs and three places for `malloc` |
| `test28`, `two_fields`, `failing_allocator`, `returns_literal`, `uncalled_callback`, `unbraced_body` | the findings below | one module or program each |

The 49 programs of `interpreter` take two statements out of seven for a function of an integer and a
pointer that calls itself: an early return of what the pointer points to, stores through it,
a call in the operand of a store, a loop over a local array, a return from two
blocks deep with a call in it, and a block allocated, used and freed in every call. `main` calls the function in the
arguments of itself. `ReturnInLoop` stays for ever in a loop on a frame that has returned, whose body would store, print and
call: `NothingAfterReturn` is checked there too. It reads a local that is never set, so that C gives it no
meaning and `RunsAsInC` asks nothing of it (`LoopAssumption`): where the meaning is defined, such a loop is a departure
from C (below).

### The interpreter implements C

`CProgram` is the promise: the next number of the program's meaning is printed, until all
are and the program ends; a program without a defined meaning may do anything. Its variables are
`meaning`, `shown` and `phase`. `InterpretsC` computes `meaning` at the start with
`CSemantics` and instantiates it with `shown <- output, phase <- status`; the run checks
`RunsAsInC`, the whole specification with its fairness. Visits and computations are
stutters, `CallOutput` is `Show`, `Finish` is `End`, and nothing is `Abort`.

`CSemantics` shares only the syntax with the interpreter. It is an evaluator where
a pointer is a block and an offset, so that its results depend on no address, a name means
the variable of its own function or a global, and a return ends whatever it is in. Reading what nobody has written,
leaving a block, dividing by zero or reading past the input is undefined, and the run of such a program
says nothing. The expectations of `test/run.sh` are checked of it, by
the assumption `ReferenceAssumption` of `MCInterpreter`. Its fuel excludes the members of the family that do not
end or take more than 60 calls and turns of loops.

Bounds. `MaxDepth` bounds the recursion over callees; it is larger than the call depth
of every module it is used on. `DepthBounded` is the reason why it excludes nothing: without a circle
of linked calls (`NoCircle`, an invariant of the run), no stack is longer than the module has functions. `MaxObjects` and `MaxCalls` bound
the execution of the analysed program: three allocations are what the family makes,
and two calls in progress what its helpers need (three where one of them recurses). A run of the
program through its loop is not bounded: objects are allocated before the loop, so its
states are finitely many. Three blocks are enough for a loop with a side entry and an exit, for
nested loops and for irreducible graphs. `IntValues` is 65536 for 2^32, and the places of `Addresses` are
small: an integer in a run stays far inside the range, and no program takes a
pointer for a condition. No program has more than two
blocks at a time, so that three places of 8 bytes always leave `malloc` one.

Fairness. `WF_vars(Next)`, or weak fairness of the composition: one thread runs the pass,
it never waits, and it always takes some next step. No action is
fair by itself (the interpreter's `WF` is the same one, over `NextC`); termination must hold for every order of the worklists. No fairness is
assumed of the choice among them.

Runs that execute the analysed program switch the deadlock check off: a run of a
program stops when `main` has returned or at a step the language leaves undefined.

### Findings

* **test28** (documentation): `test28.c` lists `plus` alone for line 22, the analysis
  computes `plus` and `minus`: the store in question goes through a pointer with two
  targets, which only adds.
* **two_fields**: a store through a pointer with one target replaces what the target
  holds, although the target stands for all fields of an object. After `s->f = f;
  s->g = g;` the call `s->f()` is listed with `g` only.
* **failing_allocator**: at a call that may be `malloc` or another function, the
  allocation is written to the caller's value, which is then replaced by the other
  callee's exit. The result of the call points nowhere, and what is stored through it is lost. It depends
  on the order of the callees.
* **returns_literal**: assignment 2 gives a call whose callee returns a function by name
  a binding to a pair without values; a call of the result has no callee.
* **uncalled_callback**: assignment 2 prints the first callee of an entry that has none.
* **unbraced_body**: the interpreter visits the children of a loop's body, not the body. Of
  `for (i = 0; i < 2; i = i + 1) g = g + i;` the sum is computed and never assigned. The
  grammar of `src/README.md` has any statement there.

Not runs, but met on the way. `assignment2/test/test14.c` lists `plus` for line 32, where the
builder finds `minus` as well; it ignores the order of instructions.
Allocation sites in assignment 3 are the shared constants `i32 0`, `i32 1`, ..., so
storing the integer 0 through a pointer copies the points-to set of site 0
(`FamilyModules!TaggedPointer`). A memcpy through a pointer that may be `x` or `y` makes the analysis forget what
`y` held when `x` is written to: `processCallInst` replaces the set of each target (`FuncPtr.cpp:239`), where its
comment takes the union (`:227`). `CalleesComplete` fails on `FamilyModules!MemCpyTwoTargets`.

The recursion of assignment 3 over callees need not end on a program without recursion:

    t1(cb) { cb(); }     x() { t2(leaf); }     main() { t1(x); t2(y); }
    t2(cb) { cb(); }     y() { t1(leaf); }

No function runs twice at a time here. But once `y` has been analysed, the entry of each of `t1` and
`t2` keeps both callbacks, the analysis goes from `t1` to `x`, `t2`, `y` and into `t1`
again, and the C++ stack overflows (`FuncPtr.cpp:269`). On this module TLC finds `AnalysedOnce`
violated, and the stack at any bound; on the tests and families of the run it holds.

In the interpreter, the model shows five more departures from C:

* A return inside a loop does not leave the loop. All handlers turn back, the condition
  keeps the value it had, and `while (g < 1) { return 7; }` goes round for ever
  (`ASTInterpreter.cpp:119`).
* A return in `main` does nothing: the frame below has started no call, and `mreturn` gives
  up before it sets the flag (`Environment.h:481`). The tests only return from `main` at its end.
* A pointer with a subscript is looked up among the arrays and trips an assertion
  (`Environment.h:280`).
* The difference of two pointers stays in bytes (`Environment.h:330`).
* A pointer as a condition is cut to int, so that one with a low half of zeros is taken for
  null (`Environment.h:465`).

## Proofs

The theorems hold for every value of the constants: every function, points-to map,
module or program the assumptions above admit, of any size, and every order of sets and
maps. The invariants they state are those the runs check; the strengthenings were
checked on the instances of the runs before they were proved.

| theorem | states | holds under |
|---|---|---|
| `LivenessProofs!TypeCorrect`, `SettledCorrect`, `OnlyGrows`, `LeastSolution` | `TypeOK`, `SettledBlocks`, `Growing`; the result solves the equations and is the least | |
| `LivenessProofs!LiveAlongPaths` | `LiveOnPaths` | |
| `CalleeSearchProofs!TypeCorrect`, `NoRevisit`, `LinksCorrect`, `SearchImplements` | `TypeOK`, `VisitedOnce`, `LinksWhatIsDenoted`, `KeepsPromise` (refinement) | |
| `CalleeSearchProofs!SearchedFromCorrect` | `MatchesSearchedFrom` | |
| `FuncPtrProofs!TypeCorrect`, `EdgesFresh`, `CallerSeen`, `EntriesOnlyGrow`, `OwnSites` | `TypeOK`, `NoStaleEdge`, `CalleeSeesCaller`, `EntriesGrow`, `SitesApart` | |
| `FuncPtrProofs!CallsKeepPointers` | `CallKeepsPointers` | `[]Regular` |
| `FuncPtrProofs!AnalysedOnceAtATime`, `DepthBounded` | `AnalysedOnce`; no more activations than functions | `NoCircle`, state by state |
| `FuncPtrSoundProofs!SoundPointsTo` | `CalleesComplete` of `FuncPtrSound` | `[]Tractable`: `OneObjectPerSite(prog)` and `WithinReach` |
| `CallGraphProofs!ClosedCorrect`, `LeastCorrect`, `ExactCorrect` | `ClosedWhenDone`; the least closed maps; `ExactWhenDone` | |
| `CallGraphProofs!TypeCorrect` | `TypeOK` | `[]ArgumentsFit` |
| `CallGraphSoundProofs!SoundCallGraph` | `CalleesComplete` of `CallGraphSound` | `[](OnlyPasses(prog) /\ CallsMatch)` |
| `InterpreterProofs!TypeCorrect`, `ReturnsToCaller`, `QuietAfterReturn` | `TypeOK`, `CallPending`, `NothingAfterReturn` | |
| `InterpreterProofs!AssignsStayInScope`, `CallersKept` | `AssignsInScope`, `CallersUntouched` | |

The last column excludes modules and programs the property fails on, or that the argument
does not cover; each hypothesis is explained with its theorem, and the run of the property
satisfies it.

**Iteration.** The references of the specifications are iterations or speak of paths: "some
path of length `n`", "applied until nothing changes". The library's induction schemes take
an operator, so this module derives induction on a *set* of naturals from the
well-foundedness of the subset order on finite sets (`LeastNumber`, `InductionOnSet`), that the sequence
of iterates of a function exists (`IterationExists`), and that a growing one over a
finite set comes to rest (`ComesToRest`) at the least fixed point (`LeastFixedPoint`). `SearchedLeast` says it of the search
through a points-to map, for `CalleeSearch` and for `FuncPtr`.

**LivenessProofs.** The
inductive invariant says that the value in hand is what the exit value implies at the
position reached, that blocks off the worklist are up to date, that entry values never exceed
what exits imply, and that nothing exceeds any solution of the equations. The third part
is what makes `OnlyGrows` hold: `FinishBlock` assigns, and only because the old entry
lies below the new one does nothing get lost. `LeastSolution` follows at an empty
worklist. `LiveAlongPaths` turns equations into paths. What is live along paths is a solution, so by
`LeastSolution` the result has no more; and a value that a path reaches is in
any solution, by induction on the length of the path. Together the result is liveness, on
every control flow graph.

**CalleeSearchProofs.** Everything visited or waiting is
denoted, and visited values have their targets visited or waiting; at the end the
visited set is closed. `SearchImplements` is the refinement: a visit of a function is the
abstract `Link`, the last visit of another value `Return`, any other a stutter. That no
function is linked twice needs `NoRevisit`, that the last step of the search is not too early `LinksCorrect`.
`SearchedFromCorrect` is what allows `FuncPtr` to take the whole search in one step: `SearchedFrom` of
`PointsTo` iterates "add the targets" and ends, as the values are finitely many, at the least closed set.

**CallGraphProofs.** `ClosedCorrect`: the loop of `runOnModule` decides to stop on
`pvVals` and `pvBinds` alone, and merges a set while iterating over it, so that a
single quiet round must establish everything. The invariant `QuietRound` says what has been
looked at so far in a round that has added nothing: the pairs of bindings already
merged, then the calls already visited. `LeastCorrect`: every step stays below any maps closed
under the rules. Together, the result is the least closed one, hence unique: the
order of the maps cannot show in the output. `ExactCorrect` names that least one without
rounds or rules: the calls found by tracing called pointers back through the copies
(`TracedCalls`). The traced maps are closed, so nothing is in the result without
a trace; and each traced pair is in every closed maps, by induction on the number of copies.
`TypeCorrect` takes `ArgumentsFit`: `getArg` is asked for a parameter per argument
(`LLVMAssignment.cpp:325`, `:339`), and a call of `printf` goes past the end of the list. Nothing
in the code excludes it, and the hazard is listed.

**CallGraphSoundProofs.** `SoundCallGraph` relates the builder of assignment 2, which ignores the order of
instructions, memory and casts, with every run of the module: when the module only passes functions about as phis,
arguments and returned registers (`OnlyPasses`) and calls agree in type with their callees
(`CallsMatch`, as C asks), each function a run calls is among the callees of that call.
The invariant `RunInv` holds of all frames of the run at once (`Linked`): a register that holds a
function is a pointer and the function is among its values or those it is bound to;
below every frame is a call that the call graph has with this callee; and every frame is at a
block that `canReach` takes for reachable, so no binding is dropped on constant conditions. A step of a
phi, a call or a return follows a rule `Closed` has, and `ClosedCorrect` says that the builder stopped with
closed maps. The finding returns_literal is a module outside `OnlyPasses`. `OnlyPasses` also
excludes a block that branches to itself, whose branch `canReach` takes for the one that leads into it.

**FuncPtrProofs.** `TypeCorrect`, `EntriesOnlyGrow`, `EdgesFresh`, `CallerSeen`, for every
module, every depth of recursion and every order of blocks, callees and targets. All rest
on `TInv`: besides the types it says that the blocks of a function under analysis all have a
result and that its worklist stays inside the function (`StackOK`); without this, reading the
predecessors' results or a callee's exit could meet a block without one. That
`mapAllocSite` never runs out of sites needs that a module's allocations are finitely
many. `EdgesFresh` adds that predecessors of a block with a result have one (`PredsSeen`). Its
argument is the one the code relies on silently: entering a function, for the first
time or again, puts *all* its blocks on the worklist, so whatever is merged into its
entry from outside is looked at before that activation ends. Once no activation is
running, no worklist holds anything, so no edge is stale. `CallerSeen` combines the growth of entries
(`Kept`) with the fact that a caller stands still while its callee runs. It needs
`CalleesHaveBodies`: `malloc` is never entered from a call. `OwnSites` is by counting: the
sites in use are the first constants, as many as there are allocations seen (`SitesCounted`), and the next one is new.

`CallsKeepPointers`: `processCallInst` replaces the caller's facts by
the union of its callees' exits (`FuncPtr.cpp:273`); that this takes no value's points-to set away
is nowhere in the code. The argument (`ExitReached`): a
callee's entry has what its caller knows (`CallerSeen`); no instruction leaves a value without
a set that had one (`BlocksKeep`, `FramesKeep`, `TopKeeps`); no edge is stale when the callee
returns (`EdgesFresh`); hence along the edges from its entry to its exit nothing is lost.
Three things can break it, and `Regular` excludes them: a callee that cannot reach its exit
(`ReachesExit`) has nothing to give back; a call that may be `malloc` among others drops the
allocation (`MallocAlone`; this is the finding failing_allocator); and a function
entered while it is being analysed (`AnalysedOnce`) returns to an activation whose callee is
not finished. Calls nested below the one at hand are covered by `CallersCall`, as each frame below the top stands at a call.

`AnalysedOnceAtATime` says when the last of these cannot happen. The invariant `NestInv`: every frame but the top one stands
at a call that is linked to the function of the next frame, and the callees a loop has still to visit are callees of
its call. So from a function that is on the stack twice, the frames in between lead back to it along linked calls, and
their functions are a circle (`TwiceIsCircle`). Then the functions on the stack are distinct, and `DepthBounded` counts
them. `NoCircle` speaks of the result alone and not of the recursion: it can be read off a call graph. It
cannot be had from the module not recursing, as the example with `t1` and `t2` shows, whose links do make a circle.

**FuncPtrSoundProofs.** `SoundPointsTo`: in every order of blocks, callees and targets, and for every run of the
module, a call lists what is called there. The difficulty is that no state of the solver describes a run. A
function is analysed again for every call of it, with facts that change; strong updates
take facts away; and a call's facts are replaced by what its callees had at their exits *then*. So the invariant
(`Sound`) keeps a history that is in no variable: a set of *summaries*, one per activation that has ended, each with
the facts before every instruction and the calls the function was entered from. A summary is consistent
(`SummaryOK`): each instruction takes the facts before it to those after it (`StepOK`), and each edge keeps them. For a call
this means that every callee found has a summary which was given the caller's facts and has given back its
own (`Summarised`). More links, sites and summaries later keep a summary consistent (`StepMore`), so that nothing
the solver does afterwards spoils it. `NextSound` proves this action by action: the activations on the
stack are summaries in the making (`ActivationOf`), a loop over callees has each of them waiting, in hand or merged (`LoopOK`).

When the analysis is done, a run is followed through the summaries (`RunOK`). Each invocation has one; those that wait
gave their facts to the next and will take its exit's (`Awaits`); and whatever a register, an object or a function's
name holds anywhere in the run is known to the facts where the *top* one stands (`Cover`). It is enough to look there because
the solver hands all of a caller's facts to the callee and back. Each machine step keeps `RunOK`: `AssignMoves`,
`AllocateMoves`, `WriteMoves`, `BranchMoves`, `InvokeMoves`, `ReturnMoves`. A return's value is known to the caller because
`processReturnInst` gives it to the call sites linked before, and the call was linked before its callee was entered (`callers`).

What it takes, and why:

* `OneObjectPerSite(prog)`: a store through one target replaces what the *site* holds, which is right only if the site is one
  object of one field. So objects have one field (the finding two_fields is outside), and each allocation is executed once: in the entry
  of a function nothing calls (`NobodyCalls`). `malloc` is called by name. There is no `memcpy`, which fails for two targets
  (`MemCpyTwoTargets`). No constant that names a site is a register or a function.
* `MallocAlone`: the finding failing_allocator is outside.
* `NoCircle`: a function that is entered while it is being analysed has no summary yet that its caller could go by.
* `FunctionsKept`: an entry block first seen through a call starts from what the caller holds, not from `initval`, so that a function
  name denotes itself there only if the caller has not lost it.
* `ArgumentsFit`: no call is linked to a function with fewer parameters than it has arguments.

All but the first speak of what the analysis computes, not of the execution, and can be read off its result;
`WithinReach` is their conjunction. It is an invariant of the run, and `FamilyCovered` in `MCFuncPtrSound` has TLC
evaluate `OneObjectPerSite` on the 128 members of the family without a `memcpy`: the theorem applies to them.
`RunnableAssumption` is what LLVM's verifier guarantees of a module (`IsRunnable`).

**InterpreterProofs.** For every
program `IsProgram` admits, every input and every `malloc`. `TypeCorrect` includes that the stack always has two
frames, which `back()` and `mStack[size() - 2]` rely on, and that all values
read for a step are integers. `ReturnsToCaller` needs that a frame's last started call does not change while
frames lie on it. `QuietAfterReturn` is the hard one: only `visit` asks for the flag, so at a return nothing
else may be left in the work. That holds because a return is a statement and no
expression contains one. The invariant says so as `Ordered`: behind a task of a
statement there are only visits and loop tests. With it, a frame that has
returned has only such tasks (`FrameInv`), and neither can change a value. A handler that
wrapped a statement in an expression would break the proof at `HandlerOK`.

`CallersKept` is about the lookup through the callers' frames (`Environment.h:228-278`). In a recursion the same
variables are bound in many frames, so types say nothing. The invariant `Apart` says that
globals are bound in the first frame and in no other: `initVars` of a function and the parameters
of a call bind variables of functions only. An assignment to a variable in scope then finds it at the
top or in the first frame (`PlacesInScope`).

That what is assigned *is* in scope at run time is `AssignsStayInScope`. C's scopes are about places in the text;
the interpreter has one map per function and runs handlers from a list of work, where a loop puts its
body again and a return turns the rest into nothing. The invariant `ScopeInv` joins the two: each name that a
task needs (`Needs`) is global, or bound in its frame, or introduced by a declaration earlier in the same work
(`Planned`, `InScope`), which holds when a block or a loop is unfolded because its children know no more than `IsScoped` allows; and a
variable's slots are bound together or not at all (`Whole`), so that an array found in a frame is all there. A function
that has returned needs nothing, since its visits do nothing. The parameters of `main` are never bound
(`init` pushes its frame without arguments), so its frame is excepted; while `main` runs, it is the top, and no
caller lies between it and the globals. An element past the end of an array is bound nowhere, and `Abort` is the step.
`CallersKept` then needs no hypothesis about the program.

Checked by TLC only:

* Termination of all components, and `RunsAsInC` as a whole: liveness. The safety part of
  `RunsAsInC` compares with `CSemantics`, which is recursive over the syntax tree.
* `CalleesComplete` of `FuncPtrSound` on programs with `memcpy` and with allocations that are repeated; it is false in general
  (two_fields, failing_allocator). `WithinReach`, which is what the theorem takes.
* `NoCircle`, which is false in general (the module with `t1` and `t2` above): it is what the theorems take.
* `ExpectedCallees` of both analyses, which compares with what the comments of the tests list.

## Not modelled

* Of assignment 1: the type `char`, of which `Environment.h` leaves the sizes to do, string
  literals and calls through pointers, which its grammar does not have, and the debug output.
* Output: `dumpCallees`, `printDataflowResult`, the debug dumps; of `dumpCallGraph` only that it
  asks every entry for its first callee. It does so per line of code, so a second call on
  the same line hides the problem.
* LLVM, Clang, mem2reg, the drivers and the judge scripts.

## Plan

1. Done: solvers, points-to analysis, call graph builder, their comparison with an
   execution; the interpreter, its comparison with C and the refinement; theorems about all of them.
2. Done: the comparisons with paths, with the stepwise search and with tracing, the soundness of the call
   graph, what calls keep, the depth of the recursion, scopes and the frames of callers, for every size.
3. Done: under which conditions `CalleesComplete` of `FuncPtrSound` holds for every module (`SoundPointsTo`), as the
   theorem of `CallGraphSoundProofs` does for assignment 2.
