-------------------------- MODULE FusionProcessor ---------------------------
(***************************************************************************)
(* The processors of the streams (burn-fusion/src/stream/execution) and    *)
(* the store of execution plans they share (stream/store): a processor     *)
(* follows the plans that may fit its queue with a policy, explores the    *)
(* queue when none fits, caches what the exploration found as a plan, and  *)
(* executes plans.                                                         *)
(*                                                                         *)
(* process() runs to its end under the server's lock.  A step of the model *)
(* is one turn of its loop, so that its progress can be stated.            *)
(***************************************************************************)
EXTENDS FusionSearch

CONSTANTS
  Streams,
  Offered,      \* the variants the programs use
  Shapes,       \* the shapes of their tensors
  Data,         \* the values of scalars, dimensions and options
  MaxQueue,     \* bound on the length of a queue
  MaxForeign,   \* bound on the tensors in a queue that were there before
  MaxOps        \* bound on the operations of a behaviour

ASSUME ProcessorAssumption ==
  /\ Offered \subseteq DOMAIN RowOf
  /\ MaxQueue \in Nat /\ MaxForeign \in Nat /\ MaxOps \in Nat

VARIABLES
  queue,        \* OperationQueue::global
  policy,       \* Policy
  explorer,     \* Explorer
  store,        \* ExecutionPlanStore::plans
  active,       \* the call of process() that runs
  executed,     \* the last execution
  panicked,
  calls         \* operations registered, for the bound

vars == <<queue, policy, explorer, store, active, executed, panicked, calls>>

None == [stream |-> "none"]

-----------------------------------------------------------------------------
(***************************************************************************)
(* Plans and the store.                                                    *)
(***************************************************************************)
OnOperations(ops) == [kind |-> "OnOperations", ops |-> ops]
OnSync == [kind |-> "OnSync", ops |-> <<>>]
Always == [kind |-> "Always", ops |-> <<>>]

\* program is kept for the properties: the operations that were explored.
Plan(operations, triggers, strategies, program) ==
  [operations |-> operations, triggers |-> triggers, strategies |-> strategies,
   program |-> program]

\* find(): the plans that start with an operation, the oldest first.
PlansStartingWith(plans, op) ==
  SelectSeq([i \in DOMAIN plans |-> i], LAMBDA i : plans[i].operations[1] = op)

AddTrigger(plans, id, trigger) ==
  IF trigger \in Range(plans[id].triggers) THEN plans
  ELSE [plans EXCEPT ![id].triggers = Append(@, trigger)]

-----------------------------------------------------------------------------
(***************************************************************************)
(* Policy: the candidates are the plans that may still fit, available those*)
(* that fit and whose triggers are followed.                               *)
(***************************************************************************)
NewPolicy == [candidates |-> <<>>, availables |-> <<>>, found |-> 0, size |-> 0]

\* OperationsValidator::update()
Validated(ops, added, position) ==
  IF position > Len(ops) \/ ops[position] # added THEN "Invalidated"
  ELSE IF Len(ops) = position THEN "Found"
  ELSE "Validating"

Unchecked == -1

Available(plans, id) ==
  [id |-> id, size |-> Len(plans[id].operations),
   triggers |-> [i \in DOMAIN plans[id].triggers |->
                   [kind |-> plans[id].triggers[i].kind, state |-> "Validating",
                    checked |-> Unchecked]]]

\* The validator of the i-th trigger of a plan follows the added operation.
TriggerUpdated(plan, validator, i, added) ==
  IF validator.kind # "OnOperations" THEN validator
  ELSE IF validator.checked = Unchecked THEN [validator EXCEPT !.checked = 0]
  ELSE [validator EXCEPT
          !.state = IF @ = "Validating"
                    THEN Validated(plan.triggers[i].ops, added, validator.checked + 1) ELSE @,
          !.checked = @ + 1]

Triggered(available) ==
  \E i \in DOMAIN available.triggers :
    \/ available.triggers[i].kind = "Always"
    \/ available.triggers[i].kind = "OnOperations" /\ available.triggers[i].state = "Found"

\* Mutant: a plan stays a candidate when the operation differs from its own.
UpdateFirstOnly(p, plans, op) ==
  LET candidates == IF p.size = 0 THEN PlansStartingWith(plans, op) ELSE p.candidates
      found == SelectSeq(candidates, LAMBDA c : Len(plans[c].operations) = p.size + 1)
      availables == p.availables \o [i \in DOMAIN found |-> Available(plans, found[i])]
      updated == [i \in DOMAIN availables |->
                    [availables[i] EXCEPT !.triggers = [j \in DOMAIN @ |->
                       TriggerUpdated(plans[availables[i].id], @[j], j, op)]]]
      triggered == SelectSeq(updated, Triggered)
  IN [candidates |-> SelectSeq(candidates, LAMBDA c : Len(plans[c].operations) > p.size + 1),
      availables |-> updated,
      found |-> IF triggered # <<>> THEN Head(triggered).id ELSE p.found,
      size |-> p.size + 1]

\* update()
Update(p, plans, op) ==
  LET candidates == IF p.size = 0 THEN PlansStartingWith(plans, op) ELSE p.candidates
      is(state) == SelectSeq(candidates,
                     LAMBDA c : Validated(plans[c].operations, op, p.size + 1) = state)
      availables == p.availables \o
                      [i \in DOMAIN is("Found") |-> Available(plans, is("Found")[i])]
      updated == [i \in DOMAIN availables |->
                    [availables[i] EXCEPT !.triggers = [j \in DOMAIN @ |->
                       TriggerUpdated(plans[availables[i].id], @[j], j, op)]]]
      triggered == SelectSeq(updated, Triggered)
  IN [candidates |-> is("Validating"), availables |-> updated,
      found |-> IF triggered # <<>> THEN Head(triggered).id ELSE p.found,
      size |-> p.size + 1]

Explore == [kind |-> "Explore"]
Defer == [kind |-> "Defer"]
Execute(id) == [kind |-> "Execute", id |-> id]
Panic == [kind |-> "Panic"]

ActionLazy(p, length) ==
  IF \/ p.candidates # <<>>
     \/ \E a \in Range(p.availables) :
          \/ a.size = length
          \/ \E t \in Range(a.triggers) : t.kind = "OnOperations" /\ t.state = "Validating"
  THEN Defer ELSE Explore

ActionSync(p, plans, length) ==
  LET availables == SelectSeq(p.availables, LAMBDA a : a.size = length)
      candidates == SelectSeq(p.candidates, LAMBDA c : Len(plans[c].operations) = length)
  IN IF availables # <<>> THEN Execute(Head(availables).id)
     ELSE IF candidates # <<>> THEN Execute(Head(candidates))
     ELSE Explore

\* action(), on a list of operations of that length.
PolicyAction(p, plans, length, mode) ==
  IF p.size < length THEN Panic
  ELSE IF p.found # 0 THEN Execute(p.found)
  ELSE IF mode = "lazy" THEN ActionLazy(p, length)
  ELSE ActionSync(p, plans, length)

-----------------------------------------------------------------------------
(***************************************************************************)
(* Explorer.                                                               *)
(***************************************************************************)
NewExplorer == [search |-> EmptySearch, deferred |-> 0, optimizing |-> TRUE]

\* A deferred operation is registered while that can help.
Searched(e, search) ==
  [e EXCEPT !.search = search, !.optimizing = StillOptimizing(search)]
RegisterDeferred(e, op) == IF e.optimizing THEN Searched(e, Register(e.search, op)) ELSE e

\* Mutant: the explored operations still count as deferred.
ExploredDeferred(e, ops) ==
  FoldLeft(RegisterDeferred, e, SubSeq(ops, Len(ops) - e.deferred + 1, Len(ops)))

\* update()
Explored(e, ops) ==
  [FoldLeft(RegisterDeferred, e, SubSeq(ops, Len(ops) - e.deferred + 1, Len(ops)))
     EXCEPT !.deferred = 0]

-----------------------------------------------------------------------------
(***************************************************************************)
(* The steps of process().                                                 *)
(***************************************************************************)
\* Mutant: the policy forgets the operations that stay in the queue.
ResetForgets(s, plans, ops) ==
  /\ explorer' = [explorer EXCEPT ![s] = [NewExplorer EXCEPT !.deferred = Len(ops)]]
  /\ policy' = [policy EXCEPT ![s] = NewPolicy]

\* Mutant: the explorer takes what stays in the queue for explored.
ResetExplored(s, plans, ops) ==
  /\ explorer' = [explorer EXCEPT ![s] = NewExplorer]
  /\ policy' = [policy EXCEPT ![s] = FoldLeft(LAMBDA p, op : Update(p, plans, op), NewPolicy, ops)]

\* reset(), with the operations that stay in the queue.
Reset(s, plans, ops) ==
  /\ explorer' = [explorer EXCEPT ![s] = [NewExplorer EXCEPT !.deferred = Len(ops)]]
  /\ policy' = [policy EXCEPT ![s] = FoldLeft(LAMBDA p, op : Update(p, plans, op), NewPolicy, ops)]

\* StreamSegment::execute() and reset().
RunPlan(s, plans, id) ==
  LET order == Order(plans[id].strategies)
      left == SubSeq(queue[s], Len(order) + 1, Len(queue[s]))
  IN /\ store' = plans
     /\ IF Len(order) > Len(queue[s])
        THEN panicked' = TRUE /\ UNCHANGED <<queue, policy, explorer, executed>>
        ELSE /\ queue' = [queue EXCEPT ![s] = left]
             /\ executed' = [program |-> SubSeq(queue[s], 1, Len(order)), plan |-> plans[id]]
             /\ Reset(s, plans, Relative(left))
             /\ UNCHANGED panicked

\* on_exploration_completed(): the store with the plan, and its id.
Cached(p, plans, ops, strategies, program, mode) ==
  LET length == Len(Order(strategies))
      left == SubSeq(ops, length + 1, Len(ops))
      trigger == IF mode = "sync" THEN OnSync
                 ELSE IF left = <<>> THEN Always ELSE OnOperations(left)
      known == PolicyAction(p, plans, length, "sync")
  IN IF known.kind = "Execute"
     THEN [plans |-> AddTrigger(plans, known.id, trigger), id |-> known.id]
     ELSE [plans |-> Append(plans, Plan(SubSeq(ops, 1, length), <<trigger>>, strategies,
                                        SubSeq(program, 1, length))),
           id |-> Len(plans) + 1]

Return == active' = None

\* Action::Explore: the exploration goes on with the next operation, or its
\* strategies become a plan, which is executed.
GoOn(s, e) ==
  /\ explorer' = [explorer EXCEPT ![s] = e]
  /\ IF e.deferred = 0 THEN Return ELSE UNCHANGED active
  /\ UNCHANGED <<queue, policy, store, executed, panicked>>

Abort ==
  /\ panicked' = TRUE
  /\ UNCHANGED <<queue, policy, explorer, store, active, executed>>

Complete(s, cached) ==
  /\ RunPlan(s, cached.plans, cached.id)
  /\ IF explorer'[s].deferred = 0 THEN Return ELSE UNCHANGED active

Completing(s, ops, strategies, mode) ==
  IF Len(Order(strategies)) > Len(ops) THEN Abort
  ELSE Complete(s, Cached(policy[s], store, ops, strategies, queue[s], mode))

Exploring(s, ops, e, mode) ==
  IF mode = "lazy" /\ e.optimizing THEN GoOn(s, e)
  ELSE IF e.search.blocks = <<>> THEN Abort
  ELSE Completing(s, ops, Optimize(e.search, ops), mode)

ExploreQueue(s, ops, mode) ==
  IF explorer[s].deferred > Len(ops) THEN Abort
  ELSE Exploring(s, ops, Explored(explorer[s], ops), mode)

\* Action::Execute
ExecutePlan(s, id, mode) ==
  /\ RunPlan(s, IF mode = "sync" THEN AddTrigger(store, id, OnSync) ELSE store, id)
  /\ UNCHANGED active

\* Action::Defer
DeferQueue(mode) ==
  /\ IF mode = "lazy" THEN Return /\ UNCHANGED panicked
     ELSE panicked' = TRUE /\ UNCHANGED active
  /\ UNCHANGED <<queue, policy, explorer, store, executed>>

Act(action, s, ops, mode) ==
  CASE action.kind = "Explore" -> ExploreQueue(s, ops, mode)
    [] action.kind = "Defer" -> DeferQueue(mode)
    [] action.kind = "Execute" -> ExecutePlan(s, action.id, mode)
    [] OTHER -> Abort

Turn(s, ops, mode) ==
  IF ops = <<>>
  THEN Return /\ UNCHANGED <<queue, policy, explorer, store, executed, panicked>>
  ELSE Act(PolicyAction(policy[s], store, Len(ops), mode), s, ops, mode)

Iterate ==
  /\ active # None /\ ~panicked
  /\ Turn(active.stream, Relative(queue[active.stream]), active.mode)
  /\ UNCHANGED calls

-----------------------------------------------------------------------------
(***************************************************************************)
(* The programs.                                                           *)
(***************************************************************************)
Known(s) == UNION {Range(TensorsOf(op)) : op \in Range(queue[s])}
KnownIds(s) == {t.id : t \in Known(s)}

\* The tensors in the fields of an operation that are, or are not, results.
TensorsIn(op, results) ==
  UNION {Range(op.args[i].tensors) :
           i \in {j \in DOMAIN op.args : (RowOf[op.ir].fields[j] \in {U, P}) = results}}

\* The tensors that no operation in the queue makes.
Foreign(s) ==
  {t.id : t \in UNION {TensorsIn(op, FALSE) : op \in Range(queue[s])}}
    \ {t.id : t \in UNION {TensorsIn(op, TRUE) : op \in Range(queue[s])}}

\* How many tensors a field has.
Lengths(field) ==
  IF field \in {T, U} THEN {1} ELSE IF field \in {O, P} THEN 0..1
  ELSE IF field = L THEN 1..2 ELSE {0}

DataOf(field) == IF field \in {S, D, E} THEN Data ELSE {0}

\* The smallest ids that no operation in the queue is about.
NewIds(s, n) == CHOOSE ids \in kSubset(n, 1..(Cardinality(KnownIds(s)) + n) \ KnownIds(s)) :
                  \A i \in 1..(Cardinality(KnownIds(s)) + n) \ (KnownIds(s) \cup ids) :
                    \A j \in ids : j < i

\* An operation on tensors that are known in the queue and on others; its
\* results are new, and a tensor has one shape.
Programs(s, ir) ==
  LET fields == RowOf[ir].fields
  IN UNION {
       LET slots == {<<f, i>> \in (DOMAIN fields) \X (1..2) : i <= lengths[f]}
           new == NewIds(s, Cardinality(slots))
           choices == Known(s) \cup {Tensor(id, shape) : id \in new, shape \in Shapes}
           legal(ts) ==
             /\ \A x, y \in slots : ts[x].id = ts[y].id =>
                  /\ ts[x].shape = ts[y].shape
                  /\ x = y \/ (fields[x[1]] \notin {U, P} /\ fields[y[1]] \notin {U, P})
             /\ \A x \in slots : fields[x[1]] \in {U, P} => ts[x].id \in new
             /\ \A i \in {ts[x].id : x \in slots} \cap new : \A j \in new :
                  j < i => \E x \in slots : ts[x].id = j
             /\ Cardinality(Foreign(s)) +
                  Cardinality(new \ {ts[x].id : x \in {y \in slots : fields[y[1]] \in {U, P}}})
                    - Cardinality(new \ {ts[x].id : x \in slots}) <= MaxForeign
       IN {Operation(ir, [f \in DOMAIN fields |->
               Argument([i \in 1..lengths[f] |-> ts[<<f, i>>]], data[f])]) :
             ts \in {c \in [slots -> choices] : legal(c)},
             data \in {d \in [DOMAIN fields -> Data \cup {0}] :
                         \A f \in DOMAIN fields : d[f] \in DataOf(fields[f])}}
       : lengths \in {l \in [DOMAIN fields -> 0..2] :
                        \A f \in DOMAIN fields : l[f] \in Lengths(fields[f])}}

\* An operation joins the queue; process() in lazy mode starts with
\* on_new_operation().
RegisterOp(s) ==
  /\ active = None /\ ~panicked
  /\ calls < MaxOps /\ Len(queue[s]) < MaxQueue
  /\ \E ir \in Offered : \E op \in Programs(s, ir) :
       /\ queue' = [queue EXCEPT ![s] = Append(@, op)]
       /\ policy' = [policy EXCEPT ![s] = Update(@, store, Last(Relative(queue'[s])))]
  /\ explorer' = [explorer EXCEPT ![s].deferred = @ + 1]
  /\ active' = [stream |-> s, mode |-> "lazy"]
  /\ calls' = calls + 1
  /\ UNCHANGED <<store, executed, panicked>>

\* A drain of the stream.
StartSync(s) ==
  /\ active = None /\ ~panicked
  /\ queue[s] # <<>>
  /\ active' = [stream |-> s, mode |-> "sync"]
  /\ UNCHANGED <<queue, policy, explorer, store, executed, panicked, calls>>

Init ==
  /\ queue = [s \in Streams |-> <<>>]
  /\ policy = [s \in Streams |-> NewPolicy]
  /\ explorer = [s \in Streams |-> NewExplorer]
  /\ store = <<>>
  /\ active = None
  /\ executed = None
  /\ panicked = FALSE
  /\ calls = 0

Next ==
  \/ Iterate
  \/ \E s \in Streams : RegisterOp(s) \/ StartSync(s)

Spec == Init /\ [][Next]_vars
-----------------------------------------------------------------------------
(***************************************************************************)
(* Properties.                                                             *)
(***************************************************************************)
Ran == executed # None

\* A plan is only executed for the program it was explored for, up to the
\* names of tensors, dimensions and scalars, whichever stream explored it and
\* whatever triggers it got since.
PlanForProgram == Ran => SameProgram(executed.plan.program, executed.program)

\* The strategies of a plan execute each operation that leaves the queue, once.
ExecutedOnce ==
  Ran => LET order == Order(executed.plan.strategies)
         IN /\ Range(order) = DOMAIN executed.program
            /\ Len(order) = Len(executed.plan.operations)

\* Operations that the search put in another order share no tensor.
DependenciesKept ==
  Ran => LET order == Order(executed.plan.strategies)
         IN \A i, j \in DOMAIN order :
              (i < j /\ order[j] < order[i]) =>
                Nodes(executed.program[order[i]]) \cap Nodes(executed.program[order[j]]) = {}

\* None of the internal errors of the policy, the processor, the explorer, the
\* store and the optimizer is reached.
NeverPanics == ~panicked

\* A sync returns with an empty queue.
SyncDrains ==
  [][(active # None /\ active' = None /\ active.mode = "sync")
       => queue'[active.stream] = <<>>]_vars

\* process() returns: a turn of its loop that goes on with another one has
\* executed an operation of the queue.
ProcessReturns ==
  [][(active # None /\ active' # None /\ ~panicked')
       => Len(queue'[active.stream]) < Len(queue[active.stream])]_vars
=============================================================================
