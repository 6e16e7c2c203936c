---------------------------- MODULE FusionSearch ----------------------------
(***************************************************************************)
(* The search for an optimization of a list of relative operations         *)
(* (burn-fusion/src/search): the operations are split into blocks that     *)
(* share no tensor, blocks are merged when that lets a fuser go on, each   *)
(* block is given to its best fuser, and what the fusers leave between     *)
(* fused operations is searched again.                                     *)
(*                                                                         *)
(* Fusers are external.  One takes operations of its own variants up to a  *)
(* length, closes at the first other operation, is ready with one operation*)
(* and scores its length, like the TestOptimizationBuilder of the tests.   *)
(***************************************************************************)
EXTENDS RelativeOps, FiniteSetsExt, Functions

CONSTANTS
  Fusers,       \* a sequence of [takes |-> variants, longest |-> length]
  MaxBlocks     \* config().fusion.beam_search.max_blocks

ASSUME SearchAssumption ==
  /\ MaxBlocks \in Nat \ {0}
  /\ \A i \in DOMAIN Fusers : Fusers[i].longest \in Nat \ {0}

\* OperationFuser: what a fuser that was given ops in this order has taken.
Fused(fuser, ops) ==
  Max({n \in 0..Len(ops) : n <= fuser.longest /\ \A i \in 1..n : ops[i].ir \in fuser.takes})

Closed(fuser, ops) == Fused(fuser, ops) < Len(ops) \/ Fused(fuser, ops) = fuser.longest

-----------------------------------------------------------------------------
(***************************************************************************)
(* Block: operations and their positions in the stream.                    *)
(***************************************************************************)
Block(ops, ordering) == [ops |-> ops, ordering |-> ordering]
EmptyBlock == Block(<<>>, <<>>)

BlockIds(b) == UNION {Nodes(op) : op \in Range(b.ops)}
StartPos(b) == Min(Range(b.ordering))

SortBlocks(blocks) == SortSeq(blocks, LAMBDA a, b : StartPos(a) < StartPos(b))

ContainsTensors(b, ids) == BlockIds(b) \cap ids # {}

RegisterIn(b, op, pos) == Block(Append(b.ops, op), Append(b.ordering, pos))

BlockStillOptimizing(b) == \E i \in DOMAIN Fusers : ~Closed(Fusers[i], b.ops)

HasReadyOptimization(b) == \E i \in DOMAIN Fusers : Fused(Fusers[i], b.ops) > 0

Together(a, b) == Block(a.ops \o b.ops, a.ordering \o b.ordering)

\* merge()
CanMerge(a, b) ==
  LET ab == Together(a, b)
  IN \/ BlockStillOptimizing(ab)
     \/ /\ ~HasReadyOptimization(a) /\ ~HasReadyOptimization(b)
        /\ HasReadyOptimization(ab)

Strategy(fused, ordering) == [fused |-> fused, ordering |-> ordering]

\* optimize(): the first of the fusers with the best score takes a prefix.
OptimizeBlock(b) ==
  IF HasReadyOptimization(b)
  THEN Strategy(TRUE, SubSeq(b.ordering, 1, Max({Fused(Fusers[i], b.ops) : i \in DOMAIN Fusers})))
  ELSE Strategy(FALSE, b.ordering)

-----------------------------------------------------------------------------
(***************************************************************************)
(* merging.rs.                                                             *)
(***************************************************************************)
Full(block) == [kind |-> "Full", merged |-> <<block>>, failed |-> <<>>]
Partial(merged, failed) == [kind |-> "Partial", merged |-> merged, failed |-> failed]
Fail == [kind |-> "Fail", merged |-> <<>>, failed |-> <<>>]

MergeTwo(a, b) ==
  IF CanMerge(a, b) THEN Full(Together(a, b))
  ELSE IF CanMerge(b, a) THEN Full(Together(b, a))
  ELSE Fail

Accumulated(acc) ==
  IF ~acc.success THEN Fail
  ELSE IF acc.failed = <<>> THEN Full(acc.base)
  ELSE Partial(<<acc.base>>, acc.failed)

MergeAccumulator(blocks) ==
  LET merge(acc, b) ==
        IF CanMerge(acc.base, b)
        THEN [acc EXCEPT !.base = Together(acc.base, b), !.success = TRUE]
        ELSE [acc EXCEPT !.failed = Append(@, b)]
  IN Accumulated(FoldLeft(merge, [base |-> Head(blocks), failed |-> <<>>, success |-> FALSE],
                          Tail(blocks)))

\* The attempts of merge_blocks_step2(): the blocks that are merged by now, and
\* those that failed.
Attempted(blocks, failed) == [merged |-> blocks, failed |-> failed]
Tried(result, before) ==
  IF result.kind = "Fail" THEN before
  ELSE Attempted(result.merged, before.failed \o result.failed)
Attempt(blocks, failed) == Tried(MergeAccumulator(blocks), Attempted(blocks, failed))

AttemptMany(blocks, failed) ==
  IF Len(blocks) > 1 THEN Attempt(blocks, failed) ELSE Attempted(blocks, failed)

PartialsWithFailed(partials) ==
  IF partials.failed # <<>> THEN Attempt(partials.merged \o partials.failed, <<>>)
  ELSE partials
FullsWithFailed(fulls) ==
  IF fulls.merged # <<>> THEN Attempt(fulls.merged \o fulls.failed, <<>>) ELSE fulls
All(fulls, partials) ==
  IF fulls.merged \o partials.merged = <<>> THEN fulls
  ELSE Attempt(fulls.merged \o partials.merged, fulls.failed)

Final(end) ==
  IF end.merged = <<>> THEN Fail
  ELSE IF end.failed = <<>> /\ Len(end.merged) = 1 THEN Full(end.merged[1])
  ELSE Partial(end.merged, end.failed)

WithPartials(full, partials) ==
  Final(All(FullsWithFailed(AttemptMany(full, partials.failed)), partials))

MergeBlocksStep2(step1) ==
  WithPartials(step1.full, PartialsWithFailed(AttemptMany(step1.partial, step1.failed)))

RECURSIVE MergeBlocks(_)

\* merge_blocks_step1(): two halves, and what is left by the division.
MergeBlocksStep1(blocks) ==
  LET size == Len(blocks) \div 2
      steps == (Len(blocks) + size - 1) \div size
      part(i) == SubSeq(blocks, (i - 1) * size + 1, Min({i * size, Len(blocks)}))
      add(acc, i, result) ==
        CASE result.kind = "Full" -> [acc EXCEPT !.full = @ \o result.merged]
          [] result.kind = "Partial" ->
               [acc EXCEPT !.partial = @ \o result.merged, !.failed = @ \o result.failed]
          [] OTHER -> [acc EXCEPT !.failed = @ \o part(i)]
      step(acc, i) == add(acc, i, MergeBlocks(part(i)))
  IN FoldLeft(step, [full |-> <<>>, partial |-> <<>>, failed |-> <<>>],
              [i \in 1..steps |-> i])

AfterStep1(step1) ==
  IF step1.failed = <<>> /\ Len(step1.full \o step1.partial) = 1
  THEN Full((step1.full \o step1.partial)[1])
  ELSE MergeBlocksStep2(step1)

MergeBlocks(blocks) ==
  IF blocks = <<>> THEN Fail
  ELSE IF Len(blocks) = 1 THEN Full(blocks[1])
  ELSE IF Len(blocks) = 2 THEN MergeTwo(blocks[1], blocks[2])
  ELSE AfterStep1(MergeBlocksStep1(blocks))

-----------------------------------------------------------------------------
(***************************************************************************)
(* StreamOptimizer.                                                        *)
(***************************************************************************)
EmptySearch == [blocks |-> <<>>, length |-> 0, stopped |-> FALSE]

NewBlock(search, op) ==
  [search EXCEPT !.blocks = Append(@, RegisterIn(EmptyBlock, op, search.length + 1)),
                 !.length = @ + 1]

\* register_inner(): the blocks that know a tensor of the operation take it.
Accepts(b, op, force) == force \/ ContainsTensors(b, Nodes(op))
Taken(search, op, force) ==
  [search EXCEPT !.blocks = [i \in DOMAIN @ |->
                               IF Accepts(@[i], op, force)
                               THEN RegisterIn(@[i], op, search.length + 1) ELSE @[i]],
                 !.length = @ + 1]
AnyAccepts(search, op) == \E i \in DOMAIN search.blocks : Accepts(search.blocks[i], op, FALSE)

Stop(search) == [search EXCEPT !.stopped = TRUE]

\* merge_blocks(): the blocks that know a tensor of the operation, or all.
MergeOutcome(search, others, result) ==
  [kind |-> result.kind,
   search |-> IF result.kind = "Fail" THEN search
              ELSE [search EXCEPT !.blocks =
                      SortBlocks(others \o result.merged \o result.failed)]]

MergeStep(search, op, all) ==
  LET chosen(b) == all \/ ContainsTensors(b, Nodes(op))
      merging == SelectSeq(search.blocks, chosen)
      others == SelectSeq(search.blocks, LAMBDA b : ~chosen(b))
  IN IF Len(merging) <= 1 THEN [kind |-> "NoNeed", search |-> search]
     ELSE MergeOutcome(search, others, MergeBlocks(merging))

\* register_max_block()
AfterMaxMerge(merged, op) ==
  IF Len(merged.blocks) >= MaxBlocks THEN Stop(merged)
  ELSE IF AnyAccepts(merged, op) THEN Taken(merged, op, FALSE)
  ELSE NewBlock(merged, op)

RegisterMaxBlock(search, op) ==
  IF MaxBlocks = 1 THEN Taken(search, op, TRUE)
  ELSE IF AnyAccepts(search, op) THEN Taken(search, op, FALSE)
  ELSE IF Len(search.blocks) < MaxBlocks THEN NewBlock(search, op)
  ELSE AfterMaxMerge(MergeStep(search, op, TRUE).search, op)

\* Mutant: blocks that the operation connects are not merged.
RegisterApart(search, op) ==
  IF search.stopped THEN search
  ELSE IF search.blocks = <<>> THEN NewBlock(search, op)
  ELSE RegisterMaxBlock(search, op)

\* register(): the blocks that the operation connects must merge into one.
AfterMerge(step, op) ==
  IF step.kind \in {"Fail", "Partial"} THEN Stop(step.search)
  ELSE RegisterMaxBlock(step.search, op)

Register(search, op) ==
  IF search.stopped THEN search
  ELSE IF search.blocks = <<>> THEN NewBlock(search, op)
  ELSE AfterMerge(MergeStep(search, op, FALSE), op)

\* still_optimizing()
StillOptimizing(search) ==
  /\ ~search.stopped
  /\ search.blocks = <<>> \/ \E i \in DOMAIN search.blocks : BlockStillOptimizing(search.blocks[i])

\* BlocksOptimizer::merging_pass()
AfterPass(sorted, result) ==
  IF result.kind = "Fail" THEN sorted ELSE SortBlocks(result.merged \o result.failed)

MergingPass(blocks) ==
  IF Len(blocks) = 1 THEN blocks
  ELSE AfterPass(SortBlocks(blocks), MergeBlocks(SortBlocks(blocks)))

Order(strategies) == FlattenSeq([i \in DOMAIN strategies |-> strategies[i].ordering])

\* BlocksOptimizer::optimize(): the positions before the last one that is
\* resolved, and not resolved themselves.
Holes(ordering) ==
  SelectSeq([i \in 1..Max(Range(ordering)) |-> i], LAMBDA i : i \notin Range(ordering))

\* Mutant: the positions among the holes are taken for positions in the stream.
MapOrderingNot(strategies, mapping) == strategies

MapOrdering(strategies, mapping) ==
  [i \in DOMAIN strategies |->
     [strategies[i] EXCEPT !.ordering = [j \in DOMAIN @ |-> mapping[@[j]]]]]

RECURSIVE Optimize(_, _)

\* The strategies for the holes, searched for one after the other.
RECURSIVE FillHoles(_, _)
Filled(strategies, holes, ops) ==
  MapOrdering(strategies, holes)
    \o FillHoles(SubSeq(holes, Len(Order(strategies)) + 1, Len(holes)), ops)

FillHoles(holes, ops) ==
  LET inHoles == [i \in DOMAIN holes |-> ops[holes[i]]]
  IN IF holes = <<>> THEN <<>>
     ELSE Filled(Optimize(FoldLeft(Register, EmptySearch, inHoles), inHoles), holes, ops)

\* optimize(): the strategies, in the order in which they are executed.
WithHoles(strategies, ops) == strategies \o FillHoles(Holes(Order(strategies)), ops)
OptimizeBlocks(blocks) == [i \in DOMAIN blocks |-> OptimizeBlock(blocks[i])]

Optimize(search, ops) == WithHoles(OptimizeBlocks(MergingPass(search.blocks)), ops)
=============================================================================
