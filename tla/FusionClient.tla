---------------------------- MODULE FusionClient ----------------------------
(***************************************************************************)
(* The client side of the patched burn-fusion: tensors counted by their    *)
(* clones (tensor.rs), the wrappers that register operations (ops/,        *)
(* client.rs), and the closures that the server executes later.  Threads   *)
(* share tensors; StreamId::current() is the thread's stream.              *)
(*                                                                         *)
(* The server is the one MultiStream promises: an operation is queued on   *)
(* the caller's stream after the streams that still have work on its       *)
(* registered inputs were drained.  FusionMultiStream models how it keeps  *)
(* that promise, and where it does not.                                    *)
(***************************************************************************)
EXTENDS FloatOperations, IntOperations, BoolOperations, ModuleOperations,
        QuantizedOperations, Common, Functions

CONSTANTS
  Threads,      \* the client threads, and their streams
  Offered,      \* the operations the program uses
  Races,        \* two threads may use one tensor at the same time
  MaxTensors,   \* bound on the tensors when a call creates more
  MaxUses,      \* bound on the clones of a tensor in one call
  MaxCalls      \* bound on the client calls of a behaviour

AllOps == FloatOps \cup IntOps \cup BoolOps \cup ModuleOps \cup QuantizedOps

\* What an operation is described by; its optional inputs are among its inputs.
OpType ==
  {o \in [ir: Seq(STRING), ins: Seq(STRING), opt: SUBSET Nat, streams: SUBSET Nat,
          gets: Seq(Nat), outs: Seq(STRING), makes: SUBSET Nat, optouts: SUBSET Nat] :
     o.opt \subseteq DOMAIN o.ins}

ASSUME ClientAssumption ==
  /\ IsFiniteSet(Threads)
  /\ Offered \subseteq AllOps /\ Offered \subseteq OpType
  /\ Races \in BOOLEAN
  /\ MaxTensors \in Nat /\ MaxUses \in Nat /\ MaxCalls \in Nat

VARIABLES
  kind,      \* the tensors created so far: a sequence, the id is the index
  origin,    \* FusionTensor::stream
  count,     \* FusionTensor::count
  held,      \* the tensors a thread holds a clone of between two calls
  call,      \* the wrapper a thread is in
  queue,     \* the operations queued on a stream
  handles,   \* HandleContainer: the tensors that have a handle
  panicked,  \* a closure did not find a handle
  calls      \* client calls made, for the bound

vars == <<kind, origin, count, held, call, queue, handles, panicked, calls>>

Tensors == DOMAIN kind

Idle == [op |-> <<>>, args |-> <<>>, statuses |-> <<>>, owed |-> FALSE]

\* What tells two operations apart here: all but the variant.
Signatures == {[o EXCEPT !.ir = <<>>] : o \in Offered}

\* The closure takes the handle of every input, those of one kind in the order
\* of the into_ir() calls, the streams of all the inputs are registered, and
\* every output is stored.
Sound(op) ==
  /\ \A p \in DOMAIN op.ins : \E i \in DOMAIN op.gets : op.gets[i] = p
  /\ \A i, j \in DOMAIN op.gets :
       i < j /\ op.ins[op.gets[i]] = op.ins[op.gets[j]] => op.gets[i] < op.gets[j]
  /\ DOMAIN op.ins \subseteq op.streams
  /\ DOMAIN op.outs \subseteq op.makes

\* The kinds of tensors that the program uses.
Kinds == UNION {Range(o.ins) : o \in Signatures}

-----------------------------------------------------------------------------
(***************************************************************************)
(* The server.                                                             *)
(***************************************************************************)
Entry(reads, outs, drops) == [reads |-> reads, outs |-> outs, drops |-> drops]

\* The tensors that a closure uses for the last time.
Consumed(e) == {r.id : r \in {q \in Range(e.reads) : q.status = "ReadWrite"}}

\* execute(): the closure takes the handles one by one; the last use of a
\* tensor removes its handle.
Finds(e, have) ==
  \A i \in DOMAIN e.reads :
    /\ e.reads[i].id \in have
    /\ \A j \in DOMAIN e.reads :
         j < i => e.reads[j] # [id |-> e.reads[i].id, status |-> "ReadWrite"]

\* The handles after each of the operations of work.
After(work, have) ==
  LET after[k \in 0 .. Len(work)] ==
        IF k = 0 THEN have
        ELSE ((after[k - 1] \ Consumed(work[k])) \cup work[k].outs) \ work[k].drops
  IN after

Execute(work, have) ==
  LET after == After(work, have)
  IN /\ handles' = after[Len(work)]
     /\ panicked' = ~\A k \in DOMAIN work : Finds(work[k], after[k - 1])

Touches(s, ts) ==
  \E i \in DOMAIN queue[s] :
    LET e == queue[s][i]
    IN ts \cap (e.outs \cup e.drops \cup {r.id : r \in Range(e.reads)}) # {}

\* register(): the streams that still work on the tensors ts, registered with
\* the operation, are drained in some order; the operation is queued.
Submit(s, entry, ts, registered) ==
  LET drained == {r \in Threads \ {s} : Touches(r, ts)}
  IN /\ \E order \in Bijection(1 .. Cardinality(drained), drained) :
          Execute(Joined([i \in DOMAIN order |-> queue[order[i]]]), registered)
     /\ queue' = [r \in Threads |-> IF r \in drained THEN <<>>
                                    ELSE IF r = s THEN Append(queue[r], entry)
                                    ELSE queue[r]]

\* drop() of the last clone: a Drop operation, with the tensor's stream.
SubmitDrop(s, t) == Submit(s, Entry(<<>>, {}, {t}), {t}, handles)

-----------------------------------------------------------------------------
(***************************************************************************)
(* The clients.                                                            *)
(***************************************************************************)
\* Without Races a thread leaves alone the tensors of a wrapper that another
\* thread is inside.
MayUse(s, ts) ==
  /\ ~panicked
  /\ call[s] = Idle
  /\ Races \/ \A r \in Threads : ts \cap Range(call[r].args) = {}
  /\ calls < MaxCalls

\* Mutant: the last but one clone is taken for the last.
StatusEarly(n) == IF n <= 2 THEN "ReadWrite" ELSE "ReadOnly"

\* status()
StatusOf(n) == IF n <= 1 THEN "ReadWrite" ELSE "ReadOnly"

\* The last input of a call, and the inputs before one that are the same tensor.
LastOf(args) == CHOOSE p \in DOMAIN args : \A q \in DOMAIN args : q <= p
Earlier(args, p) == {q \in DOMAIN args : q < p /\ args[q] = args[p]}

\* into_ir() of one input after the other: the count is read, and the clone is
\* dropped at the end, which for the last input of the wrapper is a step of its
\* own.  With ReadWrite, which only further uses of the tensor can follow, the
\* count is raised before the drop lowers it.
Convert(args, counts) ==
  LET statuses == [p \in DOMAIN args |->
                     StatusOf(counts[args[p]] - Cardinality(Earlier(args, p)))]
      dropped(t) == {p \in DOMAIN args :
                       args[p] = t /\ statuses[p] = "ReadOnly" /\ p # LastOf(args)}
  IN [statuses |-> statuses,
      counts |-> [t \in Tensors |-> counts[t] - Cardinality(dropped(t))]]

Uses(args, t) == Cardinality({p \in DOMAIN args : args[p] = t})

\* A thread calls a wrapper with tensors it holds, cloned as often as they are
\* used; keep are the tensors it holds on to.
Begin(s, op, args, keep) ==
  LET used == Range(args)
      cloned == [t \in Tensors |->
                   IF t \notin used THEN count[t]
                   ELSE count[t] - 1 + Uses(args, t) + (IF t \in keep THEN 1 ELSE 0)]
      converted == Convert(args, cloned)
  IN /\ count' = converted.counts
     /\ held' = [held EXCEPT ![s] = @ \ (used \ keep)]
     /\ call' = [call EXCEPT ![s] =
                   [op |-> op, args |-> args, statuses |-> converted.statuses,
                    owed |-> IF args = <<>> THEN FALSE
                             ELSE converted.statuses[LastOf(args)] = "ReadOnly"]]
     /\ calls' = calls + 1
     /\ UNCHANGED <<kind, origin, queue, handles, panicked>>

CallWrapper(s) ==
  /\ MayUse(s, {})
  /\ Len(kind) < MaxTensors
  /\ \E op \in Signatures : \E present \in SUBSET op.opt :
       \E args \in [(DOMAIN op.ins \ op.opt) \cup present -> held[s]] :
         /\ MayUse(s, Range(args))
         /\ \A p \in DOMAIN args :
              kind[args[p]] = op.ins[p] /\ Uses(args, args[p]) <= MaxUses
         /\ \E keep \in SUBSET Range(args) : Begin(s, op, args, keep)

\* The drop of the last clone at the end of into_ir().
DropClone(s) ==
  /\ ~panicked
  /\ call[s].owed
  /\ LET t == call[s].args[LastOf(call[s].args)]
     IN /\ count' = [count EXCEPT ![t] = @ - 1]
        /\ IF StatusOf(count[t]) = "ReadWrite"
           THEN SubmitDrop(s, t)
           ELSE UNCHANGED <<queue, handles, panicked>>
  /\ call' = [call EXCEPT ![s].owed = FALSE]
  /\ UNCHANGED <<kind, origin, held, calls>>

\* create_empty_handle(): the outputs that are there, in order.
Outputs(op, args) == InOrder({i \in DOMAIN op.outs : i \in op.optouts => i \in DOMAIN args})

\* register(): all the inputs are converted.  The closure reads its inputs in
\* the order of gets, and stores the outputs of makes.
RegisterOp(s) ==
  /\ ~panicked
  /\ call[s] # Idle /\ ~call[s].owed
  /\ LET c == call[s]
         outputs == Outputs(c.op, c.args)
         id(i) == Len(kind) + i
         new == {id(i) : i \in DOMAIN outputs}
         reads == [i \in {j \in DOMAIN c.op.gets : c.op.gets[j] \in DOMAIN c.args} |->
                     [id |-> c.args[c.op.gets[i]], status |-> c.statuses[c.op.gets[i]]]]
         made == {id(i) : i \in {j \in DOMAIN outputs : outputs[j] \in c.op.makes}}
     IN /\ kind' = kind \o [i \in DOMAIN outputs |-> c.op.outs[outputs[i]]]
        /\ origin' = origin \o [i \in DOMAIN outputs |-> s]
        /\ count' = count \o [i \in DOMAIN outputs |-> 1]
        /\ held' = [held EXCEPT ![s] = @ \cup new]
        /\ Submit(s, Entry(reads, made, {}),
                  {c.args[p] : p \in c.op.streams \cap DOMAIN c.args}, handles)
  /\ call' = [call EXCEPT ![s] = Idle]
  /\ UNCHANGED calls

\* from_data(): the handle is registered at once; the Init operation is queued.
FromData(s, k) ==
  /\ MayUse(s, {})
  /\ Len(kind) < MaxTensors
  /\ LET t == Len(kind) + 1
     IN /\ kind' = Append(kind, k)
        /\ origin' = Append(origin, s)
        /\ count' = Append(count, 1)
        /\ held' = [held EXCEPT ![s] = @ \cup {t}]
        /\ Submit(s, Entry(<<>>, {}, {}), {}, handles \cup {t})
  /\ calls' = calls + 1
  /\ UNCHANGED call

\* into_data(): the tensor's stream is drained and the handle read.  The tensor
\* must have no work queued on other streams.
IntoData(s, t) ==
  /\ MayUse(s, {t})
  /\ t \in held[s]
  /\ \A r \in Threads \ {origin[t]} : ~Touches(r, {t})
  /\ LET read == [id |-> t, status |-> StatusOf(count[t])]
     IN Execute(Append(queue[origin[t]], Entry(<<read>>, {}, {})), handles)
  /\ queue' = [queue EXCEPT ![origin[t]] = <<>>]
  /\ count' = IF StatusOf(count[t]) = "ReadWrite" THEN count ELSE [count EXCEPT ![t] = @ - 1]
  /\ held' = [held EXCEPT ![s] = @ \ {t}]
  /\ calls' = calls + 1
  /\ UNCHANGED <<kind, origin, call>>

\* Mutant: the clone that is sent is not counted.
SendUncounted(s, r, t) ==
  /\ MayUse(s, {t})
  /\ s # r /\ t \in held[s] \ held[r]
  /\ held' = [held EXCEPT ![r] = @ \cup {t}]
  /\ UNCHANGED <<kind, origin, count, call, queue, handles, panicked, calls>>

\* A clone is sent to another thread.
Send(s, r, t) ==
  /\ MayUse(s, {t})
  /\ s # r /\ t \in held[s] \ held[r]
  /\ count' = [count EXCEPT ![t] = @ + 1]
  /\ held' = [held EXCEPT ![r] = @ \cup {t}]
  /\ UNCHANGED <<kind, origin, call, queue, handles, panicked, calls>>

\* Mutant: the drop is registered only on the tensor's own stream.
DropTensorHere(s, t) ==
  /\ MayUse(s, {t})
  /\ t \in held[s]
  /\ held' = [held EXCEPT ![s] = @ \ {t}]
  /\ count' = [count EXCEPT ![t] = @ - 1]
  /\ IF StatusOf(count[t]) = "ReadWrite" /\ origin[t] = s
     THEN SubmitDrop(s, t)
     ELSE UNCHANGED <<queue, handles, panicked>>
  /\ UNCHANGED <<kind, origin, call, calls>>

\* drop() of a clone between two calls.
DropTensor(s, t) ==
  /\ MayUse(s, {t})
  /\ t \in held[s]
  /\ held' = [held EXCEPT ![s] = @ \ {t}]
  /\ count' = [count EXCEPT ![t] = @ - 1]
  /\ IF StatusOf(count[t]) = "ReadWrite"
     THEN SubmitDrop(s, t)
     ELSE UNCHANGED <<queue, handles, panicked>>
  /\ UNCHANGED <<kind, origin, call, calls>>

\* sync(), or the processor when it executes what is queued.
Flush(s) ==
  /\ ~panicked
  /\ queue[s] # <<>>
  /\ Execute(queue[s], handles)
  /\ queue' = [queue EXCEPT ![s] = <<>>]
  /\ UNCHANGED <<kind, origin, count, held, call, calls>>

\* A thread has just created a tensor, with float_empty() or the like.
Init ==
  \E s \in Threads, k \in Kinds :
    /\ kind = <<k>> /\ origin = <<s>> /\ count = <<1>>
    /\ held = [r \in Threads |-> IF r = s THEN {1} ELSE {}]
    /\ call = [r \in Threads |-> Idle]
    /\ queue = [r \in Threads |-> IF r = s THEN <<Entry(<<>>, {1}, {})>> ELSE <<>>]
    /\ handles = {}
    /\ panicked = FALSE
    /\ calls = 0

Next ==
  \E s \in Threads :
    \/ CallWrapper(s) \/ DropClone(s) \/ RegisterOp(s) \/ Flush(s)
    \/ \E k \in Kinds : FromData(s, k)
    \/ \E t \in Tensors : IntoData(s, t) \/ DropTensor(s, t)
    \/ \E r \in Threads, t \in Tensors : Send(s, r, t)

Spec == Init /\ [][Next]_vars
-----------------------------------------------------------------------------
(***************************************************************************)
(* Properties.                                                             *)
(***************************************************************************)
\* Whatever operations a program mixes, however it shares and clones their
\* inputs, a closure finds the handle of every input when it runs.
NoMissingHandle == ~panicked

\* The tensors a thread can still pass on.
Reachable ==
  UNION {held[s] : s \in Threads}

\* A tensor that can still be used has a handle, or a queued closure makes it.
ReachableMade ==
  ~panicked =>
    \A t \in Reachable :
      \/ t \in handles
      \/ \E s \in Threads : \E i \in DOMAIN queue[s] : t \in queue[s][i].outs

\* Once nothing is queued and no thread is in a wrapper, only the tensors that
\* some thread holds have a handle: each of the others was released, by its
\* last use or by its drop.
NothingLeaks ==
  (~panicked /\ \A s \in Threads : queue[s] = <<>> /\ call[s] = Idle)
    => handles \subseteq Reachable
=============================================================================
