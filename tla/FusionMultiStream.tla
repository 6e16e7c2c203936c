------------------------- MODULE FusionMultiStream --------------------------
(***************************************************************************)
(* The lazy operation streams of the patched burn-fusion server            *)
(* (stream/multi.rs, stream/shared_tensors.rs, stream/queue).  Each client *)
(* thread has a stream, a queue of operations that the server executes     *)
(* later, a prefix at a time.  A tensor may be used from streams other     *)
(* than the one that created it; SharedTensors then decides when its       *)
(* handle can be released.                                                 *)
(*                                                                         *)
(* The server runs one call at a time, so a client's call starts only when *)
(* todo is empty.  register(), drain() and drop_shared_tensors() call each *)
(* other recursively: todo is the stack of the calls still to make, head   *)
(* first.  The order in which a hash map is iterated is left open.         *)
(***************************************************************************)
EXTENDS Integers, Sequences, FiniteSets, Functions

CONSTANTS
  Streams,            \* StreamId, one per client thread
  Tensors,            \* TensorId; an id is never used again
  NoStream,           \* no entry
  ContinueDropDrain,  \* BURN_FUSION_CONTINUE_DROP_DRAIN
  PartialPlans,       \* a lazy execution may leave later operations queued
  Reads,              \* clients read values back
  Mixes,              \* an operation may take tensors of other streams with the
                      \* last clones of its own stream's
  MaxInputs,          \* bound on the inputs of an operation
  MaxRefs,            \* bound on the clones of a tensor held at a time
  MaxCalls            \* bound on the client calls of a behaviour

ASSUME FusionAssumption ==
  /\ NoStream \notin Streams
  /\ ContinueDropDrain \in BOOLEAN
  /\ PartialPlans \in BOOLEAN
  /\ Reads \in BOOLEAN
  /\ Mixes \in BOOLEAN
  /\ MaxInputs \in Nat /\ MaxRefs \in Nat /\ MaxCalls \in Nat

VARIABLES
  origin,    \* FusionTensor::stream; NoStream before the tensor is created
  refs,      \* FusionTensor::count, the clones the clients hold
  streams,   \* MultiStream::streams
  shared,    \* SharedTensors::shared_tensors: cursors per tensor and stream
  manual,    \* SharedTensors::shared_tensors_manual_drop
  handles,   \* HandleContainer: the tensors that have a handle
  todo,      \* stack of the server calls to make
  panicked,  \* an operation did not find the handle of one of its inputs
  calls      \* client calls made, for the bound

vars == <<origin, refs, streams, shared, manual, handles, todo, panicked, calls>>

server == <<streams, shared, manual, handles, panicked>>

Status == {"ReadOnly", "ReadWrite", "NotInit"}

\* TensorIr, and OperationIr with the nodes it reads and writes.
Node == [id: Tensors, status: Status]
Op == [nodes: SUBSET Node, drop: BOOLEAN]

NoVariables == [t \in Tensors |-> NoStream]

\* A stream that is not in the map: closed, or never used.
Closed == [open |-> FALSE, queue |-> <<>>, variables |-> NoVariables, cursor |-> 0]

\* Stream::new()
Opened == [Closed EXCEPT !.open = TRUE]

Ids(op) == {n.id : n \in op.nodes}

\* Mutant: the last but one clone is already taken for the last.
IntoIrEarly(t) == [id |-> t, status |-> IF refs[t] <= 2 THEN "ReadWrite" ELSE "ReadOnly"]

\* Status of the tensor a client passes by value: FusionTensor::into_ir().
IntoIr(t) == [id |-> t, status |-> IF refs[t] = 1 THEN "ReadWrite" ELSE "ReadOnly"]

-----------------------------------------------------------------------------
(***************************************************************************)
(* OperationQueue.                                                         *)
(***************************************************************************)
\* Mutant: only the inputs of an operation are recorded as variables.
QueuedInputs(s, op, tags) ==
  LET stream == IF streams[s].open THEN streams[s] ELSE Opened
  IN [stream EXCEPT
        !.queue = Append(@, op),
        !.variables = [t \in Tensors |->
                         IF [id |-> t, status |-> "NotInit"] \in op.nodes
                            \/ t \notin Ids(op) THEN @[t]
                         ELSE IF tags[t] # NoStream THEN tags[t] ELSE s]]

\* add(): the operation joins the queue, its tensors the variables.
Queued(s, op, tags) ==
  LET stream == IF streams[s].open THEN streams[s] ELSE Opened
  IN [stream EXCEPT
        !.queue = Append(@, op),
        !.variables = [t \in Tensors |->
                         IF t \notin Ids(op) THEN @[t]
                         ELSE IF tags[t] # NoStream THEN tags[t] ELSE s]]

\* execute() and drain_queue() on the first k operations: the handles after
\* each of them.  A tensor read with ReadWrite loses its handle.
After(held, op) ==
  (held \ {n.id : n \in {m \in op.nodes : m.status = "ReadWrite"}})
    \cup {n.id : n \in {m \in op.nodes : m.status = "NotInit"}}

Inputs(op) == IF op.drop THEN {} ELSE {n.id : n \in {m \in op.nodes : m.status # "NotInit"}}

HandlesAfter(queue, k) ==
  LET held[i \in 0..k] == IF i = 0 THEN handles ELSE After(held[i - 1], queue[i])
  IN held

Missing(queue, k) ==
  \E i \in 1..k : ~(Inputs(queue[i]) \subseteq HandlesAfter(queue, k)[i - 1])

Executed(stream, k) ==
  [stream EXCEPT
     !.queue = SubSeq(@, k + 1, Len(@)),
     !.cursor = @ + k,
     !.variables =
       [t \in Tensors |->
          IF \E i \in 1..k : [id |-> t, status |-> "ReadWrite"] \in stream.queue[i].nodes
          THEN NoStream ELSE @[t]]]

(***************************************************************************)
(* SharedTensors.                                                          *)
(***************************************************************************)
IsShared(t) == t \in DOMAIN shared

\* register_new_stream(): the cursor a stream must reach before it is done
\* with the tensor; the cursor of its first registration is kept as origin.
Registered(states, s) ==
  LET cursor == IF streams[s].open
                THEN streams[s].cursor + Len(streams[s].queue)
                ELSE 1
  IN [r \in DOMAIN states \cup {s} |->
        IF r # s THEN states[r]
        ELSE [current |-> cursor,
              origin |-> IF s \in DOMAIN states THEN states[s].origin ELSE cursor]]

\* analyse(): the tensors that the operation takes from another stream.
Foreign(s, op, tags) == {t \in Ids(op) : tags[t] \notin {NoStream, s}}

States(t) == IF IsShared(t) THEN shared[t] ELSE <<>>

Analysed(s, op, tags) ==
  LET foreign == Foreign(s, op, tags)
  IN [t \in DOMAIN shared \cup foreign |->
        IF t \in foreign
        THEN Registered(Registered(States(t), s), tags[t])
        ELSE shared[t]]

\* Tensors shared already, used from the stream that created them.
Current(s, op, tags) == {n \in op.nodes : IsShared(n.id) /\ n.id \notin Foreign(s, op, tags)}

\* Mutant: timelines are never merged.
ToSyncNone(s, op, tags) == {}

\* merge_streams_timelines(): the streams to drain before the operation.
ToSync(s, op, tags) ==
  {tags[t] : t \in {u \in Foreign(s, op, tags) :
     IF tags[u] \notin DOMAIN States(u) THEN TRUE
     ELSE /\ streams[tags[u]].open
          /\ streams[tags[u]].cursor <= States(u)[tags[u]].origin}}
  \cup UNION {DOMAIN shared[n.id] : n \in {m \in Current(s, op, tags) : m.status = "ReadWrite"}}

\* on_executed_ops(): a stream whose cursor was reached is done with the
\* tensor.
Done(s, cursor) ==
  {t \in DOMAIN shared : s \in DOMAIN shared[t] /\ shared[t][s].current <= cursor}

Updated(s, cursor) ==
  [t \in DOMAIN shared |->
     IF t \in Done(s, cursor)
     THEN Restrict(shared[t], DOMAIN shared[t] \ {s})
     ELSE shared[t]]

Cleared(s, cursor) == {t \in DOMAIN shared : DOMAIN Updated(s, cursor)[t] = {}}

-----------------------------------------------------------------------------
(***************************************************************************)
(* Calls of the server.                                                    *)
(***************************************************************************)
Register(s, op, tags) == [call |-> "register", stream |-> s, op |-> op, tags |-> tags]
Resolve(ss, op) == [call |-> "resolve", streams |-> ss, op |-> op]
Admit(s, op, tags) == [call |-> "admit", stream |-> s, op |-> op, tags |-> tags]
Process(s, op, tags, sync) ==
  [call |-> "process", stream |-> s, op |-> op, tags |-> tags, sync |-> sync]
\* Mutant: the drain after a drop is forgotten.
FlushNever(s, sync) == [call |-> "flush", stream |-> s, sync |-> FALSE]

Flush(s, sync) == [call |-> "flush", stream |-> s, sync |-> sync]
Drain(s) == [call |-> "drain", stream |-> s]
DropShared(s, ts) == [call |-> "drop", stream |-> s, tensors |-> ts]
Read(s, node) == [call |-> "read", stream |-> s, node |-> node]

Calling(name) == ~panicked /\ todo # <<>> /\ Head(todo).call = name

DropOf(t) == [nodes |-> {[id |-> t, status |-> "ReadWrite"]}, drop |-> TRUE]
NoTags == [t \in Tensors |-> NoStream]

Panic ==
  /\ panicked' = TRUE
  /\ todo' = <<>>
  /\ UNCHANGED <<streams, shared, manual, handles>>

\* Stream s, with the state given, executes its first k operations; then
\* on_executed_ops(), clear_shared_tensors(), clear_tensors() and the first
\* loop of drop_shared_tensors().
Execute(s, stream, k, next) ==
  LET cursor == stream.cursor + k
      done == Done(s, cursor)
      cleared == Cleared(s, cursor)
      after(r) == IF r = s THEN Executed(stream, k) ELSE streams[r]
      kept(r) == {t \in Tensors \ cleared : ~(r = s /\ t \in done)}
      vars1(r) == [t \in Tensors |-> IF t \in kept(r) THEN after(r).variables[t] ELSE NoStream]
      open(r) == after(r).open /\ (r = s \/ vars1(r) # NoVariables)
      dropped == {t \in manual : t \notin DOMAIN shared \ cleared}
      vars2(r) == [t \in Tensors |->
                     IF t \in dropped /\ vars1(r)[t] # r THEN NoStream ELSE vars1(r)[t]]
  IN /\ streams' = [r \in Streams |->
                      IF open(r) THEN [after(r) EXCEPT !.variables = vars2(r)] ELSE Closed]
     /\ shared' = Restrict(Updated(s, cursor), DOMAIN shared \ cleared)
     /\ manual' = manual \ dropped
     /\ handles' = HandlesAfter(stream.queue, k)[k]
     /\ todo' = <<DropShared(s, dropped)>> \o next
     /\ UNCHANGED panicked

\* register() up to merge_streams_timelines(): the tensors taken from other
\* streams become shared.
RunRegister ==
  /\ Calling("register")
  /\ LET c == Head(todo) IN
       /\ shared' = Analysed(c.stream, c.op, c.tags)
       /\ todo' = <<Resolve(ToSync(c.stream, c.op, c.tags), c.op),
                    Admit(c.stream, c.op, c.tags)>> \o Tail(todo)
  /\ UNCHANGED <<origin, refs, streams, manual, handles, panicked, calls>>

\* resolve_stream() on one of the streams to synchronise: it is drained when
\* it has a variable of the operation.
RunResolve ==
  /\ Calling("resolve")
  /\ LET c == Head(todo) IN
       IF c.streams = {}
       THEN todo' = Tail(todo)
       ELSE \E s \in c.streams :
              LET rest == <<Resolve(c.streams \ {s}, c.op)>> \o Tail(todo)
              IN todo' = IF streams[s].open
                            /\ \E t \in Ids(c.op) : streams[s].variables[t] # NoStream
                         THEN <<Drain(s)>> \o rest
                         ELSE rest
  /\ UNCHANGED <<origin, refs, streams, shared, manual, handles, panicked, calls>>

\* drain(): everything queued is executed.
RunDrain ==
  /\ Calling("drain")
  /\ LET s == Head(todo).stream
         stream == streams[s]
     IN IF ~stream.open
        THEN todo' = Tail(todo) /\ UNCHANGED server
        ELSE IF Missing(stream.queue, Len(stream.queue))
        THEN Panic
        ELSE Execute(s, stream, Len(stream.queue), Tail(todo))
  /\ UNCHANGED <<origin, refs, calls>>

\* register_shared_tensors_drop(): mark_read_only() on the operation.
MarkReadOnly(op, ts) ==
  [op EXCEPT !.nodes =
     {[n EXCEPT !.status = IF n.id \in ts /\ @ = "ReadWrite" THEN "ReadOnly" ELSE @] :
        n \in op.nodes}]

Tagged(op, ts) == {n.id : n \in {m \in op.nodes : m.id \in ts /\ m.status = "ReadWrite"}}

\* Mutant: the streams that share the tensor are not consulted.
ForceDropAlways(s, t) == TRUE

\* on_drop(): a drop on another stream than the tensor's goes through when no
\* stream is left that shares the tensor.
ForceDrop(s, t) ==
  ~IsShared(t) \/ (~streams[s].open /\ DOMAIN shared[t] \subseteq {s})

\* register_shared_tensors_drop() and handle_drop_op(), up to the decision to
\* drain after the operation.
RunAdmit ==
  /\ Calling("admit")
  /\ LET c == Head(todo)
         s == c.stream
         foreign == Foreign(s, c.op, c.tags)
         shares == \E t \in Ids(c.op) : IsShared(t)
     IN \/ /\ c.op.drop => foreign = {}
           /\ manual' = manual \cup Tagged(c.op, foreign)
           /\ todo' = <<Process(s, MarkReadOnly(c.op, foreign), c.tags,
                               c.op.drop /\ (shares \/ ContinueDropDrain))>>
                      \o Tail(todo)
           /\ UNCHANGED shared
        \/ \* DropAction::ForceSharedTensor
           /\ c.op.drop /\ foreign # {}
           /\ \A t \in foreign : ForceDrop(s, t)
           /\ manual' = manual \ foreign
           /\ shared' = Restrict(shared, DOMAIN shared \ foreign)
           /\ todo' = <<Process(s, c.op, c.tags, TRUE)>> \o Tail(todo)
        \/ \* DropAction::SkipSharedTensor
           /\ c.op.drop
           /\ \E t \in foreign :
                /\ ~ForceDrop(s, t)
                /\ shared' = IF streams[s].open THEN shared
                             ELSE [shared EXCEPT ![t] = Restrict(@, DOMAIN @ \ {s})]
                /\ manual' = manual \cup {t}
           /\ todo' = Tail(todo)
  /\ UNCHANGED <<origin, refs, streams, handles, panicked, calls>>

\* enqueue_operation(): the operation is queued, and the processor may execute
\* the first operations of the queue at once.
RunProcess ==
  /\ Calling("process")
  /\ LET c == Head(todo)
         s == c.stream
         stream == Queued(s, c.op, c.tags)
         n == Len(stream.queue)
         next == <<Flush(s, c.sync)>> \o Tail(todo)
     IN \E k \in IF PartialPlans THEN 0..n ELSE {0, n} :
          CASE Missing(stream.queue, k) -> Panic
            [] k = 0 -> /\ streams' = [streams EXCEPT ![s] = stream]
                        /\ todo' = next
                        /\ UNCHANGED <<shared, manual, handles, panicked>>
            [] OTHER -> Execute(s, stream, k, next)
  /\ UNCHANGED <<origin, refs, calls>>

\* Mutant: the stream is drained until it has no variables.
RunFlushAgain ==
  /\ Calling("flush")
  /\ LET c == Head(todo)
         stream == streams[c.stream]
     IN todo' = IF c.sync /\ stream.open /\ stream.variables # NoVariables
                THEN <<Drain(c.stream)>> \o todo
                ELSE Tail(todo)
  /\ UNCHANGED <<origin, refs, calls, server>>

\* The end of register(): a drop that has to be executed now drains its stream.
RunFlush ==
  /\ Calling("flush")
  /\ LET c == Head(todo)
         stream == streams[c.stream]
     IN todo' = IF c.sync /\ stream.open /\ stream.variables # NoVariables
                THEN <<Drain(c.stream)>> \o Tail(todo)
                ELSE Tail(todo)
  /\ UNCHANGED <<origin, refs, calls, server>>

\* drop_shared_tensors(): the drops that were skipped are registered again, on
\* the stream that has just been executed.
RunDropShared ==
  /\ Calling("drop")
  /\ LET c == Head(todo) IN
       IF c.tensors = {}
       THEN todo' = Tail(todo)
       ELSE \E t \in c.tensors :
              todo' = <<Register(c.stream, DropOf(t), NoTags),
                        DropShared(c.stream, c.tensors \ {t})>> \o Tail(todo)
  /\ UNCHANGED <<origin, refs, calls, server>>

\* read_float() after its drain: the handle is taken; mark_read().
RunRead ==
  /\ Calling("read")
  /\ LET c == Head(todo)
         s == c.stream
         t == c.node.id
         variables == [streams[s].variables EXCEPT ![t] = NoStream]
     IN IF t \notin handles
        THEN Panic
        ELSE /\ todo' = Tail(todo)
             /\ IF c.node.status = "ReadWrite"
                THEN /\ handles' = handles \ {t}
                     /\ streams' =
                          [streams EXCEPT ![s] =
                             IF ~@.open \/ variables = NoVariables THEN Closed
                             ELSE [@ EXCEPT !.variables = variables]]
                ELSE UNCHANGED <<handles, streams>>
             /\ UNCHANGED <<shared, manual, panicked>>
  /\ UNCHANGED <<origin, refs, calls>>

Server == RunRegister \/ RunResolve \/ RunAdmit \/ RunProcess \/ RunFlush
            \/ RunDrain \/ RunDropShared \/ RunRead
-----------------------------------------------------------------------------
(***************************************************************************)
(* Clients.  A tensor handle may be moved to any thread, so a call may come *)
(* from any stream.                                                        *)
(***************************************************************************)
Call ==
  /\ todo = <<>> /\ ~panicked
  /\ calls < MaxCalls
  /\ calls' = calls + 1
  /\ UNCHANGED server

\* An operation that takes the tensors of ins by value and returns out.
Apply(s, ins, out) ==
  /\ Call
  /\ \A t \in ins : refs[t] > 0
  /\ Mixes \/ \A t, u \in ins : origin[t] # s /\ origin[u] = s => refs[u] > 1
  /\ origin[out] = NoStream
  /\ origin' = [origin EXCEPT ![out] = s]
  /\ refs' = [t \in Tensors |-> IF t \in ins THEN refs[t] - 1
                                ELSE IF t = out THEN 1 ELSE refs[t]]
  /\ LET op == [nodes |-> {IntoIr(t) : t \in ins} \cup {[id |-> out, status |-> "NotInit"]},
                drop |-> FALSE]
         tags == [t \in Tensors |-> IF t \in ins THEN origin[t] ELSE NoStream]
     IN todo' = <<Register(s, op, tags)>>

\* Clone of a tensor.
Clone(t) ==
  /\ todo = <<>> /\ ~panicked
  /\ refs[t] \in 1..(MaxRefs - 1)
  /\ refs' = [refs EXCEPT ![t] = @ + 1]
  /\ UNCHANGED <<origin, todo, calls, server>>

\* Drop of a tensor on the thread of stream s.
DropTensor(s, t) ==
  /\ Call
  /\ refs[t] > 0
  /\ refs' = [refs EXCEPT ![t] = @ - 1]
  /\ todo' = IF refs[t] = 1
             THEN <<Register(s, DropOf(t), [NoTags EXCEPT ![t] = origin[t]])>>
             ELSE <<>>
  /\ UNCHANGED origin

\* into_data(): the value of a tensor is read, on the tensor's own stream.
IntoData(t) ==
  /\ Call
  /\ Reads
  /\ refs[t] > 0
  /\ refs' = [refs EXCEPT ![t] = @ - 1]
  /\ todo' = <<Drain(origin[t]), Read(origin[t], IntoIr(t))>>
  /\ UNCHANGED origin

\* sync()
Sync(s) ==
  /\ Call
  /\ streams[s].open
  /\ todo' = <<Drain(s)>>
  /\ UNCHANGED <<origin, refs>>

Client ==
  \/ \E s \in Streams, out \in Tensors, ins \in SUBSET Tensors :
        Cardinality(ins) <= MaxInputs /\ Apply(s, ins, out)
  \/ \E t \in Tensors : Clone(t) \/ IntoData(t)
  \/ \E s \in Streams, t \in Tensors : DropTensor(s, t)
  \/ \E s \in Streams : Sync(s)

Init ==
  /\ origin = [t \in Tensors |-> NoStream]
  /\ refs = [t \in Tensors |-> 0]
  /\ streams = [s \in Streams |-> Closed]
  /\ shared = <<>>
  /\ manual = {}
  /\ handles = {}
  /\ todo = <<>>
  /\ panicked = FALSE
  /\ calls = 0

Next == Client \/ Server

Spec == Init /\ [][Next]_vars
\* The server runs a call to its end.
FairSpec == Spec /\ WF_vars(Server)
-----------------------------------------------------------------------------
(***************************************************************************)
(* Properties.                                                             *)
(***************************************************************************)
Variables == [Tensors -> Streams \cup {NoStream}]

TypeOK ==
  /\ origin \in Variables
  /\ refs \in [Tensors -> 0..MaxRefs]
  /\ \A s \in Streams :
       /\ streams[s].open \in BOOLEAN
       /\ streams[s].queue \in Seq(Op)
       /\ streams[s].variables \in Variables
       /\ streams[s].cursor \in Nat
       /\ ~streams[s].open => streams[s] = Closed
  /\ DOMAIN shared \subseteq Tensors
  /\ \A t \in DOMAIN shared :
       /\ DOMAIN shared[t] \subseteq Streams
       /\ DOMAIN shared[t] # {}
       /\ \A s \in DOMAIN shared[t] : shared[t][s] \in [current: Nat, origin: Nat]
  /\ manual \subseteq Tensors
  /\ handles \subseteq Tensors
  /\ panicked \in BOOLEAN

Waiting(t, s) ==
  \E i \in DOMAIN streams[s].queue : t \in Inputs(streams[s].queue[i])

\* Every operation finds the handles of its inputs, whichever streams they come
\* from: what made them was executed before, what releases them comes after.
NoMissingHandle == ~panicked

\* multi.rs:54: the handle of a tensor is not released while another stream
\* still needs to read it, by drops and operations ...
ReleaseWaits ==
  [][~Calling("read") =>
       \A t \in handles \ handles' : \A s \in Streams : ~Waiting(t, s)']_vars

\* ... and by a client that reads the value of its last clone.  This is not so:
\* read_float() looks at the tensor's own stream only.
ReadWaits ==
  [][Calling("read") =>
       \A t \in handles \ handles' : \A s \in Streams : ~Waiting(t, s)']_vars

Pending(t, status) ==
  \E s \in Streams : \E i \in DOMAIN streams[s].queue :
    [id |-> t, status |-> status] \in streams[s].queue[i].nodes

\* A tensor that a client holds has a handle, or an operation that is still
\* queued will make it.
HeldTensorsLive ==
  todo = <<>> /\ ~panicked =>
    \A t \in Tensors : refs[t] > 0 => t \in handles \/ Pending(t, "NotInit")

\* No operation is lost: a stream leaves the map only with an empty queue.
NoLostOperation ==
  [][\A s \in Streams : streams[s].open /\ ~streams'[s].open =>
       streams[s].queue = <<>>]_vars

\* With the drop-triggered drain no drop waits in a queue.
DropsExecuted ==
  ContinueDropDrain /\ todo = <<>> /\ ~panicked =>
    \A s \in Streams : \A i \in DOMAIN streams[s].queue : ~streams[s].queue[i].drop

\* The recursion of register(), drain() and drop_shared_tensors() ends.
CallsReturn == todo # <<>> ~> todo = <<>>

\* multi.rs:55: no stream keeps a reference that prevents a handle from ever
\* being freed: once no client holds a tensor and every stream was executed and
\* left the map, so that no drain can help any more, no handle is left.  This is
\* not so: a drop on another stream names an origin that may have left before.
NoLeak ==
  todo = <<>> /\ ~panicked /\ (\A t \in Tensors : refs[t] = 0)
    /\ (\A s \in Streams : ~streams[s].open)
    => handles = {}
=============================================================================
