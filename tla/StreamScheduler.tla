-------------------------- MODULE StreamScheduler ---------------------------
(* The stream scheduler of cubecl-runtime (stream/scheduler.rs): tasks are    *)
(* kept in the list of their stream and executed in batches, so that the      *)
(* streams can be interleaved on the one compute queue of the device.         *)
(*                                                                            *)
(* A backend stream encodes the tasks it is given and submits them to the     *)
(* compute queue when it is flushed.                                          *)
EXTENDS StreamPool, Common, SequencesExt, FiniteSetsExt

CONSTANTS
  MaxTasks,   \* tasks of a stream that make it execute
  MaxArgs,    \* bound: streams a task has arguments of
  MaxCalls    \* bound: tasks registered

ASSUME SchedulerAssumption ==
  /\ MaxTasks \in Nat \ {0}
  /\ {MaxArgs, MaxCalls} \subseteq Nat

VARIABLES
  strategy, \* "interleave" or "sequential", chosen when the server starts
  pool,     \* each stream's list of tasks and its backend's encoder, and the
            \* compute queue all of them submit to
  calls     \* history: the stream of every task registered, and the tasks it
            \* needs

schedulerVars == <<strategy, pool, calls>>

SchedulerInit ==
  /\ strategy \in {"interleave", "sequential"}
  /\ pool = [tasks   |-> [s \in Regular |-> <<>>],
             encoder |-> [s \in Regular |-> <<>>],
             queue   |-> <<>>]
  /\ calls = <<>>

-----------------------------------------------------------------------------
(* The backend                                                                *)

Enqueue(p, s, ts) == [p EXCEPT !.encoder[s] = @ \o ts]

FlushEncoder(p, s) ==
  [p EXCEPT !.queue = @ \o p.encoder[s], !.encoder[s] = <<>>]

-----------------------------------------------------------------------------
(* execute_streams                                                            *)

\* The backend's streams in turn: tasks to enqueue, then a flush.
Submitted(p, work) ==
  LET after[n \in 0 .. Len(work)] ==
        IF n = 0 THEN p
        ELSE FlushEncoder(Enqueue(after[n - 1], work[n].stream, work[n].tasks), work[n].stream)
  IN  after[Len(work)]

\* Each stream with its own tasks.
InSequence(p, order, lists) ==
  Submitted(p, [i \in DOMAIN order |-> [stream |-> order[i], tasks |-> lists[order[i]]]])

\* Mutant: as many rounds as the first stream has tasks.
RoundsOfFirst(order, lists) == Len(lists[order[1]])

\* As many rounds as the longest list has tasks.
Rounds(order, lists) == Max({Len(lists[order[i]]) : i \in DOMAIN order})

\* The n-th task of every stream that has one.
Round(order, lists, n) ==
  LET having == Kept(order, {i \in DOMAIN order : n <= Len(lists[order[i]])})
  IN  [i \in DOMAIN having |-> lists[having[i]][n]]

\* The other streams are flushed; the first one takes the tasks of all.
Interleaved(p, order, lists) ==
  LET mixed  == Joined([n \in 1 .. Rounds(order, lists) |-> Round(order, lists, n)])
      others == [i \in 1 .. Len(order) - 1 |-> [stream |-> order[i + 1], tasks |-> <<>>]]
  IN  Submitted(p, Append(others, [stream |-> order[1], tasks |-> mixed]))

\* The streams of the ids, each at its first occurrence.
Order(ids) ==
  Kept([i \in DOMAIN ids |-> Index(ids[i])],
       {i \in DOMAIN ids : \A j \in 1 .. i - 1 : Index(ids[j]) # Index(ids[i])})

\* They give their lists to the backend.
Execute(p, ids) ==
  LET order == Order(ids)
      taken == [p EXCEPT !.tasks = [s \in Regular |-> IF s \in ToSet(order) THEN <<>> ELSE @[s]]]
  IN  IF ids = <<>> THEN p
      ELSE IF strategy = "interleave" THEN Interleaved(taken, order, p.tasks)
      ELSE InSequence(taken, order, p.tasks)

-----------------------------------------------------------------------------
(* The server's calls                                                         *)

\* Mutant: only the first argument's stream is looked at.
ToFlushFirst(id, args) ==
  IF args # <<>> /\ Index(args[1]) # Index(id) THEN <<args[1]>> ELSE <<>>

\* align_streams: the arguments' ids that are not of the task's own stream.
ToFlush(id, args) == Kept(args, {i \in DOMAIN args : Index(args[i]) # Index(id)})

\* What a task has to come after: the tasks registered before it on its own
\* stream and on the streams it has arguments of.
Needs(id, args) ==
  LET streams == {Index(i) : i \in ToSet(args) \union {id}}
  IN  {t \in DOMAIN calls : calls[t].stream \in streams}

\* A task goes behind those of its stream, once the streams of its arguments
\* are executed.  A full stream is executed at once.
Register(id, args) ==
  LET task    == Len(calls) + 1
      aligned == Execute(pool, ToFlush(id, args))
      added   == [aligned EXCEPT !.tasks[Index(id)] = Append(@, task)]
      full    == Len(added.tasks[Index(id)]) >= MaxTasks
  IN  /\ task <= MaxCalls
      /\ pool' = IF full THEN Execute(added, <<id>>) ELSE added
      /\ calls' = Append(calls, [stream |-> Index(id), needs |-> Needs(id, args)])
      /\ UNCHANGED strategy

\* A read or a synchronisation of the server executes the streams it needs.
ExecuteStreams(ids) ==
  /\ pool' = Execute(pool, ids)
  /\ UNCHANGED <<strategy, calls>>

Arguments == UNION {[1 .. n -> Ids] : n \in 0 .. MaxArgs}

SchedulerNext ==
  \/ \E id \in Ids, args \in Arguments : Register(id, args)
  \/ \E ids \in Arguments : ExecuteStreams(ids)

SchedulerSpec == SchedulerInit /\ [][SchedulerNext]_schedulerVars

-----------------------------------------------------------------------------
\* On the compute queue every task comes after all the tasks it needs, however
\* the streams were batched and mixed: no task is left behind in a list, and
\* interleaving keeps the order inside a stream.
QueueKeepsOrder ==
  \A i \in DOMAIN pool.queue :
    calls[pool.queue[i]].needs \subseteq {pool.queue[j] : j \in 1 .. i - 1}
=============================================================================
