---------------------------- MODULE EventStreams ----------------------------
(* The event streams of cubecl-runtime (stream/event.rs, stream/base.rs) with *)
(* the queue that keeps uploaded bytes until the device has read them         *)
(* (memory_management/drop_queue).                                            *)
(*                                                                            *)
(* One server thread, the host, makes the calls.  A call resolves a stream    *)
(* for the handles it uses, enqueues one task, and lets the resolved streams  *)
(* go.  Each stream of the device runs its commands in order, on its own: a   *)
(* task, the signal of an event, a wait for an event.  A collecting thread    *)
(* takes the tasks of a bounded channel.                                      *)
(*                                                                            *)
(* A task allocates one buffer, so a handle is the number of the task that    *)
(* fills its buffer.                                                          *)
EXTENDS StreamPool, Sequences, FiniteSets, SequencesExt, FiniteSetsExt

CONSTANTS
  Capacity,   \* the capacity of the collecting channel (8 in the code)
  MaxBytes,   \* staged uploads that make a drop queue flush (max_bytes_count)
  MaxCalled,  \* bound: calls that enqueue a task
  MaxRefused, \* bound: calls refused because the stream is unhealthy
  MaxHandles  \* bound: handles of one call

ASSUME StreamsAssumption ==
  /\ {Capacity, MaxBytes} \subseteq Nat \ {0}
  /\ {MaxCalled, MaxRefused, MaxHandles} \subseteq Nat

VARIABLES
  cursors,    \* the cursor of each stream
  synced,     \* last_synced of each stream: other streams' cursors
  commands,   \* what each device stream has still to run
  events,     \* how many events each stream has recorded
  reached,    \* how many of them the device has signalled
  tasks,      \* the tasks enqueued so far
  ran,        \* the tasks the device has run
  staged,     \* the drop queues: uploads of the current cycle,
  pending,    \* uploads of the cycle before,
  fence,      \* and the event that protects them (NoEvent when there is none)
  host,       \* where the server thread is in its call
  channel,    \* the tasks sent to the collecting thread
  collecting, \* the task the collecting thread waits for
  refused     \* calls refused so far

device == <<commands, events, reached, ran>>
bytes  == <<staged, pending, fence>>
gc     == <<channel, collecting>>
vars   == <<cursors, synced, tasks, refused, host, device, bytes, gc>>

-----------------------------------------------------------------------------
Streams == Regular \union {Special}

\* An event is the stream that records it and its number there: a stream
\* signals its events in order.
NoEvent == <<Special, 0>>
NextEvent(s) == <<s, events[s] + 1>>
Signalled(e) == reached[e[1]] >= e[2]

RunTask(t) == [do |-> "run", task |-> t]
Signal(e)  == [do |-> "signal", event |-> e]
Wait(e)    == [do |-> "wait", event |-> e]

Idle == [at |-> "idle"]
Nothing == [event |-> NoEvent, task |-> 0]

Init ==
  /\ cursors = [s \in Regular |-> 0]
  /\ synced = [s \in Regular |-> <<>>]
  /\ commands = [s \in Streams |-> <<>>]
  /\ events = [s \in Streams |-> 0]
  /\ reached = [s \in Streams |-> 0]
  /\ tasks = <<>> /\ ran = {} /\ refused = 0
  /\ staged = [s \in Regular |-> {}]
  /\ pending = [s \in Regular |-> {}]
  /\ fence = [s \in Regular |-> NoEvent]
  /\ host = Idle /\ channel = <<>> /\ collecting = Nothing

-----------------------------------------------------------------------------
(* resolve                                                                    *)

\* Mutant: a stream that was synchronised once counts as synchronised for
\* ever, whatever the cursor of the handle.
NotSyncedEver(s, h) == Index(tasks[h].id) \notin DOMAIN synced[s]

\* Mutant: the cursor of the handle is taken for that of the call before.
NotSyncedLate(s, h) ==
  LET origin == Index(tasks[h].id)
  IN  origin \in DOMAIN synced[s] => synced[s][origin] < tasks[h].cursor - 1

\* The handle's stream was never waited for, or not since the call that
\* allocated the handle.
NotSynced(s, h) ==
  LET origin == Index(tasks[h].id)
  IN  origin \in DOMAIN synced[s] => synced[s][origin] < tasks[h].cursor

\* The streams a call has to wait for.  Only the ids are compared: two ids of
\* one stream wait for each other, too.
Origins(id, handles) ==
  {Index(tasks[h].id) :
     h \in {g \in handles : tasks[g].id # id /\ NotSynced(Index(id), g)}}

\* Mutant: the waits go into the stream before the events are recorded.
AlignedWaitFirst(s, origins) ==
  LET waiting == [commands EXCEPT ![s] = @ \o SetToSeq({Wait(NextEvent(o)) : o \in origins})]
  IN  [r \in Streams |-> IF r \in origins THEN Append(waiting[r], Signal(NextEvent(r)))
                                           ELSE waiting[r]]

\* The origins record an event each, then the stream waits for all of them
\* (in the order of a hash map: any).
Aligned(s, origins) ==
  LET flushed == [r \in Streams |-> IF r \in origins
                                   THEN Append(commands[r], Signal(NextEvent(r)))
                                   ELSE commands[r]]
  IN  [flushed EXCEPT ![s] = @ \o SetToSeq({Wait(NextEvent(o)) : o \in origins})]

\* What resolve() does to the streams, also when it goes on to fail.
Resolve(id, origins) ==
  LET s == Index(id)
  IN  /\ events' = [r \in Streams |-> events[r] + (IF r \in origins THEN 1 ELSE 0)]
      /\ synced' = [synced EXCEPT ![s] = [o \in DOMAIN @ \union origins |->
                                               IF o \in origins THEN cursors[o] ELSE @[o]]]
      /\ cursors' = [cursors EXCEPT ![s] = @ + 1]

ShouldFlush(uploads) == Cardinality(uploads) >= MaxBytes

\* A call on a healthy stream enqueues its task; an upload, which fills a new
\* buffer and uses no other, hands its bytes to the drop queue of the stream,
\* which is flushed when it has enough of them.
Launch(id, handles, upload) ==
  LET s       == Index(id)
      origins == Origins(id, handles)
      t       == Len(tasks) + 1
      uploads == staged[s] \union (IF upload THEN {t} ELSE {})
  IN  /\ host = Idle /\ t <= MaxCalled
      /\ Resolve(id, origins)
      /\ commands' = [Aligned(s, origins) EXCEPT ![s] = Append(@, RunTask(t))]
      /\ tasks' = Append(tasks, [id |-> id, cursor |-> cursors[s] + 1,
                                 reads |-> handles, upload |-> upload])
      /\ staged' = [staged EXCEPT ![s] = uploads]
      /\ host' = [at |-> IF upload /\ ShouldFlush(uploads) THEN "syncing" ELSE "leaving",
                  stream |-> s, task |-> t, shared |-> origins # {}]
      /\ UNCHANGED <<reached, ran, pending, fence, gc, refused>>

\* A call on an unhealthy stream returns an error after the alignment: the
\* waits stay, the bindings that were shared are not collected.
Refuse(id, handles) ==
  LET origins == Origins(id, handles)
  IN  /\ host = Idle /\ refused < MaxRefused
      /\ Resolve(id, origins)
      /\ commands' = Aligned(Index(id), origins)
      /\ refused' = refused + 1
      /\ UNCHANGED <<tasks, reached, ran, bytes, gc, host>>

-----------------------------------------------------------------------------
(* PendingDropQueue::flush                                                    *)

\* Mutant: the fence of the batch that becomes pending is not recorded, so
\* the next flush frees it without waiting.
FencedNot(s) == NoEvent

\* The event that will protect the batch that becomes pending.
Fenced(s) == NextEvent(s)

\* The host waits for the fence of the flush before, frees the pending bytes,
\* makes the staged ones pending and records their fence.  (With bytes pending
\* there always is a fence, so the code's second wait has nothing to do.)
Flush ==
  LET s == host.stream
  IN  /\ host.at = "syncing" /\ Signalled(fence[s])
      /\ pending' = [pending EXCEPT ![s] = staged[s]]
      /\ staged' = [staged EXCEPT ![s] = {}]
      /\ fence' = [fence EXCEPT ![s] = Fenced(s)]
      /\ commands' = [commands EXCEPT ![s] = Append(@, Signal(NextEvent(s)))]
      /\ events' = [events EXCEPT ![s] = @ + 1]
      /\ host' = [host EXCEPT !.at = "leaving"]
      /\ UNCHANGED <<cursors, synced, tasks, reached, ran, gc, refused>>

-----------------------------------------------------------------------------
(* The drop of ResolvedStreams, and the collecting thread                     *)

\* Mutant: the collecting stream does not wait for the call's stream.
GcCommandsAlone(origin) == <<Signal(NextEvent(Special))>>

\* The collecting stream waits for the call's stream and records an event.
GcCommands(origin) == <<Wait(origin), Signal(NextEvent(Special))>>

Leave ==
  LET s == host.stream
  IN  /\ host.at = "leaving"
      /\ IF host.shared
         THEN /\ commands' = [commands EXCEPT
                                ![s] = Append(@, Signal(NextEvent(s))),
                                ![Special] = @ \o GcCommands(NextEvent(s))]
              /\ events' = [events EXCEPT ![s] = @ + 1, ![Special] = @ + 1]
              /\ host' = [at |-> "sending",
                          batch |-> [event |-> NextEvent(Special), task |-> host.task]]
         ELSE /\ host' = Idle
              /\ UNCHANGED <<commands, events>>
      /\ UNCHANGED <<cursors, synced, tasks, reached, ran, bytes, gc, refused>>

\* The channel is bounded: the host waits for room in it.
Send ==
  /\ host.at = "sending" /\ Len(channel) < Capacity
  /\ channel' = Append(channel, host.batch)
  /\ host' = Idle
  /\ UNCHANGED <<cursors, synced, tasks, refused, device, bytes, collecting>>

Receive ==
  /\ collecting = Nothing /\ channel # <<>>
  /\ collecting' = Head(channel) /\ channel' = Tail(channel)
  /\ UNCHANGED <<cursors, synced, tasks, refused, device, bytes, host>>

Collect ==
  /\ collecting # Nothing /\ Signalled(collecting.event)
  /\ collecting' = Nothing
  /\ UNCHANGED <<cursors, synced, tasks, refused, device, bytes, host, channel>>

-----------------------------------------------------------------------------
(* The device                                                                 *)

Device(s) ==
  /\ commands[s] # <<>>
  /\ LET command == Head(commands[s])
     IN  /\ command.do = "wait" => Signalled(command.event)
         /\ ran' = ran \union (IF command.do = "run" THEN {command.task} ELSE {})
         /\ reached' = IF command.do = "signal"
                       THEN [reached EXCEPT ![s] = command.event[2]] ELSE reached
  /\ commands' = [commands EXCEPT ![s] = Tail(@)]
  /\ UNCHANGED <<cursors, synced, tasks, refused, host, events, bytes, gc>>

Calls == {handles \in SUBSET DOMAIN tasks : Cardinality(handles) <= MaxHandles}

Next ==
  \/ \E id \in Ids, handles \in Calls : Launch(id, handles, FALSE)
  \/ \E id \in Ids : Launch(id, {}, TRUE)
  \/ \E id \in Ids, handles \in Calls : Refuse(id, handles)
  \/ Flush \/ Leave \/ Send \/ Receive \/ Collect
  \/ \E s \in Streams : Device(s)

Spec == Init /\ [][Next]_vars

\* The device runs its streams, the host finishes the call it is in, and the
\* collecting thread runs.  Nobody has to make a call.
FairSpec ==
  /\ Spec
  /\ WF_vars(Flush) /\ WF_vars(Leave) /\ WF_vars(Send)
  /\ WF_vars(Receive) /\ WF_vars(Collect)
  /\ \A s \in Streams : WF_vars(Device(s))

-----------------------------------------------------------------------------
(* Types                                                                      *)

Event   == Streams \X Nat
Task    == [id: Ids, cursor: Nat, reads: SUBSET Nat, upload: BOOLEAN]
Command == [do: {"run"}, task: Nat] \union [do: {"signal", "wait"}, event: Event]
Batch   == [event: Event, task: Nat]

HostState ==
  {Idle} \union [at: {"syncing", "leaving"}, stream: Regular, task: Nat, shared: BOOLEAN]
         \union [at: {"sending"}, batch: Batch]

TypeOK ==
  /\ cursors \in [Regular -> Nat]
  /\ DOMAIN synced = Regular /\ synced = [s \in Regular |-> synced[s]]
  /\ \A s \in Regular : DOMAIN synced[s] \subseteq Regular /\ synced[s] \in [DOMAIN synced[s] -> Nat]
  /\ commands \in [Streams -> Seq(Command)]
  /\ events \in [Streams -> Nat] /\ reached \in [Streams -> Nat]
  /\ tasks \in Seq(Task) /\ ran \subseteq Nat /\ refused \in Nat
  /\ staged \in [Regular -> SUBSET Nat] /\ pending \in [Regular -> SUBSET Nat]
  /\ fence \in [Regular -> Event]
  /\ host \in HostState /\ channel \in Seq(Batch) /\ collecting \in Batch

-----------------------------------------------------------------------------
(* What the streams promise: the parts of the inductive invariant             *)

Home(t) == Index(tasks[t].id)

\* Once the event is signalled the task has run.
Covers(e, t) ==
  \/ t \in ran
  \/ \E i, j \in DOMAIN commands[e[1]] :
       /\ i < j
       /\ commands[e[1]][i] = RunTask(t)
       /\ commands[e[1]][j] = Signal(e)

WaitsFor(command, t) == command.do = "wait" /\ Covers(command.event, t)

\* Once the stream gets to its command i the task has run.
Guarded(s, i, t) ==
  \/ t \in ran
  \/ \E j \in DOMAIN commands[s] :
       j < i /\ (commands[s][j] = RunTask(t) \/ WaitsFor(commands[s][j], t))

\* Once the event of the collecting stream is signalled the task has run.
CoversShared(e, t) ==
  \/ t \in ran
  \/ \E i, j \in DOMAIN commands[Special] :
       /\ i < j
       /\ WaitsFor(commands[Special][i], t)
       /\ commands[Special][j] = Signal(e)

\* A task is on its own stream until it has run, behind all that it reads.
TasksInOrder ==
  /\ \A t \in DOMAIN tasks :
       /\ tasks[t].reads \subseteq DOMAIN tasks
       /\ tasks[t].cursor <= cursors[Home(t)]
       /\ t \in ran \/ \E i \in DOMAIN commands[Home(t)] : commands[Home(t)][i] = RunTask(t)
  /\ \A s \in Streams : \A i \in DOMAIN commands[s] :
       commands[s][i].do = "run" =>
         /\ commands[s][i].task \in DOMAIN tasks
         /\ \A u \in tasks[commands[s][i].task].reads : Guarded(s, i, u)

IsSignal(s, i) == i \in DOMAIN commands[s] /\ commands[s][i].do = "signal"

\* A stream signals its own events, each once and in order.
SignalsInOrder ==
  \A s \in Streams :
    /\ reached[s] <= events[s]
    /\ \A i \in DOMAIN commands[s] : IsSignal(s, i) =>
         /\ commands[s][i].event[1] = s
         /\ commands[s][i].event[2] \in reached[s] + 1 .. events[s]
         /\ \A j \in DOMAIN commands[s] : IsSignal(s, j) /\ i < j =>
              commands[s][i].event[2] < commands[s][j].event[2]

\* What a stream counts as synchronised is behind a wait of its own.
SyncedGuarded ==
  \A s \in Regular : \A o \in DOMAIN synced[s] :
    /\ synced[s][o] <= cursors[o]
    /\ \A t \in DOMAIN tasks :
         Home(t) = o /\ tasks[t].cursor <= synced[s][o]
           => Guarded(s, Len(commands[s]) + 1, t)

\* The fence of a drop queue covers the uploads it keeps.
FencesCover ==
  \A s \in Regular :
    /\ \A t \in staged[s] : t \in DOMAIN tasks /\ Home(t) = s
    /\ \A t \in pending[s] : Covers(fence[s], t)

\* The host's task is on the host's stream; what is to be collected, at the
\* host, in the channel or with the collecting thread, is covered by its event.
CollectsCovered ==
  /\ host.at \in {"syncing", "leaving"} =>
       host.task \in DOMAIN tasks /\ Home(host.task) = host.stream
  /\ host.at = "sending" => CoversShared(host.batch.event, host.batch.task)
  /\ \A i \in DOMAIN channel : CoversShared(channel[i].event, channel[i].task)
  /\ collecting # Nothing => CoversShared(collecting.event, collecting.task)

-----------------------------------------------------------------------------
\* A task runs only after the tasks that fill the buffers it uses, whatever
\* streams they are on: what align_streams() is for.
ValidWhenRead == [][\A t \in ran' \ ran : tasks[t].reads \subseteq ran]_vars

\* The bytes of an upload are freed only after the device has read them: the
\* two batches of the drop queue and its fence.
BytesStay ==
  \A t \in DOMAIN tasks :
    tasks[t].upload /\ t \notin ran =>
      \E s \in Regular : t \in staged[s] \union pending[s]

\* The inductive invariant: whatever the streams are made to wait for, and
\* whatever a handle, a fence or a batch stands for, is covered by an event that
\* is still to come on the right stream.
StreamsInv ==
  /\ TypeOK
  /\ TasksInOrder
  /\ SignalsInOrder
  /\ SyncedGuarded
  /\ FencesCover
  /\ CollectsCovered
  /\ BytesStay

\* What a call shared is collected only after the call's task has run: the
\* event of the collecting stream stands for the event of the call's stream.
CollectedAfterUse ==
  [][collecting # Nothing /\ collecting' = Nothing => collecting.task \in ran]_vars

\* No call blocks the host for ever, neither on a fence nor on the channel, and
\* every task runs: streams that wait for each other never wait in a circle.
StreamsGoOn == []<>(host = Idle /\ ran = DOMAIN tasks)
=============================================================================
