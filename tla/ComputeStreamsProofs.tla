------------------------ MODULE ComputeStreamsProofs ------------------------
(***************************************************************************)
(* Proofs about the two ways of running the streams of a pool, EventStreams*)
(* and StreamScheduler, for any set of ids, number of streams, capacity of *)
(* the channel, flush threshold, size of a batch and number of calls.      *)
(***************************************************************************)
EXTENDS EventStreams, StreamScheduler, CommonProofs

-----------------------------------------------------------------------------
(* Constants, commands and events                                             *)

LEMMA IndexRegular == \A id \in Ids : Index(id) \in Regular
  BY StreamPoolAssumption, StreamsAssumption DEF Index, Regular

LEMMA StreamSets ==
  /\ Regular \subseteq Streams /\ Special \in Streams /\ Special \notin Regular
  /\ IsFiniteSet(Regular)
<1>1. MaxStreams \in Nat
  BY StreamPoolAssumption, StreamsAssumption
<1>2. IsFiniteSet(0 .. MaxStreams - 1)
  BY <1>1, FS_Interval
<1> QED BY <1>1, <1>2 DEF Regular, Special, Streams

\* The three forms of a command are told apart and give back what they hold.
LEMMA CommandForms ==
  /\ \A t \in Nat : RunTask(t) \in Command /\ RunTask(t).do = "run" /\ RunTask(t).task = t
  /\ \A e \in Event : Signal(e) \in Command /\ Signal(e).do = "signal" /\ Signal(e).event = e
  /\ \A e \in Event : Wait(e) \in Command /\ Wait(e).do = "wait" /\ Wait(e).event = e
  /\ \A c \in Command :
       /\ c.do \in {"run", "signal", "wait"}
       /\ c.do = "run" => c.task \in Nat /\ c = RunTask(c.task)
       /\ c.do # "run" => c.event \in Event
       /\ c.do = "signal" => c = Signal(c.event)
       /\ c.do = "wait" => c = Wait(c.event)
  BY DEF RunTask, Signal, Wait, Command

LEMMA EventForms ==
  /\ \A e \in Event : e[1] \in Streams /\ e[2] \in Nat /\ e = <<e[1], e[2]>>
  /\ \A s \in Streams, n \in Nat : <<s, n>> \in Event
  BY DEF Event

LEMMA TaskTypes ==
  ASSUME TypeOK, NEW t \in DOMAIN tasks
  PROVE  /\ t \in Nat \ {0} /\ tasks[t] \in Task
         /\ tasks[t].id \in Ids /\ tasks[t].cursor \in Nat /\ tasks[t].reads \subseteq Nat
         /\ Home(t) \in Regular /\ Home(t) \in Streams
<1>1. t \in 1 .. Len(tasks) /\ Len(tasks) \in Nat
  BY LenProperties DEF TypeOK
<1>2. tasks[t] \in Task
  BY <1>1, ElementOfSeq DEF TypeOK
<1> QED BY <1>1, <1>2, IndexRegular, StreamSets DEF Task, Home

\* A sequence made of a finite set holds its elements and nothing else.
LEMMA SetToSeqElements ==
  ASSUME NEW S, IsFiniteSet(S)
  PROVE  /\ SetToSeq(S) \in Seq(S)
         /\ \A x \in S : \E i \in 1 .. Len(SetToSeq(S)) : SetToSeq(S)[i] = x
<1> DEFINE n == Cardinality(S)
           f == SetToSeq(S)
<1>1. n \in Nat /\ ExistsBijection(1 .. n, S)
  BY FS_CardinalityType
<1>2. PICK g \in Bijection(1 .. n, S) : TRUE
  BY <1>1, Fun_ExistsBij
<1>3. g \in [1 .. n -> S] /\ IsInjective(g)
  <2>1. g \in [1 .. n -> S] /\ \A a, b \in 1 .. n : g[a] = g[b] => a = b
    BY <1>2 DEF Bijection, Injection, IsInjective
  <2> QED BY <2>1 DEF IsInjective
<1>4. f \in [1 .. n -> S] /\ IsInjective(f)
  BY <1>3 DEF SetToSeq
<1>5. f \in Injection(1 .. n, S)
  BY <1>4, Fun_IsInj DEF IsInjective
<1>6. Cardinality(1 .. n) = n
  BY <1>1, FS_Interval
<1>7. f \in Surjection(1 .. n, S)
  BY <1>1, <1>5, <1>6, FS_Injection
<1>8. \A x \in S : \E i \in 1 .. n : f[i] = x
  BY <1>7 DEF Surjection
<1>9. f \in Seq(S) /\ Len(f) = n
  BY <1>1, <1>4, SeqDef
<1> QED BY <1>8, <1>9

-----------------------------------------------------------------------------
(* What a step leaves covered                                                 *)

\* An event in a queue is still to be signalled, so what a signalled event
\* covers has run.
LEMMA SignalledCovered ==
  ASSUME TypeOK, SignalsInOrder,
         NEW e \in Event, NEW t \in Nat, Signalled(e), Covers(e, t)
  PROVE  t \in ran
<1> SUFFICES ASSUME NEW j \in DOMAIN commands[e[1]], commands[e[1]][j] = Signal(e)
             PROVE  FALSE
  BY DEF Covers
<1>1. e[1] \in Streams /\ e[2] \in Nat
  BY EventForms
<1>2. IsSignal(e[1], j) /\ commands[e[1]][j].event = e
  BY CommandForms DEF IsSignal
<1>3. e[2] \in reached[e[1]] + 1 .. events[e[1]]
  BY <1>1, <1>2 DEF SignalsInOrder
<1>4. reached[e[1]] \in Nat /\ events[e[1]] \in Nat
  BY <1>1 DEF TypeOK
<1> QED BY <1>1, <1>3, <1>4 DEF Signalled

\* The commands of every stream are those it had, and perhaps more.
Extends(old, new) ==
  \A s \in Streams :
    /\ Len(old[s]) <= Len(new[s])
    /\ \A i \in 1 .. Len(old[s]) : new[s][i] = old[s][i]

LEMMA CommandsSeq ==
  ASSUME NEW c \in [Streams -> Seq(Command)], NEW s \in Streams
  PROVE  /\ c[s] \in Seq(Command) /\ Len(c[s]) \in Nat
         /\ DOMAIN c[s] = 1 .. Len(c[s])
         /\ \A i \in 1 .. Len(c[s]) : c[s][i] \in Command
<1>1. c[s] \in Seq(Command)
  OBVIOUS
<1> QED BY <1>1, LenProperties, ElementOfSeq

\* New commands at the end change nothing for what was covered before.
LEMMA ExtendedCovers ==
  ASSUME TypeOK, commands' \in [Streams -> Seq(Command)],
         Extends(commands, commands'), ran \subseteq ran'
  PROVE  /\ \A e \in Event, t \in Nat : Covers(e, t) => Covers(e, t)'
         /\ \A c \in Command, t \in Nat : WaitsFor(c, t) => WaitsFor(c, t)'
         /\ \A s \in Streams, i \in Nat, t \in Nat : Guarded(s, i, t) => Guarded(s, i, t)'
         /\ \A e \in Event, t \in Nat : CoversShared(e, t) => CoversShared(e, t)'
<1>1. commands \in [Streams -> Seq(Command)]
  BY DEF TypeOK
<1>2. ASSUME NEW s \in Streams, NEW i \in DOMAIN commands[s]
      PROVE  /\ i \in DOMAIN commands'[s] /\ commands'[s][i] = commands[s][i]
             /\ i \in Nat /\ commands[s][i] \in Command
  <2>1. DOMAIN commands[s] = 1 .. Len(commands[s]) /\ Len(commands[s]) \in Nat
        /\ DOMAIN commands'[s] = 1 .. Len(commands'[s]) /\ Len(commands'[s]) \in Nat
    BY <1>1, CommandsSeq
  <2>2. commands[s][i] \in Command
    BY <1>1, <2>1, CommandsSeq
  <2> QED BY <2>1, <2>2 DEF Extends
<1>3. ASSUME NEW e \in Event, NEW t \in Nat, Covers(e, t)
      PROVE  Covers(e, t)'
  <2>1. CASE t \in ran
    BY <2>1 DEF Covers
  <2>2. CASE t \notin ran
    <3>1. e[1] \in Streams
      BY EventForms
    <3>2. PICK i \in DOMAIN commands[e[1]], j \in DOMAIN commands[e[1]] :
            /\ i < j
            /\ commands[e[1]][i] = RunTask(t)
            /\ commands[e[1]][j] = Signal(e)
      BY <1>3, <2>2 DEF Covers
    <3>3. /\ i \in DOMAIN commands'[e[1]] /\ commands'[e[1]][i] = RunTask(t)
          /\ j \in DOMAIN commands'[e[1]] /\ commands'[e[1]][j] = Signal(e)
      BY <1>2, <3>1, <3>2
    <3> QED BY <3>2, <3>3 DEF Covers, RunTask, Signal
  <2> QED BY <2>1, <2>2
<1>4. ASSUME NEW c \in Command, NEW t \in Nat, WaitsFor(c, t)
      PROVE  WaitsFor(c, t)'
  <2>1. c.event \in Event
    BY <1>4, CommandForms DEF WaitsFor
  <2> QED BY <1>3, <1>4, <2>1 DEF WaitsFor
<1>5. ASSUME NEW s \in Streams, NEW i \in Nat, NEW t \in Nat, Guarded(s, i, t)
      PROVE  Guarded(s, i, t)'
  <2>1. CASE t \in ran
    BY <2>1 DEF Guarded
  <2>2. CASE t \notin ran
    <3>1. PICK j \in DOMAIN commands[s] :
            j < i /\ (commands[s][j] = RunTask(t) \/ WaitsFor(commands[s][j], t))
      BY <1>5, <2>2 DEF Guarded
    <3>2. j \in DOMAIN commands'[s] /\ commands'[s][j] = commands[s][j]
          /\ commands[s][j] \in Command
      BY <1>2, <3>1
    <3>3. (commands[s][j] = RunTask(t) \/ WaitsFor(commands[s][j], t))'
      BY <1>4, <3>1, <3>2
    <3> QED BY <3>1, <3>2, <3>3 DEF Guarded, RunTask
  <2> QED BY <2>1, <2>2
<1>6. ASSUME NEW e \in Event, NEW t \in Nat, CoversShared(e, t)
      PROVE  CoversShared(e, t)'
  <2>1. CASE t \in ran
    BY <2>1 DEF CoversShared
  <2>2. CASE t \notin ran
    <3>1. PICK i \in DOMAIN commands[Special], j \in DOMAIN commands[Special] :
            i < j /\ WaitsFor(commands[Special][i], t) /\ commands[Special][j] = Signal(e)
      BY <1>6, <2>2 DEF CoversShared
    <3>2. /\ i \in DOMAIN commands'[Special] /\ commands'[Special][i] = commands[Special][i]
          /\ j \in DOMAIN commands'[Special] /\ commands'[Special][j] = Signal(e)
          /\ commands[Special][i] \in Command
      BY <1>2, <3>1, StreamSets
    <3>3. WaitsFor(commands[Special][i], t)'
      BY <1>4, <3>1, <3>2
    <3> QED BY <3>1, <3>2, <3>3 DEF CoversShared, Signal, Special
  <2> QED BY <2>1, <2>2
<1> QED BY <1>3, <1>4, <1>5, <1>6

\* What the device does with the command at the head of a stream.
LEMMA DeviceStep ==
  ASSUME TypeOK, NEW s \in Streams, Device(s)
  PROVE  /\ Len(commands[s]) \in Nat \ {0} /\ commands[s][1] \in Command
         /\ commands' \in [Streams -> Seq(Command)]
         /\ \A r \in Streams : r # s => commands'[r] = commands[r]
         /\ Len(commands'[s]) = Len(commands[s]) - 1
         /\ \A i \in 1 .. Len(commands'[s]) : commands'[s][i] = commands[s][i + 1]
         /\ ran \subseteq ran' /\ ran' \subseteq Nat
         /\ commands[s][1].do = "run" => commands[s][1].task \in ran'
         /\ commands[s][1].do = "wait" => Signalled(commands[s][1].event)
         /\ commands[s][1].do # "signal" => reached' = reached
         /\ commands[s][1].do = "signal" =>
              reached' = [reached EXCEPT ![s] = commands[s][1].event[2]]
<1>1. commands \in [Streams -> Seq(Command)] /\ ran \subseteq Nat
  BY DEF TypeOK
<1>2. commands[s] \in Seq(Command) /\ commands[s] # <<>>
  BY <1>1 DEF Device
<1>3. Len(commands[s]) \in Nat \ {0} /\ Head(commands[s]) = commands[s][1]
  BY <1>2
<1>4. commands[s][1] \in Command
  BY <1>2, <1>3, ElementOfSeq
<1>5. /\ Tail(commands[s]) \in Seq(Command)
      /\ Len(Tail(commands[s])) = Len(commands[s]) - 1
      /\ \A i \in 1 .. Len(Tail(commands[s])) : Tail(commands[s])[i] = commands[s][i + 1]
  BY <1>2, HeadTailProperties
<1>6. commands' = [commands EXCEPT ![s] = Tail(@)]
  BY DEF Device
<1>7. /\ commands' \in [Streams -> Seq(Command)] /\ commands'[s] = Tail(commands[s])
      /\ \A r \in Streams : r # s => commands'[r] = commands[r]
  BY <1>1, <1>5, <1>6
<1>8. /\ commands[s][1].do = "wait" => Signalled(commands[s][1].event)
      /\ ran' = ran \union (IF commands[s][1].do = "run" THEN {commands[s][1].task} ELSE {})
      /\ reached' = IF commands[s][1].do = "signal"
                    THEN [reached EXCEPT ![s] = commands[s][1].event[2]] ELSE reached
  BY <1>3 DEF Device
<1>9. commands[s][1].do = "run" => commands[s][1].task \in Nat
  BY <1>4, CommandForms
<1>10. ran' \subseteq Nat
  BY <1>1, <1>8, <1>9
<1> QED BY <1>3, <1>4, <1>5, <1>7, <1>8, <1>10

\* When the head of a stream goes, what it guarded has run.
LEMMA DeviceCovers ==
  ASSUME TypeOK, SignalsInOrder, NEW s \in Streams, Device(s)
  PROVE  /\ \A e \in Event, t \in Nat : Covers(e, t) => Covers(e, t)'
         /\ \A c \in Command, t \in Nat : WaitsFor(c, t) => WaitsFor(c, t)'
         /\ \A r \in Streams, i \in Nat, t \in Nat :
              Guarded(r, IF r = s THEN i + 1 ELSE i, t) => Guarded(r, i, t)'
         /\ \A e \in Event, t \in Nat : CoversShared(e, t) => CoversShared(e, t)'
<1>1. commands \in [Streams -> Seq(Command)]
  BY DEF TypeOK
<1> DEFINE place(r, i) == IF r = s THEN i - 1 ELSE i
<1>2. ASSUME NEW r \in Streams, NEW i \in DOMAIN commands[r], r # s \/ i # 1
      PROVE  /\ place(r, i) \in DOMAIN commands'[r]
             /\ commands'[r][place(r, i)] = commands[r][i]
             /\ i \in Nat \ {0} /\ commands[r][i] \in Command
  <2>1. /\ DOMAIN commands[r] = 1 .. Len(commands[r]) /\ Len(commands[r]) \in Nat
        /\ DOMAIN commands'[r] = 1 .. Len(commands'[r]) /\ Len(commands'[r]) \in Nat
        /\ commands[r][i] \in Command
    BY <1>1, CommandsSeq, DeviceStep
  <2>2. CASE r = s
    <3>1. i - 1 \in 1 .. Len(commands'[s]) /\ (i - 1) + 1 = i
      BY <1>2, <2>1, <2>2, DeviceStep
    <3> QED BY <2>1, <2>2, <3>1, DeviceStep
  <2>3. CASE r # s
    BY <2>1, <2>3, DeviceStep
  <2> QED BY <2>2, <2>3
<1>3. ASSUME NEW t \in Nat, RunTask(t) = commands[s][1]
      PROVE  t \in ran'
  BY <1>3, CommandForms, DeviceStep
<1>4. ASSUME NEW t \in Nat, WaitsFor(commands[s][1], t)
      PROVE  t \in ran
  BY <1>4, CommandForms, DeviceStep, SignalledCovered DEF WaitsFor
<1>5. ASSUME NEW e \in Event, NEW t \in Nat, Covers(e, t)
      PROVE  Covers(e, t)'
  <2>1. CASE t \in ran'
    BY <2>1 DEF Covers
  <2>2. CASE t \notin ran'
    <3>1. e[1] \in Streams
      BY EventForms
    <3>2. PICK i \in DOMAIN commands[e[1]], j \in DOMAIN commands[e[1]] :
            /\ i < j
            /\ commands[e[1]][i] = RunTask(t)
            /\ commands[e[1]][j] = Signal(e)
      BY <1>5, <2>2, DeviceStep DEF Covers
    <3>3. i \in Nat /\ i \geq 1 /\ j \in Nat /\ (e[1] # s \/ i # 1) /\ j # 1
      BY <1>1, <1>3, <2>2, <3>1, <3>2, CommandsSeq
    <3>4. /\ place(e[1], i) \in DOMAIN commands'[e[1]]
          /\ commands'[e[1]][place(e[1], i)] = RunTask(t)
          /\ place(e[1], j) \in DOMAIN commands'[e[1]]
          /\ commands'[e[1]][place(e[1], j)] = Signal(e)
      BY <1>2, <3>1, <3>2, <3>3
    <3>5. place(e[1], i) < place(e[1], j)
      BY <3>2, <3>3
    <3> QED BY <3>4, <3>5 DEF Covers, RunTask, Signal
  <2> QED BY <2>1, <2>2
<1>6. ASSUME NEW c \in Command, NEW t \in Nat, WaitsFor(c, t)
      PROVE  WaitsFor(c, t)'
  <2>1. c.event \in Event
    BY <1>6, CommandForms DEF WaitsFor
  <2> QED BY <1>5, <1>6, <2>1 DEF WaitsFor
<1>7. ASSUME NEW r \in Streams, NEW i \in Nat, NEW t \in Nat,
             Guarded(r, IF r = s THEN i + 1 ELSE i, t)
      PROVE  Guarded(r, i, t)'
  <2>1. CASE t \in ran'
    BY <2>1 DEF Guarded
  <2>2. CASE t \notin ran'
    <3>1. PICK j \in DOMAIN commands[r] :
            /\ j < IF r = s THEN i + 1 ELSE i
            /\ commands[r][j] = RunTask(t) \/ WaitsFor(commands[r][j], t)
      BY <1>7, <2>2, DeviceStep DEF Guarded
    <3>2. j \in Nat /\ j \geq 1 /\ (r # s \/ j # 1)
      BY <1>1, <1>3, <1>4, <2>2, <3>1, CommandsSeq, DeviceStep
    <3>3. /\ place(r, j) \in DOMAIN commands'[r]
          /\ commands'[r][place(r, j)] = commands[r][j]
          /\ commands[r][j] \in Command
      BY <1>2, <3>2
    <3>4. place(r, j) < i
      BY <3>1, <3>2
    <3> DEFINE k == place(r, j)
    <3>5. (commands[r][k] = RunTask(t) \/ WaitsFor(commands[r][k], t))'
      BY <1>6, <3>1, <3>3
    <3> QED BY <3>3, <3>4, <3>5 DEF Guarded, RunTask
  <2> QED BY <2>1, <2>2
<1>8. ASSUME NEW e \in Event, NEW t \in Nat, CoversShared(e, t)
      PROVE  CoversShared(e, t)'
  <2>1. CASE t \in ran'
    BY <2>1 DEF CoversShared
  <2>2. CASE t \notin ran'
    <3>1. PICK i \in DOMAIN commands[Special], j \in DOMAIN commands[Special] :
            i < j /\ WaitsFor(commands[Special][i], t) /\ commands[Special][j] = Signal(e)
      BY <1>8, <2>2, DeviceStep DEF CoversShared
    <3>2. i \in Nat /\ i \geq 1 /\ j \in Nat /\ (Special # s \/ i # 1) /\ j # 1
      BY <1>1, <1>4, <2>2, <3>1, CommandsSeq, StreamSets, DeviceStep
    <3>3. /\ place(Special, i) \in DOMAIN commands'[Special]
          /\ commands'[Special][place(Special, i)] = commands[Special][i]
          /\ place(Special, j) \in DOMAIN commands'[Special]
          /\ commands'[Special][place(Special, j)] = Signal(e)
          /\ commands[Special][i] \in Command
      BY <1>2, <3>1, <3>2, StreamSets
    <3>4. place(Special, i) < place(Special, j)
      BY <3>1, <3>2
    <3> DEFINE k == place(Special, i)
    <3>5. WaitsFor(commands[Special][k], t)'
      BY <1>6, <3>1, <3>3 DEF Special
    <3> QED BY <3>3, <3>4, <3>5 DEF CoversShared, Signal, Special
  <2> QED BY <2>1, <2>2
<1> QED BY <1>5, <1>6, <1>7, <1>8

-----------------------------------------------------------------------------
(* The device                                                                 *)

LEMMA DeviceTypeOK ==
  ASSUME StreamsInv, NEW s \in Streams, Device(s)
  PROVE  TypeOK'
<1>1. commands[s][1].do = "signal" => commands[s][1].event[2] \in Nat
  BY CommandForms, EventForms, DeviceStep DEF StreamsInv
<1>2. reached' \in [Streams -> Nat]
  <2>1. reached \in [Streams -> Nat] /\ commands[s][1].do # "signal" => reached' = reached
    BY DeviceStep DEF StreamsInv, TypeOK
  <2>2. reached \in [Streams -> Nat]
    BY DEF StreamsInv, TypeOK
  <2> QED BY <1>1, <2>1, <2>2, DeviceStep DEF StreamsInv
<1>3. commands' \in [Streams -> Seq(Command)] /\ ran' \subseteq Nat
  BY DeviceStep DEF StreamsInv
<1> QED BY <1>2, <1>3 DEF StreamsInv, TypeOK, Device, bytes, gc

LEMMA DeviceSignalsInOrder ==
  ASSUME StreamsInv, NEW s \in Streams, Device(s)
  PROVE  SignalsInOrder'
<1> USE DEF StreamsInv
<1>1. commands \in [Streams -> Seq(Command)] /\ commands' \in [Streams -> Seq(Command)]
  BY DeviceStep DEF TypeOK
<1> DEFINE old(r, i) == IF r = s THEN i + 1 ELSE i
<1>2. ASSUME NEW r \in Streams, NEW i \in DOMAIN commands'[r]
      PROVE  /\ i \in Nat \ {0} /\ old(r, i) \in DOMAIN commands[r]
             /\ commands'[r][i] = commands[r][old(r, i)]
  <2>1. /\ DOMAIN commands[r] = 1 .. Len(commands[r]) /\ Len(commands[r]) \in Nat
        /\ DOMAIN commands'[r] = 1 .. Len(commands'[r]) /\ Len(commands'[r]) \in Nat
    BY <1>1, CommandsSeq
  <2> QED BY <2>1, DeviceStep
<1>3. events' = events
  BY DEF Device
<1>4. ASSUME NEW r \in Streams
      PROVE  reached'[r] <= events'[r]
  <2>1. reached \in [Streams -> Nat] /\ events \in [Streams -> Nat]
    BY DEF TypeOK
  <2>2. CASE r = s /\ commands[s][1].do = "signal"
    <3>1. 1 \in DOMAIN commands[s]
      BY <1>1, CommandsSeq, DeviceStep
    <3>2. commands[s][1].event[2] \in reached[s] + 1 .. events[s]
      BY <2>2, <3>1 DEF SignalsInOrder, IsSignal
    <3>3. reached'[s] = commands[s][1].event[2]
      BY <2>1, <2>2, DeviceStep
    <3> QED BY <1>3, <2>1, <2>2, <3>2, <3>3
  <2>3. CASE r # s \/ commands[s][1].do # "signal"
    <3>1. reached'[r] = reached[r]
      BY <2>1, <2>3, DeviceStep
    <3> QED BY <1>3, <3>1 DEF SignalsInOrder
  <2> QED BY <2>2, <2>3
<1> SUFFICES ASSUME NEW r \in Streams, NEW i \in DOMAIN commands'[r], IsSignal(r, i)'
             PROVE  (/\ commands[r][i].event[1] = r
                     /\ commands[r][i].event[2] \in reached[r] + 1 .. events[r]
                     /\ \A j \in DOMAIN commands[r] : IsSignal(r, j) /\ i < j =>
                          commands[r][i].event[2] < commands[r][j].event[2])'
  BY <1>4 DEF SignalsInOrder
<1>5. IsSignal(r, old(r, i))
  BY <1>2 DEF IsSignal
<1>6. /\ commands[r][old(r, i)].event[1] = r
      /\ commands[r][old(r, i)].event[2] \in reached[r] + 1 .. events[r]
      /\ \A j \in DOMAIN commands[r] : IsSignal(r, j) /\ old(r, i) < j =>
           commands[r][old(r, i)].event[2] < commands[r][j].event[2]
  BY <1>2, <1>5 DEF SignalsInOrder
<1>7. (commands[r][i].event[2] \in reached[r] + 1 .. events[r])'
  <2>1. reached \in [Streams -> Nat] /\ events \in [Streams -> Nat]
    BY DEF TypeOK
  <2>2. CASE r = s /\ commands[s][1].do = "signal"
    <3>1. 1 \in DOMAIN commands[s]
      BY <1>1, CommandsSeq, DeviceStep
    <3>2. IsSignal(s, 1)
      BY <2>2, <3>1 DEF IsSignal
    <3>3. commands[s][1].event[2] < commands[s][old(s, i)].event[2]
      BY <1>2, <1>5, <2>2, <3>1, <3>2 DEF SignalsInOrder
    <3>4. commands[s][1].event[2] \in Nat /\ reached'[s] = commands[s][1].event[2]
      BY <2>1, <2>2, DeviceStep, CommandForms, EventForms
    <3> QED BY <1>2, <1>3, <1>6, <2>1, <2>2, <3>3, <3>4
  <2>3. CASE r # s \/ commands[s][1].do # "signal"
    <3>1. reached'[r] = reached[r]
      BY <2>1, <2>3, DeviceStep
    <3> QED BY <1>2, <1>3, <1>6, <3>1
  <2> QED BY <2>2, <2>3
<1>8. ASSUME NEW j \in DOMAIN commands'[r], IsSignal(r, j)', i < j
      PROVE  (commands[r][i].event[2] < commands[r][j].event[2])'
  <2>1. old(r, j) \in DOMAIN commands[r] /\ IsSignal(r, old(r, j)) /\ old(r, i) < old(r, j)
    BY <1>2, <1>8 DEF IsSignal
  <2> QED BY <1>2, <1>6, <2>1
<1> QED BY <1>2, <1>6, <1>7, <1>8

LEMMA DeviceTasksInOrder ==
  ASSUME StreamsInv, NEW s \in Streams, Device(s)
  PROVE  TasksInOrder'
<1> USE DEF StreamsInv
<1>1. commands \in [Streams -> Seq(Command)] /\ commands' \in [Streams -> Seq(Command)]
  BY DeviceStep DEF TypeOK
<1>2. tasks' = tasks /\ cursors' = cursors /\ tasks \in Seq(Task)
  BY DEF Device, TypeOK
<1>3. ASSUME NEW r \in Streams, NEW i \in DOMAIN commands'[r]
      PROVE  LET k == IF r = s THEN i + 1 ELSE i
             IN  i \in Nat /\ k \in DOMAIN commands[r] /\ commands'[r][i] = commands[r][k]
  <2>1. /\ DOMAIN commands[r] = 1 .. Len(commands[r]) /\ Len(commands[r]) \in Nat
        /\ DOMAIN commands'[r] = 1 .. Len(commands'[r]) /\ Len(commands'[r]) \in Nat
    BY <1>1, CommandsSeq
  <2> QED BY <2>1, DeviceStep
<1>4. ASSUME NEW t \in DOMAIN tasks
      PROVE  (t \in ran \/ \E i \in DOMAIN commands[Home(t)] :
                             commands[Home(t)][i] = RunTask(t))'
  <2>1. t \in Nat /\ Home(t) \in Streams /\ Home(t)' = Home(t)
    BY <1>2, TaskTypes DEF Home
  <2>2. CASE t \in ran
    BY <2>2, DeviceStep
  <2>3. CASE t \notin ran
    <3>1. PICK i \in DOMAIN commands[Home(t)] : commands[Home(t)][i] = RunTask(t)
      BY <2>3 DEF TasksInOrder
    <3>2. CASE Home(t) = s /\ i = 1
      BY <2>1, <3>1, <3>2, CommandForms, DeviceStep
    <3>3. CASE Home(t) # s \/ i # 1
      <4> DEFINE k == IF Home(t) = s THEN i - 1 ELSE i
      <4>1. DOMAIN commands[Home(t)] = 1 .. Len(commands[Home(t)])
            /\ Len(commands[Home(t)]) \in Nat
            /\ DOMAIN commands'[Home(t)] = 1 .. Len(commands'[Home(t)])
        BY <1>1, <2>1, CommandsSeq
      <4>2. k \in DOMAIN commands'[Home(t)]
            /\ commands'[Home(t)][k] = commands[Home(t)][i]
        <5>1. CASE Home(t) = s
          <6>1. i - 1 \in 1 .. Len(commands'[s]) /\ (i - 1) + 1 = i
            BY <3>3, <4>1, <5>1, DeviceStep
          <6> QED BY <4>1, <5>1, <6>1, DeviceStep
        <5>2. CASE Home(t) # s
          BY <2>1, <4>1, <5>2, DeviceStep
        <5> QED BY <5>1, <5>2
      <4> QED BY <2>1, <3>1, <4>2 DEF RunTask
    <3> QED BY <3>2, <3>3
  <2> QED BY <2>2, <2>3
<1>5. ASSUME NEW r \in Streams, NEW i \in DOMAIN commands'[r], commands'[r][i].do = "run"
      PROVE  (/\ commands[r][i].task \in DOMAIN tasks
              /\ \A u \in tasks[commands[r][i].task].reads : Guarded(r, i, u))'
  <2> DEFINE k == IF r = s THEN i + 1 ELSE i
             t == commands[r][k].task
  <2>1. i \in Nat /\ k \in DOMAIN commands[r] /\ commands'[r][i] = commands[r][k]
    BY <1>3
  <2>2. t \in DOMAIN tasks /\ \A u \in tasks[t].reads : Guarded(r, k, u)
    BY <1>5, <2>1 DEF TasksInOrder
  <2>3. ASSUME NEW u \in tasks[t].reads PROVE Guarded(r, i, u)'
    <3>1. u \in Nat
      BY <1>2, <2>2, LenProperties DEF TasksInOrder
    <3> QED BY <2>1, <2>2, <3>1, DeviceCovers
  <2> QED BY <1>2, <2>1, <2>2, <2>3
<1>6. \A t \in DOMAIN tasks : (tasks[t].reads \subseteq DOMAIN tasks
                               /\ tasks[t].cursor <= cursors[Home(t)])'
  BY <1>2 DEF TasksInOrder, Home
<1> QED BY <1>2, <1>4, <1>5, <1>6 DEF TasksInOrder

LEMMA DeviceKeepsCovered ==
  ASSUME StreamsInv, NEW s \in Streams, Device(s)
  PROVE  SyncedGuarded' /\ FencesCover' /\ CollectsCovered' /\ BytesStay'
<1> USE DEF StreamsInv
<1>1. /\ tasks' = tasks /\ cursors' = cursors /\ synced' = synced /\ staged' = staged
      /\ pending' = pending /\ fence' = fence /\ host' = host /\ channel' = channel
      /\ collecting' = collecting
  BY DEF Device, bytes, gc
<1>2. \A t \in DOMAIN tasks : t \in Nat /\ Home(t)' = Home(t)
  BY <1>1, TaskTypes DEF Home
<1>3. SyncedGuarded'
  <2> SUFFICES ASSUME NEW r \in Regular, NEW o \in DOMAIN synced[r], NEW t \in DOMAIN tasks,
                      Home(t) = o, tasks[t].cursor <= synced[r][o]
               PROVE  Guarded(r, Len(commands[r]) + 1, t)'
    BY <1>1, <1>2 DEF SyncedGuarded
  <2>1. Guarded(r, Len(commands[r]) + 1, t)
    BY DEF SyncedGuarded
  <2>2. r \in Streams /\ commands \in [Streams -> Seq(Command)]
        /\ commands' \in [Streams -> Seq(Command)]
    BY StreamSets, DeviceStep DEF TypeOK
  <2>3. Len(commands[r]) \in Nat /\ Len(commands'[r]) \in Nat
    BY <2>2, CommandsSeq
  <2>4. Len(commands[r]) + 1 = IF r = s THEN (Len(commands'[r]) + 1) + 1
                               ELSE Len(commands'[r]) + 1
    BY <2>2, <2>3, DeviceStep
  <2> DEFINE n == Len(commands'[r]) + 1
  <2>5. n \in Nat /\ Guarded(r, IF r = s THEN n + 1 ELSE n, t)
    BY <2>1, <2>3, <2>4
  <2>6. PICK m \in Nat : m = n
    BY <2>5
  <2>7. Guarded(r, m, t)'
    BY <1>2, <2>2, <2>5, <2>6, DeviceCovers
  <2> QED BY <2>6, <2>7
<1>4. FencesCover'
  <2>1. ASSUME NEW r \in Regular, NEW t \in pending[r]
        PROVE  Covers(fence[r], t)'
    <3>1. fence[r] \in Event /\ t \in Nat /\ Covers(fence[r], t)
      BY DEF TypeOK, FencesCover
    <3>2. PICK e \in Event : e = fence[r]
      BY <3>1
    <3>3. Covers(e, t)'
      BY <3>1, <3>2, DeviceCovers
    <3> QED BY <1>1, <3>2, <3>3 DEF Covers, RunTask, Signal
  <2> QED BY <1>1, <1>2, <2>1 DEF FencesCover
<1>5. CollectsCovered'
  <2>1. ASSUME NEW b \in Batch, CoversShared(b.event, b.task)
        PROVE  CoversShared(b.event, b.task)'
    BY <2>1, DeviceCovers DEF Batch
  <2>2. (host.at \in {"syncing", "leaving"} =>
           host.task \in DOMAIN tasks /\ Home(host.task) = host.stream)'
    BY <1>1, <1>2 DEF CollectsCovered
  <2>3. (host.at = "sending" => CoversShared(host.batch.event, host.batch.task))'
    <3> SUFFICES ASSUME host.at = "sending"
                 PROVE  CoversShared(host.batch.event, host.batch.task)'
      BY <1>1
    <3>1. host.batch \in Batch
      BY DEF TypeOK, HostState, Idle
    <3>2. PICK b \in Batch : b = host.batch
      BY <3>1
    <3>3. CoversShared(b.event, b.task)'
      BY <2>1, <3>2 DEF CollectsCovered
    <3> QED BY <1>1, <3>2, <3>3 DEF CoversShared, WaitsFor, Covers, RunTask, Signal
  <2>4. (\A i \in DOMAIN channel : CoversShared(channel[i].event, channel[i].task))'
    <3> SUFFICES ASSUME NEW i \in DOMAIN channel
                 PROVE  CoversShared(channel[i].event, channel[i].task)'
      BY <1>1
    <3>1. channel[i] \in Batch
      BY LenProperties, ElementOfSeq DEF TypeOK
    <3>2. PICK b \in Batch : b = channel[i]
      BY <3>1
    <3>3. CoversShared(b.event, b.task)'
      BY <2>1, <3>2 DEF CollectsCovered
    <3> QED BY <1>1, <3>2, <3>3 DEF CoversShared, WaitsFor, Covers, RunTask, Signal
  <2>5. (collecting # Nothing => CoversShared(collecting.event, collecting.task))'
    <3> SUFFICES ASSUME collecting # Nothing
                 PROVE  CoversShared(collecting.event, collecting.task)'
      BY <1>1 DEF Nothing, NoEvent, Special
    <3>1. PICK b \in Batch : b = collecting
      BY DEF TypeOK
    <3>2. CoversShared(b.event, b.task)'
      BY <2>1, <3>1 DEF CollectsCovered
    <3> QED BY <1>1, <3>1, <3>2 DEF CoversShared, WaitsFor, Covers, RunTask, Signal
  <2> QED BY <2>2, <2>3, <2>4, <2>5 DEF CollectsCovered
<1>6. BytesStay'
  BY <1>1, DeviceStep DEF BytesStay
<1> QED BY <1>3, <1>4, <1>5, <1>6

-----------------------------------------------------------------------------
(* Alignment                                                                  *)

\* The commands of the streams once the alignment is made: each origin records
\* its next event, and the stream waits for all of these events.
LEMMA AlignedCommands ==
  ASSUME TypeOK, NEW s \in Regular, NEW origins \in SUBSET Regular
  PROVE  LET new == Aligned(s, origins)
         IN  /\ new \in [Streams -> Seq(Command)]
             /\ Extends(commands, new)
             /\ \A r \in Streams : \A i \in Len(commands[r]) + 1 .. Len(new[r]) :
                  \/ /\ r \in origins /\ i = Len(commands[r]) + 1
                     /\ new[r][i] = Signal(NextEvent(r))
                  \/ \E e \in Event : r = s /\ new[r][i] = Wait(e)
             /\ \A o \in origins :
                  /\ Len(commands[o]) + 1 \in DOMAIN new[o]
                  /\ new[o][Len(commands[o]) + 1] = Signal(NextEvent(o))
                  /\ \E i \in DOMAIN new[s] : new[s][i] = Wait(NextEvent(o))
<1> DEFINE flushed == [r \in Streams |-> IF r \in origins
                                         THEN Append(commands[r], Signal(NextEvent(r)))
                                         ELSE commands[r]]
           events_ == {Wait(NextEvent(o)) : o \in origins}
           waits == SetToSeq(events_)
           new == [flushed EXCEPT ![s] = @ \o waits]
<1>1. commands \in [Streams -> Seq(Command)] /\ events \in [Streams -> Nat]
  BY DEF TypeOK
<1>2. \A r \in Streams : NextEvent(r) \in Event
  BY <1>1, EventForms DEF NextEvent
<1>3. \A r \in Regular : r \in Streams
  BY StreamSets
<1>4. ASSUME NEW r \in Streams
      PROVE  /\ flushed[r] \in Seq(Command) /\ Len(flushed[r]) \in Nat
             /\ r \in origins => Len(flushed[r]) = Len(commands[r]) + 1
             /\ r \notin origins => Len(flushed[r]) = Len(commands[r])
             /\ \A i \in 1 .. Len(commands[r]) : flushed[r][i] = commands[r][i]
             /\ r \in origins =>
                  flushed[r][Len(commands[r]) + 1] = Signal(NextEvent(r))
  <2>1. commands[r] \in Seq(Command) /\ Len(commands[r]) \in Nat
    BY <1>1, CommandsSeq
  <2>2. Signal(NextEvent(r)) \in Command
    BY <1>2, CommandForms
  <2>3. CASE r \in origins
    BY <2>1, <2>2, <2>3, AppendProperties
  <2>4. CASE r \notin origins
    BY <2>1, <2>4
  <2> QED BY <2>3, <2>4
<1>5. /\ waits \in Seq(events_) /\ waits \in Seq(Command) /\ Len(waits) \in Nat
      /\ \A i \in 1 .. Len(waits) : waits[i] \in events_
      /\ \A o \in origins : \E i \in 1 .. Len(waits) : waits[i] = Wait(NextEvent(o))
  <2>1. IsFiniteSet(origins)
    BY StreamSets, FS_Subset
  <2>2. IsFiniteSet(events_)
    <3> DEFINE f == [o \in origins |-> Wait(NextEvent(o))]
    <3>1. f \in Surjection(origins, events_)
      BY DEF Surjection
    <3> HIDE DEF f
    <3> QED BY <2>1, <3>1, FS_Surjection
  <2>3. events_ \subseteq Command
    BY <1>2, <1>3, CommandForms
  <2> HIDE DEF events_
  <2>4. waits \in Seq(events_) /\ \A x \in events_ : \E i \in 1 .. Len(waits) : waits[i] = x
    BY <2>2, SetToSeqElements
  <2>5. waits \in Seq(Command) /\ Len(waits) \in Nat
    BY <2>3, <2>4, SeqMonotonic, LenProperties
  <2>6. \A i \in 1 .. Len(waits) : waits[i] \in events_
    BY <2>4, ElementOfSeq
  <2> QED BY <2>4, <2>5, <2>6 DEF events_
<1>6. \A x \in events_ : \E e \in Event : x = Wait(e)
  BY <1>2, <1>3
<1> HIDE DEF flushed, waits, events_
<1>7. \A r \in Streams : r # s => new[r] = flushed[r]
  BY DEF flushed
<1>8. /\ new[s] = flushed[s] \o waits
      /\ new[s] \in Seq(Command)
      /\ Len(new[s]) = Len(flushed[s]) + Len(waits)
      /\ \A i \in 1 .. Len(flushed[s]) : new[s][i] = flushed[s][i]
      /\ \A i \in 1 .. Len(waits) : new[s][Len(flushed[s]) + i] = waits[i]
  <2>1. new[s] = flushed[s] \o waits
    BY <1>3 DEF flushed
  <2>2. flushed[s] \in Seq(Command) /\ Len(flushed[s]) \in Nat
    BY <1>3, <1>4
  <2>3. /\ new[s] \in Seq(Command)
        /\ Len(new[s]) = Len(flushed[s]) + Len(waits)
        /\ \A i \in 1 .. Len(flushed[s]) + Len(waits) :
             new[s][i] = IF i <= Len(flushed[s]) THEN flushed[s][i]
                         ELSE waits[i - Len(flushed[s])]
    BY <1>5, <2>1, <2>2, ConcatProperties
  <2> HIDE DEF new
  <2> QED BY <1>5, <2>1, <2>2, <2>3
<1>9. new \in [Streams -> Seq(Command)]
  <2>1. flushed \in [Streams -> Seq(Command)]
    BY <1>4 DEF flushed
  <2> QED BY <1>3, <1>7, <1>8, <2>1
<1> HIDE DEF new
<1>10. ASSUME NEW r \in Streams
       PROVE  /\ Len(flushed[r]) <= Len(new[r]) /\ Len(new[r]) \in Nat
              /\ \A i \in 1 .. Len(flushed[r]) : new[r][i] = flushed[r][i]
  <2>1. Len(flushed[r]) \in Nat
    BY <1>4
  <2>2. CASE r = s
    <3>1. Len(new[s]) = Len(flushed[s]) + Len(waits) /\ Len(waits) \in Nat
      BY <1>5, <1>8
    <3> QED BY <1>8, <2>1, <2>2, <3>1
  <2>3. CASE r # s
    BY <1>7, <2>1, <2>3
  <2> QED BY <2>2, <2>3
<1>11. Extends(commands, new)
  <2> SUFFICES ASSUME NEW r \in Streams
               PROVE  /\ Len(commands[r]) <= Len(new[r])
                      /\ \A i \in 1 .. Len(commands[r]) : new[r][i] = commands[r][i]
    BY DEF Extends
  <2>1. Len(commands[r]) \in Nat /\ Len(flushed[r]) \in Nat
        /\ Len(commands[r]) <= Len(flushed[r])
    BY <1>1, <1>4, CommandsSeq
  <2>2. \A i \in 1 .. Len(commands[r]) : i \in 1 .. Len(flushed[r])
    BY <2>1
  <2> QED BY <1>4, <1>10, <2>1, <2>2
<1>12. ASSUME NEW r \in Streams, NEW i \in Len(commands[r]) + 1 .. Len(new[r])
       PROVE  \/ /\ r \in origins /\ i = Len(commands[r]) + 1
                 /\ new[r][i] = Signal(NextEvent(r))
              \/ \E e \in Event : r = s /\ new[r][i] = Wait(e)
  <2>1. Len(commands[r]) \in Nat
    BY <1>1, CommandsSeq
  <2>2. CASE i <= Len(flushed[r])
    <3>1. r \in origins /\ i = Len(commands[r]) + 1 /\ i \in 1 .. Len(flushed[r])
      BY <1>4, <2>1, <2>2
    <3> QED BY <1>4, <1>10, <3>1
  <2>3. CASE i > Len(flushed[r])
    <3>1. r = s
      BY <1>4, <1>7, <2>3
    <3> DEFINE k == i - Len(flushed[s])
    <3>2. k \in 1 .. Len(waits) /\ i = Len(flushed[s]) + k
      BY <1>4, <1>5, <1>8, <2>1, <2>3, <3>1
    <3>3. new[s][i] \in events_
      BY <1>5, <1>8, <3>2
    <3> QED BY <1>6, <3>1, <3>3
  <2> QED BY <1>4, <2>1, <2>2, <2>3
<1>13. ASSUME NEW o \in origins
       PROVE  /\ Len(commands[o]) + 1 \in DOMAIN new[o]
              /\ new[o][Len(commands[o]) + 1] = Signal(NextEvent(o))
              /\ \E i \in DOMAIN new[s] : new[s][i] = Wait(NextEvent(o))
  <2>1. o \in Streams /\ s \in Streams /\ Len(commands[o]) \in Nat
    BY <1>1, <1>3, CommandsSeq
  <2>2. DOMAIN new[o] = 1 .. Len(new[o]) /\ DOMAIN new[s] = 1 .. Len(new[s])
    BY <1>9, <2>1, CommandsSeq
  <2>3. /\ Len(commands[o]) + 1 \in 1 .. Len(new[o])
        /\ new[o][Len(commands[o]) + 1] = Signal(NextEvent(o))
    <3>1. Len(commands[o]) + 1 \in 1 .. Len(flushed[o])
          /\ flushed[o][Len(commands[o]) + 1] = Signal(NextEvent(o))
          /\ Len(flushed[o]) \in Nat
      BY <1>4, <2>1
    <3>2. Len(flushed[o]) <= Len(new[o]) /\ Len(new[o]) \in Nat
          /\ new[o][Len(commands[o]) + 1] = flushed[o][Len(commands[o]) + 1]
      BY <1>10, <2>1, <3>1
    <3> QED BY <2>1, <3>1, <3>2
  <2>4. PICK k \in 1 .. Len(waits) : waits[k] = Wait(NextEvent(o))
    BY <1>5
  <2>5. Len(flushed[s]) + k \in 1 .. Len(new[s])
        /\ new[s][Len(flushed[s]) + k] = Wait(NextEvent(o))
    BY <1>4, <1>5, <1>8, <2>1, <2>4
  <2> QED BY <2>2, <2>3, <2>5
<1>14. Aligned(s, origins) = new
  BY DEF Aligned, new, flushed, waits, events_
<1> QED BY <1>9, <1>11, <1>12, <1>13, <1>14

-----------------------------------------------------------------------------
(* What new commands at the end of the streams keep                           *)

LEMMA GuardedLater ==
  ASSUME TypeOK, NEW s \in Streams, NEW i \in Nat, NEW k \in Nat, NEW t \in Nat,
         i <= k, Guarded(s, i, t)
  PROVE  Guarded(s, k, t)
<1>1. \A j \in DOMAIN commands[s] : j \in Nat
  BY CommandsSeq DEF TypeOK
<1> QED BY <1>1 DEF Guarded

\* An event recorded behind all the commands of its stream covers every task of
\* the stream.
LEMMA NewEventCovers ==
  ASSUME StreamsInv, commands' \in [Streams -> Seq(Command)],
         Extends(commands, commands'), ran' = ran,
         NEW t \in DOMAIN tasks, NEW e \in Event, e[1] = Home(t),
         NEW j \in DOMAIN commands'[e[1]], j > Len(commands[e[1]]),
         commands'[e[1]][j] = Signal(e)
  PROVE  Covers(e, t)'
<1> USE DEF StreamsInv
<1>1. CASE t \in ran
  BY <1>1 DEF Covers
<1>2. CASE t \notin ran
  <2>1. PICK i \in DOMAIN commands[e[1]] : commands[e[1]][i] = RunTask(t)
    BY <1>2 DEF TasksInOrder
  <2>2. e[1] \in Streams /\ commands \in [Streams -> Seq(Command)]
    BY EventForms DEF TypeOK
  <2>3. i \in 1 .. Len(commands[e[1]]) /\ Len(commands[e[1]]) \in Nat
    BY <2>2, CommandsSeq
  <2>4. DOMAIN commands'[e[1]] = 1 .. Len(commands'[e[1]]) /\ Len(commands'[e[1]]) \in Nat
    BY <2>2, CommandsSeq
  <2>5. i \in DOMAIN commands'[e[1]] /\ commands'[e[1]][i] = RunTask(t) /\ i < j
    BY <2>1, <2>2, <2>3, <2>4 DEF Extends
  <2> QED BY <2>5 DEF Covers, RunTask, Signal
<1> QED BY <1>1, <1>2

LEMMA ExtendedSignals ==
  ASSUME TypeOK, SignalsInOrder, commands' \in [Streams -> Seq(Command)],
         Extends(commands, commands'), reached' = reached, events' \in [Streams -> Nat],
         \A s \in Streams : events[s] <= events'[s],
         \A s \in Streams : \A i \in Len(commands[s]) + 1 .. Len(commands'[s]) :
           commands'[s][i].do = "signal" =>
             /\ commands'[s][i].event = NextEvent(s) /\ events'[s] = events[s] + 1
             /\ \A j \in Len(commands[s]) + 1 .. Len(commands'[s]) :
                  commands'[s][j].do = "signal" => i = j
  PROVE  SignalsInOrder'
<1>1. \A s \in Streams : reached'[s] <= events'[s]
  BY DEF SignalsInOrder, TypeOK
<1> SUFFICES ASSUME NEW s \in Streams, NEW i \in DOMAIN commands'[s], IsSignal(s, i)'
             PROVE  (/\ commands[s][i].event[1] = s
                     /\ commands[s][i].event[2] \in reached[s] + 1 .. events[s]
                     /\ \A j \in DOMAIN commands[s] : IsSignal(s, j) /\ i < j =>
                          commands[s][i].event[2] < commands[s][j].event[2])'
  BY <1>1 DEF SignalsInOrder
<1>2. /\ DOMAIN commands[s] = 1 .. Len(commands[s]) /\ Len(commands[s]) \in Nat
      /\ DOMAIN commands'[s] = 1 .. Len(commands'[s]) /\ Len(commands'[s]) \in Nat
  BY CommandsSeq DEF TypeOK
<1>3. /\ reached[s] \in Nat /\ events[s] \in Nat /\ events'[s] \in Nat
      /\ reached'[s] = reached[s] /\ events[s] <= events'[s]
  BY DEF TypeOK
<1>4. NextEvent(s)[1] = s /\ NextEvent(s)[2] = events[s] + 1
  BY DEF NextEvent
<1>5. reached[s] <= events[s]
  BY DEF SignalsInOrder
<1>6. ASSUME NEW j \in DOMAIN commands'[s], j <= Len(commands[s]), IsSignal(s, j)'
      PROVE  /\ j \in DOMAIN commands[s] /\ IsSignal(s, j)
             /\ commands'[s][j] = commands[s][j]
  BY <1>2, <1>6 DEF Extends, IsSignal
<1>7. ASSUME NEW j \in DOMAIN commands'[s], j > Len(commands[s]), IsSignal(s, j)'
      PROVE  /\ j \in Len(commands[s]) + 1 .. Len(commands'[s])
             /\ commands'[s][j].do = "signal" /\ commands'[s][j].event = NextEvent(s)
             /\ events'[s] = events[s] + 1
  BY <1>2, <1>7 DEF IsSignal
<1>8. CASE i <= Len(commands[s])
  <2>1. /\ i \in DOMAIN commands[s] /\ IsSignal(s, i) /\ commands'[s][i] = commands[s][i]
    BY <1>6, <1>8
  <2>2. /\ commands[s][i].event[1] = s
        /\ commands[s][i].event[2] \in reached[s] + 1 .. events[s]
        /\ \A j \in DOMAIN commands[s] : IsSignal(s, j) /\ i < j =>
             commands[s][i].event[2] < commands[s][j].event[2]
    BY <2>1 DEF SignalsInOrder
  <2>3. ASSUME NEW j \in DOMAIN commands'[s], IsSignal(s, j)', i < j
        PROVE  commands'[s][i].event[2] < commands'[s][j].event[2]
    <3>1. CASE j <= Len(commands[s])
      BY <1>6, <2>1, <2>2, <2>3, <3>1
    <3>2. CASE j > Len(commands[s])
      BY <1>3, <1>4, <1>7, <2>1, <2>2, <2>3, <3>2
    <3> QED BY <1>2, <3>1, <3>2
  <2> QED BY <1>3, <2>1, <2>2, <2>3
<1>9. CASE i > Len(commands[s])
  <2>1. /\ i \in Len(commands[s]) + 1 .. Len(commands'[s]) /\ commands'[s][i].do = "signal"
        /\ commands'[s][i].event = NextEvent(s) /\ events'[s] = events[s] + 1
    BY <1>7, <1>9
  <2>2. ASSUME NEW j \in DOMAIN commands'[s], IsSignal(s, j)', i < j
        PROVE  FALSE
    <3>1. j > Len(commands[s])
      BY <1>2, <1>9, <2>2
    <3>2. j \in Len(commands[s]) + 1 .. Len(commands'[s]) /\ commands'[s][j].do = "signal"
      BY <1>7, <2>2, <3>1
    <3>3. i = j
      BY <2>1, <3>2
    <3> QED BY <1>2, <2>2, <3>3
  <2> QED BY <1>3, <1>4, <1>5, <2>1, <2>2
<1> QED BY <1>2, <1>8, <1>9

LEMMA ExtendedBatches ==
  ASSUME StreamsInv, commands' \in [Streams -> Seq(Command)],
         Extends(commands, commands'), ran' = ran
  PROVE  /\ channel' = channel =>
              (\A i \in DOMAIN channel : CoversShared(channel[i].event, channel[i].task))'
         /\ collecting' = collecting /\ collecting # Nothing =>
              CoversShared(collecting.event, collecting.task)'
         /\ \A r \in Regular : \A t \in pending[r] :
              fence'[r] = fence[r] => Covers(fence[r], t)'
<1> USE DEF StreamsInv
<1>1. ASSUME NEW b \in Batch, CoversShared(b.event, b.task)
      PROVE  CoversShared(b.event, b.task)'
  BY <1>1, ExtendedCovers DEF Batch
<1>2. ASSUME channel' = channel, NEW i \in DOMAIN channel
      PROVE  CoversShared(channel[i].event, channel[i].task)'
  <2>1. channel[i] \in Batch
    BY LenProperties, ElementOfSeq DEF TypeOK
  <2>2. PICK b \in Batch : b = channel[i]
    BY <2>1
  <2>3. CoversShared(b.event, b.task)'
    BY <1>1, <2>2 DEF CollectsCovered
  <2> QED BY <1>2, <2>2, <2>3 DEF CoversShared, WaitsFor, Covers, RunTask, Signal
<1>3. ASSUME collecting' = collecting, collecting # Nothing
      PROVE  CoversShared(collecting.event, collecting.task)'
  <2>1. PICK b \in Batch : b = collecting
    BY DEF TypeOK
  <2>2. CoversShared(b.event, b.task)'
    BY <1>1, <1>3, <2>1 DEF CollectsCovered
  <2> QED BY <1>3, <2>1, <2>2 DEF CoversShared, WaitsFor, Covers, RunTask, Signal
<1>4. ASSUME NEW r \in Regular, NEW t \in pending[r], fence'[r] = fence[r]
      PROVE  Covers(fence[r], t)'
  <2>1. fence[r] \in Event /\ t \in Nat /\ Covers(fence[r], t)
    BY DEF TypeOK, FencesCover
  <2>2. PICK e \in Event : e = fence[r]
    BY <2>1
  <2>3. Covers(e, t)'
    BY <2>1, <2>2, ExtendedCovers
  <2> QED BY <1>4, <2>2, <2>3 DEF Covers, RunTask, Signal
<1> QED BY <1>2, <1>3, <1>4

\* The tasks stay in order when what is new is in order.
LEMMA ExtendedTasks ==
  ASSUME StreamsInv, commands' \in [Streams -> Seq(Command)],
         Extends(commands, commands'), ran' = ran,
         \A t \in DOMAIN tasks : t \in DOMAIN tasks' /\ tasks'[t] = tasks[t],
         \A s \in Regular : cursors[s] <= cursors'[s] /\ cursors'[s] \in Nat,
         \A t \in DOMAIN tasks' \ DOMAIN tasks :
           (/\ tasks[t].reads \subseteq DOMAIN tasks
            /\ tasks[t].cursor <= cursors[Home(t)]
            /\ \E i \in DOMAIN commands[Home(t)] : commands[Home(t)][i] = RunTask(t))',
         \A s \in Streams : \A i \in Len(commands[s]) + 1 .. Len(commands'[s]) :
           commands'[s][i].do = "run" =>
             (/\ commands[s][i].task \in DOMAIN tasks
              /\ \A u \in tasks[commands[s][i].task].reads : Guarded(s, i, u))'
  PROVE  TasksInOrder'
<1> USE DEF StreamsInv
<1>1. commands \in [Streams -> Seq(Command)] /\ tasks \in Seq(Task)
      /\ cursors \in [Regular -> Nat]
  BY DEF TypeOK
<1>2. ASSUME NEW t \in DOMAIN tasks
      PROVE  (/\ tasks[t].reads \subseteq DOMAIN tasks
              /\ tasks[t].cursor <= cursors[Home(t)]
              /\ t \in ran \/ \E i \in DOMAIN commands[Home(t)] :
                                commands[Home(t)][i] = RunTask(t))'
  <2>1. Home(t)' = Home(t) /\ Home(t) \in Regular /\ Home(t) \in Streams
        /\ tasks[t].cursor \in Nat /\ tasks'[t] = tasks[t]
    BY TaskTypes DEF Home
  <2>2. (tasks[t].reads \subseteq DOMAIN tasks)'
    BY <2>1 DEF TasksInOrder
  <2>3. tasks[t].cursor <= cursors[Home(t)]
    BY DEF TasksInOrder
  <2>4. (tasks[t].cursor <= cursors[Home(t)])'
    BY <1>1, <2>1, <2>3
  <2>5. ASSUME t \notin ran
        PROVE  \E i \in DOMAIN commands'[Home(t)] : commands'[Home(t)][i] = RunTask(t)
    <3>1. PICK i \in DOMAIN commands[Home(t)] : commands[Home(t)][i] = RunTask(t)
      BY <2>5 DEF TasksInOrder
    <3>2. /\ DOMAIN commands[Home(t)] = 1 .. Len(commands[Home(t)])
          /\ Len(commands[Home(t)]) \in Nat
          /\ DOMAIN commands'[Home(t)] = 1 .. Len(commands'[Home(t)])
          /\ Len(commands'[Home(t)]) \in Nat
      BY <1>1, <2>1, CommandsSeq
    <3> QED BY <2>1, <3>1, <3>2 DEF Extends
  <2> QED BY <2>1, <2>2, <2>4, <2>5 DEF RunTask
<1>3. ASSUME NEW s \in Streams, NEW i \in DOMAIN commands'[s], commands'[s][i].do = "run"
      PROVE  (/\ commands[s][i].task \in DOMAIN tasks
              /\ \A u \in tasks[commands[s][i].task].reads : Guarded(s, i, u))'
  <2>1. /\ DOMAIN commands[s] = 1 .. Len(commands[s]) /\ Len(commands[s]) \in Nat
        /\ DOMAIN commands'[s] = 1 .. Len(commands'[s]) /\ Len(commands'[s]) \in Nat
    BY <1>1, CommandsSeq
  <2>2. CASE i > Len(commands[s])
    <3>1. i \in Len(commands[s]) + 1 .. Len(commands'[s])
      BY <2>1, <2>2
    <3> QED BY <1>3, <3>1
  <2>3. CASE i <= Len(commands[s])
    <3>1. i \in 1 .. Len(commands[s]) /\ i \in Nat
      BY <2>1, <2>3
    <3>2. commands'[s][i] = commands[s][i]
      BY <3>1 DEF Extends
    <3> DEFINE t == commands[s][i].task
    <3>3. t \in DOMAIN tasks /\ \A u \in tasks[t].reads : u \in Nat /\ Guarded(s, i, u)
      BY <1>3, <2>1, <3>1, <3>2, TaskTypes DEF TasksInOrder
    <3>4. t \in DOMAIN tasks' /\ tasks'[t] = tasks[t]
      BY <3>3
    <3>5. ASSUME NEW u \in tasks[t].reads PROVE Guarded(s, i, u)'
      BY <3>1, <3>3, ExtendedCovers
    <3> QED BY <3>2, <3>4, <3>5
  <2> QED BY <2>1, <2>2, <2>3
<1> QED BY <1>2, <1>3 DEF TasksInOrder

\* What was synchronised stays so.
LEMMA ExtendedSynced ==
  ASSUME StreamsInv, commands' \in [Streams -> Seq(Command)],
         Extends(commands, commands'), ran' = ran,
         UNCHANGED <<cursors, synced, tasks>>
  PROVE  SyncedGuarded'
<1> USE DEF StreamsInv
<1> SUFFICES ASSUME NEW r \in Regular, NEW o \in DOMAIN synced[r], NEW t \in DOMAIN tasks,
                    Home(t) = o, tasks[t].cursor <= synced[r][o]
             PROVE  Guarded(r, Len(commands[r]) + 1, t)'
  BY DEF SyncedGuarded, Home
<1>1. r \in Streams /\ t \in Nat /\ Guarded(r, Len(commands[r]) + 1, t)
  BY StreamSets, TaskTypes DEF SyncedGuarded
<1>2. /\ Len(commands[r]) \in Nat /\ Len(commands'[r]) \in Nat
      /\ Len(commands[r]) <= Len(commands'[r])
      /\ DOMAIN commands'[r] = 1 .. Len(commands'[r])
  BY <1>1, CommandsSeq DEF Extends, TypeOK
<1>3. PICK m \in Nat : m = Len(commands[r]) + 1
  BY <1>2
<1>4. Guarded(r, m, t)'
  BY <1>1, <1>3, ExtendedCovers
<1>5. m <= Len(commands'[r]) + 1 /\ \A j \in DOMAIN commands'[r] : j \in Nat
  BY <1>2, <1>3
<1> QED BY <1>2, <1>4, <1>5 DEF Guarded

\* A call resolves its stream: what the stream now counts as synchronised is
\* behind the waits of the call.
LEMMA ResolvedSynced ==
  ASSUME StreamsInv, NEW id \in Ids, NEW origins \in SUBSET Regular, Resolve(id, origins),
         commands' \in [Streams -> Seq(Command)], Extends(commands, commands'), ran' = ran,
         \A o \in origins :
           /\ Len(commands[o]) + 1 \in DOMAIN commands'[o]
           /\ commands'[o][Len(commands[o]) + 1] = Signal(NextEvent(o))
           /\ \E i \in DOMAIN commands'[Index(id)] :
                commands'[Index(id)][i] = Wait(NextEvent(o)),
         \A t \in DOMAIN tasks : t \in DOMAIN tasks' /\ tasks'[t] = tasks[t],
         \A t \in DOMAIN tasks' \ DOMAIN tasks :
           Home(t)' = Index(id) /\ tasks'[t].cursor = cursors[Index(id)] + 1
  PROVE  SyncedGuarded'
<1> USE DEF StreamsInv
<1> DEFINE s == Index(id)
<1>1. /\ commands \in [Streams -> Seq(Command)] /\ cursors \in [Regular -> Nat]
      /\ events \in [Streams -> Nat] /\ DOMAIN synced = Regular
  BY DEF TypeOK
<1>2. s \in Regular /\ s \in Streams
  BY IndexRegular, StreamSets
<1> HIDE DEF s
<1>3. /\ synced' = [synced EXCEPT ![s] = [o \in DOMAIN @ \union origins |->
                                            IF o \in origins THEN cursors[o] ELSE @[o]]]
      /\ cursors' = [cursors EXCEPT ![s] = @ + 1]
  BY DEF Resolve, s
<1>4. ASSUME NEW r \in Regular, NEW o \in DOMAIN synced'[r]
      PROVE  /\ o \in Regular /\ synced'[r][o] \in Nat /\ synced'[r][o] <= cursors[o]
             /\ \/ r = s /\ o \in origins /\ synced'[r][o] = cursors[o]
                \/ o \in DOMAIN synced[r] /\ synced'[r][o] = synced[r][o]
  <2>1. /\ DOMAIN synced[r] \subseteq Regular /\ synced[r] \in [DOMAIN synced[r] -> Nat]
        /\ \A p \in DOMAIN synced[r] : synced[r][p] <= cursors[p]
    BY DEF TypeOK, SyncedGuarded
  <2>2. CASE r = s
    <3>1. synced'[r] = [p \in DOMAIN synced[r] \union origins |->
                          IF p \in origins THEN cursors[p] ELSE synced[r][p]]
      BY <1>1, <1>3, <2>2
    <3>2. CASE o \in origins
      BY <1>1, <2>2, <3>1, <3>2
    <3>3. CASE o \notin origins
      BY <1>1, <2>1, <2>2, <3>1, <3>3
    <3> QED BY <3>2, <3>3
  <2>3. CASE r # s
    BY <1>1, <1>3, <2>1, <2>3
  <2> QED BY <2>2, <2>3
<1>5. ASSUME NEW r \in Regular, NEW o \in DOMAIN synced'[r]
      PROVE  (synced[r][o] <= cursors[o])'
  <2>1. o \in Regular /\ synced'[r][o] \in Nat /\ synced'[r][o] <= cursors[o]
    BY <1>4
  <2>2. cursors'[o] = cursors[o] \/ cursors'[o] = cursors[o] + 1
    BY <1>1, <1>3, <2>1
  <2>3. cursors[o] \in Nat
    BY <1>1, <2>1
  <2> QED BY <2>1, <2>2, <2>3
<1>6. ASSUME NEW r \in Regular, NEW o \in DOMAIN synced'[r], NEW t \in DOMAIN tasks',
             Home(t)' = o, tasks'[t].cursor <= synced'[r][o]
      PROVE  Guarded(r, Len(commands[r]) + 1, t)'
  <2>1. t \in DOMAIN tasks
    <3> SUFFICES ASSUME t \notin DOMAIN tasks PROVE FALSE
      OBVIOUS
    <3>1. o = s /\ tasks'[t].cursor = cursors[s] + 1
      BY <1>6 DEF s
    <3> QED BY <1>1, <1>4, <1>6, <3>1
  <2>2. Home(t) = o /\ tasks[t].cursor <= synced'[r][o] /\ t \in Nat /\ o \in Streams
    BY <1>6, <2>1, TaskTypes DEF Home
  <2>3. r \in Streams
    BY StreamSets
  <2>4. /\ Len(commands[r]) \in Nat /\ Len(commands'[r]) \in Nat
        /\ Len(commands[r]) <= Len(commands'[r])
        /\ DOMAIN commands'[r] = 1 .. Len(commands'[r])
        /\ Len(commands[o]) \in Nat
    BY <1>1, <2>2, <2>3, CommandsSeq DEF Extends
  <2>5. CASE r = s /\ o \in origins
    <3>1. PICK e \in Event : e = NextEvent(o)
      <4>1. events[o] + 1 \in Nat
        BY <1>1, <2>2
      <4> QED BY <2>2, <4>1, EventForms DEF NextEvent
    <3>2. /\ Len(commands[o]) + 1 \in DOMAIN commands'[o]
          /\ commands'[o][Len(commands[o]) + 1] = Signal(e) /\ e[1] = o
      BY <2>5, <3>1 DEF NextEvent
    <3>3. Covers(e, t)'
      BY <2>1, <2>2, <2>4, <3>2, NewEventCovers
    <3>4. PICK i \in DOMAIN commands'[r] : commands'[r][i] = Wait(e)
      BY <2>5, <3>1 DEF s
    <3>5. commands'[r][i].do = "wait" /\ commands'[r][i].event = e
      BY <3>4, CommandForms
    <3>6. WaitsFor(commands[r][i], t)'
      BY <3>3, <3>5 DEF WaitsFor, Covers, RunTask, Signal
    <3>7. i < Len(commands'[r]) + 1
      BY <2>4, <3>4
    <3> QED BY <3>4, <3>6, <3>7 DEF Guarded
  <2>6. CASE o \in DOMAIN synced[r] /\ synced'[r][o] = synced[r][o]
    <3>1. Guarded(r, Len(commands[r]) + 1, t)
      BY <2>1, <2>2, <2>6 DEF SyncedGuarded
    <3>2. PICK m \in Nat : m = Len(commands[r]) + 1
      BY <2>4
    <3>3. Guarded(r, m, t)'
      BY <2>2, <2>3, <3>1, <3>2, ExtendedCovers
    <3>4. m <= Len(commands'[r]) + 1 /\ \A j \in DOMAIN commands'[r] : j \in Nat
      BY <2>4, <3>2
    <3> QED BY <2>4, <3>3, <3>4 DEF Guarded
  <2> QED BY <1>4, <2>5, <2>6
<1> QED BY <1>5, <1>6 DEF SyncedGuarded

-----------------------------------------------------------------------------
(* Calls                                                                      *)

LEMMA OriginsRegular ==
  ASSUME TypeOK, NEW id, NEW handles \in SUBSET DOMAIN tasks
  PROVE  Origins(id, handles) \in SUBSET Regular
BY TaskTypes DEF Origins, Home

LEMMA ResolvedTypes ==
  ASSUME TypeOK, NEW id \in Ids, NEW origins \in SUBSET Regular, Resolve(id, origins)
  PROVE  /\ cursors' \in [Regular -> Nat]
         /\ \A r \in Regular : cursors[r] <= cursors'[r]
         /\ cursors'[Index(id)] = cursors[Index(id)] + 1
         /\ events' \in [Streams -> Nat]
         /\ \A r \in Streams : events[r] <= events'[r]
         /\ \A r \in origins : events'[r] = events[r] + 1
         /\ (/\ DOMAIN synced = Regular /\ synced = [r \in Regular |-> synced[r]]
             /\ \A r \in Regular : /\ DOMAIN synced[r] \subseteq Regular
                                   /\ synced[r] \in [DOMAIN synced[r] -> Nat])'
<1> DEFINE s == Index(id)
<1>1. /\ cursors \in [Regular -> Nat] /\ events \in [Streams -> Nat]
      /\ DOMAIN synced = Regular /\ synced = [r \in Regular |-> synced[r]]
      /\ \A r \in Regular : /\ DOMAIN synced[r] \subseteq Regular
                            /\ synced[r] \in [DOMAIN synced[r] -> Nat]
  BY DEF TypeOK
<1>2. s \in Regular
  BY IndexRegular
<1> HIDE DEF s
<1>3. /\ cursors' = [cursors EXCEPT ![s] = @ + 1]
      /\ events' = [r \in Streams |-> events[r] + (IF r \in origins THEN 1 ELSE 0)]
      /\ synced' = [synced EXCEPT ![s] = [o \in DOMAIN @ \union origins |->
                                            IF o \in origins THEN cursors[o] ELSE @[o]]]
  BY DEF Resolve, s
<1>4. ASSUME NEW r \in Regular
      PROVE  cursors'[r] \in Nat /\ cursors[r] <= cursors'[r]
  <2>1. CASE r = s
    BY <1>1, <1>2, <1>3, <2>1
  <2>2. CASE r # s
    BY <1>1, <1>3, <2>2
  <2> QED BY <2>1, <2>2
<1>5. cursors' \in [Regular -> Nat]
  BY <1>1, <1>3, <1>4
<1>6. cursors'[s] = cursors[s] + 1
  BY <1>1, <1>2, <1>3
<1>7. ASSUME NEW r \in Streams
      PROVE  /\ events'[r] \in Nat /\ events[r] <= events'[r]
             /\ r \in origins => events'[r] = events[r] + 1
  <2>1. events[r] \in Nat
    BY <1>1
  <2>2. CASE r \in origins
    <3>1. events'[r] = events[r] + 1
      BY <1>3, <2>2
    <3> QED BY <2>1, <2>2, <3>1
  <2>3. CASE r \notin origins
    <3>1. events'[r] = events[r] + 0
      BY <1>3, <2>3
    <3> QED BY <2>1, <2>3, <3>1
  <2> QED BY <2>2, <2>3
<1>8. events' \in [Streams -> Nat]
  BY <1>3, <1>7
<1>9. ASSUME NEW r \in Regular
      PROVE  DOMAIN synced'[r] \subseteq Regular /\ synced'[r] \in [DOMAIN synced'[r] -> Nat]
  <2>1. CASE r = s
    <3>1. synced'[r] = [o \in DOMAIN synced[r] \union origins |->
                          IF o \in origins THEN cursors[o] ELSE synced[r][o]]
      BY <1>1, <1>3, <2>1
    <3> QED BY <1>1, <3>1
  <2>2. CASE r # s
    BY <1>1, <1>3, <2>2
  <2> QED BY <2>1, <2>2
<1>10. DOMAIN synced' = Regular /\ synced' = [r \in Regular |-> synced'[r]]
  BY <1>1, <1>3
<1> QED BY <1>4, <1>5, <1>6, <1>7, <1>8, <1>9, <1>10, StreamSets DEF s

\* A refused call: nothing but the alignment.
LEMMA RefuseInv ==
  ASSUME StreamsInv, NEW id \in Ids, NEW handles \in Calls, Refuse(id, handles)
  PROVE  StreamsInv'
<1> USE DEF StreamsInv
<1> DEFINE s == Index(id)
           origins == Origins(id, handles)
<1>1. s \in Regular /\ s \in Streams /\ origins \in SUBSET Regular
  BY IndexRegular, StreamSets, OriginsRegular DEF Calls
<1>2. /\ Resolve(id, origins) /\ commands' = Aligned(s, origins) /\ host = Idle
      /\ refused' = refused + 1
      /\ UNCHANGED <<tasks, reached, ran, staged, pending, fence, channel, collecting, host>>
  BY DEF Refuse, bytes, gc
<1> HIDE DEF s, origins
<1>3. /\ commands' \in [Streams -> Seq(Command)]
      /\ Extends(commands, commands')
      /\ \A r \in Streams : \A i \in Len(commands[r]) + 1 .. Len(commands'[r]) :
           \/ /\ r \in origins /\ i = Len(commands[r]) + 1
              /\ commands'[r][i] = Signal(NextEvent(r))
           \/ \E e \in Event : r = s /\ commands'[r][i] = Wait(e)
      /\ \A o \in origins :
           /\ Len(commands[o]) + 1 \in DOMAIN commands'[o]
           /\ commands'[o][Len(commands[o]) + 1] = Signal(NextEvent(o))
           /\ \E i \in DOMAIN commands'[s] : commands'[s][i] = Wait(NextEvent(o))
  BY <1>1, <1>2, AlignedCommands
<1>4. /\ cursors' \in [Regular -> Nat]
      /\ \A r \in Regular : cursors[r] <= cursors'[r]
      /\ events' \in [Streams -> Nat]
      /\ \A r \in Streams : events[r] <= events'[r]
      /\ \A r \in origins : events'[r] = events[r] + 1
      /\ (/\ DOMAIN synced = Regular /\ synced = [r \in Regular |-> synced[r]]
          /\ \A r \in Regular : /\ DOMAIN synced[r] \subseteq Regular
                                /\ synced[r] \in [DOMAIN synced[r] -> Nat])'
  BY <1>1, <1>2, ResolvedTypes
<1>5. TypeOK'
  BY <1>2, <1>3, <1>4 DEF TypeOK
<1>6. ASSUME NEW r \in Streams, NEW i \in Len(commands[r]) + 1 .. Len(commands'[r])
      PROVE  /\ commands'[r][i].do # "run"
             /\ commands'[r][i].do = "signal" =>
                  /\ r \in origins /\ i = Len(commands[r]) + 1
                  /\ commands'[r][i].event = NextEvent(r)
  <2>1. NextEvent(r) \in Event
    <3>1. events[r] + 1 \in Nat
      BY DEF TypeOK
    <3> QED BY <3>1, EventForms DEF NextEvent
  <2> QED BY <1>3, <2>1, CommandForms
<1>7. SignalsInOrder'
  BY <1>2, <1>3, <1>4, <1>6, ExtendedSignals
<1>8. TasksInOrder'
  BY <1>2, <1>3, <1>4, <1>6, ExtendedTasks
<1>9. SyncedGuarded'
  BY <1>1, <1>2, <1>3, ResolvedSynced DEF s
<1>10. FencesCover'
  <2>1. \A r \in Regular : \A t \in pending[r] : Covers(fence[r], t)'
    BY <1>2, <1>3, ExtendedBatches
  <2>2. \A t : Home(t)' = Home(t)
    BY <1>2 DEF Home
  <2>3. \A r \in Regular : \A t \in pending[r] : (Covers(fence[r], t))'
    BY <1>2, <2>1 DEF Covers, RunTask, Signal
  <2> QED BY <1>2, <2>2, <2>3 DEF FencesCover
<1>11. CollectsCovered'
  BY <1>2, <1>3, ExtendedBatches DEF CollectsCovered, Idle, Home
<1>12. BytesStay'
  BY <1>2 DEF BytesStay
<1> QED BY <1>5, <1>7, <1>8, <1>9, <1>10, <1>11, <1>12

\* One command more on one stream.
LEMMA AppendedCommand ==
  ASSUME NEW old \in [Streams -> Seq(Command)], NEW new \in [Streams -> Seq(Command)],
         NEW s \in Streams, NEW c \in Command,
         new[s] = Append(old[s], c), \A r \in Streams : r # s => new[r] = old[r]
  PROVE  /\ Extends(old, new)
         /\ Len(new[s]) = Len(old[s]) + 1
         /\ new[s][Len(old[s]) + 1] = c
<1>1. /\ Len(Append(old[s], c)) = Len(old[s]) + 1
      /\ \A i \in 1 .. Len(old[s]) : Append(old[s], c)[i] = old[s][i]
      /\ Append(old[s], c)[Len(old[s]) + 1] = c
  BY AppendProperties
<1>2. \A r \in Streams : Len(old[r]) \in Nat
  BY CommandsSeq
<1>3. ASSUME NEW r \in Streams
      PROVE  /\ Len(old[r]) <= Len(new[r])
             /\ \A i \in 1 .. Len(old[r]) : new[r][i] = old[r][i]
  <2>1. CASE r = s
    BY <1>1, <1>2, <2>1
  <2>2. CASE r # s
    BY <1>2, <2>2
  <2> QED BY <2>1, <2>2
<1>4. Extends(old, new)
  BY <1>3 DEF Extends
<1> QED BY <1>1, <1>4

\* A call that enqueues its task: behind the alignment, so behind all that the
\* task reads.
LEMMA LaunchInv ==
  ASSUME StreamsInv, NEW id \in Ids, NEW handles \in Calls, NEW upload \in BOOLEAN,
         Launch(id, handles, upload)
  PROVE  StreamsInv'
<1> USE DEF StreamsInv
<1>1. PICK t \in Nat : t = Len(tasks) + 1
  BY LenProperties DEF TypeOK
<1> DEFINE s == Index(id)
           origins == Origins(id, handles)
           task == [id |-> id, cursor |-> cursors[s] + 1, reads |-> handles, upload |-> upload]
           aligned == Aligned(s, origins)
           uploads == staged[s] \union (IF upload THEN {t} ELSE {})
<1>2. /\ commands \in [Streams -> Seq(Command)] /\ cursors \in [Regular -> Nat]
      /\ tasks \in Seq(Task) /\ events \in [Streams -> Nat]
      /\ staged \in [Regular -> SUBSET Nat]
  BY DEF TypeOK
<1>3. /\ s \in Regular /\ s \in Streams /\ origins \in SUBSET Regular
      /\ handles \subseteq DOMAIN tasks
  BY IndexRegular, StreamSets, OriginsRegular DEF Calls
<1>4. /\ Resolve(id, origins) /\ host = Idle /\ t = Len(tasks) + 1
      /\ commands' = [aligned EXCEPT ![s] = Append(@, RunTask(t))]
      /\ tasks' = Append(tasks, task)
      /\ staged' = [staged EXCEPT ![s] = uploads]
      /\ host' = [at |-> IF upload /\ ShouldFlush(uploads) THEN "syncing" ELSE "leaving",
                  stream |-> s, task |-> t, shared |-> origins # {}]
      /\ UNCHANGED <<reached, ran, pending, fence, channel, collecting, refused>>
  BY <1>1 DEF Launch, gc
<1>5. /\ t \in Nat /\ Len(tasks) \in Nat /\ DOMAIN tasks = 1 .. Len(tasks)
      /\ t \notin DOMAIN tasks /\ DOMAIN tasks \subseteq Nat
  BY <1>2, <1>1, LenProperties
<1>6. /\ task \in Task /\ tasks' \in Seq(Task)
      /\ DOMAIN tasks' = DOMAIN tasks \union {t}
      /\ tasks'[t] = task
      /\ \A u \in DOMAIN tasks : tasks'[u] = tasks[u]
  <2>1. cursors[s] + 1 \in Nat /\ handles \subseteq Nat
    BY <1>2, <1>3, <1>5
  <2>2. task \in Task
    BY <2>1 DEF Task
  <2> HIDE DEF task
  <2> QED BY <1>2, <1>4, <1>5, <2>2, AppendProperties
<1>7. /\ task.id = id /\ task.cursor = cursors[s] + 1 /\ task.reads = handles
      /\ task.upload = upload
  OBVIOUS
<1>8. Home(t)' = s /\ \A u \in DOMAIN tasks : Home(u)' = Home(u)
  BY <1>6, <1>7 DEF Home, s
<1> HIDE DEF task
<1>9. /\ aligned \in [Streams -> Seq(Command)]
      /\ Extends(commands, aligned)
      /\ \A r \in Streams : \A i \in Len(commands[r]) + 1 .. Len(aligned[r]) :
           \/ /\ r \in origins /\ i = Len(commands[r]) + 1
              /\ aligned[r][i] = Signal(NextEvent(r))
           \/ \E e \in Event : r = s /\ aligned[r][i] = Wait(e)
      /\ \A o \in origins :
           /\ Len(commands[o]) + 1 \in DOMAIN aligned[o]
           /\ aligned[o][Len(commands[o]) + 1] = Signal(NextEvent(o))
           /\ \E i \in DOMAIN aligned[s] : aligned[s][i] = Wait(NextEvent(o))
  <2> HIDE DEF s, origins
  <2> QED BY <1>3, AlignedCommands
<1> HIDE DEF s, origins, aligned, uploads
<1>10. RunTask(t) \in Command /\ RunTask(t).do = "run" /\ RunTask(t).task = t
  BY <1>5, CommandForms
<1>11. /\ commands' \in [Streams -> Seq(Command)]
       /\ Extends(aligned, commands')
       /\ \A r \in Streams : r # s => commands'[r] = aligned[r]
       /\ Len(commands'[s]) = Len(aligned[s]) + 1
       /\ commands'[s][Len(aligned[s]) + 1] = RunTask(t)
  <2>1. Append(aligned[s], RunTask(t)) \in Seq(Command)
    BY <1>3, <1>9, <1>10, AppendProperties
  <2>2. /\ commands' \in [Streams -> Seq(Command)]
        /\ commands'[s] = Append(aligned[s], RunTask(t))
        /\ \A r \in Streams : r # s => commands'[r] = aligned[r]
    BY <1>3, <1>4, <1>9, <2>1
  <2>3. aligned \in [Streams -> Seq(Command)] /\ s \in Streams /\ RunTask(t) \in Command
    BY <1>3, <1>9, <1>10
  <2>4. Extends(aligned, commands')
    BY <2>2, <2>3, AppendedCommand
  <2>5. Len(commands'[s]) = Len(aligned[s]) + 1
        /\ commands'[s][Len(aligned[s]) + 1] = RunTask(t)
    BY <2>2, <2>3, AppendedCommand
  <2> QED BY <2>2, <2>4, <2>5
<1>12. ASSUME NEW r \in Streams
       PROVE  /\ Len(commands[r]) \in Nat /\ Len(aligned[r]) \in Nat
              /\ Len(commands'[r]) \in Nat
              /\ Len(commands[r]) <= Len(aligned[r]) /\ Len(aligned[r]) <= Len(commands'[r])
              /\ DOMAIN aligned[r] = 1 .. Len(aligned[r])
              /\ DOMAIN commands'[r] = 1 .. Len(commands'[r])
              /\ \A i \in 1 .. Len(aligned[r]) : commands'[r][i] = aligned[r][i]
              /\ \A i \in 1 .. Len(commands[r]) : aligned[r][i] = commands[r][i]
  BY <1>2, <1>9, <1>11, CommandsSeq DEF Extends
<1>13. PICK m \in Nat :
         /\ m = Len(aligned[s]) + 1 /\ m = Len(commands'[s]) /\ m \in DOMAIN commands'[s]
         /\ commands'[s][m] = RunTask(t)
         /\ \A i \in 1 .. Len(aligned[s]) : i < m
  BY <1>3, <1>11, <1>12
<1>14. Extends(commands, commands')
  BY <1>12 DEF Extends
<1>15. ASSUME NEW r \in Streams, NEW i \in Len(commands[r]) + 1 .. Len(commands'[r])
       PROVE  \/ /\ r \in origins /\ i = Len(commands[r]) + 1
                 /\ commands'[r][i] = Signal(NextEvent(r))
              \/ \E e \in Event : r = s /\ commands'[r][i] = Wait(e)
              \/ r = s /\ i = m /\ commands'[r][i] = RunTask(t)
  <2>1. CASE i <= Len(aligned[r])
    <3>1. i \in Len(commands[r]) + 1 .. Len(aligned[r]) /\ i \in 1 .. Len(aligned[r])
      BY <1>12, <2>1
    <3>2. commands'[r][i] = aligned[r][i]
      BY <1>12, <3>1
    <3> QED BY <1>9, <3>1, <3>2
  <2>2. CASE i > Len(aligned[r])
    <3>1. r = s
      BY <1>11, <1>12, <2>2
    <3>2. i = m
      BY <1>11, <1>12, <1>13, <2>2, <3>1
    <3> QED BY <1>13, <3>1, <3>2
  <2> QED BY <1>12, <2>1, <2>2
<1>16. ASSUME NEW o \in origins
       PROVE  /\ Len(commands[o]) + 1 \in DOMAIN commands'[o]
              /\ commands'[o][Len(commands[o]) + 1] = Signal(NextEvent(o))
              /\ \E i \in DOMAIN commands'[s] :
                   i < m /\ commands'[s][i] = Wait(NextEvent(o))
  <2>1. o \in Streams
    BY <1>3, StreamSets
  <2>2. Len(commands[o]) + 1 \in 1 .. Len(aligned[o])
        /\ aligned[o][Len(commands[o]) + 1] = Signal(NextEvent(o))
    BY <1>9, <1>12, <2>1
  <2>3. PICK i \in 1 .. Len(aligned[s]) : aligned[s][i] = Wait(NextEvent(o))
    BY <1>3, <1>9, <1>12
  <2>4. i \in DOMAIN commands'[s] /\ i < m
        /\ commands'[s][i] = Wait(NextEvent(o))
    BY <1>3, <1>12, <1>13, <2>3
  <2>5. Len(commands[o]) + 1 \in DOMAIN commands'[o]
        /\ commands'[o][Len(commands[o]) + 1] = Signal(NextEvent(o))
    BY <1>12, <2>1, <2>2
  <2> QED BY <2>4, <2>5
<1>17. /\ cursors' \in [Regular -> Nat]
       /\ \A r \in Regular : cursors[r] <= cursors'[r]
       /\ cursors'[s] = cursors[s] + 1
       /\ events' \in [Streams -> Nat]
       /\ \A r \in Streams : events[r] <= events'[r]
       /\ \A r \in origins : events'[r] = events[r] + 1
       /\ (/\ DOMAIN synced = Regular /\ synced = [r \in Regular |-> synced[r]]
           /\ \A r \in Regular : /\ DOMAIN synced[r] \subseteq Regular
                                 /\ synced[r] \in [DOMAIN synced[r] -> Nat])'
  BY <1>3, <1>4, ResolvedTypes DEF s
<1>18. /\ uploads \subseteq Nat /\ staged' \in [Regular -> SUBSET Nat]
       /\ staged'[s] = uploads /\ \A r \in Regular : r # s => staged'[r] = staged[r]
  <2>1. uploads \subseteq Nat
    BY <1>2, <1>3, <1>5 DEF uploads
  <2> QED BY <1>2, <1>3, <1>4, <2>1
<1>19. /\ host' \in HostState /\ host'.at \in {"syncing", "leaving"}
       /\ host'.stream = s /\ host'.task = t
  BY <1>3, <1>4, <1>5 DEF HostState
<1>20. TypeOK'
  BY <1>4, <1>6, <1>11, <1>17, <1>18, <1>19 DEF TypeOK
<1>21. \A r \in Streams : NextEvent(r) \in Event /\ NextEvent(r)[1] = r
  <2> SUFFICES ASSUME NEW r \in Streams
               PROVE  NextEvent(r) \in Event /\ NextEvent(r)[1] = r
    OBVIOUS
  <2>1. events[r] + 1 \in Nat
    BY <1>2
  <2> QED BY <2>1, EventForms DEF NextEvent
<1>22. ASSUME NEW r \in Streams, NEW i \in Len(commands[r]) + 1 .. Len(commands'[r])
       PROVE  /\ commands'[r][i].do = "signal" =>
                   /\ r \in origins /\ i = Len(commands[r]) + 1
                   /\ commands'[r][i].event = NextEvent(r)
              /\ commands'[r][i].do = "run" =>
                   /\ r = s /\ i = m
                   /\ commands'[r][i].task = t
  BY <1>10, <1>15, <1>21, CommandForms
<1>23. SignalsInOrder'
  BY <1>4, <1>11, <1>14, <1>17, <1>22, ExtendedSignals, SMTT(30)
<1>24. ASSUME NEW u \in handles
       PROVE  Guarded(s, m, u)'
  <2>1. PICK o \in Regular : o = Home(u)
    BY <1>3, TaskTypes
  <2>2. /\ u \in DOMAIN tasks /\ u \in Nat /\ o = Home(u) /\ o \in Streams
        /\ tasks[u].cursor \in Nat
    BY <1>3, <2>1, TaskTypes
  <2>3. PICK n \in Nat : n = Len(commands[s]) + 1 /\ n <= m
    BY <1>3, <1>12, <1>13
  <2>4. \A j \in DOMAIN commands'[s] : j \in Nat
    BY <1>3, <1>12
  <2>5. ASSUME Guarded(s, n, u) PROVE Guarded(s, m, u)'
    <3>1. Guarded(s, n, u)'
      BY <1>3, <1>4, <1>11, <1>14, <2>2, <2>5, ExtendedCovers
    <3> QED BY <1>3, <1>12, <2>3, <2>4, <3>1 DEF Guarded
  <2>6. CASE tasks[u].id = id
    <3>1. o = s
      BY <2>2, <2>6 DEF Home, s
    <3>2. u \in ran \/ \E i \in DOMAIN commands[s] : commands[s][i] = RunTask(u)
      BY <2>2, <3>1 DEF TasksInOrder
    <3>3. \A i \in DOMAIN commands[s] : i < n
      BY <1>2, <1>3, <2>3, CommandsSeq
    <3>4. Guarded(s, n, u)
      BY <3>2, <3>3 DEF Guarded
    <3> QED BY <2>5, <3>4
  <2>7. CASE tasks[u].id # id /\ NotSynced(s, u)
    <3>1. o \in origins
      BY <2>2, <2>7 DEF Origins, origins, s, Home
    <3>2. PICK e \in Event : e = NextEvent(o) /\ e[1] = o
      BY <1>21, <2>2
    <3>3. /\ Len(commands[o]) + 1 \in DOMAIN commands'[o]
          /\ commands'[o][Len(commands[o]) + 1] = Signal(e)
      BY <1>16, <3>1, <3>2
    <3>4. Len(commands[o]) + 1 > Len(commands[o])
      BY <1>12, <2>2
    <3>5. Covers(e, u)'
      BY <1>4, <1>11, <1>14, <2>2, <3>2, <3>3, <3>4, NewEventCovers
    <3>6. PICK i \in DOMAIN commands'[s] :
            i < m /\ commands'[s][i] = Wait(e)
      BY <1>16, <3>1, <3>2
    <3>7. commands'[s][i].do = "wait" /\ commands'[s][i].event = e
      BY <3>6, CommandForms
    <3>8. WaitsFor(commands[s][i], u)'
      BY <3>5, <3>7 DEF WaitsFor, Covers, RunTask, Signal
    <3> QED BY <3>6, <3>8 DEF Guarded
  <2>8. CASE tasks[u].id # id /\ ~NotSynced(s, u)
    <3>1. o \in DOMAIN synced[s] /\ ~(synced[s][o] < tasks[u].cursor)
      BY <2>2, <2>8 DEF NotSynced, Home
    <3>2. synced[s][o] \in Nat
      BY <1>3, <3>1 DEF TypeOK
    <3>3. tasks[u].cursor <= synced[s][o]
      BY <2>2, <3>1, <3>2
    <3>4. Guarded(s, n, u)
      BY <1>3, <2>2, <2>3, <3>1, <3>3 DEF SyncedGuarded
    <3> QED BY <2>5, <3>4
  <2> QED BY <2>6, <2>7, <2>8
<1>25. TasksInOrder'
  <2>1. \A u \in DOMAIN tasks' \ DOMAIN tasks :
          (/\ tasks[u].reads \subseteq DOMAIN tasks
           /\ tasks[u].cursor <= cursors[Home(u)]
           /\ \E i \in DOMAIN commands[Home(u)] : commands[Home(u)][i] = RunTask(u))'
    <3> SUFFICES (/\ tasks[t].reads \subseteq DOMAIN tasks
                  /\ tasks[t].cursor <= cursors[Home(t)]
                  /\ \E i \in DOMAIN commands[Home(t)] : commands[Home(t)][i] = RunTask(t))'
      BY <1>6
    <3>1. (tasks[t].reads \subseteq DOMAIN tasks)'
      BY <1>3, <1>6, <1>7
    <3>2. cursors[s] + 1 <= cursors'[s]
      BY <1>2, <1>3, <1>17
    <3>3. (tasks[t].cursor <= cursors[Home(t)])'
      BY <1>6, <1>7, <1>8, <3>2
    <3>4. (\E i \in DOMAIN commands[Home(t)] : commands[Home(t)][i] = RunTask(t))'
      BY <1>8, <1>13 DEF RunTask
    <3> QED BY <3>1, <3>3, <3>4
  <2>2. \A r \in Streams : \A i \in Len(commands[r]) + 1 .. Len(commands'[r]) :
          commands'[r][i].do = "run" =>
            (/\ commands[r][i].task \in DOMAIN tasks
             /\ \A u \in tasks[commands[r][i].task].reads : Guarded(r, i, u))'
    BY <1>6, <1>7, <1>22, <1>24
  <2> QED BY <1>4, <1>6, <1>11, <1>14, <1>17, <2>1, <2>2, ExtendedTasks
<1>26. SyncedGuarded'
  <2>1. \A u \in DOMAIN tasks' \ DOMAIN tasks :
          Home(u)' = s /\ tasks'[u].cursor = cursors[s] + 1
    BY <1>6, <1>7, <1>8
  <2>2. \A u \in DOMAIN tasks : u \in DOMAIN tasks' /\ tasks'[u] = tasks[u]
    BY <1>6
  <2>3. \A o \in origins :
          /\ Len(commands[o]) + 1 \in DOMAIN commands'[o]
          /\ commands'[o][Len(commands[o]) + 1] = Signal(NextEvent(o))
          /\ \E i \in DOMAIN commands'[s] : commands'[s][i] = Wait(NextEvent(o))
    BY <1>16
  <2> QED BY <1>3, <1>4, <1>11, <1>14, <2>1, <2>2, <2>3, ResolvedSynced DEF s
<1>27. FencesCover'
  <2>1. ASSUME NEW r \in Regular, NEW u \in staged'[r]
        PROVE  u \in DOMAIN tasks' /\ Home(u)' = r
    <3>1. CASE u \in staged[r]
      BY <1>6, <1>8, <3>1 DEF FencesCover
    <3>2. CASE u \notin staged[r]
      <4>1. r = s /\ u = t
        BY <1>18, <2>1, <3>2 DEF uploads
      <4> QED BY <1>6, <1>8, <4>1
    <3> QED BY <3>1, <3>2
  <2>2. \A r \in Regular : \A u \in pending[r] : Covers(fence[r], u)'
    BY <1>4, <1>11, <1>14, ExtendedBatches
  <2>3. \A r \in Regular : \A u \in pending[r] : (Covers(fence[r], u))'
    BY <1>4, <2>2 DEF Covers, RunTask, Signal
  <2> QED BY <1>4, <2>1, <2>3 DEF FencesCover
<1>28. CollectsCovered'
  <2>1. (host.task \in DOMAIN tasks /\ Home(host.task) = host.stream)'
    BY <1>6, <1>8, <1>19 DEF Home
  <2>2. ~(host.at = "sending")'
    BY <1>19
  <2>3. /\ (\A i \in DOMAIN channel : CoversShared(channel[i].event, channel[i].task))'
        /\ collecting # Nothing => CoversShared(collecting.event, collecting.task)'
    BY <1>4, <1>11, <1>14, ExtendedBatches
  <2> QED BY <1>4, <2>1, <2>2, <2>3 DEF CollectsCovered, Nothing, NoEvent, Special
<1>29. BytesStay'
  <2> SUFFICES ASSUME NEW u \in DOMAIN tasks', tasks'[u].upload, u \notin ran
               PROVE  \E r \in Regular : u \in staged'[r] \union pending[r]
    BY <1>4 DEF BytesStay
  <2>1. CASE u = t
    <3>1. u \in uploads
      BY <1>6, <1>7, <2>1 DEF uploads
    <3> QED BY <1>3, <1>18, <3>1
  <2>2. CASE u # t
    <3>1. PICK r \in Regular : u \in staged[r] \union pending[r]
      BY <1>6, <2>2 DEF BytesStay
    <3>2. staged[r] \subseteq staged'[r]
      BY <1>18 DEF uploads
    <3> QED BY <3>1, <3>2
  <2> QED BY <2>1, <2>2
<1> QED BY <1>20, <1>23, <1>25, <1>26, <1>27, <1>28, <1>29

-----------------------------------------------------------------------------
(* The drop queue, the end of a call, and the collecting thread               *)

LEMMA NextEventForms ==
  ASSUME TypeOK
  PROVE  \A s \in Streams : /\ NextEvent(s) \in Event /\ NextEvent(s)[1] = s
                            /\ Signal(NextEvent(s)) \in Command
                            /\ Signal(NextEvent(s)).do = "signal"
                            /\ Signal(NextEvent(s)).event = NextEvent(s)
<1> SUFFICES ASSUME NEW s \in Streams
             PROVE  NextEvent(s) \in Event /\ NextEvent(s)[1] = s
  BY CommandForms
<1>1. events[s] + 1 \in Nat
  BY DEF TypeOK
<1> QED BY <1>1, EventForms DEF NextEvent

\* A flush waits for the fence, so what was pending has been read; the new
\* fence is behind all that is staged.
LEMMA FlushInv ==
  ASSUME StreamsInv, Flush
  PROVE  StreamsInv'
<1> USE DEF StreamsInv
<1>1. /\ commands \in [Streams -> Seq(Command)] /\ events \in [Streams -> Nat]
      /\ staged \in [Regular -> SUBSET Nat] /\ pending \in [Regular -> SUBSET Nat]
      /\ fence \in [Regular -> Event] /\ host \in HostState
  BY DEF TypeOK
<1>2. PICK s \in Regular : s = host.stream
  BY <1>1 DEF Flush, HostState, Idle
<1>3. /\ host.at = "syncing" /\ Signalled(fence[s])
      /\ pending' = [pending EXCEPT ![s] = staged[s]]
      /\ staged' = [staged EXCEPT ![s] = {}]
      /\ fence' = [fence EXCEPT ![s] = NextEvent(s)]
      /\ commands' = [commands EXCEPT ![s] = Append(@, Signal(NextEvent(s)))]
      /\ events' = [events EXCEPT ![s] = @ + 1]
      /\ host' = [host EXCEPT !.at = "leaving"]
      /\ UNCHANGED <<cursors, synced, tasks, reached, ran, channel, collecting, refused>>
  BY <1>2 DEF Flush, Fenced, gc
<1>4. PICK e \in Event : e = NextEvent(s) /\ e[1] = s
  BY <1>2, NextEventForms, StreamSets
<1>5. s \in Streams /\ Signal(e) \in Command /\ Signal(e).do = "signal"
      /\ Signal(e).event = e
  BY <1>2, CommandForms, StreamSets
<1>6. /\ commands' \in [Streams -> Seq(Command)]
      /\ Extends(commands, commands')
      /\ \A r \in Streams : r # s => commands'[r] = commands[r]
      /\ Len(commands'[s]) = Len(commands[s]) + 1
      /\ commands'[s][Len(commands[s]) + 1] = Signal(e)
  <2>1. Append(commands[s], Signal(e)) \in Seq(Command)
    BY <1>1, <1>5, AppendProperties
  <2>2. /\ commands' \in [Streams -> Seq(Command)]
        /\ commands'[s] = Append(commands[s], Signal(e))
        /\ \A r \in Streams : r # s => commands'[r] = commands[r]
    BY <1>1, <1>3, <1>4, <1>5, <2>1
  <2>3. commands \in [Streams -> Seq(Command)] /\ s \in Streams /\ Signal(e) \in Command
    BY <1>1, <1>5
  <2>4. Extends(commands, commands')
    BY <2>2, <2>3, AppendedCommand
  <2>5. Len(commands'[s]) = Len(commands[s]) + 1
        /\ commands'[s][Len(commands[s]) + 1] = Signal(e)
    BY <2>2, <2>3, AppendedCommand
  <2> QED BY <2>2, <2>4, <2>5
<1>7. ASSUME NEW r \in Streams
      PROVE  /\ Len(commands[r]) \in Nat /\ Len(commands'[r]) \in Nat
             /\ DOMAIN commands'[r] = 1 .. Len(commands'[r])
  BY <1>1, <1>6, CommandsSeq
<1>8. ASSUME NEW r \in Streams, NEW i \in Len(commands[r]) + 1 .. Len(commands'[r])
      PROVE  r = s /\ i = Len(commands[s]) + 1 /\ commands'[r][i] = Signal(e)
  <2>1. r = s
    BY <1>6, <1>7
  <2>2. i = Len(commands[s]) + 1
    BY <1>6, <1>7, <2>1
  <2> QED BY <1>6, <2>1, <2>2
<1>9. host' \in HostState /\ host'.at = "leaving"
      /\ host'.task = host.task /\ host'.stream = host.stream
  <2>1. host \in [at: {"syncing", "leaving"}, stream: Regular, task: Nat, shared: BOOLEAN]
    BY <1>1, <1>3 DEF HostState, Idle
  <2> QED BY <1>3, <2>1 DEF HostState
<1>10. /\ \A r \in Streams : events[r] <= events'[r]
       /\ events' \in [Streams -> Nat] /\ events'[s] = events[s] + 1
  <2>1. events'[s] = events[s] + 1 /\ \A r \in Streams : r # s => events'[r] = events[r]
    BY <1>1, <1>3, <1>5
  <2> QED BY <1>1, <1>3, <1>5, <2>1
<1>11. TypeOK'
  BY <1>1, <1>2, <1>3, <1>4, <1>6, <1>9, <1>10 DEF TypeOK
<1>12. SignalsInOrder'
  BY <1>3, <1>4, <1>5, <1>6, <1>8, <1>10, ExtendedSignals
<1>13. TasksInOrder'
  <2>1. \A r \in Streams : \A i \in Len(commands[r]) + 1 .. Len(commands'[r]) :
          commands'[r][i].do # "run"
    BY <1>5, <1>8
  <2>2. \A r \in Regular : cursors[r] <= cursors'[r] /\ cursors'[r] \in Nat
    BY <1>3 DEF TypeOK
  <2> QED BY <1>3, <1>6, <2>1, <2>2, ExtendedTasks
<1>14. SyncedGuarded'
  BY <1>3, <1>6, ExtendedSynced
<1>15. ASSUME NEW t \in pending[s]
       PROVE  t \in ran
  <2>1. fence[s] \in Event /\ t \in Nat /\ Covers(fence[s], t)
    BY <1>1, <1>2 DEF FencesCover
  <2> QED BY <1>3, <2>1, SignalledCovered
<1>16. FencesCover'
  <2>1. ASSUME NEW r \in Regular, NEW t \in staged'[r]
        PROVE  t \in DOMAIN tasks' /\ Home(t)' = r
    BY <1>1, <1>2, <1>3, <2>1 DEF FencesCover, Home
  <2>2. ASSUME NEW r \in Regular, NEW t \in pending'[r]
        PROVE  Covers(fence[r], t)'
    <3>1. CASE r = s
      <4>1. t \in staged[s] /\ fence'[s] = e
        BY <1>1, <1>3, <1>4, <2>2, <3>1
      <4>2. t \in DOMAIN tasks /\ Home(t) = s
        BY <1>2, <4>1 DEF FencesCover
      <4>3. Len(commands[s]) + 1 \in DOMAIN commands'[s]
            /\ Len(commands[s]) + 1 > Len(commands[s])
        BY <1>5, <1>6, <1>7
      <4>4. Covers(e, t)'
        BY <1>3, <1>4, <1>6, <4>2, <4>3, NewEventCovers
      <4> QED BY <3>1, <4>1, <4>4 DEF Covers, RunTask, Signal
    <3>2. CASE r # s
      <4>1. t \in pending[r] /\ fence'[r] = fence[r]
        BY <1>1, <1>3, <2>2, <3>2
      <4>2. Covers(fence[r], t)'
        <5>1. \A q \in Regular : \A u \in pending[q] :
                fence'[q] = fence[q] => Covers(fence[q], u)'
          BY <1>3, <1>6, ExtendedBatches
        <5> QED BY <4>1, <5>1
      <4> QED BY <4>1, <4>2 DEF Covers, RunTask, Signal
    <3> QED BY <3>1, <3>2
  <2> QED BY <2>1, <2>2 DEF FencesCover
<1>17. CollectsCovered'
  <2>1. (host.task \in DOMAIN tasks /\ Home(host.task) = host.stream)'
    BY <1>3, <1>9 DEF CollectsCovered, Home
  <2>2. ~(host.at = "sending")'
    BY <1>9
  <2>3. /\ (\A i \in DOMAIN channel : CoversShared(channel[i].event, channel[i].task))'
        /\ collecting # Nothing => CoversShared(collecting.event, collecting.task)'
    BY <1>3, <1>6, ExtendedBatches
  <2> QED BY <1>3, <2>1, <2>2, <2>3 DEF CollectsCovered, Nothing, NoEvent, Special
<1>18. BytesStay'
  <2> SUFFICES ASSUME NEW t \in DOMAIN tasks, tasks[t].upload, t \notin ran
               PROVE  \E r \in Regular : t \in staged'[r] \union pending'[r]
    BY <1>3 DEF BytesStay
  <2>1. PICK r \in Regular : t \in staged[r] \union pending[r]
    BY DEF BytesStay
  <2>2. CASE r = s
    BY <1>1, <1>3, <1>15, <2>1, <2>2
  <2>3. CASE r # s
    BY <1>1, <1>3, <2>1, <2>3
  <2> QED BY <2>2, <2>3
<1> QED BY <1>11, <1>12, <1>13, <1>14, <1>16, <1>17, <1>18

\* A call that shared something lets the collecting stream wait for its own.
LEMMA LeaveSharedInv ==
  ASSUME StreamsInv, Leave, host.shared
  PROVE  StreamsInv'
<1> USE DEF StreamsInv
<1>1. /\ commands \in [Streams -> Seq(Command)] /\ events \in [Streams -> Nat]
      /\ host \in HostState
  BY DEF TypeOK
<1>2. PICK s \in Regular : s = host.stream
  BY <1>1 DEF Leave, HostState, Idle
<1>3. PICK t \in DOMAIN tasks : t = host.task /\ Home(t) = s
  BY <1>2 DEF Leave, CollectsCovered
<1>4. PICK e \in Event : e = NextEvent(s) /\ e[1] = s
  BY <1>2, NextEventForms, StreamSets
<1>5. PICK f \in Event : f = NextEvent(Special) /\ f[1] = Special
  BY NextEventForms, StreamSets
<1>6. /\ s \in Streams /\ Special \in Streams /\ s # Special
      /\ Signal(e) \in Command /\ Signal(e).do = "signal" /\ Signal(e).event = e
      /\ Signal(f) \in Command /\ Signal(f).do = "signal" /\ Signal(f).event = f
      /\ Wait(e) \in Command /\ Wait(e).do = "wait" /\ Wait(e).event = e
  BY <1>2, CommandForms, StreamSets
<1>7. /\ host.at = "leaving"
      /\ commands' = [commands EXCEPT ![s] = Append(@, Signal(e)),
                                      ![Special] = @ \o <<Wait(e), Signal(f)>>]
      /\ events' = [events EXCEPT ![s] = @ + 1, ![Special] = @ + 1]
      /\ host' = [at |-> "sending", batch |-> [event |-> f, task |-> t]]
      /\ UNCHANGED <<cursors, synced, tasks, reached, ran, staged, pending, fence,
                     channel, collecting, refused>>
  BY <1>2, <1>3, <1>4, <1>5 DEF Leave, GcCommands, gc, bytes
<1>8. /\ commands' \in [Streams -> Seq(Command)]
      /\ \A r \in Streams : r # s /\ r # Special => commands'[r] = commands[r]
      /\ commands'[s] = Append(commands[s], Signal(e))
      /\ commands'[Special] = commands[Special] \o <<Wait(e), Signal(f)>>
  <2>1. Append(commands[s], Signal(e)) \in Seq(Command)
    BY <1>1, <1>6, AppendProperties
  <2>2. commands[Special] \o <<Wait(e), Signal(f)>> \in Seq(Command)
    BY <1>1, <1>6, ConcatProperties
  <2> QED BY <1>1, <1>6, <1>7, <2>1, <2>2
<1>9. ASSUME NEW r \in Streams
      PROVE  /\ Len(commands[r]) \in Nat /\ Len(commands'[r]) \in Nat
             /\ DOMAIN commands'[r] = 1 .. Len(commands'[r])
             /\ commands[r] \in Seq(Command)
  BY <1>1, <1>8, CommandsSeq
<1>10. /\ Len(commands'[s]) = Len(commands[s]) + 1
       /\ commands'[s][Len(commands[s]) + 1] = Signal(e)
       /\ \A i \in 1 .. Len(commands[s]) : commands'[s][i] = commands[s][i]
  BY <1>6, <1>8, <1>9, AppendProperties
<1>11. /\ Len(commands'[Special]) = Len(commands[Special]) + 2
       /\ commands'[Special][Len(commands[Special]) + 1] = Wait(e)
       /\ commands'[Special][Len(commands[Special]) + 2] = Signal(f)
       /\ \A i \in 1 .. Len(commands[Special]) : commands'[Special][i] = commands[Special][i]
  <2> DEFINE more == <<Wait(e), Signal(f)>>
  <2>1. more \in Seq(Command) /\ Len(more) = 2 /\ more[1] = Wait(e) /\ more[2] = Signal(f)
    BY <1>6
  <2>2. commands'[Special] = commands[Special] \o more /\ commands[Special] \in Seq(Command)
        /\ Len(commands[Special]) \in Nat
    BY <1>6, <1>8, <1>9
  <2> HIDE DEF more
  <2>3. /\ Len(commands'[Special]) = Len(commands[Special]) + Len(more)
        /\ \A i \in 1 .. Len(commands[Special]) + Len(more) :
             commands'[Special][i] = IF i <= Len(commands[Special]) THEN commands[Special][i]
                                     ELSE more[i - Len(commands[Special])]
    <3> DEFINE S == commands[Special]
    <3>1. S \in Seq(Command) /\ commands'[Special] = S \o more
      BY <2>2
    <3> HIDE DEF S
    <3>2. /\ Len(S \o more) = Len(S) + Len(more)
          /\ \A i \in 1 .. Len(S) + Len(more) :
               (S \o more)[i] = IF i <= Len(S) THEN S[i] ELSE more[i - Len(S)]
      <4> HIDE DEF more
      <4>1. more \in Seq(Command)
        BY <2>1
      <4> QED BY <3>1, <4>1, ConcatProperties
    <3> QED BY <3>1, <3>2 DEF S
  <2> QED BY <2>1, <2>2, <2>3
<1>12. Extends(commands, commands')
  <2> SUFFICES ASSUME NEW r \in Streams
               PROVE  /\ Len(commands[r]) <= Len(commands'[r])
                      /\ \A i \in 1 .. Len(commands[r]) : commands'[r][i] = commands[r][i]
    BY DEF Extends
  <2>1. CASE r = s
    BY <1>9, <1>10, <2>1
  <2>2. CASE r = Special
    BY <1>9, <1>11, <2>2
  <2>3. CASE r # s /\ r # Special
    BY <1>8, <1>9, <2>3
  <2> QED BY <2>1, <2>2, <2>3
<1>13. ASSUME NEW r \in Streams, NEW i \in Len(commands[r]) + 1 .. Len(commands'[r])
       PROVE  \/ r = s /\ i = Len(commands[s]) + 1 /\ commands'[r][i] = Signal(e)
              \/ r = Special /\ i = Len(commands[Special]) + 1 /\ commands'[r][i] = Wait(e)
              \/ r = Special /\ i = Len(commands[Special]) + 2 /\ commands'[r][i] = Signal(f)
  <2>1. CASE r = s
    <3>1. i = Len(commands[s]) + 1
      BY <1>9, <1>10, <2>1
    <3> QED BY <1>10, <2>1, <3>1
  <2>2. CASE r = Special
    <3>1. i = Len(commands[Special]) + 1 \/ i = Len(commands[Special]) + 2
      BY <1>9, <1>11, <2>2
    <3> QED BY <1>11, <2>2, <3>1
  <2>3. CASE r # s /\ r # Special
    BY <1>8, <1>9, <2>3
  <2> QED BY <2>1, <2>2, <2>3
<1>14. /\ \A r \in Streams : events[r] <= events'[r]
       /\ events' \in [Streams -> Nat]
       /\ events'[s] = events[s] + 1 /\ events'[Special] = events[Special] + 1
  <2>1. /\ events'[s] = events[s] + 1 /\ events'[Special] = events[Special] + 1
        /\ \A r \in Streams : r # s /\ r # Special => events'[r] = events[r]
    BY <1>1, <1>6, <1>7
  <2>2. \A r \in Streams : events'[r] \in Nat /\ events[r] <= events'[r]
    BY <1>1, <2>1
  <2>3. events' \in [Streams -> Nat]
    BY <1>1, <1>7, <2>2
  <2> QED BY <2>1, <2>2, <2>3
<1>15. host' \in HostState /\ host'.at = "sending"
       /\ host'.batch.event = f /\ host'.batch.task = t
  <2>1. t \in Nat
    BY TaskTypes
  <2> QED BY <1>7, <2>1 DEF HostState, Batch
<1>16. TypeOK'
  BY <1>7, <1>8, <1>14, <1>15 DEF TypeOK
<1>17. SignalsInOrder'
  <2>1. ASSUME NEW r \in Streams, NEW i \in Len(commands[r]) + 1 .. Len(commands'[r]),
               commands'[r][i].do = "signal"
        PROVE  /\ commands'[r][i].event = NextEvent(r) /\ events'[r] = events[r] + 1
               /\ i = IF r = s THEN Len(commands[s]) + 1 ELSE Len(commands[Special]) + 2
    <3>1. CASE r = s /\ i = Len(commands[s]) + 1 /\ commands'[r][i] = Signal(e)
      BY <1>4, <1>6, <1>14, <3>1
    <3>2. CASE r = Special /\ i = Len(commands[Special]) + 2 /\ commands'[r][i] = Signal(f)
      BY <1>5, <1>6, <1>14, <3>2
    <3>3. CASE commands'[r][i] = Wait(e)
      BY <1>6, <2>1, <3>3
    <3> QED BY <1>13, <3>1, <3>2, <3>3
  <2>2. \A r \in Streams : \A i \in Len(commands[r]) + 1 .. Len(commands'[r]) :
          commands'[r][i].do = "signal" =>
            /\ commands'[r][i].event = NextEvent(r) /\ events'[r] = events[r] + 1
            /\ \A j \in Len(commands[r]) + 1 .. Len(commands'[r]) :
                 commands'[r][j].do = "signal" => i = j
    BY <2>1
  <2> QED BY <1>7, <1>8, <1>12, <1>14, <2>2, ExtendedSignals
<1>18. TasksInOrder'
  <2>1. \A r \in Streams : \A i \in Len(commands[r]) + 1 .. Len(commands'[r]) :
          commands'[r][i].do # "run"
    BY <1>6, <1>13
  <2>2. \A r \in Regular : cursors[r] <= cursors'[r] /\ cursors'[r] \in Nat
    BY <1>7 DEF TypeOK
  <2> QED BY <1>7, <1>8, <1>12, <2>1, <2>2, ExtendedTasks
<1>19. SyncedGuarded'
  BY <1>7, <1>8, <1>12, ExtendedSynced
<1>20. FencesCover'
  <2>1. \A r \in Regular : \A u \in pending[r] : Covers(fence[r], u)'
    BY <1>7, <1>8, <1>12, ExtendedBatches
  <2>2. \A r \in Regular : \A u \in pending[r] : (Covers(fence[r], u))'
    BY <1>7, <2>1 DEF Covers, RunTask, Signal
  <2> QED BY <1>7, <2>2 DEF FencesCover, Home
<1>21. CoversShared(f, t)'
  <2>1. Len(commands[s]) + 1 \in DOMAIN commands'[s]
        /\ Len(commands[s]) + 1 > Len(commands[s])
    BY <1>6, <1>9, <1>10
  <2>2. Covers(e, t)'
    <3>1. /\ commands' \in [Streams -> Seq(Command)] /\ Extends(commands, commands')
          /\ ran' = ran
      BY <1>7, <1>8, <1>12
    <3>2. /\ e[1] = Home(t) /\ Len(commands[e[1]]) + 1 \in DOMAIN commands'[e[1]]
          /\ Len(commands[e[1]]) + 1 > Len(commands[e[1]])
          /\ commands'[e[1]][Len(commands[e[1]]) + 1] = Signal(e)
      BY <1>3, <1>4, <1>10, <2>1
    <3> QED BY <3>1, <3>2, NewEventCovers
  <2>3. PICK i \in Nat, j \in Nat : i = Len(commands[Special]) + 1
                                    /\ j = Len(commands[Special]) + 2
    BY <1>6, <1>9
  <2>4. i \in DOMAIN commands'[Special] /\ j \in DOMAIN commands'[Special] /\ i < j
        /\ commands'[Special][i] = Wait(e) /\ commands'[Special][j] = Signal(f)
    BY <1>6, <1>9, <1>11, <2>3
  <2>5. WaitsFor(commands[Special][i], t)'
    BY <1>6, <2>2, <2>4 DEF WaitsFor, Covers, RunTask, Signal, Special
  <2> QED BY <2>4, <2>5 DEF CoversShared, Signal, Special
<1>22. CollectsCovered'
  <2>1. ~(host.at \in {"syncing", "leaving"})'
    BY <1>15
  <2>2. (CoversShared(host.batch.event, host.batch.task))'
    BY <1>15, <1>21 DEF CoversShared, WaitsFor, Covers, RunTask, Signal
  <2>3. /\ (\A i \in DOMAIN channel : CoversShared(channel[i].event, channel[i].task))'
        /\ collecting # Nothing => CoversShared(collecting.event, collecting.task)'
    BY <1>7, <1>8, <1>12, ExtendedBatches
  <2> QED BY <1>7, <2>1, <2>2, <2>3 DEF CollectsCovered, Nothing, NoEvent, Special
<1>23. BytesStay'
  BY <1>7 DEF BytesStay
<1> QED BY <1>16, <1>17, <1>18, <1>19, <1>20, <1>22, <1>23

\* A step that leaves the streams alone changes nothing of what is covered.
LEMMA StreamsUntouched ==
  ASSUME StreamsInv, UNCHANGED <<cursors, synced, tasks, device, bytes>>
  PROVE  /\ TasksInOrder' /\ SignalsInOrder' /\ SyncedGuarded' /\ FencesCover' /\ BytesStay'
         /\ \A e \in Event, t \in Nat : CoversShared(e, t) => CoversShared(e, t)'
         /\ \A t \in Nat : Home(t)' = Home(t)
<1> USE DEF StreamsInv, device, bytes
<1>1. \A s, i, t : Guarded(s, i, t)' <=> Guarded(s, i, t)
  BY DEF Guarded, WaitsFor, RunTask, Covers, Signal
<1>2. TasksInOrder'
  <2>1. \A s \in Streams : \A i \in DOMAIN commands[s] : i \in Nat
    BY CommandsSeq DEF TypeOK
  <2> QED BY <1>1, <2>1 DEF TasksInOrder, Home, RunTask
<1>3. SignalsInOrder'
  BY DEF SignalsInOrder, IsSignal
<1>4. SyncedGuarded'
  <2>1. \A s \in Regular : s \in Streams /\ Len(commands[s]) + 1 \in Nat
    BY CommandsSeq, StreamSets DEF TypeOK
  <2>2. ASSUME NEW s \in Regular, NEW t, Guarded(s, Len(commands[s]) + 1, t)
        PROVE  Guarded(s, Len(commands[s]) + 1, t)'
    <3>1. PICK n \in Nat : n = Len(commands[s]) + 1
      BY <2>1
    <3>2. Guarded(s, n, t)'
      BY <1>1, <2>1, <2>2, <3>1
    <3> QED BY <3>1, <3>2
  <2> QED BY <2>2 DEF SyncedGuarded, Home
<1>5. FencesCover'
  BY DEF FencesCover, Home, Covers, RunTask, Signal
<1>6. BytesStay'
  BY DEF BytesStay
<1>7. \A e, t : CoversShared(e, t)' <=> CoversShared(e, t)
  BY DEF CoversShared, WaitsFor, Covers, RunTask, Signal, Special
<1> QED BY <1>2, <1>3, <1>4, <1>5, <1>6, <1>7 DEF Home

LEMMA BatchesKept ==
  ASSUME StreamsInv, UNCHANGED <<cursors, synced, tasks, device, bytes>>,
         NEW b \in Batch, CoversShared(b.event, b.task)
  PROVE  CoversShared(b.event, b.task)'
BY StreamsUntouched DEF Batch

LEMMA SendInv ==
  ASSUME StreamsInv, Send
  PROVE  StreamsInv'
<1> USE DEF StreamsInv
<1>1. /\ host.at = "sending" /\ channel' = Append(channel, host.batch) /\ host' = Idle
      /\ UNCHANGED <<cursors, synced, tasks, refused, device, bytes, collecting>>
  BY DEF Send
<1>2. host.batch \in Batch /\ CoversShared(host.batch.event, host.batch.task)
  BY <1>1 DEF TypeOK, HostState, Idle, CollectsCovered
<1>3. /\ channel \in Seq(Batch) /\ channel' \in Seq(Batch)
      /\ DOMAIN channel = 1 .. Len(channel) /\ DOMAIN channel' = 1 .. Len(channel')
      /\ Len(channel) \in Nat /\ Len(channel') = Len(channel) + 1
      /\ \A i \in 1 .. Len(channel) : channel'[i] = channel[i] /\ channel[i] \in Batch
      /\ channel'[Len(channel) + 1] = host.batch
  <2>1. channel \in Seq(Batch)
    BY DEF TypeOK
  <2> QED BY <1>1, <1>2, <2>1, AppendProperties, ElementOfSeq, LenProperties
<1>4. TypeOK'
  BY <1>1, <1>3 DEF TypeOK, HostState, device, bytes
<1>5. ASSUME NEW i \in DOMAIN channel'
      PROVE  (CoversShared(channel[i].event, channel[i].task))'
  <2>1. channel'[i] \in Batch /\ CoversShared(channel'[i].event, channel'[i].task)
    <3>1. CASE i \in 1 .. Len(channel)
      BY <1>3, <3>1 DEF CollectsCovered
    <3>2. CASE i = Len(channel) + 1
      BY <1>2, <1>3, <3>2
    <3> QED BY <1>3, <3>1, <3>2
  <2>2. PICK b \in Batch : b = channel'[i]
    BY <2>1
  <2>3. CoversShared(b.event, b.task)'
    BY <1>1, <2>1, <2>2, BatchesKept
  <2> QED BY <2>2, <2>3 DEF CoversShared, WaitsFor, Covers, RunTask, Signal
<1>6. (collecting # Nothing => CoversShared(collecting.event, collecting.task))'
  <2> SUFFICES ASSUME collecting # Nothing
               PROVE  CoversShared(collecting.event, collecting.task)'
    BY <1>1 DEF Nothing, NoEvent, Special
  <2>1. PICK b \in Batch : b = collecting
    BY DEF TypeOK
  <2>2. CoversShared(b.event, b.task)'
    BY <1>1, <2>1, BatchesKept DEF CollectsCovered
  <2> QED BY <1>1, <2>1, <2>2 DEF CoversShared, WaitsFor, Covers, RunTask, Signal
<1>7. CollectsCovered'
  BY <1>1, <1>5, <1>6 DEF CollectsCovered, Idle
<1> QED BY <1>1, <1>4, <1>7, StreamsUntouched

\* The first batch of the channel goes to the collecting thread.
LEMMA ReceiveInv ==
  ASSUME StreamsInv, Receive
  PROVE  StreamsInv'
<1> USE DEF StreamsInv
<1>1. /\ channel # <<>> /\ collecting' = Head(channel) /\ channel' = Tail(channel)
      /\ UNCHANGED <<cursors, synced, tasks, refused, device, bytes, host>>
  BY DEF Receive
<1>2. channel \in Seq(Batch)
  BY DEF TypeOK
<1>3. /\ channel' \in Seq(Batch) /\ Len(channel) \in Nat \ {0}
      /\ DOMAIN channel = 1 .. Len(channel) /\ DOMAIN channel' = 1 .. Len(channel')
      /\ Len(channel') = Len(channel) - 1
      /\ \A i \in 1 .. Len(channel') : channel'[i] = channel[i + 1]
      /\ \A i \in 1 .. Len(channel) : channel[i] \in Batch
      /\ collecting' = channel[1]
  BY <1>1, <1>2, HeadTailProperties, ElementOfSeq, LenProperties
<1>4. TypeOK'
  BY <1>1, <1>3 DEF TypeOK, device, bytes
<1>5. ASSUME NEW b \in Batch, NEW i \in DOMAIN channel, b = channel[i]
      PROVE  CoversShared(b.event, b.task)'
  <2>1. CoversShared(b.event, b.task)
    BY <1>5 DEF CollectsCovered
  <2> QED BY <1>1, <2>1, BatchesKept
<1>6. ASSUME NEW i \in DOMAIN channel'
      PROVE  (CoversShared(channel[i].event, channel[i].task))'
  <2>1. i + 1 \in DOMAIN channel /\ channel'[i] = channel[i + 1] /\ channel[i + 1] \in Batch
    BY <1>3
  <2>2. PICK b \in Batch : b = channel'[i] /\ b = channel[i + 1]
    BY <2>1
  <2>3. CoversShared(b.event, b.task)'
    BY <1>5, <2>1, <2>2
  <2> QED BY <2>2, <2>3 DEF CoversShared, WaitsFor, Covers, RunTask, Signal
<1>7. (CoversShared(collecting.event, collecting.task))'
  <2>1. 1 \in DOMAIN channel
    BY <1>3
  <2>2. PICK b \in Batch : b = collecting' /\ b = channel[1]
    BY <1>3, <2>1
  <2>3. CoversShared(b.event, b.task)'
    BY <1>5, <2>1, <2>2
  <2> QED BY <2>2, <2>3 DEF CoversShared, WaitsFor, Covers, RunTask, Signal
<1>8. (host.at = "sending" => CoversShared(host.batch.event, host.batch.task))'
  <2> SUFFICES ASSUME host.at = "sending"
               PROVE  CoversShared(host.batch.event, host.batch.task)'
    BY <1>1
  <2>1. PICK b \in Batch : b = host.batch /\ CoversShared(b.event, b.task)
    BY DEF TypeOK, HostState, Idle, CollectsCovered
  <2>2. CoversShared(b.event, b.task)'
    BY <1>1, <2>1, BatchesKept
  <2> QED BY <1>1, <2>1, <2>2 DEF CoversShared, WaitsFor, Covers, RunTask, Signal
<1>9. (host.at \in {"syncing", "leaving"} =>
         host.task \in DOMAIN tasks /\ Home(host.task) = host.stream)'
  BY <1>1 DEF CollectsCovered, Home
<1>10. CollectsCovered'
  BY <1>6, <1>7, <1>8, <1>9 DEF CollectsCovered
<1> QED BY <1>1, <1>4, <1>10, StreamsUntouched

\* Steps that keep every batch where it is, or lose it: the collecting thread is
\* done with its batch, a call that shared nothing ends, nothing happens.
LEMMA BatchesStayInv ==
  ASSUME StreamsInv, UNCHANGED <<cursors, synced, tasks, device, bytes, channel>>,
         host' \in {host, Idle}, collecting' \in {collecting, Nothing}, refused' = refused
  PROVE  StreamsInv'
<1> USE DEF StreamsInv
<1>1. TypeOK'
  <2>1. Nothing \in Batch
    BY StreamSets DEF Nothing, NoEvent, Batch, Event
  <2>2. Idle \in HostState
    BY DEF HostState
  <2> QED BY <2>1, <2>2 DEF TypeOK, device, bytes
<1>2. ASSUME NEW b \in Batch, CoversShared(b.event, b.task)
      PROVE  CoversShared(b.event, b.task)'
  BY <1>2, BatchesKept
<1>3. ASSUME NEW i \in DOMAIN channel
      PROVE  (CoversShared(channel[i].event, channel[i].task))'
  <2>1. channel[i] \in Batch
    BY LenProperties, ElementOfSeq DEF TypeOK
  <2>2. PICK b \in Batch : b = channel[i] /\ CoversShared(b.event, b.task)
    BY <2>1 DEF CollectsCovered
  <2>3. CoversShared(b.event, b.task)'
    BY <1>2, <2>2
  <2> QED BY <2>2, <2>3 DEF CoversShared, WaitsFor, Covers, RunTask, Signal
<1>4. (collecting # Nothing => CoversShared(collecting.event, collecting.task))'
  <2> SUFFICES ASSUME collecting' = collecting, collecting # Nothing
               PROVE  CoversShared(collecting.event, collecting.task)'
    BY DEF Nothing, NoEvent, Special
  <2>1. PICK b \in Batch : b = collecting /\ CoversShared(b.event, b.task)
    BY DEF TypeOK, CollectsCovered
  <2>2. CoversShared(b.event, b.task)'
    BY <1>2, <2>1
  <2> QED BY <2>1, <2>2 DEF CoversShared, WaitsFor, Covers, RunTask, Signal
<1>5. (host.at = "sending" => CoversShared(host.batch.event, host.batch.task))'
  <2> SUFFICES ASSUME host.at = "sending", host' = host
               PROVE  CoversShared(host.batch.event, host.batch.task)'
    BY DEF Idle
  <2>1. PICK b \in Batch : b = host.batch /\ CoversShared(b.event, b.task)
    BY DEF TypeOK, HostState, Idle, CollectsCovered
  <2>2. CoversShared(b.event, b.task)'
    BY <1>2, <2>1
  <2> QED BY <2>1, <2>2 DEF CoversShared, WaitsFor, Covers, RunTask, Signal
<1>6. (host.at \in {"syncing", "leaving"} =>
         host.task \in DOMAIN tasks /\ Home(host.task) = host.stream)'
  BY DEF CollectsCovered, Home, Idle
<1>7. CollectsCovered'
  BY <1>3, <1>4, <1>5, <1>6 DEF CollectsCovered
<1> QED BY <1>1, <1>7, StreamsUntouched

LEMMA DeviceInv ==
  ASSUME StreamsInv, NEW s \in Streams, Device(s)
  PROVE  StreamsInv'
BY DeviceTypeOK, DeviceSignalsInOrder, DeviceTasksInOrder, DeviceKeepsCovered DEF StreamsInv

-----------------------------------------------------------------------------
(* The theorems                                                               *)

LEMMA InitInv == Init => StreamsInv
<1> SUFFICES ASSUME Init PROVE StreamsInv
  OBVIOUS
<1> USE DEF Init
<1>1. \A s \in Streams : commands[s] = <<>> /\ DOMAIN commands[s] = {}
  OBVIOUS
<1>2. TypeOK
  <2>1. NoEvent \in Event /\ Nothing \in Batch
    BY StreamSets DEF Nothing, NoEvent, Batch, Event
  <2>2. Idle \in HostState
    BY DEF HostState
  <2>3. \A s \in Regular : synced[s] = <<>> /\ DOMAIN synced[s] = {}
    OBVIOUS
  <2>4. \A s \in Regular : synced[s] \in [DOMAIN synced[s] -> Nat]
    BY <2>3
  <2> QED BY <2>1, <2>2, <2>3, <2>4 DEF TypeOK
<1>3. tasks = <<>> /\ DOMAIN tasks = {} /\ channel = <<>> /\ DOMAIN channel = {}
  OBVIOUS
<1>4. TasksInOrder
  BY <1>1, <1>3 DEF TasksInOrder
<1>5. SignalsInOrder
  BY <1>1 DEF SignalsInOrder
<1>6. SyncedGuarded
  BY DEF SyncedGuarded
<1>7. FencesCover
  BY DEF FencesCover
<1>8. CollectsCovered
  BY <1>3 DEF CollectsCovered, Idle
<1>9. BytesStay
  BY <1>3 DEF BytesStay
<1> QED BY <1>2, <1>4, <1>5, <1>6, <1>7, <1>8, <1>9 DEF StreamsInv

LEMMA NextInv == StreamsInv /\ [Next]_vars => StreamsInv'
<1> SUFFICES ASSUME StreamsInv, [Next]_vars PROVE StreamsInv'
  OBVIOUS
<1>1. ASSUME NEW id \in Ids, NEW handles \in Calls, Launch(id, handles, FALSE)
      PROVE  StreamsInv'
  BY <1>1, LaunchInv
<1>2. ASSUME NEW id \in Ids, Launch(id, {}, TRUE)
      PROVE  StreamsInv'
  <2>1. {} \in Calls
    <3>1. Cardinality({}) = 0
      BY FS_EmptySet
    <3>2. MaxHandles \in Nat
      BY StreamPoolAssumption, StreamsAssumption
    <3> QED BY <3>1, <3>2 DEF Calls
  <2> QED BY <1>2, <2>1, LaunchInv
<1>3. ASSUME NEW id \in Ids, NEW handles \in Calls, Refuse(id, handles)
      PROVE  StreamsInv'
  BY <1>3, RefuseInv
<1>4. CASE Flush
  BY <1>4, FlushInv
<1>5. CASE Leave /\ host.shared
  BY <1>5, LeaveSharedInv
<1>6. CASE Leave /\ ~host.shared
  BY <1>6, BatchesStayInv DEF Leave, device, gc
<1>7. CASE Send
  BY <1>7, SendInv
<1>8. CASE Receive
  BY <1>8, ReceiveInv
<1>9. CASE Collect
  BY <1>9, BatchesStayInv DEF Collect
<1>10. ASSUME NEW s \in Streams, Device(s)
       PROVE  StreamsInv'
  BY <1>10, DeviceInv
<1>11. CASE UNCHANGED vars
  BY <1>11, BatchesStayInv DEF vars, gc
<1> QED BY <1>1, <1>2, <1>3, <1>4, <1>5, <1>6, <1>7, <1>8, <1>9, <1>10, <1>11 DEF Next

\* Whatever the streams are made to wait for, and whatever a synchronised
\* cursor, a fence or a batch stands for, is covered by an event still to come
\* on the right stream: the inductive invariant of resolve(), flush() and the
\* collecting thread.
THEOREM StreamsInvariant == Spec => []StreamsInv
BY InitInv, NextInv, PTL DEF Spec

\* The bytes of an upload stay in the drop queue until the device has read them.
THEOREM BytesStayUntilRead == Spec => []BytesStay
<1>1. StreamsInv => BytesStay
  BY DEF StreamsInv
<1> QED BY <1>1, StreamsInvariant, PTL

\* A task that reaches the head of its stream finds all that it reads filled.
LEMMA DeviceReadsRan ==
  ASSUME StreamsInv, NEW s \in Streams, Device(s), NEW t \in ran' \ ran
  PROVE  tasks[t].reads \subseteq ran
<1> USE DEF StreamsInv
<1>1. commands[s][1] \in Command /\ commands[s][1].do = "run" /\ commands[s][1].task = t
      /\ 1 \in DOMAIN commands[s]
  <2>1. commands[s] \in Seq(Command) /\ commands[s] # <<>>
    BY DEF Device, TypeOK
  <2>2. Head(commands[s]) = commands[s][1] /\ DOMAIN commands[s] = 1 .. Len(commands[s])
        /\ Len(commands[s]) \in Nat \ {0}
    BY <2>1, LenProperties
  <2>3. ran' = ran \union (IF Head(commands[s]).do = "run"
                           THEN {Head(commands[s]).task} ELSE {})
    BY DEF Device
  <2>4. commands[s][1].do = "run" /\ commands[s][1].task = t
    BY <2>2, <2>3
  <2> QED BY <2>2, <2>4, DeviceStep
<1>2. \A u \in tasks[t].reads : Guarded(s, 1, u)
  BY <1>1 DEF TasksInOrder
<1>3. \A j \in DOMAIN commands[s] : ~(j < 1)
  BY CommandsSeq DEF TypeOK
<1> QED BY <1>2, <1>3 DEF Guarded

\* A task runs only after the tasks that fill the buffers it uses, whatever
\* streams they are on: align_streams() makes the stream wait for all of them.
THEOREM ReadsAfterWrites == Spec => ValidWhenRead
<1>1. StreamsInv /\ [Next]_vars => [\A t \in ran' \ ran : tasks[t].reads \subseteq ran]_vars
  <2> SUFFICES ASSUME StreamsInv, Next, NEW t \in ran' \ ran
               PROVE  tasks[t].reads \subseteq ran
    OBVIOUS
  <2>1. PICK s \in Streams : Device(s)
    BY DEF Next, Launch, Refuse, Flush, Leave, Send, Receive, Collect, device
  <2> QED BY <2>1, DeviceReadsRan
<1> QED BY <1>1, StreamsInvariant, PTL DEF Spec, ValidWhenRead

\* What the event of a batch covers has run once the event is signalled.
LEMMA SharedSignalled ==
  ASSUME StreamsInv, NEW b \in Batch, Signalled(b.event), CoversShared(b.event, b.task)
  PROVE  b.task \in ran
<1> USE DEF StreamsInv
<1> SUFFICES ASSUME NEW j \in DOMAIN commands[Special], commands[Special][j] = Signal(b.event)
             PROVE  FALSE
  BY DEF CoversShared
<1>1. b.event \in Event
  BY DEF Batch
<1>2. /\ IsSignal(Special, j) /\ commands[Special][j].event = b.event
  BY <1>1, CommandForms DEF IsSignal
<1>3. /\ b.event[1] = Special
      /\ b.event[2] \in reached[Special] + 1 .. events[Special]
  BY <1>2, StreamSets DEF SignalsInOrder
<1>4. reached[Special] \in Nat /\ events[Special] \in Nat /\ b.event[2] \in Nat
  BY <1>1, StreamSets, EventForms DEF TypeOK
<1> QED BY <1>3, <1>4 DEF Signalled

\* The collecting thread is done with what a call shared only after the call's
\* task has run, whatever the order in which the two streams go on.
THEOREM CollectsAfterUse == Spec => CollectedAfterUse
<1>1. StreamsInv /\ [Next]_vars =>
        [collecting # Nothing /\ collecting' = Nothing => collecting.task \in ran]_vars
  <2> SUFFICES ASSUME StreamsInv, Next, collecting # Nothing, collecting' = Nothing
               PROVE  collecting.task \in ran
    OBVIOUS
  <2>1. Collect
    BY DEF Next, Launch, Refuse, Flush, Leave, Send, Receive, Device, gc
  <2> QED BY <2>1, SharedSignalled DEF Collect, StreamsInv, TypeOK, CollectsCovered
<1> QED BY <1>1, StreamsInvariant, PTL DEF Spec, CollectedAfterUse

-----------------------------------------------------------------------------
(***************************************************************************)
(* StreamScheduler.                                                        *)
(***************************************************************************)
Tasks == Seq(Nat)
Pool == [tasks: [Regular -> Tasks], encoder: [Regular -> Tasks], queue: Tasks]
Call == [stream: Regular, needs: SUBSET Nat]

LEMMA IndexType ==
  ASSUME NEW id \in Ids
  PROVE  Index(id) \in Regular
<1>1. id \in Nat /\ MaxStreams \in Nat \ {0}
  BY StreamPoolAssumption, SchedulerAssumption
<1>2. id % MaxStreams \in 0 .. MaxStreams - 1
  BY <1>1, DivMod
<1> QED BY <1>2 DEF Index, Regular

(***************************************************************************)
(* Batches.                                                                *)
(***************************************************************************)
\* J is made of the lists of the streams S: all their tasks and no others, each
\* behind those before it in its list.
Mixes(J, lists, S) ==
  /\ J \in Tasks
  /\ \A j \in 1 .. Len(J) :
       \E s \in S : \E a \in 1 .. Len(lists[s]) :
         /\ J[j] = lists[s][a]
         /\ \A b \in 1 .. a - 1 : \E i \in 1 .. j - 1 : J[i] = lists[s][b]
  /\ \A s \in S : \A a \in 1 .. Len(lists[s]) :
       \E j \in 1 .. Len(J) : J[j] = lists[s][a]

\* The order of execution has the streams of the ids.
LEMMA OrderForms ==
  ASSUME NEW ids \in Seq(Ids)
  PROVE  /\ Order(ids) \in Seq(Regular)
         /\ {Order(ids)[i] : i \in 1 .. Len(Order(ids))} = {Index(ids[i]) : i \in 1 .. Len(ids)}
         /\ ids # <<>> => Len(Order(ids)) >= 1
<1> DEFINE n == Len(ids)
           list == [i \in DOMAIN ids |-> Index(ids[i])]
           I == {i \in DOMAIN ids : \A j \in 1 .. i - 1 : Index(ids[j]) # Index(ids[i])}
           o == Order(ids)
<1>1. n \in Nat /\ DOMAIN ids = 1 .. n /\ \A i \in 1 .. n : ids[i] \in Ids
  BY LenProperties, ElementOfSeq
<1>2. \A i \in 1 .. n : Index(ids[i]) \in Regular
  BY <1>1, IndexType
<1>3. list \in Seq(Regular) /\ Len(list) = n /\ \A i \in 1 .. n : list[i] = Index(ids[i])
  <2>1. PICK m \in Nat : m = n
    BY <1>1
  <2>2. list \in [1 .. m -> Regular]
    BY <1>1, <1>2, <2>1
  <2>3. \A i \in 1 .. n : list[i] = Index(ids[i])
    BY <1>1
  <2> HIDE DEF list
  <2>4. list \in Seq(Regular)
    BY <2>2, SeqDef
  <2> QED BY <2>1, <2>2, <2>3, <2>4, LenProperties
<1>4. /\ \A i \in I : i \in 1 .. n
      /\ \A i \in 1 .. n : (\A j \in 1 .. i - 1 : Index(ids[j]) # Index(ids[i])) => i \in I
  BY <1>1
<1>5. o = Kept(list, I)
  BY DEF Order
<1> HIDE DEF o, list, I
<1>6. /\ o \in Seq(Regular) /\ Len(o) = Cardinality(I) /\ Cardinality(I) \in Nat
      /\ \A m \in 1 .. Cardinality(I) : InOrder(I)[m] \in I /\ o[m] = list[InOrder(I)[m]]
      /\ \A i \in I : \E m \in 1 .. Cardinality(I) : InOrder(I)[m] = i
  <2>1. I \in SUBSET (1 .. Len(list))
    BY <1>3, <1>4
  <2> QED BY <1>3, <1>5, <2>1, KeptForms
<1>7. ASSUME NEW i \in 1 .. n
      PROVE  \E m \in 1 .. Len(o) : o[m] = Index(ids[i])
  <2> DEFINE Same == {j \in 1 .. n : Index(ids[j]) = Index(ids[i])}
  <2>1. PICK j \in Same : \A k \in Same : j <= k
    <3>1. Same \in SUBSET Nat /\ i \in Same
      OBVIOUS
    <3> HIDE DEF Same
    <3> QED BY <3>1, Smallest
  <2>2. j \in I
    <3>1. ASSUME NEW k \in 1 .. j - 1 PROVE Index(ids[k]) # Index(ids[j])
      BY <1>1, <2>1
    <3> QED BY <1>4, <3>1
  <2>3. PICK m \in 1 .. Len(o) : o[m] = list[j]
    BY <1>6, <2>2
  <2> QED BY <1>3, <2>3
<1>8. ASSUME NEW m \in 1 .. Len(o)
      PROVE  \E i \in 1 .. n : o[m] = Index(ids[i])
  BY <1>3, <1>4, <1>6
<1>9. ASSUME ids # <<>> PROVE Len(o) >= 1
  <2>1. n >= 1
    BY <1>1, <1>9, EmptySeq
  <2>2. 1 \in 1 .. n
    BY <1>1, <2>1
  <2>3. PICK m \in 1 .. Len(o) : TRUE
    BY <1>7, <2>2
  <2> QED BY <1>6, <2>3
<1>10. {o[i] : i \in 1 .. Len(o)} = {Index(ids[i]) : i \in 1 .. n}
  BY <1>7, <1>8
<1> QED BY <1>6, <1>9, <1>10 DEF o

\* One list after the other keeps the order of each.
LEMMA JoinedMixes ==
  ASSUME NEW lists \in [Regular -> Tasks], NEW order \in Seq(Regular)
  PROVE  Mixes(Joined([i \in DOMAIN order |-> lists[order[i]]]), lists,
               {order[i] : i \in 1 .. Len(order)})
<1> DEFINE w == [i \in DOMAIN order |-> lists[order[i]]]
           S == {order[i] : i \in 1 .. Len(order)}
<1>1. PICK N \in Nat : N = Len(order) /\ DOMAIN order = 1 .. N
  BY LenProperties
<1>2. \A i \in 1 .. N : order[i] \in Regular
  BY <1>1, ElementOfSeq
<1>3. /\ w \in [1 .. N -> Tasks]
      /\ \A i \in 1 .. N : w[i] = lists[order[i]]
  BY <1>1, <1>2
<1> HIDE DEF w
<1>4. w \in Seq(Tasks) /\ Len(w) = N
  BY <1>3, SeqDef, LenProperties
<1>5. PICK start : Starts(w, start)
  BY <1>4, StartsExist DEF Tasks
<1> DEFINE J == Joined(w)
<1>6. /\ J \in Tasks
      /\ \A n \in 1 .. N : \A a \in 1 .. Len(w[n]) :
           start[n - 1] + a \in 1 .. Len(J) /\ J[start[n - 1] + a] = w[n][a]
      /\ \A j \in 1 .. Len(J) :
           \E n \in 1 .. N : \E a \in 1 .. Len(w[n]) : j = start[n - 1] + a
  <2>1. w \in Seq(Seq(Nat))
    BY <1>4 DEF Tasks
  <2>2. /\ J \in Seq(Nat)
        /\ \A n \in 1 .. Len(w) : \A a \in 1 .. Len(w[n]) :
             /\ start[n - 1] + a \in 1 .. Len(J)
             /\ J[start[n - 1] + a] = w[n][a]
        /\ \A j \in 1 .. Len(J) :
             \E n \in 1 .. Len(w) : \E a \in 1 .. Len(w[n]) : j = start[n - 1] + a
    <3>1. J \in Seq(Nat) /\ Joins(J, w, start)
      BY <1>5, <2>1, JoinedForms
    <3> HIDE DEF J
    <3> QED BY <3>1 DEF Joins
  <2> HIDE DEF J
  <2>3. Len(w) = N
    BY <1>4
  <2> QED BY <2>2, <2>3 DEF Tasks
<1>7. \A n \in 1 .. N : start[n - 1] \in Nat /\ Len(w[n]) \in Nat
  <2>1. \A n \in 1 .. N : n - 1 \in 0 .. N /\ w[n] \in Seq(Nat)
    BY <1>1, <1>3 DEF Tasks
  <2> QED BY <1>4, <1>5, <2>1, LenProperties DEF Starts
<1> HIDE DEF J
<1>8. ASSUME NEW j \in 1 .. Len(J)
      PROVE  \E s \in S : \E a \in 1 .. Len(lists[s]) :
               /\ J[j] = lists[s][a]
               /\ \A b \in 1 .. a - 1 : \E i \in 1 .. j - 1 : J[i] = lists[s][b]
  <2>1. PICK n \in 1 .. N : \E a \in 1 .. Len(w[n]) : j = start[n - 1] + a
    BY <1>6
  <2>2. PICK a \in 1 .. Len(w[n]) : j = start[n - 1] + a
    BY <2>1
  <2>3. order[n] \in S /\ w[n] = lists[order[n]] /\ J[j] = w[n][a]
    BY <1>1, <1>3, <1>6, <2>2
  <2>4. ASSUME NEW b \in 1 .. a - 1
        PROVE  \E i \in 1 .. j - 1 : J[i] = w[n][b]
    <3>1. PICK m \in Nat, l \in Nat : m = start[n - 1] /\ l = Len(w[n])
      BY <1>7
    <3>2. a \in 1 .. l /\ j = m + a
      BY <2>2, <3>1
    <3>3. b \in 1 .. l /\ m + b \in 1 .. (m + a) - 1
      BY <3>2
    <3>4. b \in 1 .. Len(w[n]) /\ start[n - 1] + b \in 1 .. j - 1
      BY <3>1, <3>2, <3>3
    <3> QED BY <1>6, <3>4
  <2> DEFINE s == order[n]
  <2>5. /\ s \in S /\ a \in 1 .. Len(lists[s]) /\ J[j] = lists[s][a]
        /\ \A b \in 1 .. a - 1 : \E i \in 1 .. j - 1 : J[i] = lists[s][b]
    BY <2>2, <2>3, <2>4
  <2> HIDE DEF S, s
  <2> QED BY <2>5
<1>9. ASSUME NEW s \in S, NEW a \in 1 .. Len(lists[s])
      PROVE  \E j \in 1 .. Len(J) : J[j] = lists[s][a]
  <2>1. PICK n \in 1 .. N : s = order[n]
    BY <1>1
  <2>2. w[n] = lists[s] /\ a \in 1 .. Len(w[n])
    BY <1>3, <2>1
  <2>3. start[n - 1] + a \in 1 .. Len(J) /\ J[start[n - 1] + a] = lists[s][a]
    BY <1>6, <2>2
  <2> QED BY <2>3
<1>10. Mixes(J, lists, S)
  <2> HIDE DEF S
  <2> QED BY <1>6, <1>8, <1>9 DEF Mixes
<1> QED BY <1>10 DEF J, w

\* As many rounds as the longest list has tasks.
LEMMA RoundsForms ==
  ASSUME NEW lists \in [Regular -> Tasks], NEW order \in Seq(Regular), Len(order) >= 1
  PROVE  /\ Rounds(order, lists) \in Nat
         /\ \A i \in 1 .. Len(order) : Len(lists[order[i]]) <= Rounds(order, lists)
<1> DEFINE f == [i \in 1 .. Len(order) |-> Len(lists[order[i]])]
           L == {Len(lists[order[i]]) : i \in DOMAIN order}
<1>1. PICK N \in Nat : N = Len(order) /\ DOMAIN order = 1 .. N
  BY LenProperties
<1>2. \A i \in 1 .. N : Len(lists[order[i]]) \in Nat
  <2>1. \A i \in 1 .. N : lists[order[i]] \in Seq(Nat)
    BY <1>1, ElementOfSeq DEF Tasks
  <2> QED BY <2>1, LenProperties
<1>3. f \in [1 .. N -> Nat] /\ \A i \in 1 .. N : f[i] = Len(lists[order[i]])
  BY <1>1, <1>2
<1> HIDE DEF f
<1>4. PICK i \in 1 .. N : \A j \in 1 .. N : f[i] >= f[j]
  BY <1>1, <1>3, Largest
<1>5. /\ \A y \in L : \E j \in 1 .. N : y = f[j]
      /\ \A j \in 1 .. N : f[j] \in L
  BY <1>1, <1>3
<1>6. Rounds(order, lists) = Max(L)
  BY DEF Rounds
<1> HIDE DEF L
<1>7. f[i] \in L /\ \A y \in L : f[i] >= y
  BY <1>4, <1>5
<1>8. Max(L) \in L /\ \A y \in L : Max(L) >= y
  BY <1>7 DEF Max
<1>9. \A j \in 1 .. N : f[j] \in Nat
  BY <1>3
<1>10. PICK m \in Nat : m = Max(L) /\ \A j \in 1 .. N : m >= f[j]
  BY <1>5, <1>8, <1>9
<1> QED BY <1>1, <1>3, <1>6, <1>9, <1>10

\* The n-th task of every list of the streams that is long enough.
NthTasks(r, lists, S, n) ==
  /\ r \in Tasks
  /\ \A k \in 1 .. Len(r) : \E s \in S : n <= Len(lists[s]) /\ r[k] = lists[s][n]
  /\ \A s \in S : n <= Len(lists[s]) => \E k \in 1 .. Len(r) : r[k] = lists[s][n]

LEMMA RoundForms ==
  ASSUME NEW lists \in [Regular -> Tasks], NEW order \in Seq(Regular), NEW n \in Nat \ {0}
  PROVE  NthTasks(Round(order, lists, n), lists, {order[i] : i \in 1 .. Len(order)}, n)
<1> DEFINE I == {i \in DOMAIN order : n <= Len(lists[order[i]])}
           having == Kept(order, I)
           r == [i \in DOMAIN having |-> lists[having[i]][n]]
<1>1. PICK N \in Nat : N = Len(order) /\ DOMAIN order = 1 .. N
  BY LenProperties
<1>2. Round(order, lists, n) = r
  BY DEF Round
<1>3. I \in SUBSET (1 .. Len(order)) /\ \A i \in 1 .. N : i \in I <=> n <= Len(lists[order[i]])
  BY <1>1
<1> HIDE DEF I
<1>4. PICK c \in Nat : c = Cardinality(I)
  BY <1>3, KeptForms
<1>5. /\ DOMAIN having = 1 .. c
      /\ \A k \in 1 .. c : InOrder(I)[k] \in I /\ having[k] = order[InOrder(I)[k]]
      /\ \A i \in I : \E k \in 1 .. c : InOrder(I)[k] = i
  BY <1>3, <1>4, KeptForms
<1> HIDE DEF having
<1>6. \A k \in 1 .. c : lists[having[k]][n] \in Nat
  <2>1. ASSUME NEW k \in 1 .. c PROVE lists[having[k]][n] \in Nat
    <3>1. PICK i \in 1 .. N : i \in I /\ having[k] = order[i]
      BY <1>1, <1>3, <1>5
    <3>2. order[i] \in Regular
      BY <1>1, ElementOfSeq
    <3>3. PICK l \in Seq(Nat) : l = lists[order[i]]
      BY <3>2 DEF Tasks
    <3>4. Len(l) \in Nat /\ n \in 1 .. Len(l)
      BY <1>3, <3>1, <3>3, LenProperties
    <3>5. l[n] \in Nat
      BY <3>4, ElementOfSeq
    <3> QED BY <3>1, <3>3, <3>5
  <2> QED BY <2>1
<1>7. r \in [1 .. c -> Nat] /\ \A k \in 1 .. c : r[k] = lists[having[k]][n]
  BY <1>5, <1>6
<1> HIDE DEF r
<1>8. r \in Tasks /\ Len(r) = c
  BY <1>7, SeqDef, LenProperties DEF Tasks
<1>9. ASSUME NEW k \in 1 .. Len(r)
      PROVE  \E i \in 1 .. N : n <= Len(lists[order[i]]) /\ r[k] = lists[order[i]][n]
  <2>1. k \in 1 .. c
    BY <1>8
  <2>2. PICK i \in 1 .. N : i \in I /\ having[k] = order[i]
    BY <1>1, <1>3, <1>5, <2>1
  <2> QED BY <1>3, <1>7, <2>1, <2>2
<1>10. ASSUME NEW i \in 1 .. N, n <= Len(lists[order[i]])
       PROVE  \E k \in 1 .. Len(r) : r[k] = lists[order[i]][n]
  <2>1. i \in I
    BY <1>3, <1>10
  <2>2. PICK k \in 1 .. c : InOrder(I)[k] = i
    BY <1>5, <2>1
  <2>3. having[k] = order[i]
    BY <1>5, <2>2
  <2>4. k \in 1 .. Len(r) /\ r[k] = lists[order[i]][n]
    BY <1>7, <1>8, <2>3
  <2> QED BY <2>4
<1> DEFINE S == {order[i] : i \in 1 .. Len(order)}
<1>11. /\ \A i \in 1 .. N : order[i] \in S
       /\ \A s \in S : \E i \in 1 .. N : s = order[i]
  BY <1>1
<1> HIDE DEF S
<1>12. NthTasks(r, lists, S, n)
  <2>1. ASSUME NEW k \in 1 .. Len(r)
        PROVE  \E s \in S : n <= Len(lists[s]) /\ r[k] = lists[s][n]
    <3>1. PICK i \in 1 .. N : n <= Len(lists[order[i]]) /\ r[k] = lists[order[i]][n]
      BY <1>9
    <3> QED BY <1>11, <3>1
  <2>2. ASSUME NEW s \in S, n <= Len(lists[s])
        PROVE  \E k \in 1 .. Len(r) : r[k] = lists[s][n]
    <3>1. PICK i \in 1 .. N : s = order[i]
      BY <1>11
    <3> QED BY <1>10, <2>2, <3>1
  <2> QED BY <1>8, <2>1, <2>2 DEF NthTasks
<1>13. NthTasks(Round(order, lists, n), lists, S, n)
  BY <1>2, <1>12
<1> QED BY <1>13 DEF S

\* The rounds keep the order of each list.
LEMMA RoundsMix ==
  ASSUME NEW lists \in [Regular -> Tasks], NEW order \in Seq(Regular), Len(order) >= 1
  PROVE  Mixes(Joined([n \in 1 .. Rounds(order, lists) |-> Round(order, lists, n)]), lists,
               {order[i] : i \in 1 .. Len(order)})
<1> DEFINE w == [n \in 1 .. Rounds(order, lists) |-> Round(order, lists, n)]
           S == {order[i] : i \in 1 .. Len(order)}
<1>1. PICK R \in Nat : R = Rounds(order, lists) /\ \A s \in S : Len(lists[s]) <= R
  <2>1. \A s \in S : \E i \in 1 .. Len(order) : s = order[i]
    OBVIOUS
  <2> HIDE DEF S
  <2> QED BY <2>1, RoundsForms
<1>2. \A n \in 1 .. R : w[n] = Round(order, lists, n)
  BY <1>1
<1>3. /\ \A n \in 1 .. R : w[n] \in Tasks
      /\ \A n \in 1 .. R : \A k \in 1 .. Len(w[n]) :
           \E s \in S : n <= Len(lists[s]) /\ w[n][k] = lists[s][n]
      /\ \A n \in 1 .. R : \A s \in S : n <= Len(lists[s]) =>
           \E k \in 1 .. Len(w[n]) : w[n][k] = lists[s][n]
  <2>1. ASSUME NEW n \in 1 .. R
        PROVE  /\ w[n] \in Tasks
               /\ \A k \in 1 .. Len(w[n]) :
                    \E s \in S : n <= Len(lists[s]) /\ w[n][k] = lists[s][n]
               /\ \A s \in S : n <= Len(lists[s]) =>
                    \E k \in 1 .. Len(w[n]) : w[n][k] = lists[s][n]
    <3>1. n \in Nat \ {0}
      BY <1>1
    <3>2. NthTasks(Round(order, lists, n), lists, S, n)
      BY <3>1, RoundForms
    <3>3. w[n] = Round(order, lists, n)
      BY <1>2
    <3> HIDE DEF w, S
    <3> QED BY <3>2, <3>3 DEF NthTasks
  <2> HIDE DEF w, S
  <2> QED BY <2>1
<1>4. w \in [1 .. R -> Tasks]
  <2>1. w = [n \in 1 .. R |-> w[n]]
    BY <1>1
  <2> HIDE DEF w
  <2> QED BY <1>3, <2>1
<1>5. S \subseteq Regular
  <2>1. \A i \in 1 .. Len(order) : order[i] \in Regular
    BY LenProperties, ElementOfSeq
  <2> QED BY <2>1
<1> HIDE DEF w, S
<1>6. w \in Seq(Seq(Nat)) /\ Len(w) = R
  BY <1>4, SeqDef, LenProperties DEF Tasks
<1>7. PICK start : Starts(w, start)
  BY <1>6, StartsExist
<1> DEFINE J == Joined(w)
<1>8. J \in Tasks /\ Joins(J, w, start)
  BY <1>6, <1>7, JoinedForms DEF Tasks
<1> HIDE DEF J
<1>9. /\ \A n \in 1 .. R : \A k \in 1 .. Len(w[n]) :
           start[n - 1] + k \in 1 .. Len(J) /\ J[start[n - 1] + k] = w[n][k]
      /\ \A j \in 1 .. Len(J) :
           \E n \in 1 .. R : \E k \in 1 .. Len(w[n]) : j = start[n - 1] + k
  BY <1>6, <1>8 DEF Joins
\* What a round joins comes before what later rounds do.
<1>10. ASSUME NEW n \in 1 .. R, NEW m \in 1 .. n - 1,
              NEW k \in 1 .. Len(w[n]), NEW l \in 1 .. Len(w[m])
       PROVE  start[m - 1] + l < start[n - 1] + k
  <2>1. /\ start \in [0 .. R -> Nat]
        /\ \A i \in 1 .. R : start[i] = start[i - 1] + Len(w[i])
        /\ \A i \in 1 .. R : Len(w[i]) \in Nat
    <3>1. \A i \in 1 .. R : w[i] \in Seq(Nat)
      BY <1>4 DEF Tasks
    <3>2. \A i \in 1 .. R : Len(w[i]) \in Nat
      BY <3>1, LenProperties
    <3> QED BY <1>6, <1>7, <3>2 DEF Starts
  <2> DEFINE T == {i \in m .. n - 1 : start[m] <= start[i]}
  <2>2. m \in T
    <3>1. m \in 0 .. R /\ m \in m .. n - 1
      BY <1>1
    <3>2. start[m] \in Nat
      BY <2>1, <3>1
    <3> QED BY <3>1, <3>2
  <2>3. ASSUME NEW i \in m .. n - 2, i \in T PROVE i + 1 \in T
    <3>1. /\ i + 1 \in 1 .. R /\ (i + 1) - 1 = i /\ i \in 0 .. R /\ m \in 0 .. R
          /\ i + 1 \in m .. n - 1
      BY <1>1
    <3>2. start[i + 1] = start[i] + Len(w[i + 1]) /\ Len(w[i + 1]) \in Nat
      BY <2>1, <3>1
    <3>3. start[i] \in Nat /\ start[m] \in Nat /\ start[m] <= start[i]
      BY <2>1, <2>3, <3>1
    <3>4. start[m] <= start[i + 1]
      BY <3>2, <3>3
    <3> QED BY <3>1, <3>4
  <2>4. n - 1 \in T
    <3>1. m \in Nat /\ n - 1 \in Nat /\ n - 1 \in m .. n - 1
      BY <1>1
    <3>2. \A i \in m .. (n - 1) - 1 : i \in T => i + 1 \in T
      BY <2>3
    <3>3. PICK p \in Nat : p = n - 1
      BY <3>1
    <3> HIDE DEF T
    <3>4. \A i \in m .. p - 1 : i \in T => i + 1 \in T
      BY <3>2, <3>3
    <3>5. \A i \in m .. p : i \in T
      BY <2>2, <3>1, <3>4, Climb
    <3> QED BY <3>1, <3>3, <3>5
  <2>5. /\ start[m] = start[m - 1] + Len(w[m]) /\ start[m - 1] \in Nat
        /\ start[n - 1] \in Nat /\ Len(w[m]) \in Nat
    <3>1. m \in 1 .. R /\ m - 1 \in 0 .. R /\ n - 1 \in 0 .. R
      BY <1>1
    <3> QED BY <2>1, <3>1
  <2>6. start[m] <= start[n - 1]
    BY <2>4
  <2>7. k \in Nat /\ k >= 1 /\ l \in Nat /\ l <= Len(w[m])
    BY <2>5
  <2>8. \A a, b, e, f \in Nat : e <= f /\ a + f <= b => a + e < b + k
    BY <2>7
  <2>9. start[m - 1] + Len(w[m]) <= start[n - 1]
    BY <2>5, <2>6
  <2> QED BY <2>5, <2>7, <2>8, <2>9
<1>11. ASSUME NEW j \in 1 .. Len(J)
       PROVE  \E s \in S : \E a \in 1 .. Len(lists[s]) :
                /\ J[j] = lists[s][a]
                /\ \A b \in 1 .. a - 1 : \E i \in 1 .. j - 1 : J[i] = lists[s][b]
  <2>1. PICK n \in 1 .. R : \E k \in 1 .. Len(w[n]) : j = start[n - 1] + k
    BY <1>9
  <2>2. PICK k \in 1 .. Len(w[n]) : j = start[n - 1] + k
    BY <2>1
  <2>3. PICK s \in S : n <= Len(lists[s]) /\ w[n][k] = lists[s][n]
    BY <1>3
  <2>4. n \in 1 .. Len(lists[s]) /\ J[j] = lists[s][n]
    <3>1. Len(lists[s]) \in Nat
      BY <1>5, LenProperties DEF Tasks
    <3>2. n \in 1 .. Len(lists[s])
      BY <1>1, <2>3, <3>1
    <3>3. J[j] = w[n][k]
      BY <1>9, <2>2
    <3> QED BY <2>3, <3>2, <3>3
  <2>5. ASSUME NEW b \in 1 .. n - 1
        PROVE  \E i \in 1 .. j - 1 : J[i] = lists[s][b]
    <3>1. b \in 1 .. R /\ b <= Len(lists[s])
      <4>1. Len(lists[s]) \in Nat
        BY <1>5, LenProperties DEF Tasks
      <4> QED BY <1>1, <2>3, <4>1
    <3>2. PICK l \in 1 .. Len(w[b]) : w[b][l] = lists[s][b]
      BY <1>3, <3>1
    <3>3. /\ start[b - 1] + l \in 1 .. Len(J) /\ J[start[b - 1] + l] = lists[s][b]
          /\ start[b - 1] + l < j
      BY <1>9, <1>10, <2>2, <3>1, <3>2
    <3>4. j \in Nat /\ start[b - 1] + l \in Nat
      BY <3>3
    <3>5. start[b - 1] + l \in 1 .. j - 1
      BY <3>3, <3>4
    <3> QED BY <3>3, <3>5
  <2> QED BY <2>4, <2>5
<1>12. ASSUME NEW s \in S, NEW a \in 1 .. Len(lists[s])
       PROVE  \E j \in 1 .. Len(J) : J[j] = lists[s][a]
  <2>1. a \in 1 .. R /\ a <= Len(lists[s])
    <3>1. Len(lists[s]) \in Nat /\ Len(lists[s]) <= R
      BY <1>1, <1>5, LenProperties DEF Tasks
    <3> QED BY <1>1, <3>1
  <2>2. PICK k \in 1 .. Len(w[a]) : w[a][k] = lists[s][a]
    BY <1>3, <2>1
  <2>3. start[a - 1] + k \in 1 .. Len(J) /\ J[start[a - 1] + k] = lists[s][a]
    BY <1>9, <2>1, <2>2
  <2> QED BY <2>3
<1>13. Mixes(J, lists, S)
  BY <1>8, <1>11, <1>12 DEF Mixes
<1> QED BY <1>13 DEF J, w, S

(***************************************************************************)
(* The backend.                                                            *)
(***************************************************************************)
LEMMA TasksAssociative ==
  ASSUME NEW a \in Tasks, NEW b \in Tasks, NEW c \in Tasks
  PROVE  (a \o b) \o c = a \o (b \o c)
<1>1. a \in Seq(Nat) /\ b \in Seq(Nat) /\ c \in Seq(Nat)
  BY DEF Tasks
<1> QED BY ONLY <1>1, ConcatAssociative, SMTT(40)

\* No stream's encoder holds tasks.
Flushed(p) == p.encoder = [s \in Regular |-> <<>>]

\* The pool with ts at the end of its compute queue.
Queued(p, ts) == [tasks |-> p.tasks, encoder |-> p.encoder, queue |-> p.queue \o ts]

LEMMA QueuedForms ==
  ASSUME NEW p \in Pool, NEW ts \in Tasks
  PROVE  /\ Queued(p, ts) = [tasks |-> p.tasks, encoder |-> p.encoder, queue |-> p.queue \o ts]
         /\ Queued(p, ts) \in Pool
         /\ Queued(p, ts).tasks = p.tasks
         /\ Queued(p, ts).encoder = p.encoder
         /\ Queued(p, ts).queue = p.queue \o ts
<1>1. p.queue \o ts \in Tasks
  BY ConcatProperties DEF Pool, Tasks
<1>2. Queued(p, ts) = [tasks |-> p.tasks, encoder |-> p.encoder, queue |-> p.queue \o ts]
  BY DEF Queued
<1>3. Queued(p, ts) \in Pool
  BY <1>1, <1>2 DEF Pool
<1> QED BY <1>2, <1>3

\* A stream that is given tasks and flushed hands them on to the queue.
LEMMA FlushForms ==
  ASSUME NEW p \in Pool, Flushed(p), NEW s \in Regular, NEW ts \in Tasks
  PROVE  FlushEncoder(Enqueue(p, s, ts), s) = Queued(p, ts)
<1>1. p.encoder = [t \in Regular |-> <<>>] /\ p.encoder[s] = <<>>
  BY DEF Flushed
<1>2. <<>> \o ts = ts
  BY ConcatEmptySeq DEF Tasks
<1>3. PICK e : e = Enqueue(p, s, ts)
  OBVIOUS
<1>4. e = [tasks |-> p.tasks, encoder |-> [p.encoder EXCEPT ![s] = ts], queue |-> p.queue]
  BY <1>1, <1>2, <1>3 DEF Enqueue, Pool
<1>5. e \in [tasks: [Regular -> Tasks], encoder: [Regular -> Tasks], queue: Tasks] /\ e.encoder[s] = ts
  BY <1>4 DEF Pool
<1>6. PICK d : d = [e EXCEPT !.queue = @ \o e.encoder[s]]
  OBVIOUS
<1>7. FlushEncoder(e, s) = [d EXCEPT !.encoder[s] = <<>>]
  BY <1>6, Zenon DEF FlushEncoder
<1>8. d = [tasks |-> p.tasks, encoder |-> e.encoder, queue |-> p.queue \o ts]
  BY <1>4, <1>5, <1>6
<1>9. [d EXCEPT !.encoder[s] = <<>>]
        = [tasks |-> p.tasks, encoder |-> [e.encoder EXCEPT ![s] = <<>>], queue |-> p.queue \o ts]
  <2>1. PICK E \in [Regular -> Tasks] : E = e.encoder
    BY <1>5
  <2>2. PICK Q : Q = p.queue \o ts
    OBVIOUS
  <2>3. PICK T : T = p.tasks
    OBVIOUS
  <2>4. d = [tasks |-> T, encoder |-> E, queue |-> Q]
    BY <1>8, <2>1, <2>2, <2>3
  <2>5. [d EXCEPT !.encoder[s] = <<>>] = [tasks |-> T, encoder |-> [E EXCEPT ![s] = <<>>], queue |-> Q]
    BY <2>4
  <2> QED BY <2>1, <2>2, <2>3, <2>5
<1>10. [e.encoder EXCEPT ![s] = <<>>] = p.encoder
  BY <1>1, <1>4
<1> QED BY <1>3, <1>7, <1>9, <1>10 DEF Queued

Work == [stream: Regular, tasks: Tasks]

\* All the tasks handed out come to the queue, in the order they were handed out.
LEMMA SubmittedForms ==
  ASSUME NEW p \in Pool, Flushed(p), NEW work \in Seq(Work)
  PROVE  Submitted(p, work) = Queued(p, Joined([i \in 1 .. Len(work) |-> work[i].tasks]))
<1> DEFINE w == [i \in 1 .. Len(work) |-> work[i].tasks]
<1>1. PICK N \in Nat : N = Len(work) /\ \A n \in 1 .. N : work[n] \in Work
  BY LenProperties, ElementOfSeq
<1>2. w \in [1 .. N -> Tasks] /\ \A n \in 1 .. N : w[n] = work[n].tasks
  BY <1>1 DEF Work
<1> HIDE DEF w
<1>3. w \in Seq(Seq(Nat)) /\ Len(w) = N
  BY <1>2, SeqDef, LenProperties DEF Tasks
<1>4. PICK h : PartsJoined(w, Nat, h)
  BY <1>3, JoinedPrefixes
<1>5. /\ \A n \in 0 .. N : h[n] \in Tasks
      /\ h[0] = <<>>
      /\ \A n \in 1 .. N : h[n] = h[n - 1] \o w[n]
      /\ Joined(w) = h[N]
  BY <1>3, <1>4 DEF PartsJoined, Tasks
<1> DEFINE Step(f) == [n \in 0 .. N |-> IF n = 0 THEN p
                         ELSE FlushEncoder(Enqueue(f[n - 1], work[n].stream, work[n].tasks), work[n].stream)]
           g == [n \in 0 .. N |-> Queued(p, h[n])]
           after == CHOOSE f : f = Step(f)
<1>6. g[0] = p
  <2>1. p.queue \o <<>> = p.queue
    BY ConcatEmptySeq DEF Pool, Tasks
  <2>2. Queued(p, <<>>) = p
    BY <2>1 DEF Queued, Pool
  <2>3. 0 \in 0 .. N
    BY <1>1
  <2> QED BY <1>5, <2>2, <2>3
<1>7. ASSUME NEW n \in 1 .. N
      PROVE  g[n] = FlushEncoder(Enqueue(g[n - 1], work[n].stream, work[n].tasks), work[n].stream)
  <2>1. n \in 0 .. N /\ n - 1 \in 0 .. N
    BY <1>1
  <2>2. h[n - 1] \in Tasks /\ work[n].stream \in Regular /\ w[n] = work[n].tasks /\ w[n] \in Tasks
    BY <1>1, <1>2, <1>5, <2>1 DEF Work
  <2>3. PICK q \in Pool : q = Queued(p, h[n - 1]) /\ Flushed(q) /\ q.queue = p.queue \o h[n - 1]
                          /\ q.tasks = p.tasks /\ q.encoder = p.encoder
    <3>1. h[n - 1] \in Tasks
      BY <2>2
    <3>2. /\ Queued(p, h[n - 1]) \in Pool
          /\ Queued(p, h[n - 1]).tasks = p.tasks
          /\ Queued(p, h[n - 1]).encoder = p.encoder
          /\ Queued(p, h[n - 1]).queue = p.queue \o h[n - 1]
      BY <3>1, QueuedForms
    <3> QED BY <3>2 DEF Flushed
  <2>4. FlushEncoder(Enqueue(q, work[n].stream, work[n].tasks), work[n].stream) = Queued(q, w[n])
    BY <2>2, <2>3, FlushForms
  <2>5. (p.queue \o h[n - 1]) \o w[n] = p.queue \o h[n]
    <3>1. p.queue \in Tasks
      BY DEF Pool
    <3>2. PICK a \in Seq(Nat), b \in Seq(Nat), c \in Seq(Nat) :
            a = p.queue /\ b = h[n - 1] /\ c = w[n]
      BY <2>2, <3>1 DEF Tasks
    <3>3. (a \o b) \o c = a \o (b \o c)
      BY TasksAssociative DEF Tasks
    <3>4. h[n] = b \o c
      BY <1>5, <3>2
    <3> QED BY <3>2, <3>3, <3>4
  <2>6. Queued(q, w[n]) = Queued(p, h[n])
    <3>1. Queued(q, w[n]) = [tasks |-> q.tasks, encoder |-> q.encoder, queue |-> q.queue \o w[n]]
      BY <2>2, <2>3, QueuedForms
    <3>2. Queued(p, h[n]) = [tasks |-> p.tasks, encoder |-> p.encoder, queue |-> p.queue \o h[n]]
      BY <1>5, <2>1, QueuedForms
    <3> QED BY <2>3, <2>5, <3>1, <3>2
  <2>7. g[n - 1] = q /\ g[n] = Queued(p, h[n])
    BY <2>1, <2>3
  <2> HIDE DEF g
  <2> QED BY <2>4, <2>6, <2>7
<1>8. g = Step(g)
  <2>1. \A n \in 0 .. N : n = 0 \/ n \in 1 .. N
    BY <1>1
  <2>2. g = [n \in 0 .. N |-> g[n]]
    OBVIOUS
  <2> HIDE DEF g
  <2> QED BY <1>6, <1>7, <2>1, <2>2
<1>9. Submitted(p, work) = after[N]
  BY <1>1 DEF Submitted
<1>10. after = Step(after)
  BY <1>8
<1>11. \A n \in 0 .. N : after[n] = IF n = 0 THEN p
         ELSE FlushEncoder(Enqueue(after[n - 1], work[n].stream, work[n].tasks), work[n].stream)
  BY <1>10
<1> HIDE DEF after, Step, g
<1> DEFINE S == {n \in 0 .. N : after[n] = g[n]}
<1>12. 0 \in S
  BY <1>1, <1>6, <1>11
<1>13. ASSUME NEW n \in 0 .. N - 1, n \in S PROVE n + 1 \in S
  <2>1. n + 1 \in 1 .. N /\ n + 1 \in 0 .. N /\ (n + 1) - 1 = n /\ n + 1 # 0
    BY <1>1
  <2>2. after[n + 1] = FlushEncoder(Enqueue(after[n], work[n + 1].stream, work[n + 1].tasks), work[n + 1].stream)
    BY <1>11, <2>1
  <2>3. g[n + 1] = FlushEncoder(Enqueue(g[n], work[n + 1].stream, work[n + 1].tasks), work[n + 1].stream)
    BY <1>7, <2>1
  <2> QED BY <1>13, <2>1, <2>2, <2>3
<1>14. after[N] = g[N]
  <2> HIDE DEF S
  <2>1. \A n \in 0 .. N : n \in S
    BY <1>1, <1>12, <1>13, Climb
  <2>2. N \in S
    BY <1>1, <2>1
  <2> QED BY <2>2 DEF S
<1>15. g[N] = Queued(p, Joined(w))
  BY <1>1, <1>5 DEF g
<1> QED BY <1>9, <1>14, <1>15 DEF w

(***************************************************************************)
(* Executing streams.                                                      *)
(***************************************************************************)
\* What execute_streams() does to the pool p: the tasks of the streams are on
\* the queue, mixed in J, and their lists are empty.
Executed(p, ids, J) ==
  LET S == {Index(ids[i]) : i \in 1 .. Len(ids)}
  IN  /\ S \subseteq Regular
      /\ Mixes(J, p.tasks, S)
      /\ Execute(p, ids) = [tasks   |-> [s \in Regular |-> IF s \in S THEN <<>> ELSE p.tasks[s]],
                            encoder |-> p.encoder,
                            queue   |-> p.queue \o J]

LEMMA InSequenceForms ==
  ASSUME NEW p \in Pool, Flushed(p), NEW order \in Seq(Regular), NEW lists \in [Regular -> Tasks]
  PROVE  \E J : /\ Mixes(J, lists, {order[i] : i \in 1 .. Len(order)})
                /\ InSequence(p, order, lists) = Queued(p, J)
<1> DEFINE work == [i \in DOMAIN order |-> [stream |-> order[i], tasks |-> lists[order[i]]]]
           w == [i \in DOMAIN order |-> lists[order[i]]]
<1>1. PICK N \in Nat : N = Len(order) /\ DOMAIN order = 1 .. N /\ \A i \in 1 .. N : order[i] \in Regular
  BY LenProperties, ElementOfSeq
<1>2. work \in [1 .. N -> Work] /\ \A i \in 1 .. N : work[i].tasks = lists[order[i]]
  BY <1>1 DEF Work
<1>3. InSequence(p, order, lists) = Submitted(p, work)
  BY DEF InSequence
<1> HIDE DEF work
<1>4. work \in Seq(Work) /\ Len(work) = N
  BY <1>2, SeqDef, LenProperties
<1>5. [i \in 1 .. Len(work) |-> work[i].tasks] = w
  BY <1>1, <1>2, <1>4
<1>6. Submitted(p, work) = Queued(p, Joined(w))
  BY <1>4, <1>5, SubmittedForms
<1>7. Mixes(Joined(w), lists, {order[i] : i \in 1 .. Len(order)})
  BY JoinedMixes
<1> QED BY <1>3, <1>6, <1>7

LEMMA InterleavedForms ==
  ASSUME NEW p \in Pool, Flushed(p), NEW order \in Seq(Regular), Len(order) >= 1,
         NEW lists \in [Regular -> Tasks]
  PROVE  \E J : /\ Mixes(J, lists, {order[i] : i \in 1 .. Len(order)})
                /\ Interleaved(p, order, lists) = Queued(p, J)
<1> DEFINE mixed == Joined([n \in 1 .. Rounds(order, lists) |-> Round(order, lists, n)])
           others == [i \in 1 .. Len(order) - 1 |-> [stream |-> order[i + 1], tasks |-> <<>>]]
           work == Append(others, [stream |-> order[1], tasks |-> mixed])
           w == [i \in 1 .. Len(work) |-> work[i].tasks]
<1>1. PICK N \in Nat : N = Len(order) /\ N >= 1 /\ \A i \in 1 .. N : order[i] \in Regular
  BY LenProperties, ElementOfSeq
<1>2. Mixes(mixed, lists, {order[i] : i \in 1 .. Len(order)})
  BY RoundsMix
<1>3. mixed \in Tasks
  BY <1>2 DEF Mixes
<1>4. Interleaved(p, order, lists) = Submitted(p, work)
  BY DEF Interleaved
<1> HIDE DEF mixed
<1>5. PICK M \in Nat : M = N - 1
  BY <1>1
<1>6. others \in [1 .. M -> Work] /\ \A i \in 1 .. M : others[i].tasks = <<>>
  <2>1. <<>> \in Tasks
    BY EmptySeq DEF Tasks
  <2>2. \A i \in 1 .. M : i + 1 \in 1 .. N
    BY <1>5
  <2> QED BY <1>1, <1>5, <2>1, <2>2 DEF Work
<1> HIDE DEF others
<1>7. others \in Seq(Work) /\ Len(others) = M
  BY <1>6, SeqDef, LenProperties
<1>8. [stream |-> order[1], tasks |-> mixed] \in Work
  BY <1>1, <1>3 DEF Work
<1>9. /\ work \in Seq(Work) /\ Len(work) = N
      /\ \A i \in 1 .. M : work[i] = others[i]
      /\ work[N] = [stream |-> order[1], tasks |-> mixed]
  <2>1. M + 1 = N /\ \A i \in 1 .. M : i \in 1 .. N /\ i # N
    BY <1>5, <1>1
  <2> QED BY <1>7, <1>8, <2>1, AppendProperties
<1> HIDE DEF work
<1>10. w \in [1 .. N -> Tasks] /\ w[N] = mixed /\ \A i \in 1 .. N - 1 : w[i] = <<>>
  <2>1. \A i \in 1 .. N : work[i] \in Work
    BY <1>9, ElementOfSeq
  <2>2. w \in [1 .. N -> Tasks] /\ \A i \in 1 .. N : w[i] = work[i].tasks
    BY <1>9, <2>1 DEF Work
  <2>3. w[N] = mixed
    BY <1>1, <1>9, <2>2
  <2>4. \A i \in 1 .. N - 1 : w[i] = <<>>
    BY <1>1, <1>5, <1>6, <1>9, <2>2
  <2> QED BY <2>2, <2>3, <2>4
<1>11. Submitted(p, work) = Queued(p, Joined(w))
  BY <1>9, SubmittedForms
<1> HIDE DEF w
<1>12. w \in Seq(Seq(Nat)) /\ Len(w) = N
  BY <1>10, SeqDef, LenProperties DEF Tasks
<1>13. Joined(w) = mixed
  BY <1>1, <1>10, <1>12, JoinedLast
<1> QED BY <1>2, <1>4, <1>11, <1>13

LEMMA ExecuteForms ==
  ASSUME NEW p \in Pool, Flushed(p), NEW ids \in Seq(Ids)
  PROVE  \E J : Executed(p, ids, J)
<1> DEFINE S == {Index(ids[i]) : i \in 1 .. Len(ids)}
           order == Order(ids)
           taken == [p EXCEPT !.tasks = [s \in Regular |-> IF s \in ToSet(order) THEN <<>> ELSE @[s]]]
           kept == [s \in Regular |-> IF s \in S THEN <<>> ELSE p.tasks[s]]
<1>1. p.tasks \in [Regular -> Tasks]
  BY DEF Pool
<1>2. /\ order \in Seq(Regular)
      /\ {order[i] : i \in 1 .. Len(order)} = S
      /\ ids # <<>> => Len(order) >= 1
  BY OrderForms
<1>3. S \subseteq Regular
  <2>1. \A i \in 1 .. Len(ids) : ids[i] \in Ids
    BY ElementOfSeq
  <2> QED BY <2>1, IndexType
<1>4. ToSet(order) = S
  <2>1. DOMAIN order = 1 .. Len(order)
    BY <1>2, LenProperties
  <2> HIDE DEF order
  <2> QED BY <1>2, <2>1 DEF ToSet
<1>5. Execute(p, ids) = IF ids = <<>> THEN p
                        ELSE IF strategy = "interleave" THEN Interleaved(taken, order, p.tasks)
                        ELSE InSequence(taken, order, p.tasks)
  BY DEF Execute
<1>6. taken = [tasks |-> kept, encoder |-> p.encoder, queue |-> p.queue]
  <2> HIDE DEF S, order
  <2> QED BY <1>4 DEF Pool
<1>7. kept \in [Regular -> Tasks]
  <2>1. <<>> \in Tasks
    BY EmptySeq DEF Tasks
  <2> HIDE DEF S
  <2> QED BY <1>1, <2>1
<1> HIDE DEF S, order, taken, kept
<1>8. taken \in Pool /\ Flushed(taken) /\ taken.queue = p.queue /\ taken.encoder = p.encoder
      /\ taken.tasks = kept
  BY <1>6, <1>7 DEF Pool, Flushed
<1>9. CASE ids # <<>>
  <2>1. PICK J : Mixes(J, p.tasks, S) /\ Execute(p, ids) = Queued(taken, J)
    <3>1. CASE strategy = "interleave"
      <4>1. \E J : /\ Mixes(J, p.tasks, {order[i] : i \in 1 .. Len(order)})
                   /\ Interleaved(taken, order, p.tasks) = Queued(taken, J)
        BY <1>1, <1>2, <1>8, <1>9, InterleavedForms
      <4>2. Execute(p, ids) = Interleaved(taken, order, p.tasks)
        BY <1>5, <1>9, <3>1
      <4> QED BY <1>2, <4>1, <4>2
    <3>2. CASE strategy # "interleave"
      <4>1. \E J : /\ Mixes(J, p.tasks, {order[i] : i \in 1 .. Len(order)})
                   /\ InSequence(taken, order, p.tasks) = Queued(taken, J)
        BY <1>1, <1>2, <1>8, InSequenceForms
      <4>2. Execute(p, ids) = InSequence(taken, order, p.tasks)
        BY <1>5, <1>9, <3>2
      <4> QED BY <1>2, <4>1, <4>2
    <3> QED BY <3>1, <3>2
  <2>2. Execute(p, ids) = [tasks |-> kept, encoder |-> p.encoder, queue |-> p.queue \o J]
    BY <1>8, <2>1 DEF Queued
  <2> QED BY <1>3, <2>1, <2>2 DEF Executed, S, kept
<1>10. CASE ids = <<>>
  <2>1. \A s \in S : FALSE
    <3>1. Len(ids) = 0
      BY <1>10
    <3> QED BY <3>1 DEF S
  <2>2. Mixes(<<>>, p.tasks, S)
    <3>1. <<>> \in Tasks /\ Len(<<>>) = 0
      BY EmptySeq DEF Tasks
    <3> QED BY <2>1, <3>1 DEF Mixes
  <2>3. p.queue \o <<>> = p.queue
    BY ConcatEmptySeq DEF Pool, Tasks
  <2>4. kept = p.tasks
    BY <1>1, <2>1 DEF kept
  <2>5. p = [tasks |-> kept, encoder |-> p.encoder, queue |-> p.queue \o <<>>]
    BY <2>3, <2>4 DEF Pool
  <2>6. Executed(p, ids, <<>>)
    BY <1>3, <1>5, <1>10, <2>2, <2>5 DEF Executed, S, kept
  <2> QED BY <2>6
<1> QED BY <1>9, <1>10

(***************************************************************************)
(* The tasks registered.                                                   *)
(***************************************************************************)
OnQueue(p, t) == \E i \in 1 .. Len(p.queue) : p.queue[i] = t
InList(p, s, t) == \E a \in 1 .. Len(p.tasks[s]) : p.tasks[s][a] = t

\* No task is lost: each is on the queue or in the list of its stream.
Known(p, c) ==
  \A t \in 1 .. Len(c) : OnQueue(p, t) \/ InList(p, c[t].stream, t)

\* A task on the queue is behind those it needs.
QueueInOrder(p, c) ==
  \A i \in 1 .. Len(p.queue) :
    /\ p.queue[i] \in 1 .. Len(c)
    /\ \A t \in c[p.queue[i]].needs : \E j \in 1 .. i - 1 : p.queue[j] = t

\* A task that waits in a list is behind those it needs: they are on the queue
\* or before it in the same list, and never in the list of another stream.
ListsInOrder(p, c) ==
  \A s \in Regular : \A a \in 1 .. Len(p.tasks[s]) :
    /\ p.tasks[s][a] \in 1 .. Len(c)
    /\ \A t \in c[p.tasks[s][a]].needs :
         OnQueue(p, t) \/ \E b \in 1 .. a - 1 : p.tasks[s][b] = t

Scheduled(p, c) ==
  /\ p \in Pool /\ Flushed(p)
  /\ c \in Seq(Call)
  /\ Known(p, c)
  /\ QueueInOrder(p, c)
  /\ ListsInOrder(p, c)

SchedulerInv == Scheduled(pool, calls)

\* What is at a position of the queue once J is behind it.
LEMMA LongerQueue ==
  ASSUME NEW q \in Tasks, NEW J \in Tasks
  PROVE  /\ q \o J \in Tasks
         /\ Len(q) \in Nat /\ Len(J) \in Nat /\ Len(q \o J) = Len(q) + Len(J)
         /\ \A i \in 1 .. Len(q) : (q \o J)[i] = q[i]
         /\ \A i \in 1 .. Len(J) : (q \o J)[Len(q) + i] = J[i]
<1>1. /\ q \o J \in Tasks /\ Len(q) \in Nat /\ Len(J) \in Nat /\ Len(q \o J) = Len(q) + Len(J)
      /\ \A i \in 1 .. Len(q) + Len(J) : (q \o J)[i] = IF i <= Len(q) THEN q[i] ELSE J[i - Len(q)]
  BY ConcatProperties, LenProperties DEF Tasks
<1>2. PICK m \in Nat, n \in Nat : m = Len(q) /\ n = Len(J)
  BY <1>1
<1>3. ASSUME NEW i \in 1 .. m PROVE (q \o J)[i] = q[i]
  <2>1. i \in 1 .. m + n /\ i <= m
    BY <1>2
  <2> QED BY <1>1, <1>2, <2>1
<1>4. ASSUME NEW i \in 1 .. n PROVE (q \o J)[m + i] = J[i]
  <2>1. m + i \in 1 .. m + n /\ ~(m + i <= m) /\ (m + i) - m = i
    BY <1>2
  <2> QED BY <1>1, <1>2, <2>1
<1> QED BY <1>1, <1>2, <1>3, <1>4

\* Whatever streams are executed, every task stays behind those it needs.
LEMMA ExecuteKeeps ==
  ASSUME NEW p, NEW c, Scheduled(p, c), NEW ids \in Seq(Ids)
  PROVE  /\ Scheduled(Execute(p, ids), c)
         /\ \A i \in 1 .. Len(ids) : Execute(p, ids).tasks[Index(ids[i])] = <<>>
         /\ \A t : OnQueue(p, t) => OnQueue(Execute(p, ids), t)
<1> DEFINE S == {Index(ids[i]) : i \in 1 .. Len(ids)}
           kept == [s \in Regular |-> IF s \in S THEN <<>> ELSE p.tasks[s]]
           r == Execute(p, ids)
<1>1. /\ p \in Pool /\ Flushed(p) /\ c \in Seq(Call) /\ Known(p, c)
      /\ QueueInOrder(p, c) /\ ListsInOrder(p, c)
  BY DEF Scheduled
<1>2. PICK J : Executed(p, ids, J)
  BY <1>1, ExecuteForms
<1>3. /\ S \subseteq Regular /\ Mixes(J, p.tasks, S)
      /\ r = [tasks |-> kept, encoder |-> p.encoder, queue |-> p.queue \o J]
  BY <1>2 DEF Executed
<1>4. \A i \in 1 .. Len(ids) : Index(ids[i]) \in S
  OBVIOUS
<1> HIDE DEF S, r
<1>5. /\ r.tasks = kept /\ r.encoder = p.encoder /\ r.queue = p.queue \o J
      /\ J \in Tasks /\ p.queue \in Tasks /\ p.tasks \in [Regular -> Tasks]
  BY <1>1, <1>3 DEF Mixes, Pool
<1>6. PICK q \in Tasks : q = p.queue
  BY <1>5
<1>7. PICK m \in Nat, n \in Nat :
        /\ m = Len(q) /\ n = Len(J) /\ Len(r.queue) = m + n
        /\ \A i \in 1 .. m : r.queue[i] = q[i]
        /\ \A i \in 1 .. n : r.queue[m + i] = J[i]
  <2>1. /\ Len(q) \in Nat /\ Len(J) \in Nat /\ Len(q \o J) = Len(q) + Len(J)
        /\ \A i \in 1 .. Len(q) : (q \o J)[i] = q[i]
        /\ \A i \in 1 .. Len(J) : (q \o J)[Len(q) + i] = J[i]
    BY <1>5, LongerQueue
  <2>2. PICK Q : Q = r.queue /\ Q = q \o J
    BY <1>5, <1>6
  <2>3. PICK m \in Nat : m = Len(q)
    BY <2>1
  <2>4. PICK n \in Nat : n = Len(J)
    BY <2>1
  <2>5. /\ Len(Q) = m + n
        /\ \A i \in 1 .. m : Q[i] = q[i]
        /\ \A i \in 1 .. n : Q[m + i] = J[i]
    BY <2>1, <2>2, <2>3, <2>4
  <2>6. /\ m \in Nat /\ n \in Nat /\ m = Len(q) /\ n = Len(J) /\ Len(r.queue) = m + n
        /\ \A i \in 1 .. m : r.queue[i] = q[i]
        /\ \A i \in 1 .. n : r.queue[m + i] = J[i]
    BY <2>2, <2>3, <2>4, <2>5
  <2> QED BY <2>6, Zenon
<1>8. /\ kept \in [Regular -> Tasks]
      /\ \A s \in S : kept[s] = <<>>
      /\ \A s \in Regular : s \notin S => kept[s] = p.tasks[s]
  <2>1. <<>> \in Tasks
    BY EmptySeq DEF Tasks
  <2> QED BY <1>3, <1>5, <2>1
<1> HIDE DEF kept
<1>9. r \in Pool /\ Flushed(r)
  <2>1. p.queue \o J \in Tasks
    BY <1>5, LongerQueue
  <2> QED BY <1>1, <1>3, <1>8, <2>1 DEF Pool, Flushed
<1>10. ASSUME NEW t, OnQueue(p, t) PROVE OnQueue(r, t)
  <2>1. PICK i \in 1 .. m : q[i] = t
    BY <1>6, <1>7, <1>10 DEF OnQueue
  <2>2. i \in 1 .. m + n /\ r.queue[i] = t
    BY <1>7, <2>1
  <2> QED BY <1>7, <2>2 DEF OnQueue
<1>11. ASSUME NEW s \in S, NEW t, InList(p, s, t) PROVE OnQueue(r, t)
  <2>1. PICK a \in 1 .. Len(p.tasks[s]) : p.tasks[s][a] = t
    BY <1>11 DEF InList
  <2>2. PICK j \in 1 .. n : J[j] = t
    BY <1>3, <1>7, <2>1 DEF Mixes
  <2>3. m + j \in 1 .. m + n /\ r.queue[m + j] = t
    <3>1. m + j \in 1 .. m + n
      OBVIOUS
    <3> QED BY <1>7, <2>2, <3>1
  <2> QED BY <1>7, <2>3 DEF OnQueue
<1>12. Known(r, c)
  <2>1. ASSUME NEW t \in 1 .. Len(c) PROVE OnQueue(r, t) \/ InList(r, c[t].stream, t)
    <3>1. c[t].stream \in Regular
      <4>1. c[t] \in Call
        BY <1>1, ElementOfSeq
      <4> QED BY <4>1 DEF Call
    <3>2. OnQueue(p, t) \/ InList(p, c[t].stream, t)
      BY <1>1 DEF Known
    <3>3. CASE c[t].stream \in S
      BY <1>10, <1>11, <3>2, <3>3
    <3>4. CASE c[t].stream \notin S
      <4>1. r.tasks[c[t].stream] = p.tasks[c[t].stream]
        BY <1>5, <1>8, <3>1, <3>4
      <4> QED BY <1>10, <3>2, <4>1 DEF InList
    <3> QED BY <3>3, <3>4
  <2> QED BY <2>1 DEF Known
<1>13. QueueInOrder(r, c)
  <2>1. ASSUME NEW i \in 1 .. m + n
        PROVE  /\ r.queue[i] \in 1 .. Len(c)
               /\ \A t \in c[r.queue[i]].needs : \E j \in 1 .. i - 1 : r.queue[j] = t
    <3>1. CASE i <= m
      <4>1. i \in 1 .. m /\ r.queue[i] = q[i]
        BY <1>7, <3>1
      <4>2. /\ q[i] \in 1 .. Len(c)
            /\ \A t \in c[q[i]].needs : \E j \in 1 .. i - 1 : q[j] = t
        BY <1>1, <1>6, <1>7, <4>1 DEF QueueInOrder
      <4>3. \A j \in 1 .. i - 1 : r.queue[j] = q[j]
        BY <1>7, <4>1
      <4> QED BY <4>1, <4>2, <4>3
    <3>2. CASE ~(i <= m)
      <4>1. PICK j \in 1 .. n : i = m + j
        <5>1. i - m \in 1 .. n /\ i = m + (i - m)
          BY <3>2
        <5> QED BY <5>1
      <4>2. PICK s \in S : \E a \in 1 .. Len(p.tasks[s]) :
              /\ J[j] = p.tasks[s][a]
              /\ \A b \in 1 .. a - 1 : \E k \in 1 .. j - 1 : J[k] = p.tasks[s][b]
        BY <1>3, <1>7 DEF Mixes
      <4>3. PICK a \in 1 .. Len(p.tasks[s]) :
              /\ J[j] = p.tasks[s][a]
              /\ \A b \in 1 .. a - 1 : \E k \in 1 .. j - 1 : J[k] = p.tasks[s][b]
        BY <4>2
      <4>4. /\ J[j] \in 1 .. Len(c)
            /\ \A t \in c[J[j]].needs :
                 OnQueue(p, t) \/ \E b \in 1 .. a - 1 : p.tasks[s][b] = t
        <5>1. s \in Regular
          BY <1>3
        <5>2. /\ p.tasks[s][a] \in 1 .. Len(c)
              /\ \A t \in c[p.tasks[s][a]].needs :
                   OnQueue(p, t) \/ \E b \in 1 .. a - 1 : p.tasks[s][b] = t
          BY <1>1, <5>1 DEF ListsInOrder
        <5> QED BY <4>3, <5>2
      <4>5. r.queue[i] = J[j]
        BY <1>7, <4>1
      <4>6. ASSUME NEW t \in c[J[j]].needs PROVE \E k \in 1 .. i - 1 : r.queue[k] = t
        <5>1. CASE OnQueue(p, t)
          <6>1. PICK k \in 1 .. m : q[k] = t
            BY <1>6, <1>7, <5>1 DEF OnQueue
          <6>2. k \in 1 .. i - 1 /\ r.queue[k] = t
            BY <1>7, <4>1, <6>1
          <6> QED BY <6>2
        <5>2. CASE \E b \in 1 .. a - 1 : p.tasks[s][b] = t
          <6>1. PICK k \in 1 .. j - 1 : J[k] = t
            BY <4>3, <5>2
          <6>2. k \in 1 .. n /\ m + k \in 1 .. i - 1
            BY <4>1
          <6>3. r.queue[m + k] = t
            BY <1>7, <6>1, <6>2
          <6> QED BY <6>2, <6>3
        <5> QED BY <4>4, <5>1, <5>2
      <4> QED BY <4>4, <4>5, <4>6
    <3> QED BY <3>1, <3>2
  <2> QED BY <1>7, <2>1 DEF QueueInOrder
<1>14. ListsInOrder(r, c)
  <2>1. ASSUME NEW s \in Regular, NEW a \in 1 .. Len(r.tasks[s])
        PROVE  /\ r.tasks[s][a] \in 1 .. Len(c)
               /\ \A t \in c[r.tasks[s][a]].needs :
                    OnQueue(r, t) \/ \E b \in 1 .. a - 1 : r.tasks[s][b] = t
    <3>1. s \notin S
      <4>1. SUFFICES ASSUME s \in S PROVE FALSE
        OBVIOUS
      <4>2. r.tasks[s] = <<>> /\ Len(<<>>) = 0
        BY <1>5, <1>8, <4>1
      <4> QED BY <4>2
    <3>2. r.tasks[s] = p.tasks[s]
      BY <1>5, <1>8, <3>1
    <3> QED BY <1>1, <1>10, <3>2 DEF ListsInOrder
  <2> QED BY <2>1 DEF ListsInOrder
<1>15. Scheduled(r, c)
  BY <1>1, <1>9, <1>12, <1>13, <1>14 DEF Scheduled
<1>16. \A i \in 1 .. Len(ids) : r.tasks[Index(ids[i])] = <<>>
  BY <1>4, <1>5, <1>8
<1> QED BY <1>10, <1>15, <1>16 DEF r

\* The streams to be flushed are those of the arguments but the task's own.
LEMMA ToFlushForms ==
  ASSUME NEW id \in Ids, NEW args \in Seq(Ids)
  PROVE  /\ ToFlush(id, args) \in Seq(Ids)
         /\ \A i \in 1 .. Len(args) : Index(args[i]) # Index(id) =>
              \E k \in 1 .. Len(ToFlush(id, args)) : ToFlush(id, args)[k] = args[i]
<1> DEFINE I == {i \in DOMAIN args : Index(args[i]) # Index(id)}
<1>1. DOMAIN args = 1 .. Len(args)
  BY LenProperties
<1>2. I \in SUBSET (1 .. Len(args)) /\ \A i \in 1 .. Len(args) : Index(args[i]) # Index(id) => i \in I
  BY <1>1
<1>3. ToFlush(id, args) = Kept(args, I)
  BY DEF ToFlush
<1> HIDE DEF I
<1>4. /\ Kept(args, I) \in Seq(Ids)
      /\ Len(Kept(args, I)) = Cardinality(I)
      /\ \A k \in 1 .. Cardinality(I) : Kept(args, I)[k] = args[InOrder(I)[k]]
      /\ \A i \in I : \E k \in 1 .. Cardinality(I) : InOrder(I)[k] = i
  <2>1. I \in SUBSET (1 .. Len(args))
    BY <1>2
  <2>2. Kept(args, I) \in Seq(Ids) /\ Len(Kept(args, I)) = Cardinality(I)
    BY <2>1, KeptForms
  <2>3. \A k \in 1 .. Cardinality(I) : Kept(args, I)[k] = args[InOrder(I)[k]]
    BY <2>1, KeptForms
  <2>4. \A i \in I : \E k \in 1 .. Cardinality(I) : InOrder(I)[k] = i
    BY <2>1, KeptForms
  <2> QED BY <2>2, <2>3, <2>4
<1>5. ASSUME NEW i \in 1 .. Len(args), Index(args[i]) # Index(id)
      PROVE  \E k \in 1 .. Len(Kept(args, I)) : Kept(args, I)[k] = args[i]
  <2>1. PICK k \in 1 .. Cardinality(I) : InOrder(I)[k] = i
    BY <1>2, <1>4, <1>5
  <2> QED BY <1>4, <2>1
<1> QED BY <1>3, <1>4, <1>5

\* A new task, behind all it needs, may be put into the list of its stream.
LEMMA AddedKeeps ==
  ASSUME NEW p, NEW c, Scheduled(p, c), NEW s \in Regular, NEW needs \in SUBSET (1 .. Len(c)),
         \A t \in needs : OnQueue(p, t) \/ InList(p, s, t)
  PROVE  Scheduled([p EXCEPT !.tasks[s] = Append(@, Len(c) + 1)],
                   Append(c, [stream |-> s, needs |-> needs]))
<1> DEFINE r == [p EXCEPT !.tasks[s] = Append(@, Len(c) + 1)]
           d == Append(c, [stream |-> s, needs |-> needs])
<1>1. /\ p \in Pool /\ Flushed(p) /\ c \in Seq(Call) /\ Known(p, c)
      /\ QueueInOrder(p, c) /\ ListsInOrder(p, c)
  BY DEF Scheduled
<1>2. PICK n \in Nat : n = Len(c)
  BY <1>1, LenProperties
<1>3. /\ d \in Seq(Call) /\ Len(d) = n + 1
      /\ \A t \in 1 .. n : d[t] = c[t]
      /\ d[n + 1] = [stream |-> s, needs |-> needs]
  <2>1. [stream |-> s, needs |-> needs] \in Call
    <3>1. 1 .. Len(c) \subseteq Nat
      OBVIOUS
    <3> QED BY <3>1 DEF Call
  <2>2. \A t \in 1 .. n : t \in 1 .. n + 1 /\ t # n + 1
    OBVIOUS
  <2> QED BY <1>1, <1>2, <2>1, <2>2, AppendProperties
<1> HIDE DEF d
<1>4. PICK l \in Tasks, m \in Nat : l = p.tasks[s] /\ m = Len(l)
  <2>1. p.tasks[s] \in Seq(Nat)
    BY <1>1 DEF Pool, Tasks
  <2> QED BY <2>1, LenProperties DEF Tasks
<1>5. PICK L \in Tasks : /\ L = Append(l, n + 1) /\ Len(L) = m + 1
                         /\ \A a \in 1 .. m : L[a] = l[a]
                         /\ L[m + 1] = n + 1
  <2>1. l \in Seq(Nat) /\ n + 1 \in Nat
    BY DEF Tasks
  <2>2. Append(l, n + 1) \in Seq(Nat) /\ Len(Append(l, n + 1)) = m + 1
    BY <1>4, <2>1, AppendProperties
  <2>3. Append(l, n + 1)[m + 1] = n + 1
    BY <1>4, <2>1, AppendProperties
  <2>4. ASSUME NEW a \in 1 .. m PROVE Append(l, n + 1)[a] = l[a]
    BY <1>4, <2>1, AppendProperties
  <2> QED BY <2>2, <2>3, <2>4 DEF Tasks
<1>6. r = [tasks |-> [p.tasks EXCEPT ![s] = L], encoder |-> p.encoder, queue |-> p.queue]
  <2>1. Append(p.tasks[s], Len(c) + 1) = L
    BY <1>2, <1>4, <1>5
  <2> HIDE DEF r
  <2>2. r = [p EXCEPT !.tasks[s] = L]
    BY <2>1 DEF r
  <2> QED BY <1>1, <2>2 DEF Pool
<1> HIDE DEF r
<1>7. /\ r \in Pool /\ Flushed(r) /\ r.queue = p.queue
      /\ r.tasks[s] = L
      /\ \A u \in Regular : u # s => r.tasks[u] = p.tasks[u]
  BY <1>1, <1>5, <1>6 DEF Pool, Flushed
<1>8. \A t : OnQueue(p, t) => OnQueue(r, t)
  BY <1>7 DEF OnQueue
<1>9. ASSUME NEW u \in Regular, NEW t, InList(p, u, t) PROVE InList(r, u, t)
  <2>1. CASE u = s
    <3>1. PICK a \in 1 .. m : l[a] = t
      BY <1>4, <1>9, <2>1 DEF InList
    <3>2. a \in 1 .. m + 1 /\ L[a] = t
      BY <1>5, <3>1
    <3> QED BY <1>5, <1>7, <2>1, <3>2 DEF InList
  <2>2. CASE u # s
    BY <1>7, <1>9, <2>2 DEF InList
  <2> QED BY <2>1, <2>2
<1>10. Known(r, d)
  <2>1. ASSUME NEW t \in 1 .. n + 1 PROVE OnQueue(r, t) \/ InList(r, d[t].stream, t)
    <3>1. CASE t \in 1 .. n
      <4>1. OnQueue(p, t) \/ InList(p, c[t].stream, t)
        BY <1>1, <1>2, <3>1 DEF Known
      <4>2. c[t].stream \in Regular
        <5>1. c[t] \in Call
          BY <1>1, <1>2, <3>1, ElementOfSeq
        <5> QED BY <5>1 DEF Call
      <4>3. d[t] = c[t]
        BY <1>3, <3>1
      <4> QED BY <1>8, <1>9, <4>1, <4>2, <4>3
    <3>2. CASE t = n + 1
      <4>1. d[t].stream = s
        BY <1>3, <3>2
      <4>2. m + 1 \in 1 .. m + 1
        OBVIOUS
      <4> QED BY <1>5, <1>7, <3>2, <4>1, <4>2 DEF InList
    <3> QED BY <3>1, <3>2
  <2> QED BY <1>3, <2>1 DEF Known
<1>11. QueueInOrder(r, d)
  <2>1. ASSUME NEW i \in 1 .. Len(p.queue)
        PROVE  /\ p.queue[i] \in 1 .. n + 1
               /\ \A t \in d[p.queue[i]].needs : \E j \in 1 .. i - 1 : p.queue[j] = t
    <3>1. /\ p.queue[i] \in 1 .. n
          /\ \A t \in c[p.queue[i]].needs : \E j \in 1 .. i - 1 : p.queue[j] = t
      BY <1>1, <1>2 DEF QueueInOrder
    <3>2. d[p.queue[i]] = c[p.queue[i]]
      BY <1>3, <3>1
    <3> QED BY <3>1, <3>2
  <2> QED BY <1>3, <1>7, <2>1 DEF QueueInOrder
<1>12. ASSUME NEW u \in Regular, NEW a \in 1 .. Len(p.tasks[u])
       PROVE  /\ p.tasks[u][a] \in 1 .. n
              /\ d[p.tasks[u][a]] = c[p.tasks[u][a]]
              /\ \A t \in c[p.tasks[u][a]].needs :
                   OnQueue(r, t) \/ \E b \in 1 .. a - 1 : p.tasks[u][b] = t
  <2>1. /\ p.tasks[u][a] \in 1 .. n
        /\ \A t \in c[p.tasks[u][a]].needs :
             OnQueue(p, t) \/ \E b \in 1 .. a - 1 : p.tasks[u][b] = t
    BY <1>1, <1>2 DEF ListsInOrder
  <2>2. d[p.tasks[u][a]] = c[p.tasks[u][a]]
    BY <1>3, <2>1
  <2> QED BY <1>8, <2>1, <2>2
<1>13. ListsInOrder(r, d)
  <2>1. ASSUME NEW u \in Regular, NEW a \in 1 .. Len(r.tasks[u])
        PROVE  /\ r.tasks[u][a] \in 1 .. n + 1
               /\ \A t \in d[r.tasks[u][a]].needs :
                    OnQueue(r, t) \/ \E b \in 1 .. a - 1 : r.tasks[u][b] = t
    <3>1. CASE u # s
      <4>1. r.tasks[u] = p.tasks[u]
        BY <1>7, <3>1
      <4>2. \A k \in 1 .. n : k \in 1 .. n + 1
        OBVIOUS
      <4> QED BY <1>12, <4>1, <4>2, SMTT(30)
    <3>2. CASE u = s /\ a \in 1 .. m
      <4>1. r.tasks[u][a] = l[a] /\ \A b \in 1 .. a - 1 : r.tasks[u][b] = l[b]
        <5>1. r.tasks[u] = L
          BY <1>7, <3>2
        <5>2. \A b \in 1 .. a - 1 : b \in 1 .. m
          BY <3>2
        <5> QED BY <1>5, <3>2, <5>1, <5>2
      <4>2. /\ l[a] \in 1 .. n /\ d[l[a]] = c[l[a]]
            /\ \A t \in c[l[a]].needs : OnQueue(r, t) \/ \E b \in 1 .. a - 1 : l[b] = t
        BY <1>4, <1>12, <3>2
      <4>3. r.tasks[u][a] \in 1 .. n + 1
        BY <4>1, <4>2
      <4>4. d[r.tasks[u][a]].needs = c[l[a]].needs
        BY <4>1, <4>2
      <4>5. \A t \in c[l[a]].needs : OnQueue(r, t) \/ \E b \in 1 .. a - 1 : r.tasks[u][b] = t
        BY <4>1, <4>2, Zenon
      <4> QED BY <4>3, <4>4, <4>5
    <3>3. CASE u = s /\ a = m + 1
      <4>1. r.tasks[u][a] = n + 1 /\ \A b \in 1 .. m : r.tasks[u][b] = l[b]
        BY <1>5, <1>7, <3>3
      <4>2. d[n + 1].needs = needs
        BY <1>3
      <4>3. ASSUME NEW t \in needs
            PROVE  OnQueue(r, t) \/ \E b \in 1 .. a - 1 : r.tasks[u][b] = t
        <5>1. CASE OnQueue(p, t)
          BY <1>8, <5>1
        <5>2. CASE InList(p, s, t)
          <6>1. PICK b \in 1 .. m : l[b] = t
            BY <1>4, <5>2 DEF InList
          <6>2. b \in 1 .. a - 1
            BY <3>3
          <6> QED BY <4>1, <6>1, <6>2
        <5> QED BY <5>1, <5>2
      <4>4. d[r.tasks[u][a]].needs = needs /\ n + 1 \in 1 .. n + 1
        BY <4>1, <4>2
      <4> QED BY <4>1, <4>3, <4>4
    <3>4. a \in 1 .. m \/ a = m + 1 \/ u # s
      BY <1>5, <1>7
    <3> QED BY <3>1, <3>2, <3>3, <3>4
  <2> QED BY <1>3, <2>1 DEF ListsInOrder
<1>14. Scheduled(r, d)
  BY <1>3, <1>7, <1>10, <1>11, <1>13 DEF Scheduled
<1> QED BY <1>14 DEF r, d

(***************************************************************************)
(* The invariant.                                                          *)
(***************************************************************************)
LEMMA ArgumentsType ==
  ASSUME NEW args \in Arguments
  PROVE  args \in Seq(Ids)
<1>1. PICK n \in 0 .. MaxArgs : args \in [1 .. n -> Ids]
  BY DEF Arguments
<1>2. n \in Nat
  BY StreamPoolAssumption, SchedulerAssumption
<1> QED BY <1>1, <1>2, SeqDef

LEMMA InitScheduled == SchedulerInit => SchedulerInv
<1> SUFFICES ASSUME SchedulerInit PROVE SchedulerInv
  OBVIOUS
<1> DEFINE p == [tasks   |-> [s \in Regular |-> <<>>],
                 encoder |-> [s \in Regular |-> <<>>],
                 queue   |-> <<>>]
<1>1. pool = p /\ calls = <<>>
  BY DEF SchedulerInit
<1>2. <<>> \in Tasks /\ <<>> \in Seq(Call) /\ Len(<<>>) = 0
  BY EmptySeq DEF Tasks
<1>3. /\ p \in Pool /\ Flushed(p)
      /\ p.queue = <<>> /\ \A s \in Regular : p.tasks[s] = <<>>
  BY <1>2 DEF Pool, Flushed
<1> HIDE DEF p
<1>4. Known(p, <<>>)
  BY <1>2 DEF Known
<1>5. QueueInOrder(p, <<>>)
  BY <1>2, <1>3 DEF QueueInOrder
<1>6. ListsInOrder(p, <<>>)
  BY <1>2, <1>3 DEF ListsInOrder
<1> QED BY <1>1, <1>2, <1>3, <1>4, <1>5, <1>6 DEF SchedulerInv, Scheduled

\* The streams of a task's arguments are executed before it is put into its
\* list, so what it needs is on the queue or in that list.
LEMMA RegisterScheduled ==
  ASSUME SchedulerInv, NEW id \in Ids, NEW args \in Arguments, Register(id, args)
  PROVE  SchedulerInv'
<1> DEFINE n == Len(calls)
           flush == ToFlush(id, args)
           aligned == Execute(pool, flush)
           s == Index(id)
           added == [aligned EXCEPT !.tasks[s] = Append(@, n + 1)]
           c == Append(calls, [stream |-> s, needs |-> Needs(id, args)])
<1>1. args \in Seq(Ids) /\ s \in Regular
  BY ArgumentsType, IndexType
<1>2. calls \in Seq(Call)
  BY DEF SchedulerInv, Scheduled
<1>3. /\ pool' = (IF Len(added.tasks[s]) >= MaxTasks THEN Execute(added, <<id>>) ELSE added)
      /\ calls' = c
  BY DEF Register
<1>4. /\ flush \in Seq(Ids)
      /\ \A i \in 1 .. Len(args) : Index(args[i]) # s =>
           \E k \in 1 .. Len(flush) : flush[k] = args[i]
  BY <1>1, ToFlushForms
<1>5. /\ Scheduled(aligned, calls)
      /\ \A k \in 1 .. Len(flush) : aligned.tasks[Index(flush[k])] = <<>>
  <2> HIDE DEF flush
  <2> QED BY <1>4, ExecuteKeeps DEF SchedulerInv
<1> HIDE DEF flush, aligned
<1>6. Needs(id, args) \in SUBSET (1 .. Len(calls))
  <2>1. DOMAIN calls = 1 .. Len(calls)
    BY <1>2, LenProperties
  <2> QED BY <2>1 DEF Needs
<1>7. ASSUME NEW t \in Needs(id, args)
      PROVE  OnQueue(aligned, t) \/ InList(aligned, s, t)
  <2>1. t \in 1 .. Len(calls)
    BY <1>6
  <2>2. OnQueue(aligned, t) \/ InList(aligned, calls[t].stream, t)
    BY <1>5, <2>1 DEF Scheduled, Known
  <2>3. calls[t].stream = s \/ \E i \in 1 .. Len(args) : calls[t].stream = Index(args[i])
    <3>1. calls[t].stream \in {Index(i) : i \in ToSet(args) \union {id}}
      BY DEF Needs
    <3>2. ToSet(args) = {args[i] : i \in 1 .. Len(args)}
      BY <1>1, LenProperties DEF ToSet
    <3> QED BY <3>1, <3>2
  <2>4. CASE calls[t].stream # s
    <3>1. PICK i \in 1 .. Len(args) : calls[t].stream = Index(args[i])
      BY <2>3, <2>4
    <3>2. PICK k \in 1 .. Len(flush) : flush[k] = args[i]
      BY <1>4, <2>4, <3>1
    <3>3. aligned.tasks[calls[t].stream] = <<>> /\ Len(<<>>) = 0
      BY <1>5, <3>1, <3>2
    <3>4. ~InList(aligned, calls[t].stream, t)
      BY <3>3 DEF InList
    <3> QED BY <2>2, <3>4
  <2> QED BY <2>2, <2>4
<1>8. Scheduled(added, c)
  BY <1>1, <1>5, <1>6, <1>7, AddedKeeps
<1> HIDE DEF added, c
<1>9. <<id>> \in Seq(Ids)
  OBVIOUS
<1>10. Scheduled(Execute(added, <<id>>), c)
  BY <1>8, <1>9, ExecuteKeeps
<1>11. Scheduled(pool', c)
  BY <1>3, <1>8, <1>10
<1>12. Scheduled(pool', calls')
  BY <1>3, <1>11
<1> QED BY <1>12 DEF SchedulerInv

LEMMA ExecuteStreamsScheduled ==
  ASSUME SchedulerInv, NEW ids \in Arguments, ExecuteStreams(ids)
  PROVE  SchedulerInv'
<1>1. ids \in Seq(Ids)
  BY ArgumentsType
<1>2. pool' = Execute(pool, ids) /\ calls' = calls
  BY DEF ExecuteStreams
<1>3. Scheduled(Execute(pool, ids), calls)
  BY <1>1, ExecuteKeeps DEF SchedulerInv
<1>4. Scheduled(pool', calls')
  BY <1>2, <1>3
<1> QED BY <1>4 DEF SchedulerInv

LEMMA NextScheduled == SchedulerInv /\ [SchedulerNext]_schedulerVars => SchedulerInv'
<1> SUFFICES ASSUME SchedulerInv, [SchedulerNext]_schedulerVars PROVE SchedulerInv'
  OBVIOUS
<1>1. ASSUME NEW id \in Ids, NEW args \in Arguments, Register(id, args) PROVE SchedulerInv'
  BY <1>1, RegisterScheduled
<1>2. ASSUME NEW ids \in Arguments, ExecuteStreams(ids) PROVE SchedulerInv'
  BY <1>2, ExecuteStreamsScheduled
<1>3. CASE UNCHANGED schedulerVars
  <2>1. pool' = pool /\ calls' = calls
    BY <1>3 DEF schedulerVars
  <2>2. Scheduled(pool', calls')
    BY <2>1 DEF SchedulerInv
  <2> QED BY <2>2 DEF SchedulerInv
<1> QED BY <1>1, <1>2, <1>3 DEF SchedulerNext

\* However the streams are batched and mixed, and whatever strategy the server
\* has, the compute queue gets every task behind all the tasks it needs
\* (execute_streams() and align_streams()).
THEOREM QueueOrdered == SchedulerSpec => []QueueKeepsOrder
<1>1. SchedulerInv => QueueKeepsOrder
  <2> SUFFICES ASSUME SchedulerInv, NEW i \in DOMAIN pool.queue
               PROVE  calls[pool.queue[i]].needs \subseteq {pool.queue[j] : j \in 1 .. i - 1}
    BY DEF QueueKeepsOrder
  <2>1. pool.queue \in Seq(Nat)
    BY DEF SchedulerInv, Scheduled, Pool, Tasks
  <2>2. i \in 1 .. Len(pool.queue)
    BY <2>1, LenProperties
  <2>3. \A t \in calls[pool.queue[i]].needs : \E j \in 1 .. i - 1 : pool.queue[j] = t
    BY <2>2 DEF SchedulerInv, Scheduled, QueueInOrder
  <2> QED BY <2>3
<1> QED BY InitScheduled, NextScheduled, <1>1, PTL DEF SchedulerSpec
=============================================================================
