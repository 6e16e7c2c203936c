---------------------- MODULE FusionMultiStreamProofs -----------------------
(***************************************************************************)
(* Proofs about FusionMultiStream for any streams, tensors and number of   *)
(* calls: what a client holds stays obtainable, whatever prefix of a queue *)
(* is executed; and with the drop-triggered drain no drop waits in a queue *)
(* and no queued operation is lost.                                        *)
(***************************************************************************)
EXTENDS FusionMultiStream, CommonProofs

-----------------------------------------------------------------------------
(* Operations, queues and calls.  The invariants speak of streams st and of  *)
(* calls td, since a call may queue an operation before it executes some.    *)

Makes(op, t) == [id |-> t, status |-> "NotInit"] \in op.nodes
Ends(op, t) == [id |-> t, status |-> "ReadWrite"] \in op.nodes

MakesIn(st, s, t) == \E i \in DOMAIN st[s].queue : Makes(st[s].queue[i], t)
EndsIn(st, s, t) == \E i \in DOMAIN st[s].queue : Ends(st[s].queue[i], t)
ReadsIn(st, s, t) == \E i \in DOMAIN st[s].queue : t \in Inputs(st[s].queue[i])

OpCall(f) == f.call \in {"register", "admit", "process"}

\* A drop that drop_shared_tensors() registers again.
Again(f) == f.op.drop /\ f.tags = NoTags

\* An operation of a client that was not admitted yet.
Asked(f) == f.call \in {"register", "admit"} /\ ~Again(f)

\* A client can still use t, or an operation on it is being registered.
Live(td, t) ==
  \/ refs[t] > 0
  \/ \E i \in DOMAIN td : Asked(td[i]) /\ t \in Ids(td[i].op)

\* The tensors that a call releases.
Ending(f) ==
  CASE f.call = "drop" -> f.tensors
    [] f.call = "process" -> {t \in Tensors : Ends(f.op, t)}
    [] f.call \in {"register", "admit"} -> IF Again(f) THEN Ids(f.op) ELSE {}
    [] f.call = "read" -> IF f.node.status = "ReadWrite" THEN {f.node.id} ELSE {}
    [] OTHER -> {}

\* An operation that makes t is being registered.
ToMake(td, t) == \E i \in DOMAIN td : OpCall(td[i]) /\ Makes(td[i].op, t)

-----------------------------------------------------------------------------
(* The invariant.                                                            *)

StreamType == [open: BOOLEAN, queue: Seq(Op), variables: Variables, cursor: Nat]

Frame ==
  [call: {"register", "admit"}, stream: Streams, op: Op, tags: Variables]
  \cup [call: {"process"}, stream: Streams, op: Op, tags: Variables, sync: BOOLEAN]
  \cup [call: {"resolve"}, streams: SUBSET Streams, op: Op]
  \cup [call: {"flush"}, stream: Streams, sync: BOOLEAN]
  \cup [call: {"drain"}, stream: Streams]
  \cup [call: {"drop"}, stream: Streams, tensors: SUBSET Tensors]
  \cup [call: {"read"}, stream: Streams, node: Node]

TypesOK(st, td) ==
  /\ origin \in Variables
  /\ refs \in [Tensors -> Nat]
  /\ st \in [Streams -> StreamType]
  /\ \A s \in Streams : ~st[s].open => st[s].queue = <<>>
  /\ DOMAIN shared \subseteq Tensors
  /\ \A t \in DOMAIN shared :
       /\ DOMAIN shared[t] \subseteq Streams
       /\ \A s \in DOMAIN shared[t] : shared[t][s] \in [current: Nat, origin: Nat]
  /\ manual \subseteq Tensors
  /\ td \in Seq(Frame)

\* An operation of a client is the last call to make, and no other one is
\* processed or registered but first.
Shape(td) ==
  \A i \in DOMAIN td :
    /\ td[i].call \in {"register", "process", "drain"} => i = 1
    /\ td[i].call \in {"register", "admit", "process"} => Again(td[i]) \/ i = Len(td)
    /\ td[i].call = "read" => i = Len(td)

\* What an operation to come says of its tensors.
Formed(f) ==
  /\ f.op.drop => \E t \in Tensors : f.op = DropOf(t)
  /\ \A t \in Ids(f.op) :
       /\ origin[t] # NoStream
       /\ IF Makes(f.op, t)
          THEN /\ f.tags[t] = NoStream
               /\ origin[t] = f.stream
          ELSE Again(f) \/ f.tags[t] = origin[t]
       /\ Ends(f.op, t) => refs[t] = 0

AllFormed(td) == \A i \in DOMAIN td : OpCall(td[i]) => Formed(td[i])

\* What a call releases can not be used any more.
Released(td) ==
  \A i \in DOMAIN td : \A t \in Ending(td[i]) : origin[t] # NoStream /\ ~Live(td, t)

\* Nothing is about a tensor that does not exist yet.
Fresh(st) ==
  \A t \in Tensors : origin[t] = NoStream =>
    /\ refs[t] = 0
    /\ \A s \in Streams : ~EndsIn(st, s, t)
    /\ t \notin manual
    /\ t \notin DOMAIN shared

\* A tensor is released only when nobody can use it any more.
Last(st, td) ==
  \A t \in Tensors : Live(td, t) =>
    /\ t \notin manual
    /\ \A s \in Streams : ~EndsIn(st, s, t)

\* A tensor that can be used has a handle or will have one.
Made(st, td) ==
  \A t \in Tensors : Live(td, t) =>
    \/ t \in handles
    \/ \E s \in Streams : MakesIn(st, s, t)
    \/ ToMake(td, t)

\* An operation that is still to make a tensor keeps its stream alive: the
\* tensor is one of its variables, and when the tensor is shared, the stream is
\* not done with it before that operation was executed.
Tracked(st, td) ==
  \A s \in Streams : \A i \in DOMAIN st[s].queue : \A t \in Tensors :
    Makes(st[s].queue[i], t) =>
      /\ origin[t] = s
      /\ Live(td, t) =>
           /\ st[s].variables[t] # NoStream
           /\ t \in DOMAIN shared =>
                /\ s \in DOMAIN shared[t]
                /\ shared[t][s].current >= st[s].cursor + i
                /\ shared[t][s].origin >= st[s].cursor + i

\* What an operation will make is not shared yet.
New(td) == \A t \in Tensors : ToMake(td, t) => t \notin DOMAIN shared

LiveInv(st, td) ==
  /\ TypesOK(st, td)
  /\ Shape(td)
  /\ AllFormed(td)
  /\ Released(td)
  /\ Fresh(st)
  /\ Last(st, td)
  /\ Made(st, td)
  /\ Tracked(st, td)
  /\ New(td)

LiveState == ~panicked => LiveInv(streams, todo)
-----------------------------------------------------------------------------
(* The stack of calls.                                                       *)

LEMMA OpForms ==
  ASSUME NEW op \in Op
  PROVE  /\ op.nodes \subseteq Node
         /\ op.drop \in BOOLEAN
         /\ Ids(op) \subseteq Tensors
         /\ \A n \in op.nodes : n.id \in Ids(op) /\ n = [id |-> n.id, status |-> n.status]
         /\ \A t \in Ids(op) : \E n \in op.nodes : n.id = t
         /\ \A t : Makes(op, t) \/ Ends(op, t) => t \in Ids(op)
         /\ Inputs(op) \subseteq Ids(op)
<1>1. /\ op.nodes \subseteq Node /\ op.drop \in BOOLEAN
  BY DEF Op
<1>2. \A n \in Node : n.id \in Tensors /\ n = [id |-> n.id, status |-> n.status]
  BY DEF Node
<1>3. Ids(op) \subseteq Tensors
  BY <1>1, <1>2 DEF Ids
<1>4. \A n \in op.nodes : n.id \in Ids(op) /\ n = [id |-> n.id, status |-> n.status]
  BY <1>1, <1>2 DEF Ids
<1>5. \A t \in Ids(op) : \E n \in op.nodes : n.id = t
  BY DEF Ids
<1>6. \A t : Makes(op, t) \/ Ends(op, t) => t \in Ids(op)
  <2>1. ASSUME NEW t, Makes(op, t) \/ Ends(op, t) PROVE t \in Ids(op)
    <3>1. PICK n \in op.nodes : n.id = t
      BY <2>1 DEF Makes, Ends
    <3> QED BY <1>4, <3>1
  <2> QED BY <2>1
<1>7. Inputs(op) \subseteq Ids(op)
  BY DEF Inputs, Ids
<1> QED BY <1>1, <1>3, <1>4, <1>5, <1>6, <1>7

LEMMA FrameForms ==
  ASSUME NEW f \in Frame
  PROVE  /\ f.call \in {"register", "admit", "process", "resolve", "flush", "drain", "drop", "read"}
         /\ OpCall(f) => f.stream \in Streams /\ f.op \in Op /\ f.tags \in Variables
         /\ f.call = "process" => f.sync \in BOOLEAN
         /\ f.call = "resolve" => f.streams \subseteq Streams /\ f.op \in Op
         /\ f.call = "flush" => f.stream \in Streams /\ f.sync \in BOOLEAN
         /\ f.call = "drain" => f.stream \in Streams
         /\ f.call = "drop" => f.stream \in Streams /\ f.tensors \subseteq Tensors
         /\ f.call = "read" => f.stream \in Streams /\ f.node \in Node
<1>1. CASE f \in [call: {"register", "admit"}, stream: Streams, op: Op, tags: Variables]
  BY <1>1 DEF OpCall
<1>2. CASE f \in [call: {"process"}, stream: Streams, op: Op, tags: Variables, sync: BOOLEAN]
  BY <1>2 DEF OpCall
<1>3. CASE f \in [call: {"resolve"}, streams: SUBSET Streams, op: Op]
  BY <1>3 DEF OpCall
<1>4. CASE f \in [call: {"flush"}, stream: Streams, sync: BOOLEAN]
  BY <1>4 DEF OpCall
<1>5. CASE f \in [call: {"drain"}, stream: Streams]
  BY <1>5 DEF OpCall
<1>6. CASE f \in [call: {"drop"}, stream: Streams, tensors: SUBSET Tensors]
  BY <1>6 DEF OpCall
<1>7. CASE f \in [call: {"read"}, stream: Streams, node: Node]
  BY <1>7 DEF OpCall
<1> QED BY <1>1, <1>2, <1>3, <1>4, <1>5, <1>6, <1>7 DEF Frame

LEMMA FramesMade ==
  ASSUME NEW s \in Streams, NEW op \in Op, NEW tags \in Variables, NEW sync \in BOOLEAN
  PROVE  /\ Register(s, op, tags) \in Frame
         /\ Admit(s, op, tags) \in Frame
         /\ Process(s, op, tags, sync) \in Frame
         /\ \A ss \in SUBSET Streams : Resolve(ss, op) \in Frame
<1>1. Register(s, op, tags) \in Frame
  BY DEF Register, Frame
<1>2. Admit(s, op, tags) \in Frame
  BY DEF Admit, Frame
<1>3. Process(s, op, tags, sync) \in Frame
  BY DEF Process, Frame
<1>4. \A ss \in SUBSET Streams : Resolve(ss, op) \in Frame
  BY DEF Resolve, Frame
<1> QED BY <1>1, <1>2, <1>3, <1>4

LEMMA PlainFramesMade ==
  ASSUME NEW s \in Streams
  PROVE  /\ Drain(s) \in Frame
         /\ \A sync \in BOOLEAN : Flush(s, sync) \in Frame
         /\ \A ts \in SUBSET Tensors : DropShared(s, ts) \in Frame
         /\ \A n \in Node : Read(s, n) \in Frame
<1>1. Drain(s) \in Frame
  BY DEF Drain, Frame
<1>2. \A sync \in BOOLEAN : Flush(s, sync) \in Frame
  BY DEF Flush, Frame
<1>3. \A ts \in SUBSET Tensors : DropShared(s, ts) \in Frame
  BY DEF DropShared, Frame
<1>4. \A n \in Node : Read(s, n) \in Frame
  BY DEF Read, Frame
<1> QED BY <1>1, <1>2, <1>3, <1>4

\* td2 is td with its first call replaced by m others.
Below(td, td2, m) ==
  /\ \A i \in DOMAIN td2 : i > m =>
       \E j \in DOMAIN td : j > 1 /\ td2[i] = td[j] /\ (j = Len(td) => i = Len(td2))
  /\ \A j \in DOMAIN td : j > 1 => \E i \in DOMAIN td2 : i > m /\ td2[i] = td[j]

LEMMA TailBelow ==
  ASSUME NEW td \in Seq(Frame), td # <<>>
  PROVE  /\ Tail(td) \in Seq(Frame)
         /\ Below(td, Tail(td), 0)
         /\ 1 \in DOMAIN td
         /\ Head(td) = td[1] /\ td[1] \in Frame
<1>1. PICK n \in Nat : n = Len(td) /\ DOMAIN td = 1 .. n
  BY LenProperties
<1>2. n > 0
  BY <1>1, EmptySeq
<1>3. /\ Tail(td) \in Seq(Frame) /\ Len(Tail(td)) = n - 1
      /\ DOMAIN Tail(td) = 1 .. n - 1
      /\ \A i \in 1 .. n - 1 : Tail(td)[i] = td[i + 1]
  BY <1>1, <1>2
<1>4. \A i \in DOMAIN Tail(td) :
        \E j \in DOMAIN td : j > 1 /\ Tail(td)[i] = td[j] /\ (j = Len(td) => i = Len(Tail(td)))
  <2>1. ASSUME NEW i \in 1 .. n - 1
        PROVE  \E j \in 1 .. n : j > 1 /\ Tail(td)[i] = td[j] /\ (j = n => i = n - 1)
    <3>1. i + 1 \in 1 .. n /\ i + 1 > 1 /\ (i + 1 = n => i = n - 1)
      OBVIOUS
    <3> QED BY <1>3, <3>1
  <2> QED BY <1>1, <1>3, <2>1
<1>5. \A j \in DOMAIN td : j > 1 => \E i \in DOMAIN Tail(td) : i > 0 /\ Tail(td)[i] = td[j]
  <2>1. ASSUME NEW j \in 1 .. n, j > 1
        PROVE  \E i \in 1 .. n - 1 : i > 0 /\ Tail(td)[i] = td[j]
    <3>1. j - 1 \in 1 .. n - 1 /\ (j - 1) + 1 = j /\ j - 1 > 0
      BY <2>1
    <3> QED BY <1>3, <3>1
  <2> QED BY <1>1, <1>3, <2>1
<1>6. Head(td) = td[1] /\ 1 \in DOMAIN td /\ td[1] \in Frame
  BY <1>1, <1>2, ElementOfSeq
<1> QED BY <1>3, <1>4, <1>5, <1>6 DEF Below

LEMMA PushBelow ==
  ASSUME NEW td \in Seq(Frame), NEW td2 \in Seq(Frame), NEW m \in Nat, Below(td, td2, m),
         NEW f \in Frame
  PROVE  /\ <<f>> \o td2 \in Seq(Frame)
         /\ Below(td, <<f>> \o td2, m + 1)
         /\ (<<f>> \o td2)[1] = f
         /\ 1 \in DOMAIN (<<f>> \o td2)
         /\ \A i \in DOMAIN (<<f>> \o td2) : i > 1 => (<<f>> \o td2)[i] = td2[i - 1]
<1> DEFINE c == <<f>> \o td2
<1>1. PICK n \in Nat : n = Len(td2) /\ DOMAIN td2 = 1 .. n
  BY LenProperties
<1>2. /\ c \in Seq(Frame) /\ Len(c) = n + 1 /\ DOMAIN c = 1 .. n + 1
      /\ c[1] = f
      /\ \A i \in 1 .. n + 1 : i > 1 => c[i] = td2[i - 1]
  <2>1. <<f>> \in Seq(Frame) /\ Len(<<f>>) = 1 /\ <<f>>[1] = f
    OBVIOUS
  <2>2. /\ c \in Seq(Frame) /\ Len(c) = 1 + n
        /\ \A i \in 1 .. 1 + n : c[i] = IF i <= 1 THEN <<f>>[i] ELSE td2[i - 1]
    BY <1>1, <2>1, ConcatProperties
  <2> HIDE DEF c
  <2>3. DOMAIN c = 1 .. Len(c)
    BY <2>2, LenProperties
  <2> QED BY <2>1, <2>2, <2>3
<1> HIDE DEF c
<1>3. ASSUME NEW i \in DOMAIN c, i > m + 1
      PROVE  \E j \in DOMAIN td : j > 1 /\ c[i] = td[j] /\ (j = Len(td) => i = Len(c))
  <2>1. i - 1 \in DOMAIN td2 /\ i - 1 > m /\ c[i] = td2[i - 1]
    BY <1>1, <1>2, <1>3
  <2>2. PICK j \in DOMAIN td : j > 1 /\ td2[i - 1] = td[j] /\ (j = Len(td) => i - 1 = n)
    BY <1>1, <2>1 DEF Below
  <2>3. i - 1 = n => i = Len(c)
    BY <1>1, <1>2
  <2> QED BY <2>1, <2>2, <2>3
<1>4. ASSUME NEW j \in DOMAIN td, j > 1
      PROVE  \E i \in DOMAIN c : i > m + 1 /\ c[i] = td[j]
  <2>1. PICK i \in DOMAIN td2 : i > m /\ td2[i] = td[j]
    BY <1>4 DEF Below
  <2>2. i + 1 \in DOMAIN c /\ i + 1 > m + 1 /\ i + 1 > 1 /\ (i + 1) - 1 = i
    BY <1>1, <1>2, <2>1
  <2> QED BY <1>2, <2>1, <2>2
<1>5. Below(td, c, m + 1)
  BY <1>3, <1>4 DEF Below
<1> QED BY <1>2, <1>5 DEF c

\* The same for two calls at once.
LEMMA PairPushed ==
  ASSUME NEW x \in Seq(Frame), NEW f \in Frame, NEW g \in Frame
  PROVE  <<f, g>> \o x = <<f>> \o (<<g>> \o x)
<1>1. /\ <<f>> \in Seq(Frame) /\ Len(<<f>>) = 1 /\ <<f>>[1] = f
      /\ <<g>> \in Seq(Frame) /\ Len(<<g>>) = 1 /\ <<g>>[1] = g
      /\ <<f, g>> \in Seq(Frame) /\ Len(<<f, g>>) = 2
      /\ <<f, g>>[1] = f /\ <<f, g>>[2] = g
  OBVIOUS
<1> DEFINE c == <<f>> \o <<g>>
<1>2. /\ c \in Seq(Frame) /\ Len(c) = 2 /\ c[1] = f /\ c[2] = g
  <2>1. /\ c \in Seq(Frame) /\ Len(c) = 1 + 1
        /\ \A i \in 1 .. 1 + 1 : c[i] = IF i <= 1 THEN <<f>>[i] ELSE <<g>>[i - 1]
    BY <1>1, ConcatProperties
  <2> HIDE DEF c
  <2>2. 1 \in 1 .. 1 + 1 /\ 2 \in 1 .. 1 + 1 /\ 1 <= 1 /\ ~(2 <= 1) /\ 2 - 1 = 1
    OBVIOUS
  <2> QED BY <1>1, <2>1, <2>2
<1> HIDE DEF c
<1>3. <<f, g>> = c
  <2>1. \A i \in 1 .. 2 : <<f, g>>[i] = c[i]
    BY <1>1, <1>2
  <2> QED BY <1>1, <1>2, <2>1, SeqEqual
<1> QED BY <1>1, <1>3, ConcatAssociative DEF c
\* The call g goes on with the operation of the call f.
Inherits(f, g) ==
  /\ OpCall(f) /\ OpCall(g)
  /\ g.stream = f.stream
  /\ g.tags = f.tags
  /\ g.op.drop = f.op.drop
  /\ g.op.drop => g.op = f.op
  /\ Ids(g.op) = Ids(f.op)
  /\ \A t : Makes(g.op, t) <=> Makes(f.op, t)
  /\ \A t : Ends(g.op, t) => Ends(f.op, t)
  /\ Asked(g) => Asked(f)
  /\ f.call # "process"

\* A call g that the call f makes.
CalledBy(f, g) ==
  /\ g.call # "read"
  /\ OpCall(g) =>
       \/ Inherits(f, g)
       \/ g.call = "register" /\ Again(g) /\ \E t \in Ending(f) : g.op = DropOf(t)
  /\ g.call = "drop" => g.tensors \subseteq Ending(f)

Called(td, td2, m) ==
  /\ Below(td, td2, m)
  /\ \A i \in DOMAIN td2 : i <= m =>
       /\ td2[i].call \in {"register", "process", "drain"} => i = 1
       /\ CalledBy(td[1], td2[i])
       /\ OpCall(td2[i]) /\ ~Again(td2[i]) => i = m

LEMMA DropOfForms ==
  ASSUME NEW t \in Tensors
  PROVE  /\ DropOf(t) \in Op
         /\ DropOf(t).drop
         /\ Ids(DropOf(t)) = {t}
         /\ \A u : ~Makes(DropOf(t), u)
         /\ \A u : Ends(DropOf(t), u) <=> u = t
         /\ Inputs(DropOf(t)) = {}
<1>1. DropOf(t).nodes = {[id |-> t, status |-> "ReadWrite"]} /\ DropOf(t).drop = TRUE
  BY DEF DropOf
<1>2. DropOf(t) \in Op
  BY DEF DropOf, Op, Node, Status
<1>3. Ids(DropOf(t)) = {t}
  BY <1>1 DEF Ids
<1>4. \A u : ~Makes(DropOf(t), u)
  BY <1>1 DEF Makes
<1>5. \A u : Ends(DropOf(t), u) <=> u = t
  BY <1>1 DEF Ends
<1> QED BY <1>1, <1>2, <1>3, <1>4, <1>5 DEF Inputs

\* Calls that are made by the first one, and those below them, are as the
\* invariant says; nothing becomes live, and operations are not forgotten
\* but where the first call does so.
LEMMA CalledForms ==
  ASSUME NEW td \in Seq(Frame), NEW td2 \in Seq(Frame), td # <<>>,
         NEW m \in Nat, Called(td, td2, m), refs \in [Tensors -> Nat],
         Shape(td), AllFormed(td), Released(td)
  PROVE  /\ Shape(td2)
         /\ AllFormed(td2)
         /\ Released(td2)
         /\ \A t : Live(td2, t) => Live(td, t)
         /\ \A t : ToMake(td2, t) => ToMake(td, t)
         /\ \A t : ToMake(td, t) =>
              \/ ToMake(td2, t)
              \/ OpCall(td[1]) /\ Makes(td[1].op, t)
<1>1. 1 \in DOMAIN td /\ td[1] \in Frame
  BY TailBelow
<1>2. \A i \in DOMAIN td : td[i] \in Frame
  BY LenProperties, ElementOfSeq
<1>3. \A i \in DOMAIN td2 : td2[i] \in Frame
  BY LenProperties, ElementOfSeq
<1>4. /\ Len(td) \in Nat /\ DOMAIN td = 1 .. Len(td)
      /\ Len(td2) \in Nat /\ DOMAIN td2 = 1 .. Len(td2)
  BY LenProperties
<1>5. /\ Below(td, td2, m)
      /\ \A i \in DOMAIN td2 : i <= m =>
           /\ td2[i].call \in {"register", "process", "drain"} => i = 1
           /\ CalledBy(td[1], td2[i])
           /\ OpCall(td2[i]) /\ ~Again(td2[i]) => i = m
  BY DEF Called
<1>6. \A i \in DOMAIN td2 : i > m =>
        \E j \in DOMAIN td : j > 1 /\ td2[i] = td[j] /\ (j = Len(td) => i = Len(td2))
  BY <1>5 DEF Below
<1>7. \A i \in DOMAIN td2 : i <= m \/ i > m
  BY <1>4
\* An operation of a client is alone.
<1>8. ASSUME OpCall(td[1]), ~Again(td[1])
      PROVE  Len(td) = 1 /\ DOMAIN td = {1} /\ \A i \in DOMAIN td2 : i <= m
  <2>1. Len(td) = 1
    BY <1>1, <1>8 DEF Shape, OpCall
  <2>2. DOMAIN td = {1}
    BY <1>4, <2>1
  <2> QED BY <1>4, <1>6, <1>7, <2>1, <2>2
<1>9. ASSUME NEW i \in DOMAIN td2, i <= m, OpCall(td2[i]), ~Again(td2[i])
      PROVE  Inherits(td[1], td2[i]) /\ i = m /\ OpCall(td[1]) /\ ~Again(td[1]) /\ i = Len(td2)
  <2>1. Inherits(td[1], td2[i]) /\ i = m
    BY <1>5, <1>9 DEF CalledBy
  <2>2. OpCall(td[1]) /\ ~Again(td[1])
    BY <1>9, <2>1 DEF Inherits, Again
  <2>3. Len(td2) \in DOMAIN td2
    BY <1>4
  <2>4. Len(td2) <= m
    BY <1>8, <2>2, <2>3
  <2>5. i = Len(td2)
    <3>1. i \in 1 .. Len(td2) /\ Len(td2) \in Nat /\ i = m
      BY <1>4, <2>1
    <3> QED BY <2>4, <3>1
  <2> QED BY <2>1, <2>2, <2>5
<1>10. Shape(td2)
  <2>1. ASSUME NEW i \in DOMAIN td2
        PROVE  /\ td2[i].call \in {"register", "process", "drain"} => i = 1
               /\ td2[i].call \in {"register", "admit", "process"} => Again(td2[i]) \/ i = Len(td2)
               /\ td2[i].call = "read" => i = Len(td2)
    <3>1. CASE i > m
      <4>1. PICK j \in DOMAIN td : j > 1 /\ td2[i] = td[j] /\ (j = Len(td) => i = Len(td2))
        BY <1>6, <3>1
      <4>2. /\ td[j].call \in {"register", "process", "drain"} => j = 1
            /\ td[j].call \in {"register", "admit", "process"} => Again(td[j]) \/ j = Len(td)
            /\ td[j].call = "read" => j = Len(td)
        BY DEF Shape
      <4>3. j # 1
        BY <1>4, <4>1
      <4> QED BY <4>1, <4>2, <4>3
    <3>2. CASE i <= m
      <4>1. td2[i].call # "read"
        BY <1>5, <3>2 DEF CalledBy
      <4>2. OpCall(td2[i]) => Again(td2[i]) \/ i = Len(td2)
        BY <1>9, <3>2
      <4> QED BY <1>5, <3>2, <4>1, <4>2 DEF OpCall
    <3> QED BY <1>7, <3>1, <3>2
  <2> QED BY <2>1 DEF Shape
<1>11. ASSUME NEW t, Live(td2, t) PROVE Live(td, t)
  <2>1. CASE refs[t] > 0
    BY <2>1 DEF Live
  <2>2. ASSUME NEW i \in DOMAIN td2, Asked(td2[i]), t \in Ids(td2[i].op)
        PROVE  Live(td, t)
    <3>1. CASE i > m
      <4>1. PICK j \in DOMAIN td : td2[i] = td[j]
        BY <1>6, <3>1
      <4> QED BY <2>2, <4>1 DEF Live
    <3>2. CASE i <= m
      <4>1. OpCall(td2[i]) /\ ~Again(td2[i])
        BY <2>2 DEF Asked, OpCall
      <4>2. Inherits(td[1], td2[i])
        BY <1>9, <3>2, <4>1
      <4>3. Asked(td[1]) /\ Ids(td2[i].op) = Ids(td[1].op)
        BY <2>2, <4>2 DEF Inherits
      <4> QED BY <1>1, <2>2, <4>3 DEF Live
    <3> QED BY <1>7, <3>1, <3>2
  <2> QED BY <1>11, <2>1, <2>2 DEF Live
<1>12. Released(td2)
  <2>1. ASSUME NEW i \in DOMAIN td2, NEW t \in Ending(td2[i])
        PROVE  origin[t] # NoStream /\ ~Live(td2, t)
    <3>1. CASE \E j \in DOMAIN td : t \in Ending(td[j])
      BY <1>11, <3>1 DEF Released
    <3>2. CASE i > m
      BY <1>6, <2>1, <3>1, <3>2
    <3>3. ASSUME i <= m PROVE origin[t] # NoStream /\ ~Live(td2, t)
      <4>1. CalledBy(td[1], td2[i])
        BY <1>5, <3>3
      <4>2. CASE td2[i].call = "drop"
        <5>1. t \in Ending(td[1])
          BY <2>1, <4>1, <4>2 DEF CalledBy, Ending
        <5> QED BY <1>1, <3>1, <5>1
      <4>3. CASE OpCall(td2[i]) /\ ~Inherits(td[1], td2[i])
        <5>1. PICK u \in Ending(td[1]) : td2[i].op = DropOf(u)
          BY <4>1, <4>3 DEF CalledBy
        <5>2. Ids(td2[i].op) = {u}
          BY <5>1 DEF Ids, DropOf
        <5>3. t = u
          <6>1. td2[i].call = "register" /\ Again(td2[i])
            BY <4>1, <4>3 DEF CalledBy
          <6>2. Ending(td2[i]) = Ids(td2[i].op)
            BY <6>1 DEF Ending
          <6> QED BY <2>1, <5>2, <6>2
        <5> QED BY <1>1, <3>1, <5>1, <5>3
      <4>4. CASE OpCall(td2[i]) /\ Inherits(td[1], td2[i])
        <5>1. OpCall(td[1]) /\ td[1].op \in Op /\ Ids(td2[i].op) = Ids(td[1].op)
          BY <1>1, <4>4, FrameForms DEF Inherits
        <5>2. (Again(td2[i]) <=> Again(td[1])) /\ td2[i].op \in Op
          BY <1>3, <4>4, FrameForms DEF Inherits, Again
        <5>3. CASE Again(td2[i])
          <6>1. td2[i].call # "process" => t \in Ids(td[1].op)
            BY <2>1, <4>4, <5>1, <5>3 DEF Ending, OpCall
          <6>2. td2[i].call = "process" => t \in Tensors /\ Ends(td2[i].op, t)
            BY <2>1 DEF Ending
          <6>3. td2[i].call = "process" => t \in Tensors /\ Ends(td[1].op, t)
            BY <4>4, <6>2 DEF Inherits
          <6>4. Ends(td[1].op, t) => t \in Ids(td[1].op)
            BY <5>1, OpForms
          <6>5. t \in Ending(td[1])
            <7>1. td[1].call # "process"
              BY <4>4 DEF Inherits
            <7>2. CASE td[1].call \in {"register", "admit"}
              <8>1. Ending(td[1]) = Ids(td[1].op)
                BY <5>2, <5>3, <7>2 DEF Ending
              <8> QED BY <6>1, <6>3, <6>4, <8>1
            <7> QED BY <5>1, <7>1, <7>2 DEF OpCall
          <6> QED BY <1>1, <3>1, <6>5
        <5>4. CASE ~Again(td2[i])
          <6>1. td2[i].call = "process" /\ t \in Tensors /\ Ends(td2[i].op, t)
            BY <2>1, <4>4, <5>4 DEF Ending, OpCall
          <6>2. Ends(td[1].op, t) /\ t \in Ids(td[1].op)
            BY <4>4, <5>1, <6>1, OpForms DEF Inherits
          <6>3. Formed(td[1])
            BY <1>1, <5>1 DEF AllFormed
          <6>4. origin[t] # NoStream /\ refs[t] = 0
            BY <6>2, <6>3 DEF Formed
          <6>5. ASSUME NEW j \in DOMAIN td2, Asked(td2[j]) PROVE FALSE
            <7>1. OpCall(td[1]) /\ ~Again(td[1])
              BY <5>1, <5>2, <5>4
            <7>2. j <= m /\ i = m
              BY <1>8, <1>9, <3>3, <4>4, <5>4, <7>1
            <7>3. OpCall(td2[j]) /\ ~Again(td2[j]) /\ td2[j].call # "process"
              BY <6>5 DEF Asked, OpCall
            <7>4. j = m
              BY <1>9, <7>2, <7>3
            <7> QED BY <6>1, <7>2, <7>3, <7>4
          <6>6. ~Live(td2, t)
            BY <6>4, <6>5 DEF Live
          <6> QED BY <6>4, <6>6
        <5> QED BY <5>3, <5>4
      <4>5. CASE ~OpCall(td2[i]) /\ td2[i].call # "drop"
        <5>1. td2[i].call # "read"
          BY <4>1 DEF CalledBy
        <5>2. Ending(td2[i]) = {}
          BY <4>5, <5>1 DEF Ending, OpCall
        <5> QED BY <2>1, <5>2
      <4> QED BY <4>2, <4>3, <4>4, <4>5
    <3> QED BY <1>7, <3>2, <3>3
  <2> QED BY <2>1 DEF Released
<1>13. AllFormed(td2)
  <2>1. ASSUME NEW i \in DOMAIN td2, OpCall(td2[i]) PROVE Formed(td2[i])
    <3>1. CASE i > m
      BY <1>6, <2>1, <3>1 DEF AllFormed
    <3>2. CASE i <= m /\ Inherits(td[1], td2[i])
      <4>1. /\ Formed(td[1])
            /\ td[1].op.drop => \E t \in Tensors : td[1].op = DropOf(t)
        BY <1>1, <3>2 DEF AllFormed, Inherits, Formed
      <4>2. td2[i].op.drop => \E t \in Tensors : td2[i].op = DropOf(t)
        BY <3>2, <4>1 DEF Inherits
      <4>3. /\ td2[i].tags = td[1].tags /\ td2[i].stream = td[1].stream
            /\ Ids(td2[i].op) = Ids(td[1].op)
            /\ Again(td2[i]) <=> Again(td[1])
            /\ \A t : Makes(td2[i].op, t) <=> Makes(td[1].op, t)
            /\ \A t : Ends(td2[i].op, t) => Ends(td[1].op, t)
        BY <3>2 DEF Inherits, Again
      <4> QED BY <4>1, <4>2, <4>3 DEF Formed
    <3>3. CASE i <= m /\ ~Inherits(td[1], td2[i])
      <4>1. PICK t \in Ending(td[1]) : td2[i].op = DropOf(t)
        BY <1>5, <2>1, <3>3 DEF CalledBy
      <4>2. Again(td2[i])
        BY <1>5, <2>1, <3>3 DEF CalledBy
      <4>3. origin[t] # NoStream /\ ~Live(td, t)
        BY <1>1 DEF Released
      <4>4. t \in Tensors
        <5>1. td2[i].op \in Op
          BY <1>3, <2>1, FrameForms
        <5>2. Ids(td2[i].op) = {t}
          BY <4>1 DEF Ids, DropOf
        <5> QED BY <5>1, <5>2, OpForms
      <4>5. refs[t] = 0
        <5>1. ~(refs[t] > 0)
          BY <4>3 DEF Live
        <5> QED BY <4>4, <5>1
      <4> QED BY <4>1, <4>2, <4>3, <4>4, <4>5, DropOfForms DEF Formed
    <3> QED BY <1>7, <3>1, <3>2, <3>3
  <2> QED BY <2>1 DEF AllFormed
<1>14. ASSUME NEW t, ToMake(td2, t) PROVE ToMake(td, t)
  <2>1. PICK i \in DOMAIN td2 : OpCall(td2[i]) /\ Makes(td2[i].op, t)
    BY <1>14 DEF ToMake
  <2>2. CASE i > m
    BY <1>6, <2>1, <2>2 DEF ToMake
  <2>3. CASE i <= m
    <3>1. ~td2[i].op.drop
      <4>1. t \in Ids(td2[i].op)
        BY <1>3, <2>1, FrameForms, OpForms
      <4> QED BY <1>13, <2>1, DropOfForms DEF AllFormed, Formed
    <3>2. Inherits(td[1], td2[i])
      BY <1>9, <2>1, <2>3, <3>1 DEF Again
    <3> QED BY <1>1, <2>1, <3>2 DEF Inherits, ToMake
  <2> QED BY <1>7, <2>2, <2>3
<1>15. ASSUME NEW t, ToMake(td, t)
       PROVE  ToMake(td2, t) \/ (OpCall(td[1]) /\ Makes(td[1].op, t))
  <2>1. PICK j \in DOMAIN td : OpCall(td[j]) /\ Makes(td[j].op, t)
    BY <1>15 DEF ToMake
  <2>2. CASE j > 1
    <3>1. PICK i \in DOMAIN td2 : td2[i] = td[j]
      BY <1>5, <2>2 DEF Below
    <3> QED BY <2>1, <3>1 DEF ToMake
  <2>3. CASE j = 1
    BY <2>1, <2>3
  <2> QED BY <1>4, <2>2, <2>3
<1> QED BY <1>10, <1>11, <1>12, <1>13, <1>14, <1>15
\* Where calls make calls and nothing else happens, the invariant stays.
LEMMA CallsStep ==
  ASSUME NEW st, NEW td, NEW td2 \in Seq(Frame), LiveInv(st, td), td # <<>>,
         NEW m \in Nat, Called(td, td2, m),
         \A t : OpCall(td[1]) /\ Makes(td[1].op, t) => ToMake(td2, t)
  PROVE  LiveInv(st, td2)
<1>1. /\ TypesOK(st, td) /\ Shape(td) /\ AllFormed(td) /\ Released(td)
      /\ Fresh(st) /\ Last(st, td) /\ Made(st, td) /\ Tracked(st, td) /\ New(td)
  BY DEF LiveInv
<1>2. td \in Seq(Frame) /\ refs \in [Tensors -> Nat]
  BY <1>1 DEF TypesOK
<1>3. /\ Shape(td2) /\ AllFormed(td2) /\ Released(td2)
      /\ \A t : Live(td2, t) => Live(td, t)
      /\ \A t : ToMake(td2, t) <=> ToMake(td, t)
  BY <1>1, <1>2, CalledForms
<1>4. TypesOK(st, td2)
  BY <1>1 DEF TypesOK
<1>5. Last(st, td2)
  BY <1>1, <1>3 DEF Last
<1>6. Made(st, td2)
  BY <1>1, <1>3 DEF Made
<1>7. Tracked(st, td2)
  BY <1>1, <1>3 DEF Tracked
<1>8. New(td2)
  BY <1>1, <1>3 DEF New
<1> QED BY <1>1, <1>3, <1>4, <1>5, <1>6, <1>7, <1>8 DEF LiveInv

LEMMA Unmoved ==
  ASSUME LiveInv(streams, todo'),
         UNCHANGED <<origin, refs, streams, shared, manual, handles>>
  PROVE  LiveInv(streams, todo)'
<1>1. /\ origin' = origin /\ refs' = refs /\ streams' = streams
      /\ shared' = shared /\ manual' = manual /\ handles' = handles
  OBVIOUS
<1>2. \A t : Live(todo, t)' <=> Live(todo', t)
  BY <1>1 DEF Live
<1>3. TypesOK(streams, todo)'
  BY <1>1 DEF LiveInv, TypesOK
<1>4. Shape(todo)'
  BY DEF LiveInv
<1>5. AllFormed(todo)'
  BY <1>1 DEF LiveInv, AllFormed, Formed
<1>6. Released(todo)'
  BY <1>1, <1>2 DEF LiveInv, Released
<1>7. Fresh(streams)'
  BY <1>1 DEF LiveInv, Fresh
<1>8. Last(streams, todo)'
  BY <1>1, <1>2 DEF LiveInv, Last
<1>9. Made(streams, todo)'
  BY <1>1, <1>2 DEF LiveInv, Made
<1>10. Tracked(streams, todo)'
  BY <1>1, <1>2 DEF LiveInv, Tracked
<1>11. New(todo)'
  BY <1>1 DEF LiveInv, New
<1> QED BY <1>3, <1>4, <1>5, <1>6, <1>7, <1>8, <1>9, <1>10, <1>11 DEF LiveInv

\* One call is replaced by none, one or two.
LEMMA CalledNone ==
  ASSUME NEW td \in Seq(Frame), td # <<>>
  PROVE  Tail(td) \in Seq(Frame) /\ Called(td, Tail(td), 0)
<1>1. Tail(td) \in Seq(Frame) /\ Below(td, Tail(td), 0)
  BY TailBelow
<1>2. \A i \in DOMAIN Tail(td) : ~(i <= 0)
  BY <1>1, LenProperties
<1> QED BY <1>1, <1>2 DEF Called

LEMMA PushTail ==
  ASSUME NEW td \in Seq(Frame), td # <<>>, NEW f \in Frame
  PROVE  /\ <<f>> \o Tail(td) \in Seq(Frame)
         /\ Below(td, <<f>> \o Tail(td), 1)
         /\ (<<f>> \o Tail(td))[1] = f
         /\ 1 \in DOMAIN (<<f>> \o Tail(td))
<1>1. Tail(td) \in Seq(Frame) /\ Below(td, Tail(td), 0)
  BY TailBelow
<1> DEFINE rest == Tail(td)
           c == <<f>> \o rest
<1> HIDE DEF rest
<1>2. c \in Seq(Frame) /\ Below(td, c, 0 + 1) /\ c[1] = f /\ 1 \in DOMAIN c
  <2>1. rest \in Seq(Frame) /\ Below(td, rest, 0) /\ 0 \in Nat
    BY <1>1 DEF rest
  <2> QED BY <2>1, PushBelow, SMTT(30)
<1> HIDE DEF c
<1>3. 0 + 1 = 1
  OBVIOUS
<1>4. Below(td, c, 1)
  BY <1>2, <1>3, Zenon
<1> QED BY <1>2, <1>4 DEF c, rest

LEMMA CalledOne ==
  ASSUME NEW td \in Seq(Frame), td # <<>>, NEW f \in Frame, CalledBy(td[1], f)
  PROVE  /\ <<f>> \o Tail(td) \in Seq(Frame)
         /\ Called(td, <<f>> \o Tail(td), 1)
         /\ (<<f>> \o Tail(td))[1] = f
         /\ 1 \in DOMAIN (<<f>> \o Tail(td))
<1> DEFINE c == <<f>> \o Tail(td)
<1>2. c \in Seq(Frame) /\ Below(td, c, 1) /\ c[1] = f /\ 1 \in DOMAIN c
  BY PushTail
<1> HIDE DEF c
<1>3. \A i \in DOMAIN c : i <= 1 => i = 1
  BY <1>2, LenProperties
<1>4. Called(td, c, 1)
  BY <1>2, <1>3 DEF Called
<1> QED BY <1>2, <1>4 DEF c

LEMMA CalledTwo ==
  ASSUME NEW td \in Seq(Frame), td # <<>>, NEW f \in Frame, NEW g \in Frame,
         CalledBy(td[1], f), CalledBy(td[1], g),
         OpCall(f) => Again(f), g.call \notin {"register", "process", "drain"}
  PROVE  /\ <<f>> \o (<<g>> \o Tail(td)) \in Seq(Frame)
         /\ Called(td, <<f>> \o (<<g>> \o Tail(td)), 2)
         /\ (<<f>> \o (<<g>> \o Tail(td)))[2] = g
         /\ 2 \in DOMAIN (<<f>> \o (<<g>> \o Tail(td)))
<1> DEFINE x == <<g>> \o Tail(td)
<1>2. x \in Seq(Frame) /\ Below(td, x, 1) /\ x[1] = g /\ 1 \in DOMAIN x
  BY PushTail
<1> HIDE DEF x
<1> DEFINE c == <<f>> \o x
<1>3. /\ c \in Seq(Frame) /\ Below(td, c, 1 + 1) /\ c[1] = f /\ 1 \in DOMAIN c
      /\ \A i \in DOMAIN c : i > 1 => c[i] = x[i - 1]
      /\ Len(c) = Len(x) + 1
  <2>1. /\ c \in Seq(Frame) /\ Below(td, c, 1 + 1) /\ c[1] = f /\ 1 \in DOMAIN c
        /\ \A i \in DOMAIN c : i > 1 => c[i] = x[i - 1]
    BY <1>2, PushBelow
  <2>2. <<f>> \in Seq(Frame) /\ Len(<<f>>) = 1
    OBVIOUS
  <2>3. Len(c) = Len(<<f>>) + Len(x)
    BY <1>2, <2>2, ConcatProperties
  <2>4. Len(x) \in Nat
    BY <1>2, LenProperties
  <2> HIDE DEF c
  <2> QED BY <2>1, <2>2, <2>3, <2>4
<1> HIDE DEF c
<1>4. \A i \in DOMAIN c : i <= 2 => i \in {1, 2}
  BY <1>3, LenProperties
<1>5. 2 \in DOMAIN c /\ c[2] = g
  <2>1. DOMAIN x = 1 .. Len(x) /\ Len(x) \in Nat /\ DOMAIN c = 1 .. Len(c)
    BY <1>2, <1>3, LenProperties
  <2>2. 2 \in 1 .. Len(c)
    BY <1>2, <1>3, <2>1
  <2> QED BY <1>2, <1>3, <2>1, <2>2
<1>6. Called(td, c, 2)
  <2>1. ASSUME NEW i \in DOMAIN c, i <= 2
        PROVE  /\ c[i].call \in {"register", "process", "drain"} => i = 1
               /\ CalledBy(td[1], c[i])
               /\ OpCall(c[i]) /\ ~Again(c[i]) => i = 2
    BY <1>3, <1>4, <1>5, <2>1
  <2> QED BY <1>3, <2>1 DEF Called
<1> QED BY <1>3, <1>5, <1>6 DEF c, x
-----------------------------------------------------------------------------
(* Steps that only make calls.                                               *)

LEMMA HeadForms ==
  ASSUME NEW td \in Seq(Frame), td # <<>>
  PROVE  /\ Head(td) = td[1] /\ td[1] \in Frame /\ 1 \in DOMAIN td
         /\ Tail(td) \in Seq(Frame)
BY TailBelow

LEMMA StepResolve ==
  ASSUME LiveInv(streams, todo), RunResolve
  PROVE  LiveInv(streams, todo)'
<1> DEFINE c == todo[1]
<1>1. /\ todo \in Seq(Frame) /\ todo # <<>>
      /\ Head(todo) = c /\ c \in Frame /\ c.call = "resolve"
  BY HeadForms DEF RunResolve, Calling, LiveInv, TypesOK
<1>2. c.streams \subseteq Streams /\ c.op \in Op /\ ~OpCall(c)
  BY <1>1, FrameForms DEF OpCall
<1>3. UNCHANGED <<origin, refs, streams, shared, manual, handles>>
  BY DEF RunResolve
<1>4. /\ Tail(todo) \in Seq(Frame) /\ Called(todo, Tail(todo), 0)
  BY <1>1, CalledNone
<1> SUFFICES LiveInv(streams, todo')
  BY <1>3, Unmoved
<1>5. CASE todo' = Tail(todo)
  BY <1>1, <1>2, <1>4, <1>5, CallsStep
<1>6. ASSUME NEW s \in c.streams,
             todo' = <<Resolve(c.streams \ {s}, c.op)>> \o Tail(todo)
      PROVE  LiveInv(streams, todo')
  <2>1. Resolve(c.streams \ {s}, c.op) \in Frame
    BY <1>2 DEF Resolve, Frame
  <2>2. CalledBy(c, Resolve(c.streams \ {s}, c.op))
    BY DEF CalledBy, Resolve, OpCall
  <2>3. todo' \in Seq(Frame) /\ Called(todo, todo', 1)
    BY <1>1, <1>6, <2>1, <2>2, CalledOne
  <2> QED BY <1>1, <1>2, <2>3, CallsStep
<1>7. ASSUME NEW s \in c.streams,
             todo' = <<Drain(s)>> \o (<<Resolve(c.streams \ {s}, c.op)>> \o Tail(todo))
      PROVE  LiveInv(streams, todo')
  <2>1. Resolve(c.streams \ {s}, c.op) \in Frame /\ Drain(s) \in Frame
    BY <1>2 DEF Resolve, Drain, Frame
  <2>2. /\ CalledBy(c, Resolve(c.streams \ {s}, c.op))
        /\ CalledBy(c, Drain(s))
        /\ ~OpCall(Drain(s))
        /\ Resolve(c.streams \ {s}, c.op).call \notin {"register", "process", "drain"}
    BY DEF CalledBy, Resolve, Drain, OpCall
  <2>3. todo' \in Seq(Frame) /\ Called(todo, todo', 2)
    BY <1>1, <1>7, <2>1, <2>2, CalledTwo
  <2> QED BY <1>1, <1>2, <2>3, CallsStep
<1>8. \/ todo' = Tail(todo)
      \/ \E s \in c.streams :
           \/ todo' = <<Resolve(c.streams \ {s}, c.op)>> \o Tail(todo)
           \/ todo' = <<Drain(s)>> \o (<<Resolve(c.streams \ {s}, c.op)>> \o Tail(todo))
  BY <1>1 DEF RunResolve
<1> QED BY <1>5, <1>6, <1>7, <1>8

LEMMA StepFlush ==
  ASSUME LiveInv(streams, todo), RunFlush
  PROVE  LiveInv(streams, todo)'
<1> DEFINE c == todo[1]
<1>1. /\ todo \in Seq(Frame) /\ todo # <<>>
      /\ Head(todo) = c /\ c \in Frame /\ c.call = "flush"
  BY HeadForms DEF RunFlush, Calling, LiveInv, TypesOK
<1>2. c.stream \in Streams /\ ~OpCall(c)
  BY <1>1, FrameForms DEF OpCall
<1>3. UNCHANGED <<origin, refs, streams, shared, manual, handles>>
  BY DEF RunFlush, server
<1> SUFFICES LiveInv(streams, todo')
  BY <1>3, Unmoved
<1>4. CASE todo' = Tail(todo)
  BY <1>1, <1>2, <1>4, CalledNone, CallsStep
<1>5. CASE todo' = <<Drain(c.stream)>> \o Tail(todo)
  <2>1. Drain(c.stream) \in Frame /\ CalledBy(c, Drain(c.stream))
    BY <1>2 DEF Drain, Frame, CalledBy, OpCall
  <2>2. todo' \in Seq(Frame) /\ Called(todo, todo', 1)
    BY <1>1, <1>5, <2>1, CalledOne
  <2> QED BY <1>1, <1>2, <2>2, CallsStep
<1> QED BY <1>1, <1>4, <1>5 DEF RunFlush

LEMMA StepDropShared ==
  ASSUME LiveInv(streams, todo), RunDropShared
  PROVE  LiveInv(streams, todo)'
<1> DEFINE c == todo[1]
<1>1. /\ todo \in Seq(Frame) /\ todo # <<>>
      /\ Head(todo) = c /\ c \in Frame /\ c.call = "drop"
  BY HeadForms DEF RunDropShared, Calling, LiveInv, TypesOK
<1>2. c.stream \in Streams /\ c.tensors \subseteq Tensors /\ ~OpCall(c)
  BY <1>1, FrameForms DEF OpCall
<1>3. UNCHANGED <<origin, refs, streams, shared, manual, handles>>
  BY DEF RunDropShared, server
<1> SUFFICES LiveInv(streams, todo')
  BY <1>3, Unmoved
<1>4. CASE todo' = Tail(todo)
  BY <1>1, <1>2, <1>4, CalledNone, CallsStep
<1>5. ASSUME NEW t \in c.tensors,
             todo' = <<Register(c.stream, DropOf(t), NoTags),
                       DropShared(c.stream, c.tensors \ {t})>> \o Tail(todo)
      PROVE  LiveInv(streams, todo')
  <2> DEFINE f == Register(c.stream, DropOf(t), NoTags)
             g == DropShared(c.stream, c.tensors \ {t})
  <2>1. f \in Frame /\ g \in Frame
    <3>1. NoTags \in Variables /\ DropOf(t) \in Op
      BY <1>2, DropOfForms DEF NoTags, Variables
    <3> QED BY <1>2, <3>1, FramesMade, PlainFramesMade
  <2>2. Ending(c) = c.tensors
    BY <1>1 DEF Ending
  <2>3. /\ Again(f) /\ f.call = "register" /\ f.op = DropOf(t)
        /\ g.call = "drop" /\ g.tensors = c.tensors \ {t} /\ ~OpCall(g)
    BY DEF Again, Register, DropShared, DropOf, OpCall
  <2> HIDE DEF f, g
  <2>4. CalledBy(c, f) /\ CalledBy(c, g)
    BY <2>2, <2>3 DEF CalledBy
  <2>5. todo' = <<f>> \o (<<g>> \o Tail(todo))
    <3>1. Tail(todo) \in Seq(Frame)
      BY <1>1, HeadForms
    <3> QED BY <1>5, <2>1, <3>1, PairPushed DEF f, g
  <2>6. todo' \in Seq(Frame) /\ Called(todo, todo', 2)
    BY <1>1, <2>1, <2>3, <2>4, <2>5, CalledTwo
  <2> QED BY <1>1, <1>2, <2>6, CallsStep
<1>6. todo' = Tail(todo) \/ \E t \in c.tensors :
        todo' = <<Register(c.stream, DropOf(t), NoTags),
                  DropShared(c.stream, c.tensors \ {t})>> \o Tail(todo)
  BY <1>1 DEF RunDropShared
<1> QED BY <1>4, <1>5, <1>6
-----------------------------------------------------------------------------
(* register()                                                                *)

LEMMA CallsPrimed ==
  ASSUME UNCHANGED <<origin, refs>>
  PROVE  /\ Shape(todo') => Shape(todo)'
         /\ AllFormed(todo') => AllFormed(todo)'
         /\ Released(todo') => Released(todo)'
         /\ \A t : Live(todo, t)' <=> Live(todo', t)
<1>1. origin' = origin /\ refs' = refs
  OBVIOUS
<1>2. \A t : Live(todo, t)' <=> Live(todo', t)
  BY <1>1 DEF Live
<1>3. AllFormed(todo') => AllFormed(todo)'
  BY <1>1 DEF AllFormed, Formed
<1>4. Released(todo') => Released(todo)'
  BY <1>1, <1>2 DEF Released
<1> QED BY <1>2, <1>3, <1>4

SharedOK(sh) ==
  /\ DOMAIN sh \subseteq Tensors
  /\ \A t \in DOMAIN sh :
       /\ DOMAIN sh[t] \subseteq Streams
       /\ \A r \in DOMAIN sh[t] : sh[t][r] \in [current: Nat, origin: Nat]

StatesOK(states) ==
  /\ DOMAIN states \subseteq Streams
  /\ \A r \in DOMAIN states : states[r] \in [current: Nat, origin: Nat]

End(r) == IF streams[r].open THEN streams[r].cursor + Len(streams[r].queue) ELSE 1

LEMMA StreamForms ==
  ASSUME NEW st \in [Streams -> StreamType], NEW s \in Streams
  PROVE  /\ st[s].open \in BOOLEAN
         /\ st[s].queue \in Seq(Op)
         /\ Len(st[s].queue) \in Nat
         /\ DOMAIN st[s].queue = 1 .. Len(st[s].queue)
         /\ st[s].variables \in Variables
         /\ st[s].cursor \in Nat
         /\ \A i \in DOMAIN st[s].queue : st[s].queue[i] \in Op
<1>1. st[s] \in StreamType
  OBVIOUS
<1>2. /\ st[s].open \in BOOLEAN
      /\ st[s].queue \in Seq(Op)
      /\ st[s].variables \in Variables
      /\ st[s].cursor \in Nat
  BY <1>1 DEF StreamType
<1> QED BY <1>2, LenProperties, ElementOfSeq

LEMMA RegisteredForms ==
  ASSUME streams \in [Streams -> StreamType],
         NEW s \in Streams, NEW states, StatesOK(states)
  PROVE  LET new == Registered(states, s)
         IN /\ StatesOK(new)
            /\ DOMAIN new = DOMAIN states \cup {s}
            /\ \A r \in DOMAIN states : r # s => new[r] = states[r]
            /\ new[s].current = End(s)
            /\ new[s].origin = IF s \in DOMAIN states THEN states[s].origin ELSE End(s)
<1>1. End(s) \in Nat
  BY StreamForms DEF End
<1> DEFINE new == Registered(states, s)
<1>2. new = [r \in DOMAIN states \cup {s} |->
        IF r # s THEN states[r]
        ELSE [current |-> End(s),
              origin |-> IF s \in DOMAIN states THEN states[s].origin ELSE End(s)]]
  BY DEF Registered, End
<1> HIDE DEF new
<1>3. /\ DOMAIN new = DOMAIN states \cup {s}
      /\ \A r \in DOMAIN states : r # s => new[r] = states[r]
      /\ new[s] = [current |-> End(s),
                   origin |-> IF s \in DOMAIN states THEN states[s].origin ELSE End(s)]
  BY <1>2
<1>4. new[s] \in [current: Nat, origin: Nat]
  BY <1>1, <1>3 DEF StatesOK
<1>5. StatesOK(new)
  <2>1. DOMAIN new \subseteq Streams
    BY <1>3 DEF StatesOK
  <2>2. ASSUME NEW r \in DOMAIN new PROVE new[r] \in [current: Nat, origin: Nat]
    BY <1>3, <1>4 DEF StatesOK
  <2> QED BY <2>1, <2>2 DEF StatesOK
<1> QED BY <1>3, <1>5 DEF new

\* What sh is, when it is what analyse() makes of shared.
AnalysedOK(sh, s, op, tags) ==
  LET foreign == Foreign(s, op, tags)
  IN /\ SharedOK(sh)
     /\ foreign \subseteq Ids(op)
     /\ DOMAIN sh = DOMAIN shared \cup foreign
     /\ \A t \in DOMAIN sh : t \notin foreign => sh[t] = shared[t]
     /\ \A t \in foreign :
          /\ tags[t] \in Streams /\ tags[t] # s
          /\ s \in DOMAIN sh[t]
          /\ tags[t] \in DOMAIN sh[t]
          /\ DOMAIN sh[t] = DOMAIN States(t) \cup {s, tags[t]}
          /\ sh[t][tags[t]].current = End(tags[t])
          /\ sh[t][tags[t]].origin =
               IF tags[t] \in DOMAIN States(t) THEN States(t)[tags[t]].origin
               ELSE End(tags[t])
          /\ \A r \in DOMAIN States(t) : r \notin {s, tags[t]} => sh[t][r] = shared[t][r]

LEMMA AnalysedForms ==
  ASSUME streams \in [Streams -> StreamType], SharedOK(shared),
         NEW s \in Streams, NEW op \in Op, NEW tags \in Variables
  PROVE  AnalysedOK(Analysed(s, op, tags), s, op, tags)
<1> DEFINE sh == Analysed(s, op, tags)
           foreign == Foreign(s, op, tags)
<1>1. foreign \subseteq Ids(op) /\ foreign \subseteq Tensors
  BY OpForms DEF Foreign
<1>2. \A t \in foreign : tags[t] \in Streams /\ tags[t] # s
  BY <1>1 DEF Foreign, Variables
<1>3. sh = [t \in DOMAIN shared \cup foreign |->
              IF t \in foreign THEN Registered(Registered(States(t), s), tags[t])
              ELSE shared[t]]
  BY DEF Analysed
<1> HIDE DEF sh, foreign
<1>4. DOMAIN sh = DOMAIN shared \cup foreign
  BY <1>3
<1>5. \A t \in DOMAIN sh : t \notin foreign => sh[t] = shared[t]
  BY <1>3
<1>6. \A t : StatesOK(States(t)) /\ (States(t) # <<>> => States(t) = shared[t])
  BY DEF States, StatesOK, SharedOK, IsShared
<1>7. ASSUME NEW t \in foreign
      PROVE  /\ StatesOK(sh[t])
             /\ s \in DOMAIN sh[t]
             /\ tags[t] \in DOMAIN sh[t]
             /\ DOMAIN sh[t] = DOMAIN States(t) \cup {s, tags[t]}
             /\ sh[t][tags[t]].current = End(tags[t])
             /\ sh[t][tags[t]].origin =
                  IF tags[t] \in DOMAIN States(t) THEN States(t)[tags[t]].origin
                  ELSE End(tags[t])
             /\ \A r \in DOMAIN States(t) : r \notin {s, tags[t]} => sh[t][r] = shared[t][r]
  <2> DEFINE one == Registered(States(t), s)
             two == Registered(one, tags[t])
  <2>1. sh[t] = two
    BY <1>3
  <2>2. /\ StatesOK(one)
        /\ DOMAIN one = DOMAIN States(t) \cup {s}
        /\ \A r \in DOMAIN States(t) : r # s => one[r] = States(t)[r]
    BY <1>6, RegisteredForms
  <2> HIDE DEF one
  <2>3. tags[t] \in Streams /\ tags[t] # s
    BY <1>2
  <2>4. /\ StatesOK(two)
        /\ DOMAIN two = DOMAIN one \cup {tags[t]}
        /\ \A r \in DOMAIN one : r # tags[t] => two[r] = one[r]
        /\ two[tags[t]].current = End(tags[t])
        /\ two[tags[t]].origin = IF tags[t] \in DOMAIN one THEN one[tags[t]].origin
                                 ELSE End(tags[t])
    BY <2>2, <2>3, RegisteredForms
  <2> HIDE DEF two
  <2>5. \A r \in DOMAIN States(t) : r \notin {s, tags[t]} => two[r] = shared[t][r]
    <3>1. ASSUME NEW r \in DOMAIN States(t), r \notin {s, tags[t]}
          PROVE  two[r] = shared[t][r]
      <4>1. States(t) # <<>>
        OBVIOUS
      <4>2. two[r] = States(t)[r]
        BY <2>2, <2>4, <3>1
      <4> QED BY <1>6, <4>1, <4>2
    <3> QED BY <3>1
  <2> QED BY <2>1, <2>2, <2>3, <2>4, <2>5
<1>8. SharedOK(sh)
  <2>1. DOMAIN sh \subseteq Tensors
    BY <1>1, <1>4 DEF SharedOK
  <2>2. ASSUME NEW t \in DOMAIN sh PROVE StatesOK(sh[t])
    <3>1. CASE t \in foreign
      BY <1>7, <3>1
    <3>2. CASE t \notin foreign
      BY <1>4, <1>5, <3>2 DEF SharedOK, StatesOK
    <3> QED BY <3>1, <3>2
  <2> QED BY <2>1, <2>2 DEF SharedOK, StatesOK
<1>9. AnalysedOK(sh, s, op, tags)
  BY <1>1, <1>2, <1>4, <1>5, <1>7, <1>8 DEF AnalysedOK, foreign
<1> QED BY <1>9 DEF sh
LEMMA ToSyncForms ==
  ASSUME SharedOK(shared), NEW s \in Streams, NEW op \in Op, NEW tags \in Variables
  PROVE  ToSync(s, op, tags) \subseteq Streams
<1>1. \A t \in Foreign(s, op, tags) : tags[t] \in Streams
  <2>1. \A t \in Foreign(s, op, tags) : t \in Tensors /\ tags[t] # NoStream
    BY OpForms DEF Foreign
  <2> QED BY <2>1 DEF Variables
<1>2. \A n \in Current(s, op, tags) : DOMAIN shared[n.id] \subseteq Streams
  BY DEF Current, IsShared, SharedOK
<1> QED BY <1>1, <1>2 DEF ToSync

\* What LiveInv says of the state when the first call is on an operation.
LEMMA OpHead ==
  ASSUME NEW st, NEW td, LiveInv(st, td), td # <<>>, OpCall(Head(td))
  PROVE  /\ td \in Seq(Frame) /\ Head(td) = td[1] /\ td[1] \in Frame /\ 1 \in DOMAIN td
         /\ td[1].stream \in Streams /\ td[1].op \in Op /\ td[1].tags \in Variables
         /\ Formed(td[1])
         /\ Again(td[1]) \/ (Len(td) = 1 /\ DOMAIN td = {1})
         /\ \A t : Makes(td[1].op, t) => ToMake(td, t)
<1>1. td \in Seq(Frame) /\ Head(td) = td[1] /\ td[1] \in Frame /\ 1 \in DOMAIN td
  BY HeadForms DEF LiveInv, TypesOK
<1>2. td[1].stream \in Streams /\ td[1].op \in Op /\ td[1].tags \in Variables
  BY <1>1, FrameForms
<1>3. Formed(td[1])
  BY <1>1 DEF LiveInv, AllFormed
<1>4. Again(td[1]) \/ Len(td) = 1
  BY <1>1 DEF LiveInv, Shape, OpCall
<1>5. Len(td) = 1 => DOMAIN td = {1}
  BY <1>1, LenProperties
<1>6. \A t : Makes(td[1].op, t) => ToMake(td, t)
  BY <1>1 DEF ToMake
<1> QED BY <1>1, <1>2, <1>3, <1>4, <1>5, <1>6

\* A drop registered again has no tags, and so nothing from other streams.
LEMMA AgainForms ==
  ASSUME NEW f, OpCall(f), f.op \in Op, Formed(f), Again(f)
  PROVE  /\ Foreign(f.stream, f.op, f.tags) = {}
         /\ \A t : ~Makes(f.op, t)
         /\ \A t \in Ids(f.op) : f.tags[t] = NoStream
<1>1. \A t \in Ids(f.op) : t \in Tensors /\ f.tags[t] = NoStream
  BY OpForms DEF Again, NoTags
<1>2. Foreign(f.stream, f.op, f.tags) = {}
  BY <1>1 DEF Foreign
<1>3. \A t : ~Makes(f.op, t)
  BY DropOfForms DEF Formed, Again
<1> QED BY <1>1, <1>2, <1>3

LEMMA StepRegister ==
  ASSUME LiveInv(streams, todo), RunRegister
  PROVE  LiveInv(streams, todo)'
<1> DEFINE c == todo[1]
           s == c.stream
           foreign == Foreign(s, c.op, c.tags)
           f == Resolve(ToSync(s, c.op, c.tags), c.op)
           g == Admit(s, c.op, c.tags)
<1>1. /\ todo \in Seq(Frame) /\ todo # <<>>
      /\ Head(todo) = c /\ c \in Frame /\ c.call = "register" /\ OpCall(c)
  BY HeadForms DEF RunRegister, Calling, LiveInv, TypesOK, OpCall
<1>2. /\ s \in Streams /\ c.op \in Op /\ c.tags \in Variables
      /\ Formed(c)
      /\ Again(c) \/ (Len(todo) = 1 /\ DOMAIN todo = {1})
  BY <1>1, OpHead
<1>3. /\ TypesOK(streams, todo) /\ Shape(todo) /\ AllFormed(todo) /\ Released(todo)
      /\ Fresh(streams) /\ Last(streams, todo) /\ Made(streams, todo)
      /\ Tracked(streams, todo) /\ New(todo)
      /\ SharedOK(shared) /\ streams \in [Streams -> StreamType]
  BY DEF LiveInv, TypesOK, SharedOK
<1>4. /\ UNCHANGED <<origin, refs>>
      /\ origin' = origin /\ refs' = refs /\ streams' = streams
      /\ manual' = manual /\ handles' = handles
      /\ shared' = Analysed(s, c.op, c.tags)
      /\ todo' = <<f, g>> \o Tail(todo)
  BY <1>1 DEF RunRegister
\* The calls.
<1>5. /\ f \in Frame /\ ~OpCall(f) /\ CalledBy(c, f)
      /\ g \in Frame /\ CalledBy(c, g) /\ g.call = "admit" /\ g.op = c.op /\ OpCall(g)
  <2>1. ToSync(s, c.op, c.tags) \subseteq Streams
    BY <1>2, <1>3, ToSyncForms
  <2>2. f \in Frame /\ g \in Frame
    BY <1>2, <2>1, FramesMade
  <2>3. ~OpCall(f) /\ CalledBy(c, f)
    BY DEF OpCall, CalledBy, Resolve
  <2>4. Inherits(c, g)
    BY <1>1 DEF Inherits, Admit, OpCall, Asked, Again
  <2>5. g.call = "admit" /\ g.op = c.op /\ OpCall(g)
    BY DEF Admit, OpCall
  <2>6. CalledBy(c, g)
    BY <2>4, <2>5 DEF CalledBy
  <2> QED BY <2>2, <2>3, <2>5, <2>6
<1> HIDE DEF f, g
<1>6. todo' = <<f>> \o (<<g>> \o Tail(todo))
  <2>1. Tail(todo) \in Seq(Frame)
    BY <1>1, HeadForms
  <2> QED BY <1>4, <1>5, <2>1, PairPushed
<1>7. /\ todo' \in Seq(Frame) /\ Called(todo, todo', 2)
      /\ 2 \in DOMAIN todo' /\ todo'[2] = g
  BY <1>1, <1>5, <1>6, CalledTwo
<1>8. /\ Shape(todo') /\ AllFormed(todo') /\ Released(todo')
      /\ \A t : Live(todo', t) => Live(todo, t)
      /\ \A t : ToMake(todo', t) => ToMake(todo, t)
      /\ \A t : ToMake(todo, t) => ToMake(todo', t) \/ Makes(c.op, t)
  BY <1>1, <1>3, <1>7, CalledForms DEF TypesOK
<1>9. /\ Shape(todo)' /\ AllFormed(todo)' /\ Released(todo)'
      /\ \A t : Live(todo, t)' <=> Live(todo', t)
  BY <1>4, <1>8, CallsPrimed
<1>10. \A t : ToMake(todo', t) <=> ToMake(todo, t)
  BY <1>5, <1>7, <1>8 DEF ToMake
\* The tensors that are shared now.
<1>11. /\ SharedOK(shared')
       /\ foreign \subseteq Ids(c.op)
       /\ DOMAIN shared' = DOMAIN shared \cup foreign
       /\ \A t \in DOMAIN shared' : t \notin foreign => shared'[t] = shared[t]
       /\ \A t \in foreign :
            /\ c.tags[t] \in Streams /\ c.tags[t] # s
            /\ c.tags[t] \in DOMAIN shared'[t]
            /\ shared'[t][c.tags[t]].current = End(c.tags[t])
            /\ shared'[t][c.tags[t]].origin =
                 IF c.tags[t] \in DOMAIN States(t) THEN States(t)[c.tags[t]].origin
                 ELSE End(c.tags[t])
  <2>1. AnalysedOK(shared', s, c.op, c.tags)
    BY <1>2, <1>3, <1>4, AnalysedForms
  <2> QED BY <2>1 DEF AnalysedOK
<1>12. ASSUME NEW t \in foreign
       PROVE  /\ ~Makes(c.op, t) /\ c.tags[t] = origin[t] /\ origin[t] # NoStream
              /\ DOMAIN todo = {1}
  <2>1. ~Again(c)
    BY <1>1, <1>2, AgainForms
  <2>2. t \in Ids(c.op) /\ c.tags[t] # NoStream
    BY <1>11, <1>12 DEF Foreign
  <2> QED BY <1>2, <2>1, <2>2 DEF Formed
<1>13. TypesOK(streams, todo)'
  BY <1>3, <1>4, <1>7, <1>11 DEF TypesOK, SharedOK
<1>14. Fresh(streams)'
  BY <1>3, <1>4, <1>11, <1>12 DEF Fresh
<1>15. Last(streams, todo)'
  BY <1>3, <1>4, <1>8, <1>9 DEF Last
<1>16. Made(streams, todo)'
  BY <1>3, <1>4, <1>8, <1>9, <1>10 DEF Made
<1>17. New(todo)'
  <2>1. ASSUME NEW t \in Tensors, ToMake(todo', t) PROVE t \notin DOMAIN shared'
    <3>1. ToMake(todo, t) /\ t \notin DOMAIN shared
      BY <1>3, <1>8, <2>1 DEF New
    <3>2. CASE t \in foreign
      <4>1. Makes(c.op, t)
        BY <1>12, <3>1, <3>2 DEF ToMake
      <4> QED BY <1>12, <3>2, <4>1
    <3> QED BY <1>11, <3>1, <3>2
  <2> QED BY <2>1 DEF New
<1>18. Tracked(streams, todo)'
  <2>1. ASSUME NEW r \in Streams, NEW i \in DOMAIN streams[r].queue, NEW t \in Tensors,
               Makes(streams[r].queue[i], t)
        PROVE  /\ origin[t] = r
               /\ Live(todo, t)' =>
                    /\ streams[r].variables[t] # NoStream
                    /\ t \in DOMAIN shared' =>
                         /\ r \in DOMAIN shared'[t]
                         /\ shared'[t][r].current >= streams[r].cursor + i
                         /\ shared'[t][r].origin >= streams[r].cursor + i
    <3>1. origin[t] = r
      BY <1>3, <2>1 DEF Tracked
    <3>2. ASSUME Live(todo, t)'
          PROVE  /\ streams[r].variables[t] # NoStream
                 /\ t \in DOMAIN shared =>
                      /\ r \in DOMAIN shared[t]
                      /\ shared[t][r].current >= streams[r].cursor + i
                      /\ shared[t][r].origin >= streams[r].cursor + i
      BY <1>3, <1>8, <1>9, <2>1, <3>2 DEF Tracked
    <3>3. CASE t \notin foreign
      BY <1>11, <3>1, <3>2, <3>3
    <3>4. CASE t \in foreign
      <4>1. c.tags[t] = r
        BY <1>12, <3>1, <3>4
      <4>2. End(r) >= streams[r].cursor + i
        <5>1. streams[r].open
          <6>1. streams[r].queue # <<>>
            BY <2>1
          <6> QED BY <1>3, <6>1 DEF TypesOK
        <5>2. /\ streams[r].cursor \in Nat /\ Len(streams[r].queue) \in Nat
              /\ i \in 1 .. Len(streams[r].queue)
          BY <1>3, <2>1, StreamForms
        <5> QED BY <5>1, <5>2 DEF End
      <4>3. /\ r \in DOMAIN shared'[t]
            /\ shared'[t][r].current = End(r)
            /\ shared'[t][r].origin = IF r \in DOMAIN States(t) THEN States(t)[r].origin
                                      ELSE End(r)
        BY <1>11, <3>4, <4>1
      <4>4. r \in DOMAIN States(t) => t \in DOMAIN shared /\ States(t) = shared[t]
        BY DEF States, IsShared
      <4> QED BY <3>1, <3>2, <4>2, <4>3, <4>4
    <3> QED BY <3>3, <3>4
  <2>2. ASSUME NEW r \in Streams, NEW i \in DOMAIN streams'[r].queue, NEW t \in Tensors,
               Makes(streams'[r].queue[i], t)
        PROVE  /\ origin'[t] = r
               /\ Live(todo, t)' =>
                    /\ streams'[r].variables[t] # NoStream
                    /\ t \in DOMAIN shared' =>
                         /\ r \in DOMAIN shared'[t]
                         /\ shared'[t][r].current >= streams'[r].cursor + i
                         /\ shared'[t][r].origin >= streams'[r].cursor + i
    <3>1. streams' = streams /\ origin' = origin
      BY <1>4
    <3>2. i \in DOMAIN streams[r].queue /\ Makes(streams[r].queue[i], t)
      BY <2>2, <3>1
    <3>3. /\ origin[t] = r
          /\ Live(todo, t)' =>
               /\ streams[r].variables[t] # NoStream
               /\ t \in DOMAIN shared' =>
                    /\ r \in DOMAIN shared'[t]
                    /\ shared'[t][r].current >= streams[r].cursor + i
                    /\ shared'[t][r].origin >= streams[r].cursor + i
      BY <2>1, <3>2
    <3> QED BY <3>1, <3>3
  <2> QED BY <2>2 DEF Tracked
<1> QED BY <1>9, <1>13, <1>14, <1>15, <1>16, <1>17, <1>18 DEF LiveInv
-----------------------------------------------------------------------------
(* Admission                                                                 *)

\* Calls are made, drops are deferred, and what is not live stops being shared.
LEMMA AdmitStep ==
  ASSUME LiveInv(streams, todo), todo # <<>>, todo' \in Seq(Frame),
         NEW m \in Nat, Called(todo, todo', m),
         UNCHANGED <<origin, refs, streams, handles>>,
         manual' \subseteq Tensors,
         \A t \in manual' : t \in manual \/ (origin[t] # NoStream /\ ~Live(todo', t)),
         SharedOK(shared'), DOMAIN shared' \subseteq DOMAIN shared,
         \A t \in DOMAIN shared' : Live(todo', t) => shared'[t] = shared[t],
         \A t : OpCall(todo[1]) /\ Makes(todo[1].op, t) => ToMake(todo', t)
  PROVE  LiveInv(streams, todo)'
<1>1. /\ TypesOK(streams, todo) /\ Shape(todo) /\ AllFormed(todo) /\ Released(todo)
      /\ Fresh(streams) /\ Last(streams, todo) /\ Made(streams, todo)
      /\ Tracked(streams, todo) /\ New(todo)
      /\ todo \in Seq(Frame) /\ refs \in [Tensors -> Nat]
  BY DEF LiveInv, TypesOK
<1>2. /\ UNCHANGED <<origin, refs>>
      /\ origin' = origin /\ refs' = refs /\ streams' = streams /\ handles' = handles
  OBVIOUS
<1>3. /\ Shape(todo') /\ AllFormed(todo') /\ Released(todo')
      /\ \A t : Live(todo', t) => Live(todo, t)
      /\ \A t : ToMake(todo', t) <=> ToMake(todo, t)
  BY <1>1, CalledForms
<1>4. /\ Shape(todo)' /\ AllFormed(todo)' /\ Released(todo)'
      /\ \A t : Live(todo, t)' <=> Live(todo', t)
  BY <1>2, <1>3, CallsPrimed
<1>5. TypesOK(streams, todo)'
  BY <1>1, <1>2 DEF TypesOK, SharedOK
<1>6. Fresh(streams)'
  BY <1>1, <1>2 DEF Fresh
<1>7. Last(streams, todo)'
  BY <1>1, <1>2, <1>3, <1>4 DEF Last
<1>8. Made(streams, todo)'
  BY <1>1, <1>2, <1>3, <1>4 DEF Made
<1>9. New(todo)'
  BY <1>1, <1>3 DEF New
<1>10. Tracked(streams, todo)'
  <2>1. ASSUME NEW r \in Streams, NEW i \in DOMAIN streams[r].queue, NEW t \in Tensors,
               Makes(streams[r].queue[i], t)
        PROVE  /\ origin[t] = r
               /\ Live(todo, t)' =>
                    /\ streams[r].variables[t] # NoStream
                    /\ t \in DOMAIN shared' =>
                         /\ r \in DOMAIN shared'[t]
                         /\ shared'[t][r].current >= streams[r].cursor + i
                         /\ shared'[t][r].origin >= streams[r].cursor + i
    <3>1. origin[t] = r
      BY <1>1, <2>1 DEF Tracked
    <3>2. ASSUME Live(todo, t)'
          PROVE  /\ streams[r].variables[t] # NoStream
                 /\ t \in DOMAIN shared =>
                      /\ r \in DOMAIN shared[t]
                      /\ shared[t][r].current >= streams[r].cursor + i
                      /\ shared[t][r].origin >= streams[r].cursor + i
      BY <1>1, <1>3, <1>4, <2>1, <3>2 DEF Tracked
    <3>3. Live(todo, t)' /\ t \in DOMAIN shared' => t \in DOMAIN shared /\ shared'[t] = shared[t]
      BY <1>4
    <3> QED BY <3>1, <3>2, <3>3
  <2>2. \A r \in Streams : \A i \in DOMAIN streams'[r].queue : \A t \in Tensors :
          Makes(streams'[r].queue[i], t) =>
            /\ origin'[t] = r
            /\ Live(todo, t)' =>
                 /\ streams'[r].variables[t] # NoStream
                 /\ t \in DOMAIN shared' =>
                      /\ r \in DOMAIN shared'[t]
                      /\ shared'[t][r].current >= streams'[r].cursor + i
                      /\ shared'[t][r].origin >= streams'[r].cursor + i
    BY <1>2, <2>1
  <2> QED BY <2>2 DEF Tracked
<1> QED BY <1>4, <1>5, <1>6, <1>7, <1>8, <1>9, <1>10 DEF LiveInv

LEMMA MarkForms ==
  ASSUME NEW op \in Op, NEW ts
  PROVE  LET marked == MarkReadOnly(op, ts)
         IN /\ marked \in Op
            /\ marked.drop = op.drop
            /\ Ids(marked) = Ids(op)
            /\ \A t : Makes(marked, t) <=> Makes(op, t)
            /\ \A t : Ends(marked, t) <=> Ends(op, t) /\ t \notin ts
            /\ ts = {} => marked = op
            /\ Inputs(marked) = Inputs(op)
<1> DEFINE Mark(n) == [n EXCEPT !.status = IF n.id \in ts /\ n.status = "ReadWrite"
                                          THEN "ReadOnly" ELSE n.status]
           marked == MarkReadOnly(op, ts)
<1>1. marked = [op EXCEPT !.nodes = {Mark(n) : n \in op.nodes}]
  BY DEF MarkReadOnly
<1>2. op = [nodes |-> op.nodes, drop |-> op.drop] /\ op.nodes \subseteq Node /\ op.drop \in BOOLEAN
  BY DEF Op
<1>3. marked.nodes = {Mark(n) : n \in op.nodes} /\ marked.drop = op.drop
      /\ marked = [nodes |-> marked.nodes, drop |-> op.drop]
  BY <1>1, <1>2
<1> HIDE DEF marked
<1>4. \A n \in op.nodes :
        /\ n = [id |-> n.id, status |-> n.status] /\ n.id \in Tensors /\ n.status \in Status
        /\ Mark(n) = [id |-> n.id, status |-> IF n.id \in ts /\ n.status = "ReadWrite"
                                              THEN "ReadOnly" ELSE n.status]
  BY <1>2 DEF Node
<1>5. \A n \in op.nodes :
        /\ Mark(n).id = n.id
        /\ Mark(n).status = IF n.id \in ts /\ n.status = "ReadWrite"
                            THEN "ReadOnly" ELSE n.status
        /\ Mark(n) \in Node
  <2>1. ASSUME NEW n \in op.nodes
        PROVE  /\ Mark(n).id = n.id
               /\ Mark(n).status = IF n.id \in ts /\ n.status = "ReadWrite"
                                   THEN "ReadOnly" ELSE n.status
               /\ Mark(n) \in Node
    <3> DEFINE status == IF n.id \in ts /\ n.status = "ReadWrite" THEN "ReadOnly" ELSE n.status
               m == Mark(n)
    <3>1. m = [id |-> n.id, status |-> status] /\ n.id \in Tensors
      BY <1>4
    <3>2. status \in Status
      BY <1>4 DEF Status
    <3> HIDE DEF m, status
    <3>3. m.id = n.id /\ m.status = status /\ m \in Node
      BY <3>1, <3>2 DEF Node
    <3> QED BY <3>3 DEF m, status
  <2> QED BY <2>1
<1> HIDE DEF Mark
<1>6. marked \in Op
  <2>1. marked.nodes \subseteq Node
    BY <1>3, <1>5
  <2> QED BY <1>2, <1>3, <2>1 DEF Op
<1>7. Ids(marked) = Ids(op)
  BY <1>3, <1>5 DEF Ids
<1>8. ASSUME NEW t PROVE Makes(marked, t) <=> Makes(op, t)
  <2>1. ASSUME Makes(op, t) PROVE Makes(marked, t)
    <3>1. PICK n \in op.nodes : n = [id |-> t, status |-> "NotInit"]
      BY <2>1 DEF Makes
    <3>2. Mark(n) = [id |-> t, status |-> "NotInit"]
      BY <1>4, <3>1
    <3> QED BY <1>3, <3>2 DEF Makes
  <2>2. ASSUME Makes(marked, t) PROVE Makes(op, t)
    <3>1. PICK n \in op.nodes : Mark(n) = [id |-> t, status |-> "NotInit"]
      BY <1>3, <2>2 DEF Makes
    <3>2. n.id = t /\ n.status = "NotInit"
      BY <1>5, <3>1
    <3> QED BY <1>4, <3>2 DEF Makes
  <2> QED BY <2>1, <2>2
<1>9. ASSUME NEW t PROVE Ends(marked, t) <=> Ends(op, t) /\ t \notin ts
  <2>1. ASSUME Ends(op, t), t \notin ts PROVE Ends(marked, t)
    <3>1. PICK n \in op.nodes : n = [id |-> t, status |-> "ReadWrite"]
      BY <2>1 DEF Ends
    <3>2. Mark(n) = [id |-> t, status |-> "ReadWrite"]
      BY <1>4, <2>1, <3>1
    <3> QED BY <1>3, <3>2 DEF Ends
  <2>2. ASSUME Ends(marked, t) PROVE Ends(op, t) /\ t \notin ts
    <3>1. PICK n \in op.nodes : Mark(n) = [id |-> t, status |-> "ReadWrite"]
      BY <1>3, <2>2 DEF Ends
    <3>2. n.id = t /\ n.status = "ReadWrite" /\ t \notin ts
      BY <1>5, <3>1
    <3> QED BY <1>4, <3>2 DEF Ends
  <2> QED BY <2>1, <2>2
<1>10. ts = {} => marked = op
  <2>1. ASSUME ts = {} PROVE marked.nodes = op.nodes
    <3>1. \A n \in op.nodes : Mark(n) = n
      BY <1>4, <2>1
    <3> QED BY <1>3, <3>1
  <2> QED BY <1>2, <1>3, <2>1
<1>11. Inputs(marked) = Inputs(op)
  <2>1. \A n \in op.nodes : (Mark(n).status # "NotInit" <=> n.status # "NotInit") /\ Mark(n).id = n.id
    BY <1>5
  <2>2. {n.id : n \in {m \in marked.nodes : m.status # "NotInit"}}
          = {n.id : n \in {m \in op.nodes : m.status # "NotInit"}}
    <3>1. ASSUME NEW n \in op.nodes, n.status # "NotInit"
          PROVE  \E m \in marked.nodes : m.status # "NotInit" /\ m.id = n.id
      BY <1>3, <2>1, <3>1
    <3>2. ASSUME NEW m \in marked.nodes, m.status # "NotInit"
          PROVE  \E n \in op.nodes : n.status # "NotInit" /\ m.id = n.id
      BY <1>3, <2>1, <3>2
    <3> QED BY <3>1, <3>2
  <2> QED BY <1>3, <2>2 DEF Inputs
<1> QED BY <1>3, <1>6, <1>7, <1>8, <1>9, <1>10, <1>11 DEF marked

LEMMA TaggedForms ==
  ASSUME NEW op \in Op, NEW ts, NEW t \in Tagged(op, ts)
  PROVE  t \in ts /\ Ends(op, t) /\ t \in Ids(op)
<1>1. PICK n \in op.nodes : n.id = t /\ n.id \in ts /\ n.status = "ReadWrite"
  BY DEF Tagged
<1>2. n = [id |-> t, status |-> "ReadWrite"]
  BY <1>1, OpForms
<1> QED BY <1>1, <1>2, OpForms DEF Ends

\* When the operation of a client is alone and goes on as one that is not asked
\* for any more, only what clients hold is live.
LEMMA AloneLive ==
  ASSUME NEW td \in Seq(Frame), DOMAIN td = {1},
         NEW td2 \in Seq(Frame), NEW m \in Nat, Called(td, td2, m),
         \A i \in DOMAIN td2 : i <= m => ~Asked(td2[i])
  PROVE  \A t : Live(td2, t) <=> refs[t] > 0
<1>1. \A i \in DOMAIN td2 : i <= m
  <2>1. \A i \in DOMAIN td2 : i > m => FALSE
    BY DEF Called, Below
  <2>2. \A i \in DOMAIN td2 : i \in Nat
    BY LenProperties
  <2> QED BY <2>1, <2>2
<1> QED BY <1>1 DEF Live
LEMMA StepAdmit ==
  ASSUME LiveInv(streams, todo), RunAdmit
  PROVE  LiveInv(streams, todo)'
<1> DEFINE c == todo[1]
           s == c.stream
           foreign == Foreign(s, c.op, c.tags)
<1>1. /\ todo \in Seq(Frame) /\ todo # <<>>
      /\ Head(todo) = c /\ c \in Frame /\ c.call = "admit" /\ OpCall(c)
  BY HeadForms DEF RunAdmit, Calling, LiveInv, TypesOK, OpCall
<1>2. /\ s \in Streams /\ c.op \in Op /\ c.tags \in Variables
      /\ Formed(c)
      /\ Again(c) \/ (Len(todo) = 1 /\ DOMAIN todo = {1})
  BY <1>1, OpHead
<1>3. UNCHANGED <<origin, refs, streams, handles>>
  BY DEF RunAdmit
<1>4. SharedOK(shared) /\ manual \subseteq Tensors /\ refs \in [Tensors -> Nat]
  BY DEF LiveInv, TypesOK, SharedOK
<1>5. foreign \subseteq Ids(c.op) /\ Ids(c.op) \subseteq Tensors
  BY <1>2, OpForms DEF Foreign
<1>6. foreign # {} => ~Again(c) /\ DOMAIN todo = {1}
  BY <1>1, <1>2, AgainForms
\* What is released is not live when the operation is on its way.
<1>7. ASSUME NEW m \in Nat, todo' \in Seq(Frame), Called(todo, todo', m), foreign # {},
             \A i \in DOMAIN todo' : i <= m => ~Asked(todo'[i]),
             NEW t \in Ids(c.op), Ends(c.op, t)
      PROVE  origin[t] # NoStream /\ ~Live(todo', t)
  <2>1. origin[t] # NoStream /\ refs[t] = 0
    BY <1>2, <1>7 DEF Formed
  <2>2. Live(todo', t) <=> refs[t] > 0
    BY <1>1, <1>6, <1>7, AloneLive
  <2> QED BY <2>1, <2>2
<1>8. ASSUME c.op.drop
      PROVE  \A t \in Ids(c.op) : Ends(c.op, t) /\ ~Makes(c.op, t)
  <2>1. PICK t \in Tensors : c.op = DropOf(t)
    BY <1>2, <1>8 DEF Formed
  <2> QED BY <2>1, DropOfForms
\* A call to go on with.
<1>9. ASSUME NEW op \in Op, NEW sync \in BOOLEAN,
             todo' = <<Process(s, op, c.tags, sync)>> \o Tail(todo),
             op.drop = c.op.drop, op.drop => op = c.op, Ids(op) = Ids(c.op),
             \A t : Makes(op, t) <=> Makes(c.op, t),
             \A t : Ends(op, t) => Ends(c.op, t)
      PROVE  /\ todo' \in Seq(Frame) /\ Called(todo, todo', 1)
             /\ \A t : Makes(c.op, t) => ToMake(todo', t)
             /\ \A i \in DOMAIN todo' : i <= 1 => ~Asked(todo'[i])
  <2> DEFINE f == Process(s, op, c.tags, sync)
  <2>1. f \in Frame
    BY <1>2, FramesMade
  <2>2. /\ f.call = "process" /\ f.op = op /\ f.tags = c.tags /\ f.stream = s
        /\ OpCall(f) /\ ~Asked(f)
    BY DEF Process, OpCall, Asked
  <2> HIDE DEF f
  <2>3. CalledBy(c, f)
    BY <1>1, <1>9, <2>2 DEF CalledBy, Inherits
  <2>4. /\ todo' \in Seq(Frame) /\ Called(todo, todo', 1)
        /\ todo'[1] = f /\ 1 \in DOMAIN todo'
    BY <1>1, <1>9, <2>1, <2>3, CalledOne DEF f
  <2>5. \A i \in DOMAIN todo' : i <= 1 => i = 1
    BY <2>4, LenProperties
  <2> QED BY <1>9, <2>2, <2>4, <2>5 DEF ToMake
<1>10. CASE /\ c.op.drop => foreign = {}
            /\ manual' = manual \cup Tagged(c.op, foreign)
            /\ \E sync \in BOOLEAN :
                 todo' = <<Process(s, MarkReadOnly(c.op, foreign), c.tags, sync)>> \o Tail(todo)
            /\ shared' = shared
  <2> DEFINE op == MarkReadOnly(c.op, foreign)
  <2>1. PICK sync \in BOOLEAN : todo' = <<Process(s, op, c.tags, sync)>> \o Tail(todo)
    BY <1>10
  <2>2. /\ op \in Op /\ op.drop = c.op.drop /\ Ids(op) = Ids(c.op)
        /\ \A t : Makes(op, t) <=> Makes(c.op, t)
        /\ \A t : Ends(op, t) => Ends(c.op, t)
        /\ foreign = {} => op = c.op
    BY <1>2, MarkForms
  <2> HIDE DEF op, foreign
  <2>3. /\ todo' \in Seq(Frame) /\ Called(todo, todo', 1)
        /\ \A t : Makes(c.op, t) => ToMake(todo', t)
        /\ \A i \in DOMAIN todo' : i <= 1 => ~Asked(todo'[i])
    BY <1>9, <1>10, <2>1, <2>2
  <2>4. \A t \in manual' : t \in manual \/ (origin[t] # NoStream /\ ~Live(todo', t))
    <3>1. ASSUME NEW t \in Tagged(c.op, foreign) PROVE origin[t] # NoStream /\ ~Live(todo', t)
      <4>1. t \in foreign /\ Ends(c.op, t) /\ t \in Ids(c.op)
        BY <1>2, <3>1, TaggedForms
      <4> QED BY <1>7, <2>3, <4>1
    <3> QED BY <1>10, <3>1
  <2>5. manual' \subseteq Tensors
    <3>1. Tagged(c.op, foreign) \subseteq Tensors
      BY <1>2, <1>5, TaggedForms
    <3> QED BY <1>4, <1>10, <3>1
  <2> QED BY <1>1, <1>3, <1>4, <1>10, <2>3, <2>4, <2>5, AdmitStep
<1>11. CASE /\ c.op.drop /\ foreign # {}
            /\ manual' = manual \ foreign
            /\ shared' = Restrict(shared, DOMAIN shared \ foreign)
            /\ todo' = <<Process(s, c.op, c.tags, TRUE)>> \o Tail(todo)
  <2>1. /\ todo' \in Seq(Frame) /\ Called(todo, todo', 1)
        /\ \A t : Makes(c.op, t) => ToMake(todo', t)
    BY <1>2, <1>9, <1>11
  <2>2. /\ DOMAIN shared' = DOMAIN shared \ foreign
        /\ \A t \in DOMAIN shared' : shared'[t] = shared[t]
    BY <1>11 DEF Restrict
  <2>3. SharedOK(shared')
    BY <1>4, <2>2 DEF SharedOK
  <2>4. manual' \subseteq Tensors /\ manual' \subseteq manual
    BY <1>4, <1>11
  <2> QED BY <1>1, <1>3, <2>1, <2>2, <2>3, <2>4, AdmitStep
<1>12. ASSUME c.op.drop, NEW t \in foreign, ~ForceDrop(s, t),
              shared' = IF streams[s].open THEN shared
                        ELSE [shared EXCEPT ![t] = Restrict(@, DOMAIN @ \ {s})],
              manual' = manual \cup {t},
              todo' = Tail(todo)
       PROVE  LiveInv(streams, todo)'
  <2>1. todo' \in Seq(Frame) /\ Called(todo, todo', 0)
    BY <1>1, <1>12, CalledNone
  <2>2. /\ Ends(c.op, t) /\ t \in Ids(c.op) /\ t \in Tensors
        /\ \A u : ~Makes(c.op, u)
    BY <1>2, <1>5, <1>8, <1>12, OpForms
  <2>3. \A i \in DOMAIN todo' : ~(i <= 0)
    BY <2>1, LenProperties
  <2>4. origin[t] # NoStream /\ ~Live(todo', t)
    BY <1>7, <1>12, <2>1, <2>2, <2>3
  <2>5. t \in DOMAIN shared
    BY <1>12 DEF ForceDrop, IsShared
  <2>6. /\ DOMAIN shared' = DOMAIN shared
        /\ \A u \in DOMAIN shared : u # t => shared'[u] = shared[u]
        /\ \/ shared'[t] = shared[t]
           \/ shared'[t] = Restrict(shared[t], DOMAIN shared[t] \ {s})
    BY <1>12, <2>5
  <2>7. SharedOK(shared')
    <3>1. ASSUME NEW u \in DOMAIN shared
          PROVE  /\ DOMAIN shared'[u] \subseteq Streams
                 /\ \A r \in DOMAIN shared'[u] : shared'[u][r] \in [current: Nat, origin: Nat]
      <4>1. \A S : DOMAIN Restrict(shared[t], S) = S /\ \A r \in S : Restrict(shared[t], S)[r] = shared[t][r]
        BY DEF Restrict
      <4> QED BY <1>4, <2>6, <4>1 DEF SharedOK
    <3> QED BY <1>4, <2>6, <3>1 DEF SharedOK
  <2>8. manual' \subseteq Tensors
    BY <1>4, <1>12, <2>2
  <2>9. \A u \in manual' : u \in manual \/ (origin[u] # NoStream /\ ~Live(todo', u))
    BY <1>12, <2>4
  <2>10. \A u \in DOMAIN shared' : Live(todo', u) => shared'[u] = shared[u]
    BY <2>4, <2>6
  <2> QED BY <1>1, <1>3, <2>1, <2>2, <2>6, <2>7, <2>8, <2>9, <2>10, AdmitStep
<1>13. \/ /\ c.op.drop => foreign = {}
          /\ manual' = manual \cup Tagged(c.op, foreign)
          /\ \E sync \in BOOLEAN :
               todo' = <<Process(s, MarkReadOnly(c.op, foreign), c.tags, sync)>> \o Tail(todo)
          /\ shared' = shared
       \/ /\ c.op.drop /\ foreign # {}
          /\ manual' = manual \ foreign
          /\ shared' = Restrict(shared, DOMAIN shared \ foreign)
          /\ todo' = <<Process(s, c.op, c.tags, TRUE)>> \o Tail(todo)
       \/ /\ c.op.drop
          /\ \E t \in foreign :
               /\ ~ForceDrop(s, t)
               /\ shared' = IF streams[s].open THEN shared
                            ELSE [shared EXCEPT ![t] = Restrict(@, DOMAIN @ \ {s})]
               /\ manual' = manual \cup {t}
          /\ todo' = Tail(todo)
  <2>1. (c.op.drop /\ ((\E t \in Ids(c.op) : IsShared(t)) \/ ContinueDropDrain)) \in BOOLEAN
    OBVIOUS
  <2> QED BY <1>1, <2>1 DEF RunAdmit
<1> QED BY <1>10, <1>11, <1>12, <1>13
-----------------------------------------------------------------------------
(* Execution                                                                 *)

\* The handles after each of the first operations of a queue.
LEMMA HandlesAfterForms ==
  ASSUME NEW queue \in Seq(Op), NEW k \in 0 .. Len(queue)
  PROVE  /\ HandlesAfter(queue, k)[0] = handles
         /\ \A i \in 1 .. k : HandlesAfter(queue, k)[i] = After(HandlesAfter(queue, k)[i - 1], queue[i])
<1>1. /\ k \in Nat /\ Len(queue) \in Nat
      /\ \A i \in 1 .. k : queue[i] \in Op /\ i \in DOMAIN queue
  BY LenProperties, ElementOfSeq
<1> DEFINE V == SUBSET (handles \cup Tensors)
           step == [i \in 1 .. k |-> [held \in V |-> After(held, queue[i])]]
           Step(f) == [i \in 0 .. k |-> IF i = 0 THEN handles ELSE After(f[i - 1], queue[i])]
<1>2. \A i \in 1 .. k : \A held \in V : After(held, queue[i]) \in V
  <2>1. ASSUME NEW i \in 1 .. k PROVE \A n \in queue[i].nodes : n.id \in Tensors
    BY <1>1, OpForms
  <2> QED BY <2>1 DEF After
<1>3. step \in [1 .. k -> [V -> V]]
  BY <1>2
<1>4. \A i \in 1 .. k : \A held \in V : step[i][held] = After(held, queue[i])
  OBVIOUS
<1>5. handles \in V
  OBVIOUS
<1> HIDE DEF step, V
<1>6. PICK g : Iterates(k, handles, step, g, V)
  BY <1>1, <1>3, <1>5, IterationExists
<1>7. g = Step(g)
  <2>1. g \in [0 .. k -> V] /\ \A i \in 0 .. k : g[i] = IF i = 0 THEN handles ELSE step[i][g[i - 1]]
    BY <1>6 DEF Iterates
  <2>2. \A i \in 0 .. k : i # 0 => i \in 1 .. k /\ g[i - 1] \in V
    BY <1>1, <2>1
  <2>3. \A i \in 0 .. k : g[i] = IF i = 0 THEN handles ELSE After(g[i - 1], queue[i])
    BY <1>4, <2>1, <2>2
  <2> QED BY <2>1, <2>3
<1>8. HandlesAfter(queue, k) = CHOOSE f : f = Step(f)
  BY DEF HandlesAfter
<1>9. HandlesAfter(queue, k) = Step(HandlesAfter(queue, k))
  BY <1>7, <1>8
<1> DEFINE h == HandlesAfter(queue, k)
<1>10. \A i \in 0 .. k : h[i] = IF i = 0 THEN handles ELSE After(h[i - 1], queue[i])
  <2> HIDE DEF h
  <2>1. h = Step(h)
    BY <1>9 DEF h
  <2> QED BY <2>1
<1> HIDE DEF h
<1>11. 0 \in 0 .. k /\ \A i \in 1 .. k : i \in 0 .. k /\ i # 0
  BY <1>1
<1>12. h[0] = handles /\ \A i \in 1 .. k : h[i] = After(h[i - 1], queue[i])
  BY <1>10, <1>11
<1> QED BY <1>12 DEF h

LEMMA AfterForms ==
  ASSUME NEW op \in Op, NEW held, NEW t
  PROVE  /\ Makes(op, t) => t \in After(held, op)
         /\ t \in held /\ ~Ends(op, t) => t \in After(held, op)
         /\ t \in After(held, op) => Makes(op, t) \/ (t \in held /\ ~Ends(op, t))
<1>1. t \in {n.id : n \in {m \in op.nodes : m.status = "NotInit"}} <=> Makes(op, t)
  <2>1. ASSUME Makes(op, t) PROVE \E n \in op.nodes : n.status = "NotInit" /\ n.id = t
    <3>1. PICK n \in op.nodes : n = [id |-> t, status |-> "NotInit"]
      BY <2>1 DEF Makes
    <3> QED BY <3>1
  <2>2. ASSUME NEW n \in op.nodes, n.status = "NotInit", n.id = t PROVE Makes(op, t)
    <3>1. n = [id |-> t, status |-> "NotInit"]
      BY <2>2, OpForms
    <3> QED BY <3>1 DEF Makes
  <2> QED BY <2>1, <2>2
<1>2. t \in {n.id : n \in {m \in op.nodes : m.status = "ReadWrite"}} <=> Ends(op, t)
  <2>1. ASSUME Ends(op, t) PROVE \E n \in op.nodes : n.status = "ReadWrite" /\ n.id = t
    <3>1. PICK n \in op.nodes : n = [id |-> t, status |-> "ReadWrite"]
      BY <2>1 DEF Ends
    <3> QED BY <3>1
  <2>2. ASSUME NEW n \in op.nodes, n.status = "ReadWrite", n.id = t PROVE Ends(op, t)
    <3>1. n = [id |-> t, status |-> "ReadWrite"]
      BY <2>2, OpForms
    <3> QED BY <3>1 DEF Ends
  <2> QED BY <2>1, <2>2
<1> QED BY <1>1, <1>2 DEF After

\* A handle that nothing releases after operation a stays.
LEMMA HandleStays ==
  ASSUME NEW queue \in Seq(Op), NEW k \in 0 .. Len(queue), NEW t,
         NEW a \in 0 .. k, NEW b \in a .. k, t \in HandlesAfter(queue, k)[a],
         \A i \in 1 .. k : i > a /\ i <= b => ~Ends(queue[i], t)
  PROVE  t \in HandlesAfter(queue, k)[b]
<1> DEFINE h == HandlesAfter(queue, k)
           S == {i \in a .. b : t \in h[i]}
<1>1. /\ k \in Nat /\ Len(queue) \in Nat /\ a \in Nat /\ b \in Nat /\ a <= b /\ b <= k
      /\ \A i \in 1 .. k : queue[i] \in Op
  BY LenProperties, ElementOfSeq
<1>2. \A i \in 1 .. k : h[i] = After(h[i - 1], queue[i])
  BY HandlesAfterForms
<1> HIDE DEF h
<1>3. a \in S
  BY <1>1 DEF h
<1>4. ASSUME NEW i \in a .. b - 1, i \in S PROVE i + 1 \in S
  <2>1. i + 1 \in 1 .. k /\ i + 1 > a /\ i + 1 <= b /\ i + 1 \in a .. b /\ (i + 1) - 1 = i
    BY <1>1
  <2>2. h[i + 1] = After(h[i], queue[i + 1])
    BY <1>2, <2>1
  <2>3. t \in h[i] /\ ~Ends(queue[i + 1], t) /\ queue[i + 1] \in Op
    BY <1>1, <1>4, <2>1
  <2> QED BY <2>1, <2>2, <2>3, AfterForms
<1>5. \A i \in a .. b : i \in S
  <2> HIDE DEF S
  <2>1. \A i \in a .. b - 1 : i \in S => i + 1 \in S
    BY <1>4
  <2> QED BY <1>1, <1>3, <2>1, Climb
<1>6. b \in S
  <2> HIDE DEF S
  <2>1. b \in a .. b
    BY <1>1
  <2> QED BY <1>5, <2>1
<1> QED BY <1>6 DEF h

\* What has a handle, or is made, and is not released, has one at the end.
LEMMA HandlesKept ==
  ASSUME NEW queue \in Seq(Op), NEW k \in 0 .. Len(queue), NEW t,
         \A i \in 1 .. k : ~Ends(queue[i], t)
  PROVE  /\ t \in handles => t \in HandlesAfter(queue, k)[k]
         /\ (\E i \in 1 .. k : Makes(queue[i], t)) => t \in HandlesAfter(queue, k)[k]
<1>1. /\ k \in Nat /\ Len(queue) \in Nat /\ 0 \in 0 .. k /\ k \in 0 .. k
      /\ \A i \in 1 .. k : queue[i] \in Op
  BY LenProperties, ElementOfSeq
<1>2. /\ HandlesAfter(queue, k)[0] = handles
      /\ \A i \in 1 .. k : HandlesAfter(queue, k)[i] = After(HandlesAfter(queue, k)[i - 1], queue[i])
  BY HandlesAfterForms
<1>3. ASSUME t \in handles PROVE t \in HandlesAfter(queue, k)[k]
  BY <1>1, <1>2, <1>3, HandleStays
<1>4. ASSUME NEW i \in 1 .. k, Makes(queue[i], t) PROVE t \in HandlesAfter(queue, k)[k]
  <2>1. t \in HandlesAfter(queue, k)[i]
    BY <1>1, <1>2, <1>4, AfterForms
  <2>2. i \in 0 .. k /\ k \in i .. k
    BY <1>1
  <2> QED BY <2>1, <2>2, HandleStays
<1> QED BY <1>3, <1>4
\* t may still be shared with stream r when stream s was executed up to cursor.
Retained(t, r, s, cursor) ==
  r \in DOMAIN shared[t] /\ (r = s => shared[t][r].current > cursor)

\* What an execution of the first k operations of stream s leaves.
StreamsAfter(st, s, k) ==
  /\ streams' \in [Streams -> StreamType]
  /\ \A r \in Streams : ~streams'[r].open => streams'[r] = Closed
  /\ streams'[s].open
  /\ streams'[s].queue = SubSeq(st[s].queue, k + 1, Len(st[s].queue))
  /\ streams'[s].cursor = st[s].cursor + k
  /\ \A r \in Streams : r # s /\ streams'[r].open =>
       /\ st[r].open
       /\ streams'[r].queue = st[r].queue
       /\ streams'[r].cursor = st[r].cursor
  /\ \A r \in Streams, t \in Tensors :
       streams'[r].variables[t] # NoStream => streams'[r].variables[t] = st[r].variables[t]
  /\ \A r \in Streams, t \in Tensors :
       /\ st[r].open /\ st[r].variables[t] # NoStream
       /\ t \in DOMAIN shared => Retained(t, r, s, st[s].cursor + k)
       /\ t \notin manual \/ st[r].variables[t] = r
       /\ r = s => \A i \in 1 .. k : ~Ends(st[s].queue[i], t)
       => streams'[r].open /\ streams'[r].variables[t] = st[r].variables[t]

SharedAfter(s, cursor) ==
  /\ SharedOK(shared')
  /\ DOMAIN shared' \subseteq DOMAIN shared
  /\ \A t \in DOMAIN shared' :
       /\ DOMAIN shared'[t] \subseteq DOMAIN shared[t]
       /\ \A r \in DOMAIN shared'[t] :
            shared'[t][r] = shared[t][r] /\ Retained(t, r, s, cursor)
  /\ \A t \in DOMAIN shared : \A r \in DOMAIN shared[t] :
       Retained(t, r, s, cursor) => t \in DOMAIN shared' /\ r \in DOMAIN shared'[t]

\* What on_executed_ops() and clear_shared_tensors() leave.
UpdatedOK(new, s, cursor) ==
  /\ SharedOK(new)
  /\ DOMAIN new = DOMAIN shared \ Cleared(s, cursor)
  /\ \A t \in DOMAIN new :
       /\ DOMAIN new[t] \subseteq DOMAIN shared[t]
       /\ \A r \in DOMAIN new[t] :
            new[t][r] = shared[t][r] /\ Retained(t, r, s, cursor)
  /\ \A t \in DOMAIN shared : \A r \in DOMAIN shared[t] :
       Retained(t, r, s, cursor) =>
         /\ t \notin Cleared(s, cursor)
         /\ r = s => t \notin Done(s, cursor)
         /\ r \in DOMAIN new[t]

LEMMA UpdatedForms ==
  ASSUME SharedOK(shared), NEW s \in Streams, NEW cursor \in Nat
  PROVE  UpdatedOK(Restrict(Updated(s, cursor), DOMAIN shared \ Cleared(s, cursor)), s, cursor)
<1> DEFINE up == Updated(s, cursor)
           new == Restrict(up, DOMAIN shared \ Cleared(s, cursor))
<1>1. /\ DOMAIN up = DOMAIN shared
      /\ \A t \in DOMAIN shared :
           /\ t \in Done(s, cursor) => up[t] = Restrict(shared[t], DOMAIN shared[t] \ {s})
           /\ t \notin Done(s, cursor) => up[t] = shared[t]
  BY DEF Updated
<1>2. \A t : t \in Cleared(s, cursor) <=> t \in DOMAIN shared /\ DOMAIN up[t] = {}
  BY DEF Cleared
<1>3. \A t : t \in Done(s, cursor) <=>
        t \in DOMAIN shared /\ s \in DOMAIN shared[t] /\ shared[t][s].current <= cursor
  BY DEF Done
<1>4. /\ DOMAIN new = DOMAIN shared \ Cleared(s, cursor)
      /\ \A t \in DOMAIN new : new[t] = up[t]
  BY <1>1 DEF Restrict
<1> HIDE DEF up, new
<1>5. \A t \in DOMAIN shared : \A r \in DOMAIN shared[t] : shared[t][r].current \in Nat
  BY DEF SharedOK
<1>6. ASSUME NEW t \in DOMAIN shared
      PROVE  /\ DOMAIN up[t] \subseteq DOMAIN shared[t]
             /\ \A r \in DOMAIN shared[t] : r \in DOMAIN up[t] <=> Retained(t, r, s, cursor)
             /\ \A r \in DOMAIN up[t] : up[t][r] = shared[t][r]
  <2>1. CASE t \in Done(s, cursor)
    <3>1. DOMAIN up[t] = DOMAIN shared[t] \ {s} /\ \A r \in DOMAIN up[t] : up[t][r] = shared[t][r]
      BY <1>1, <2>1 DEF Restrict
    <3>2. ~(shared[t][s].current > cursor) /\ s \in DOMAIN shared[t]
      BY <1>3, <1>5, <2>1
    <3> QED BY <3>1, <3>2 DEF Retained
  <2>2. CASE t \notin Done(s, cursor)
    <3>1. up[t] = shared[t]
      BY <1>1, <2>2
    <3>2. s \in DOMAIN shared[t] => shared[t][s].current > cursor
      BY <1>3, <1>5, <2>2
    <3> QED BY <3>1, <3>2 DEF Retained
  <2> QED BY <2>1, <2>2
<1>7. SharedOK(new)
  BY <1>4, <1>6 DEF SharedOK
<1>8. \A t \in DOMAIN new :
        /\ DOMAIN new[t] \subseteq DOMAIN shared[t]
        /\ \A r \in DOMAIN new[t] : new[t][r] = shared[t][r] /\ Retained(t, r, s, cursor)
  BY <1>4, <1>6
<1>9. ASSUME NEW t \in DOMAIN shared, NEW r \in DOMAIN shared[t], Retained(t, r, s, cursor)
      PROVE  /\ t \notin Cleared(s, cursor)
             /\ r = s => t \notin Done(s, cursor)
             /\ r \in DOMAIN new[t]
  <2>1. r \in DOMAIN up[t]
    BY <1>6, <1>9
  <2>2. t \notin Cleared(s, cursor)
    BY <1>2, <2>1
  <2>3. r = s => t \notin Done(s, cursor)
    BY <1>3, <1>5, <1>9 DEF Retained
  <2> QED BY <1>4, <2>1, <2>2, <2>3
<1>10. UpdatedOK(new, s, cursor)
  BY <1>4, <1>7, <1>8, <1>9 DEF UpdatedOK
<1> QED BY <1>10 DEF new, up

LEMMA WithVariables ==
  ASSUME NEW stream \in StreamType, NEW vs \in Variables
  PROVE  /\ [stream EXCEPT !.variables = vs].open = stream.open
         /\ [stream EXCEPT !.variables = vs].queue = stream.queue
         /\ [stream EXCEPT !.variables = vs].variables = vs
         /\ [stream EXCEPT !.variables = vs].cursor = stream.cursor
         /\ [stream EXCEPT !.variables = vs] \in StreamType
BY DEF StreamType

LEMMA ExecuteForms ==
  ASSUME NEW st \in [Streams -> StreamType], NEW s \in Streams, st[s].open,
         \A r \in Streams : r # s => st[r] = streams[r],
         \A r \in Streams : ~st[r].open => st[r].queue = <<>>,
         NEW k \in 0 .. Len(st[s].queue), NEW td,
         Execute(s, st[s], k, td), SharedOK(shared), manual \subseteq Tensors
  PROVE  /\ StreamsAfter(st, s, k)
         /\ SharedAfter(s, st[s].cursor + k)
         /\ handles' = HandlesAfter(st[s].queue, k)[k]
         /\ \E dropped \in SUBSET manual :
              /\ manual' = manual \ dropped
              /\ dropped = {t \in manual : t \notin DOMAIN shared'}
              /\ todo' = <<DropShared(s, dropped)>> \o td
<1> DEFINE stream == st[s]
           cursor == stream.cursor + k
           done == Done(s, cursor)
           cleared == Cleared(s, cursor)
           after(r) == IF r = s THEN Executed(stream, k) ELSE streams[r]
           kept(r) == {t \in Tensors \ cleared : ~(r = s /\ t \in done)}
           vars1(r) == [t \in Tensors |-> IF t \in kept(r) THEN after(r).variables[t] ELSE NoStream]
           open(r) == after(r).open /\ (r = s \/ vars1(r) # NoVariables)
           dropped == {t \in manual : t \notin DOMAIN shared \ cleared}
           vars2(r) == [t \in Tensors |->
                          IF t \in dropped /\ vars1(r)[t] # r THEN NoStream ELSE vars1(r)[t]]
<1>1. /\ streams' = [r \in Streams |->
                       IF open(r) THEN [after(r) EXCEPT !.variables = vars2(r)] ELSE Closed]
      /\ shared' = Restrict(Updated(s, cursor), DOMAIN shared \ cleared)
      /\ manual' = manual \ dropped
      /\ handles' = HandlesAfter(stream.queue, k)[k]
      /\ todo' = <<DropShared(s, dropped)>> \o td
  BY DEF Execute
<1>2. /\ stream.queue \in Seq(Op) /\ Len(stream.queue) \in Nat
      /\ stream.variables \in Variables /\ stream.cursor \in Nat
      /\ k \in Nat /\ cursor \in Nat /\ stream \in StreamType
  BY StreamForms
<1>3. /\ SharedAfter(s, cursor)
      /\ DOMAIN shared' = DOMAIN shared \ cleared
      /\ \A t \in DOMAIN shared : \A r \in DOMAIN shared[t] :
           Retained(t, r, s, cursor) => t \notin cleared /\ (r = s => t \notin done)
  <2> HIDE DEF cursor
  <2>1. cursor \in Nat
    BY <1>2
  <2>2. UpdatedOK(shared', s, cursor)
    BY <1>1, <2>1, UpdatedForms
  <2>3. /\ SharedOK(shared')
        /\ DOMAIN shared' = DOMAIN shared \ cleared
        /\ \A t \in DOMAIN shared' :
             /\ DOMAIN shared'[t] \subseteq DOMAIN shared[t]
             /\ \A r \in DOMAIN shared'[t] :
                  shared'[t][r] = shared[t][r] /\ Retained(t, r, s, cursor)
        /\ \A t \in DOMAIN shared : \A r \in DOMAIN shared[t] :
             Retained(t, r, s, cursor) =>
               t \notin cleared /\ (r = s => t \notin done) /\ r \in DOMAIN shared'[t]
    BY <2>2 DEF UpdatedOK
  <2> HIDE DEF cleared, done
  <2> QED BY <2>3 DEF SharedAfter
\* The stream itself.
<1>4. /\ Executed(stream, k) \in StreamType
      /\ Executed(stream, k).open
      /\ Executed(stream, k).queue = SubSeq(stream.queue, k + 1, Len(stream.queue))
      /\ Executed(stream, k).cursor = cursor
      /\ \A t \in Tensors :
           \/ Executed(stream, k).variables[t] = NoStream
           \/ Executed(stream, k).variables[t] = stream.variables[t]
      /\ \A t \in Tensors : (\A i \in 1 .. k : ~Ends(stream.queue[i], t)) =>
           Executed(stream, k).variables[t] = stream.variables[t]
  <2> DEFINE vs == [t \in Tensors |->
                      IF \E i \in 1 .. k : [id |-> t, status |-> "ReadWrite"] \in stream.queue[i].nodes
                      THEN NoStream ELSE stream.variables[t]]
             q == SubSeq(stream.queue, k + 1, Len(stream.queue))
  <2>1. stream = [open |-> stream.open, queue |-> stream.queue,
                  variables |-> stream.variables, cursor |-> stream.cursor]
    BY <1>2 DEF StreamType
  <2>2. Executed(stream, k) = [stream EXCEPT !.queue = q, !.cursor = stream.cursor + k, !.variables = vs]
    BY DEF Executed
  <2>3. q \in Seq(Op)
    BY <1>2, SubSeqProperties
  <2>4. vs \in Variables
    BY <1>2 DEF Variables
  <2>5. \A t \in Tensors : vs[t] = NoStream \/ vs[t] = stream.variables[t]
    OBVIOUS
  <2>6. \A t \in Tensors : (\A i \in 1 .. k : ~Ends(stream.queue[i], t)) => vs[t] = stream.variables[t]
    BY DEF Ends
  <2> HIDE DEF q, vs
  <2> DEFINE e == Executed(stream, k)
  <2>7. e = [open |-> TRUE, queue |-> q, variables |-> vs, cursor |-> cursor]
    <3> HIDE DEF stream, e
    <3>1. e = [stream EXCEPT !.queue = q, !.cursor = cursor, !.variables = vs]
      BY <2>2 DEF e
    <3>2. stream.open = TRUE
      BY <1>2 DEF stream
    <3> HIDE DEF cursor
    <3> QED BY <2>1, <3>1, <3>2
  <2> HIDE DEF e, cursor
  <2>8. e.open = TRUE /\ e.queue = q /\ e.variables = vs /\ e.cursor = cursor
    BY <2>7
  <2>9. e \in StreamType
    BY <1>2, <2>3, <2>4, <2>7 DEF StreamType
  <2>10. /\ \A t \in Tensors : e.variables[t] = NoStream \/ e.variables[t] = stream.variables[t]
         /\ \A t \in Tensors : (\A i \in 1 .. k : ~Ends(stream.queue[i], t)) =>
              e.variables[t] = stream.variables[t]
    BY <2>5, <2>6, <2>8
  <2> QED BY <2>8, <2>9, <2>10 DEF q, e
<1>5. \A r \in Streams :
        /\ after(r) \in StreamType
        /\ r # s => after(r) = st[r]
        /\ after(r) = [open |-> after(r).open, queue |-> after(r).queue,
                       variables |-> after(r).variables, cursor |-> after(r).cursor]
        /\ after(r).variables \in Variables
  <2>1. \A r \in Streams : after(r) \in StreamType /\ (r # s => after(r) = st[r])
    BY <1>4
  <2> HIDE DEF after
  <2> QED BY <2>1 DEF StreamType
<1>6. after(s) = Executed(stream, k)
  OBVIOUS
<1> HIDE DEF after, cursor
<1>7. \A r \in Streams : \A t \in Tensors :
        /\ vars1(r)[t] = NoStream \/ vars1(r)[t] = after(r).variables[t]
        /\ t \in kept(r) => vars1(r)[t] = after(r).variables[t]
        /\ vars2(r)[t] = NoStream \/ vars2(r)[t] = after(r).variables[t]
        /\ (t \notin manual \/ vars1(r)[t] = r) => vars2(r)[t] = vars1(r)[t]
  OBVIOUS
<1>8. \A r \in Streams : vars2(r) \in Variables /\ vars1(r) \in Variables
  BY <1>5 DEF Variables
<1>9. \A r \in Streams : \A t \in Tensors : vars1(r)[t] # NoStream => vars1(r) # NoVariables
  BY DEF NoVariables
<1> HIDE DEF vars1, vars2
<1> HIDE DEF open
<1>10. \A r \in Streams :
         /\ open(r) => /\ streams'[r].open = TRUE
                       /\ streams'[r].queue = after(r).queue
                       /\ streams'[r].variables = vars2(r)
                       /\ streams'[r].cursor = after(r).cursor
                       /\ streams'[r] \in StreamType
         /\ ~open(r) => streams'[r] = Closed
  <2>1. ASSUME NEW r \in Streams, open(r)
        PROVE  /\ streams'[r].open = TRUE
               /\ streams'[r].queue = after(r).queue
               /\ streams'[r].variables = vars2(r)
               /\ streams'[r].cursor = after(r).cursor
               /\ streams'[r] \in StreamType
    <3>1. streams'[r] = [after(r) EXCEPT !.variables = vars2(r)]
      BY <1>1, <2>1
    <3>2. after(r).open = TRUE
      <4>1. after(r).open /\ after(r).open \in BOOLEAN
        BY <1>5, <2>1 DEF open, StreamType
      <4> QED BY <4>1
    <3> QED BY <1>5, <1>8, <3>1, <3>2, WithVariables
  <2>2. ASSUME NEW r \in Streams, ~open(r) PROVE streams'[r] = Closed
    BY <1>1, <2>2
  <2> QED BY <2>1, <2>2
<1>11. open(s)
  BY <1>4, <1>6 DEF open
<1>12. Closed \in StreamType /\ Closed.open = FALSE /\ \A t \in Tensors : Closed.variables[t] = NoStream
  BY EmptySeq DEF Closed, StreamType, NoVariables, Variables
<1>13. StreamsAfter(st, s, k)
  <2>1. streams' \in [Streams -> StreamType]
    <3>1. ASSUME NEW r \in Streams PROVE streams'[r] \in StreamType
      BY <1>10, <1>12
    <3>2. streams' = [r \in Streams |-> streams'[r]]
      BY <1>1
    <3> QED BY <3>1, <3>2
  <2>2. \A r \in Streams : ~streams'[r].open => streams'[r] = Closed
    BY <1>10
  <2>3. /\ streams'[s].open
        /\ streams'[s].queue = SubSeq(st[s].queue, k + 1, Len(st[s].queue))
        /\ streams'[s].cursor = st[s].cursor + k
    BY <1>4, <1>6, <1>10, <1>11 DEF cursor
  <2>4. ASSUME NEW r \in Streams, r # s, streams'[r].open
        PROVE  /\ st[r].open
               /\ streams'[r].queue = st[r].queue
               /\ streams'[r].cursor = st[r].cursor
    <3>1. open(r)
      BY <1>10, <1>12, <2>4
    <3> QED BY <1>5, <1>10, <2>4, <3>1 DEF open
  <2>5. ASSUME NEW r \in Streams, NEW t \in Tensors, streams'[r].variables[t] # NoStream
        PROVE  streams'[r].variables[t] = st[r].variables[t]
    <3>1. open(r)
      BY <1>10, <1>12, <2>5
    <3>2. streams'[r].variables[t] = vars2(r)[t]
      BY <1>10, <3>1
    <3>3. streams'[r].variables[t] = after(r).variables[t]
      BY <1>7, <2>5, <3>2
    <3> QED BY <1>4, <1>5, <1>6, <2>5, <3>3
  <2>6. ASSUME NEW r \in Streams, NEW t \in Tensors,
               st[r].open, st[r].variables[t] # NoStream,
               t \in DOMAIN shared => Retained(t, r, s, st[s].cursor + k),
               t \notin manual \/ st[r].variables[t] = r,
               r = s => \A i \in 1 .. k : ~Ends(st[s].queue[i], t)
        PROVE  streams'[r].open /\ streams'[r].variables[t] = st[r].variables[t]
    <3>1. after(r).open /\ after(r).variables[t] = st[r].variables[t]
      BY <1>4, <1>5, <1>6, <2>6
    <3>2. t \in kept(r)
      <4>1. CASE t \in DOMAIN shared
        <5>1. Retained(t, r, s, cursor)
          BY <2>6, <4>1 DEF cursor
        <5>2. r \in DOMAIN shared[t]
          BY <5>1 DEF Retained
        <5> QED BY <1>3, <4>1, <5>1, <5>2 DEF kept
      <4>2. CASE t \notin DOMAIN shared
        <5>1. t \notin cleared /\ t \notin done
          BY <4>2 DEF Cleared, Done
        <5> QED BY <5>1 DEF kept
      <4> QED BY <4>1, <4>2
    <3>3. vars1(r)[t] = st[r].variables[t] /\ vars2(r)[t] = st[r].variables[t]
      BY <1>7, <2>6, <3>1, <3>2
    <3>4. open(r)
      BY <1>9, <2>6, <3>1, <3>3 DEF open
    <3> QED BY <1>10, <3>3, <3>4
  <2> QED BY <2>1, <2>2, <2>3, <2>4, <2>5, <2>6 DEF StreamsAfter
<1>14. dropped \in SUBSET manual /\ dropped = {t \in manual : t \notin DOMAIN shared'}
  BY <1>3
<1>15. SharedAfter(s, st[s].cursor + k)
  BY <1>3 DEF cursor
<1> QED BY <1>1, <1>13, <1>14, <1>15
\* No call below the first one processes or registers an operation.
Settled(td) == \A i \in DOMAIN td : td[i].call \notin {"register", "process", "drain"}

\* The drops that an execution leaves to do are the next call.
LEMMA PushedForms ==
  ASSUME NEW td \in Seq(Frame), Settled(td), NEW s \in Streams, NEW ts \in SUBSET Tensors,
         \A t \in ts : origin[t] # NoStream /\ ~Live(td, t),
         Shape(td), AllFormed(td), Released(td)
  PROVE  /\ <<DropShared(s, ts)>> \o td \in Seq(Frame)
         /\ Shape(<<DropShared(s, ts)>> \o td)
         /\ AllFormed(<<DropShared(s, ts)>> \o td)
         /\ Released(<<DropShared(s, ts)>> \o td)
         /\ \A t : Live(<<DropShared(s, ts)>> \o td, t) <=> Live(td, t)
         /\ \A t : ToMake(<<DropShared(s, ts)>> \o td, t) <=> ToMake(td, t)
<1> DEFINE f == DropShared(s, ts)
           c == <<f>> \o td
<1>1. f \in Frame
  BY PlainFramesMade
<1>2. /\ f.call = "drop" /\ ~OpCall(f) /\ ~Asked(f) /\ Ending(f) = ts
  BY DEF DropShared, OpCall, Asked, Ending
<1> HIDE DEF f
<1>3. PICK n \in Nat : n = Len(td) /\ DOMAIN td = 1 .. n
  BY LenProperties
<1>4. /\ c \in Seq(Frame) /\ Len(c) = n + 1 /\ DOMAIN c = 1 .. n + 1
      /\ c[1] = f
      /\ \A i \in 1 .. n + 1 : i > 1 => c[i] = td[i - 1]
  <2>1. <<f>> \in Seq(Frame) /\ Len(<<f>>) = 1 /\ <<f>>[1] = f
    BY <1>1
  <2>2. /\ c \in Seq(Frame) /\ Len(c) = 1 + n
        /\ \A i \in 1 .. 1 + n : c[i] = IF i <= 1 THEN <<f>>[i] ELSE td[i - 1]
    BY <1>3, <2>1, ConcatProperties
  <2> HIDE DEF c
  <2>3. DOMAIN c = 1 .. Len(c)
    BY <2>2, LenProperties
  <2> QED BY <2>1, <2>2, <2>3
<1> HIDE DEF c
<1>5. \A i \in DOMAIN c : i = 1 \/ \E j \in DOMAIN td : i = j + 1 /\ c[i] = td[j]
  <2>1. ASSUME NEW i \in 1 .. n + 1, i # 1
        PROVE  \E j \in 1 .. n : i = j + 1 /\ c[i] = td[j]
    <3>1. i - 1 \in 1 .. n /\ i = (i - 1) + 1 /\ i > 1
      BY <2>1
    <3> QED BY <1>4, <3>1
  <2> QED BY <1>3, <1>4, <2>1
<1>6. \A j \in DOMAIN td : j + 1 \in DOMAIN c /\ c[j + 1] = td[j]
  <2>1. ASSUME NEW j \in 1 .. n PROVE j + 1 \in 1 .. n + 1 /\ c[j + 1] = td[j]
    <3>1. j + 1 \in 1 .. n + 1 /\ j + 1 > 1 /\ (j + 1) - 1 = j
      OBVIOUS
    <3> QED BY <1>4, <3>1
  <2> QED BY <1>3, <1>4, <2>1
<1>7. \A t : Live(c, t) <=> Live(td, t)
  BY <1>2, <1>4, <1>5, <1>6 DEF Live
<1>8. \A t : ToMake(c, t) <=> ToMake(td, t)
  BY <1>2, <1>4, <1>5, <1>6 DEF ToMake
<1>9. AllFormed(c)
  BY <1>2, <1>4, <1>5 DEF AllFormed
<1>10. Released(c)
  <2>1. ASSUME NEW i \in DOMAIN c, NEW t \in Ending(c[i]) PROVE origin[t] # NoStream /\ ~Live(c, t)
    <3>1. CASE i = 1
      BY <1>2, <1>4, <1>7, <2>1, <3>1
    <3>2. ASSUME NEW j \in DOMAIN td, c[i] = td[j] PROVE origin[t] # NoStream /\ ~Live(c, t)
      BY <1>7, <2>1, <3>2 DEF Released
    <3> QED BY <1>5, <3>1, <3>2
  <2> QED BY <2>1 DEF Released
<1>11. Shape(c)
  <2>1. ASSUME NEW i \in DOMAIN c
        PROVE  /\ c[i].call \in {"register", "process", "drain"} => i = 1
               /\ c[i].call \in {"register", "admit", "process"} => Again(c[i]) \/ i = Len(c)
               /\ c[i].call = "read" => i = Len(c)
    <3>1. CASE i = 1
      BY <1>2, <1>4, <3>1
    <3>2. ASSUME NEW j \in DOMAIN td, i = j + 1, c[i] = td[j]
          PROVE  /\ c[i].call \in {"register", "process", "drain"} => i = 1
                 /\ c[i].call \in {"register", "admit", "process"} => Again(c[i]) \/ i = Len(c)
                 /\ c[i].call = "read" => i = Len(c)
      <4>1. j = Len(td) => i = Len(c)
        BY <1>3, <1>4, <3>2
      <4>2. /\ td[j].call \in {"register", "admit", "process"} => Again(td[j]) \/ j = Len(td)
            /\ td[j].call = "read" => j = Len(td)
        BY DEF Shape
      <4>3. td[j].call \notin {"register", "process", "drain"}
        BY DEF Settled
      <4> QED BY <3>2, <4>1, <4>2, <4>3
    <3> QED BY <1>5, <3>1, <3>2
  <2> QED BY <2>1 DEF Shape
<1> QED BY <1>4, <1>7, <1>8, <1>9, <1>10, <1>11 DEF c, f

\* The operations that an execution leaves.
LEMMA Shifted ==
  ASSUME NEW q \in Seq(Op), NEW k \in 0 .. Len(q)
  PROVE  LET after == SubSeq(q, k + 1, Len(q))
         IN /\ DOMAIN after = 1 .. Len(q) - k
            /\ \A i \in DOMAIN after : i + k \in DOMAIN q /\ after[i] = q[i + k]
            /\ \A j \in DOMAIN q : j > k => j - k \in DOMAIN after /\ after[j - k] = q[j]
<1> DEFINE n == Len(q)
           after == SubSeq(q, k + 1, n)
<1>1. n \in Nat /\ k \in Nat /\ k <= n /\ DOMAIN q = 1 .. n
  BY LenProperties
<1> HIDE DEF n
<1>2. k + 1 \in Int /\ n \in Int /\ \A x \in k + 1 .. n : q[x] \in Op
  <2>1. \A x \in k + 1 .. n : x \in 1 .. n
    BY <1>1
  <2> QED BY <1>1, <2>1, ElementOfSeq DEF n
<1>3. /\ after \in Seq(Op)
      /\ Len(after) = IF k + 1 <= n THEN n - (k + 1) + 1 ELSE 0
      /\ \A x \in 1 .. n - (k + 1) + 1 : after[x] = q[k + 1 + x - 1]
  BY <1>2, SubSeqProperties
<1> HIDE DEF after
<1>4. Len(after) = n - k
  BY <1>1, <1>3
<1>5. DOMAIN after = 1 .. n - k
  BY <1>3, <1>4, LenProperties
<1>6. \A x \in 1 .. n - k : x \in 1 .. n - (k + 1) + 1 /\ k + 1 + x - 1 = x + k /\ x + k \in 1 .. n
  BY <1>1
<1>7. \A x \in 1 .. n - k : after[x] = q[x + k] /\ x + k \in DOMAIN q
  BY <1>1, <1>3, <1>6
<1>8. \A j \in DOMAIN q : j > k => j - k \in 1 .. n - k /\ (j - k) + k = j
  BY <1>1
<1> QED BY <1>5, <1>7, <1>8 DEF after, n

\* Where an operation that is still queued was before.
LEMMA QueuesAfter ==
  ASSUME NEW st \in [Streams -> StreamType], NEW s \in Streams,
         NEW k \in 0 .. Len(st[s].queue), StreamsAfter(st, s, k), st[s].open,
         NEW r \in Streams, NEW i \in DOMAIN streams'[r].queue
  PROVE  /\ st[r].open
         /\ \E j \in DOMAIN st[r].queue :
              /\ streams'[r].queue[i] = st[r].queue[j]
              /\ streams'[r].cursor + i = st[r].cursor + j
              /\ r = s => j = i + k
<1>1. /\ Len(st[s].queue) \in Nat /\ st[s].queue \in Seq(Op) /\ st[s].cursor \in Nat
      /\ DOMAIN st[s].queue = 1 .. Len(st[s].queue) /\ k \in Nat /\ k <= Len(st[s].queue)
  BY StreamForms
<1>2. streams'[r].open
  <2>1. Closed.queue = <<>>
    BY DEF Closed
  <2> QED BY <2>1 DEF StreamsAfter
<1>3. CASE r = s
  <2> DEFINE q == st[s].queue
             n == Len(q)
             after == SubSeq(q, k + 1, n)
  <2>1. streams'[s].queue = after /\ streams'[s].cursor = st[s].cursor + k
    BY DEF StreamsAfter
  <2>2. /\ DOMAIN after = 1 .. n - k
        /\ \A x \in 1 .. n - k : after[x] = q[x + k]
    BY <1>1, Shifted
  <2>3. i \in 1 .. n - k
    BY <1>3, <2>1, <2>2
  <2> HIDE DEF after
  <2>4. i + k \in DOMAIN st[s].queue
    BY <1>1, <2>3
  <2>5. streams'[s].cursor + i = st[s].cursor + (i + k)
    BY <1>1, <2>1, <2>3
  <2> QED BY <1>3, <2>1, <2>2, <2>3, <2>4, <2>5 DEF StreamsAfter
<1>4. CASE r # s
  BY <1>2, <1>4 DEF StreamsAfter
<1> QED BY <1>3, <1>4

\* The execution of the first operations of a stream, whose calls were taken
\* off the stack already.
LEMMA ExecuteStep ==
  ASSUME NEW st, NEW td, LiveInv(st, td), Settled(td),
         NEW s \in Streams, st[s].open,
         \A r \in Streams : r # s => st[r] = streams[r],
         NEW k \in 0 .. Len(st[s].queue), Execute(s, st[s], k, td),
         UNCHANGED <<origin, refs>>
  PROVE  LiveInv(streams, todo)'
<1> DEFINE cursor == st[s].cursor + k
<1>1. /\ TypesOK(st, td) /\ Shape(td) /\ AllFormed(td) /\ Released(td)
      /\ Fresh(st) /\ Last(st, td) /\ Made(st, td) /\ Tracked(st, td) /\ New(td)
      /\ st \in [Streams -> StreamType] /\ SharedOK(shared) /\ manual \subseteq Tensors
      /\ td \in Seq(Frame)
      /\ \A r \in Streams : ~st[r].open => st[r].queue = <<>>
  BY DEF LiveInv, TypesOK, SharedOK
<1>2. /\ StreamsAfter(st, s, k)
      /\ SharedAfter(s, cursor)
      /\ handles' = HandlesAfter(st[s].queue, k)[k]
      /\ \E dropped \in SUBSET manual :
           /\ manual' = manual \ dropped
           /\ dropped = {t \in manual : t \notin DOMAIN shared'}
           /\ todo' = <<DropShared(s, dropped)>> \o td
  BY <1>1, ExecuteForms
<1>3. PICK dropped \in SUBSET manual :
           /\ manual' = manual \ dropped
           /\ todo' = <<DropShared(s, dropped)>> \o td
  BY <1>2
<1>4. origin' = origin /\ refs' = refs
  OBVIOUS
<1>5. \A t \in dropped : origin[t] # NoStream /\ ~Live(td, t)
  BY <1>1, <1>3 DEF Fresh, Last
<1>6. /\ todo' \in Seq(Frame)
      /\ Shape(todo') /\ AllFormed(todo') /\ Released(todo')
      /\ \A t : Live(todo', t) <=> Live(td, t)
      /\ \A t : ToMake(todo', t) <=> ToMake(td, t)
  <2>1. dropped \in SUBSET Tensors
    BY <1>1
  <2> QED BY <1>1, <1>3, <1>5, <2>1, PushedForms
<1>7. /\ Shape(todo)' /\ AllFormed(todo)' /\ Released(todo)'
      /\ \A t : Live(todo, t)' <=> Live(td, t)
  BY <1>6, CallsPrimed
<1>8. \A r \in Streams : \A i \in DOMAIN streams'[r].queue :
        /\ st[r].open
        /\ \E j \in DOMAIN st[r].queue :
             /\ streams'[r].queue[i] = st[r].queue[j]
             /\ streams'[r].cursor + i = st[r].cursor + j
             /\ r = s => j = i + k
  BY <1>1, <1>2, QueuesAfter
<1>9. /\ SharedOK(shared')
      /\ DOMAIN shared' \subseteq DOMAIN shared
      /\ \A t \in DOMAIN shared' : \A r \in DOMAIN shared'[t] : shared'[t][r] = shared[t][r]
      /\ \A t \in DOMAIN shared : \A r \in DOMAIN shared[t] :
           Retained(t, r, s, cursor) => t \in DOMAIN shared' /\ r \in DOMAIN shared'[t]
  BY <1>2 DEF SharedAfter
<1>10. /\ st[s].queue \in Seq(Op) /\ Len(st[s].queue) \in Nat /\ st[s].cursor \in Nat
       /\ DOMAIN st[s].queue = 1 .. Len(st[s].queue)
       /\ k \in Nat /\ k <= Len(st[s].queue) /\ cursor \in Nat
  BY <1>1, StreamForms
<1> HIDE DEF cursor
\* An operation that is still to make a live tensor.
<1>11. ASSUME NEW r \in Streams, NEW j \in DOMAIN st[r].queue, NEW t \in Tensors,
              Makes(st[r].queue[j], t), Live(td, t), r = s => j > k
       PROVE  /\ streams'[r].open /\ streams'[r].variables[t] # NoStream
              /\ t \in DOMAIN shared' =>
                   /\ r \in DOMAIN shared'[t]
                   /\ shared'[t][r].current >= st[r].cursor + j
                   /\ shared'[t][r].origin >= st[r].cursor + j
  <2>1. /\ st[r].variables[t] # NoStream
        /\ t \in DOMAIN shared =>
             /\ r \in DOMAIN shared[t]
             /\ shared[t][r].current >= st[r].cursor + j
             /\ shared[t][r].origin >= st[r].cursor + j
    BY <1>1, <1>11 DEF Tracked
  <2>2. t \in DOMAIN shared => Retained(t, r, s, cursor)
    <3>1. ASSUME t \in DOMAIN shared, r = s PROVE shared[t][r].current > cursor
      <4>1. shared[t][r].current \in Nat /\ j \in Nat
        BY <1>1, <1>10, <2>1, <3>1 DEF SharedOK
      <4> QED BY <1>10, <1>11, <2>1, <3>1, <4>1 DEF cursor
    <3> QED BY <2>1, <3>1 DEF Retained
  <2>3. st[r].open
    <3>1. st[r].queue # <<>>
      BY <1>11
    <3> QED BY <1>1, <3>1
  <2>4. t \notin manual /\ \A x \in DOMAIN st[s].queue : ~Ends(st[s].queue[x], t)
    BY <1>1, <1>11 DEF Last, EndsIn
  <2>5. \A x \in 1 .. k : ~Ends(st[s].queue[x], t)
    BY <1>10, <2>4
  <2>6. streams'[r].open /\ streams'[r].variables[t] = st[r].variables[t]
    BY <1>2, <2>1, <2>2, <2>3, <2>4, <2>5 DEF StreamsAfter, cursor
  <2>7. ASSUME t \in DOMAIN shared'
        PROVE  r \in DOMAIN shared'[t] /\ shared'[t][r] = shared[t][r]
    BY <1>9, <2>1, <2>2, <2>7
  <2> QED BY <1>9, <2>1, <2>6, <2>7
<1>12. TypesOK(streams, todo)'
  <2>1. streams' \in [Streams -> StreamType]
    BY <1>2 DEF StreamsAfter
  <2>2. \A r \in Streams : ~streams'[r].open => streams'[r].queue = <<>>
    BY <1>2 DEF StreamsAfter, Closed
  <2>3. manual' \subseteq Tensors
    BY <1>1, <1>3
  <2>4. origin' \in Variables /\ refs' \in [Tensors -> Nat]
    BY <1>1, <1>4 DEF TypesOK
  <2> QED BY <1>6, <1>9, <2>1, <2>2, <2>3, <2>4 DEF TypesOK, SharedOK
<1>13. \A r \in Streams : \A t : EndsIn(streams', r, t) => EndsIn(st, r, t)
  BY <1>8 DEF EndsIn
<1>14. Fresh(streams)'
  <2>1. \A t \in Tensors : origin[t] = NoStream =>
          /\ refs[t] = 0
          /\ \A r \in Streams : ~EndsIn(streams', r, t)
          /\ t \notin manual'
          /\ t \notin DOMAIN shared'
    BY <1>1, <1>3, <1>9, <1>13 DEF Fresh
  <2> QED BY <1>4, <2>1 DEF Fresh
<1>15. Last(streams, todo)'
  <2>1. \A t \in Tensors : Live(td, t) =>
          t \notin manual' /\ \A r \in Streams : ~EndsIn(streams', r, t)
    BY <1>1, <1>3, <1>13 DEF Last
  <2> QED BY <1>7, <2>1 DEF Last
<1>16. Made(streams, todo)'
  <2>1. ASSUME NEW t \in Tensors, Live(td, t)
        PROVE  \/ t \in handles'
               \/ \E r \in Streams : MakesIn(streams', r, t)
               \/ ToMake(todo', t)
    <3>1. \A x \in 1 .. k : ~Ends(st[s].queue[x], t)
      BY <1>1, <1>10, <2>1 DEF Last, EndsIn
    <3>2. CASE t \in handles
      BY <1>2, <1>10, <3>1, <3>2, HandlesKept
    <3>3. CASE ToMake(td, t)
      BY <1>6, <3>3
    <3>4. ASSUME NEW r \in Streams, NEW j \in DOMAIN st[r].queue, Makes(st[r].queue[j], t)
          PROVE  t \in handles' \/ MakesIn(streams', r, t)
      <4>1. CASE r = s /\ j <= k
        <5>1. j \in 1 .. k
          BY <1>10, <3>4, <4>1
        <5> QED BY <1>2, <1>10, <3>1, <3>4, <4>1, <5>1, HandlesKept
      <4>2. CASE r = s /\ ~(j <= k)
        <5>1. streams'[s].queue = SubSeq(st[s].queue, k + 1, Len(st[s].queue))
          BY <1>2 DEF StreamsAfter
        <5>2. /\ j - k \in DOMAIN streams'[s].queue
              /\ streams'[s].queue[j - k] = st[s].queue[j]
          <6>1. j \in DOMAIN st[s].queue /\ j > k
            BY <1>10, <3>4, <4>2
          <6>2. \A x \in DOMAIN st[s].queue : x > k =>
                  /\ x - k \in DOMAIN SubSeq(st[s].queue, k + 1, Len(st[s].queue))
                  /\ SubSeq(st[s].queue, k + 1, Len(st[s].queue))[x - k] = st[s].queue[x]
            BY <1>10, Shifted
          <6> QED BY <5>1, <6>1, <6>2
        <5> QED BY <3>4, <4>2, <5>2 DEF MakesIn
      <4>3. CASE r # s
        <5>1. streams'[r].open
          BY <1>11, <2>1, <3>4, <4>3
        <5>2. streams'[r].queue = st[r].queue
          BY <1>2, <4>3, <5>1 DEF StreamsAfter
        <5> QED BY <3>4, <5>2 DEF MakesIn
      <4> QED BY <4>1, <4>2, <4>3
    <3> QED BY <1>1, <2>1, <3>2, <3>3, <3>4 DEF Made, MakesIn
  <2> QED BY <1>7, <2>1 DEF Made
<1>17. Tracked(streams, todo)'
  <2>1. ASSUME NEW r \in Streams, NEW i \in DOMAIN streams'[r].queue, NEW t \in Tensors,
               Makes(streams'[r].queue[i], t)
        PROVE  /\ origin[t] = r
               /\ Live(td, t) =>
                    /\ streams'[r].variables[t] # NoStream
                    /\ t \in DOMAIN shared' =>
                         /\ r \in DOMAIN shared'[t]
                         /\ shared'[t][r].current >= streams'[r].cursor + i
                         /\ shared'[t][r].origin >= streams'[r].cursor + i
    <3>1. PICK j \in DOMAIN st[r].queue :
             /\ streams'[r].queue[i] = st[r].queue[j]
             /\ streams'[r].cursor + i = st[r].cursor + j
             /\ r = s => j = i + k
      BY <1>8
    <3>2. r = s => j > k
      <4>1. streams'[r].queue \in Seq(Op)
        BY <1>2 DEF StreamsAfter, StreamType
      <4>2. i \in Nat /\ i > 0
        BY <4>1, LenProperties
      <4> QED BY <1>10, <3>1, <4>2
    <3>3. origin[t] = r
      BY <1>1, <2>1, <3>1 DEF Tracked
    <3> QED BY <1>11, <2>1, <3>1, <3>2, <3>3
  <2>2. \A r \in Streams : \A i \in DOMAIN streams'[r].queue : \A t \in Tensors :
          Makes(streams'[r].queue[i], t) =>
            /\ origin'[t] = r
            /\ Live(todo, t)' =>
                 /\ streams'[r].variables[t] # NoStream
                 /\ t \in DOMAIN shared' =>
                      /\ r \in DOMAIN shared'[t]
                      /\ shared'[t][r].current >= streams'[r].cursor + i
                      /\ shared'[t][r].origin >= streams'[r].cursor + i
    BY <1>4, <1>7, <2>1
  <2> QED BY <2>2 DEF Tracked
<1>18. New(todo)'
  <2>1. \A t \in Tensors : ToMake(todo', t) => t \notin DOMAIN shared'
    BY <1>1, <1>6, <1>9 DEF New
  <2> QED BY <2>1 DEF New
<1> QED BY <1>7, <1>12, <1>14, <1>15, <1>16, <1>17, <1>18 DEF LiveInv
-----------------------------------------------------------------------------
(* drain() and enqueue_operation()                                           *)

\* The state with the calls that are left is the next one.
LEMMA Reached ==
  ASSUME LiveInv(streams', todo'),
         UNCHANGED <<origin, refs, shared, manual, handles>>
  PROVE  LiveInv(streams, todo)'
<1>1. /\ origin' = origin /\ refs' = refs
      /\ shared' = shared /\ manual' = manual /\ handles' = handles
  OBVIOUS
<1>2. /\ TypesOK(streams', todo') /\ Shape(todo') /\ AllFormed(todo') /\ Released(todo')
      /\ Fresh(streams') /\ Last(streams', todo') /\ Made(streams', todo')
      /\ Tracked(streams', todo') /\ New(todo')
  BY DEF LiveInv
<1>3. /\ Shape(todo)' /\ AllFormed(todo)' /\ Released(todo)'
      /\ \A t : Live(todo, t)' <=> Live(todo', t)
  BY <1>2, CallsPrimed
<1>4. TypesOK(streams, todo)'
  BY <1>1, <1>2 DEF TypesOK
<1>5. Fresh(streams)'
  BY <1>1, <1>2 DEF Fresh
<1>6. Last(streams, todo)'
  BY <1>1, <1>2, <1>3 DEF Last
<1>7. Made(streams, todo)'
  BY <1>1, <1>2, <1>3 DEF Made
<1>8. Tracked(streams, todo)'
  BY <1>1, <1>2, <1>3 DEF Tracked
<1>9. New(todo)'
  BY <1>1, <1>2 DEF New
<1> QED BY <1>3, <1>4, <1>5, <1>6, <1>7, <1>8, <1>9 DEF LiveInv

\* Below the first call no call processes or registers an operation.
LEMMA TailSettled ==
  ASSUME NEW td \in Seq(Frame), td # <<>>, Shape(td)
  PROVE  Settled(Tail(td))
<1>1. Below(td, Tail(td), 0)
  BY TailBelow
<1>2. ASSUME NEW i \in DOMAIN Tail(td)
      PROVE  Tail(td)[i].call \notin {"register", "process", "drain"}
  <2>1. i > 0
    <3>1. Tail(td) \in Seq(Frame)
      BY TailBelow
    <3> QED BY <3>1, LenProperties
  <2>2. PICK j \in DOMAIN td : j > 1 /\ Tail(td)[i] = td[j]
    BY <1>1, <2>1 DEF Below
  <2>3. j # 1
    BY <2>2, LenProperties
  <2> QED BY <2>2, <2>3 DEF Shape
<1> QED BY <1>2 DEF Settled

LEMMA StepDrain ==
  ASSUME LiveInv(streams, todo), RunDrain
  PROVE  panicked' \/ LiveInv(streams, todo)'
<1> DEFINE c == todo[1]
           s == c.stream
<1>1. /\ todo \in Seq(Frame) /\ todo # <<>>
      /\ Head(todo) = c /\ c \in Frame /\ c.call = "drain"
  BY HeadForms DEF RunDrain, Calling, LiveInv, TypesOK
<1>2. s \in Streams /\ ~OpCall(c)
  BY <1>1, FrameForms DEF OpCall
<1>3. UNCHANGED <<origin, refs>>
  BY DEF RunDrain
<1>4. Tail(todo) \in Seq(Frame) /\ LiveInv(streams, Tail(todo))
  BY <1>1, <1>2, CalledNone, CallsStep
<1>5. Settled(Tail(todo))
  BY <1>1, TailSettled DEF LiveInv
<1>6. \/ todo' = Tail(todo) /\ UNCHANGED server
      \/ Panic
      \/ streams[s].open /\ Execute(s, streams[s], Len(streams[s].queue), Tail(todo))
  BY <1>1 DEF RunDrain
<1>7. CASE todo' = Tail(todo) /\ UNCHANGED server
  BY <1>3, <1>4, <1>7, Unmoved DEF server
<1>8. CASE Panic
  BY <1>8 DEF Panic
<1>9. CASE streams[s].open /\ Execute(s, streams[s], Len(streams[s].queue), Tail(todo))
  <2>1. Len(streams[s].queue) \in 0 .. Len(streams[s].queue)
    BY <1>2, StreamForms DEF LiveInv, TypesOK
  <2> QED BY <1>2, <1>3, <1>4, <1>5, <1>9, <2>1, ExecuteStep
<1> QED BY <1>6, <1>7, <1>8, <1>9

\* add(): the stream with the operation at its end.
\* What new, the state of stream s after op joined its queue, has kept.
QueuedOK(new, s, op) ==
  /\ new \in StreamType
  /\ new.open = TRUE
  /\ new.queue = Append(streams[s].queue, op)
  /\ streams[s].open => new.cursor = streams[s].cursor
  /\ \A t \in Tensors : streams[s].open /\ streams[s].variables[t] # NoStream =>
       new.variables[t] # NoStream
  /\ \A t \in Ids(op) : new.variables[t] # NoStream

LEMMA QueuedForms ==
  ASSUME FusionAssumption, streams \in [Streams -> StreamType],
         NEW s \in Streams, ~streams[s].open => streams[s].queue = <<>>,
         NEW op \in Op, NEW tags \in Variables
  PROVE  QueuedOK(Queued(s, op, tags), s, op)
<1> DEFINE stream == IF streams[s].open THEN streams[s] ELSE Opened
           vs == [t \in Tensors |->
                    IF t \notin Ids(op) THEN stream.variables[t]
                    ELSE IF tags[t] # NoStream THEN tags[t] ELSE s]
           new == Queued(s, op, tags)
<1>1. stream \in StreamType /\ stream.open = TRUE /\ stream.queue = streams[s].queue
      /\ (streams[s].open => stream = streams[s])
  <2>1. streams[s] \in StreamType /\ streams[s].open \in BOOLEAN
    BY DEF StreamType
  <2>2. Closed \in StreamType /\ Closed.queue = <<>>
    <3>1. NoVariables \in Variables
      BY DEF NoVariables, Variables
    <3>2. <<>> \in Seq(Op)
      BY EmptySeq
    <3> QED BY <3>1, <3>2 DEF Closed, StreamType
  <2>3. Opened \in StreamType /\ Opened.open = TRUE /\ Opened.queue = <<>>
    BY <2>2 DEF Opened, StreamType
  <2> QED BY <2>1, <2>3
<1>2. new = [stream EXCEPT !.queue = Append(stream.queue, op), !.variables = vs]
  BY DEF Queued
<1> HIDE DEF stream, new
<1>3. /\ stream = [open |-> TRUE, queue |-> stream.queue,
                   variables |-> stream.variables, cursor |-> stream.cursor]
      /\ stream.queue \in Seq(Op) /\ stream.variables \in Variables /\ stream.cursor \in Nat
  BY <1>1 DEF StreamType
<1>4. vs \in Variables
  <2>1. \A t \in Tensors : tags[t] \in Streams \cup {NoStream} /\ stream.variables[t] \in Streams \cup {NoStream}
    BY <1>3 DEF Variables
  <2> QED BY <2>1 DEF Variables
<1>5. \A t \in Ids(op) : t \in Tensors /\ vs[t] # NoStream
  <2>1. Ids(op) \subseteq Tensors /\ s # NoStream
    BY OpForms DEF FusionAssumption
  <2> QED BY <2>1
<1>6. \A t \in Tensors : t \notin Ids(op) => vs[t] = stream.variables[t]
  OBVIOUS
<1> HIDE DEF vs
<1>7. /\ new.open = stream.open /\ new.queue = Append(stream.queue, op)
      /\ new.variables = vs /\ new.cursor = stream.cursor
  BY <1>1, <1>2 DEF StreamType
<1>8. Append(stream.queue, op) \in Seq(Op)
  BY <1>3, AppendProperties
<1>9. /\ new \in StreamType /\ new.open = TRUE /\ new.queue = Append(stream.queue, op)
      /\ new.variables = vs /\ new.cursor = stream.cursor
  <2>1. new \in StreamType
    BY <1>1, <1>2, <1>4, <1>8 DEF StreamType
  <2> QED BY <1>1, <1>7, <2>1
<1>10. QueuedOK(new, s, op)
  BY <1>1, <1>5, <1>6, <1>9 DEF QueuedOK
<1> QED BY <1>10 DEF new

\* A sequence with one more element at its end.
LEMMA Appending ==
  ASSUME NEW S, NEW q \in Seq(S), NEW e \in S
  PROVE  /\ Append(q, e) \in Seq(S)
         /\ Len(Append(q, e)) = Len(q) + 1
         /\ Append(q, e)[Len(q) + 1] = e
         /\ \A i \in 1 .. Len(q) : Append(q, e)[i] = q[i]
  BY AppendProperties

\* The operation is queued before any is executed.
LEMMA QueueStep ==
  ASSUME FusionAssumption, LiveInv(streams, todo), Calling("process"),
         NEW sync \in BOOLEAN
  PROVE  LiveInv([streams EXCEPT ![Head(todo).stream] =
                    Queued(Head(todo).stream, Head(todo).op, Head(todo).tags)],
                 <<Flush(Head(todo).stream, sync)>> \o Tail(todo))
<1> DEFINE c == todo[1]
           s == c.stream
           new == Queued(s, c.op, c.tags)
           st == [streams EXCEPT ![s] = new]
           td == <<Flush(s, sync)>> \o Tail(todo)
<1>1. /\ todo \in Seq(Frame) /\ todo # <<>>
      /\ Head(todo) = c /\ c \in Frame /\ c.call = "process" /\ OpCall(c) /\ 1 \in DOMAIN todo
  BY HeadForms DEF Calling, LiveInv, TypesOK, OpCall
<1>2. /\ s \in Streams /\ c.op \in Op /\ c.tags \in Variables /\ Formed(c)
      /\ \A t : Makes(c.op, t) => ToMake(todo, t)
  BY <1>1, OpHead
<1>3. /\ TypesOK(streams, todo) /\ Shape(todo) /\ AllFormed(todo) /\ Released(todo)
      /\ Fresh(streams) /\ Last(streams, todo) /\ Made(streams, todo)
      /\ Tracked(streams, todo) /\ New(todo)
      /\ streams \in [Streams -> StreamType] /\ refs \in [Tensors -> Nat]
      /\ \A r \in Streams : ~streams[r].open => streams[r].queue = <<>>
  BY DEF LiveInv, TypesOK
<1>4. td \in Seq(Frame) /\ Called(todo, td, 1)
  <2>1. Flush(s, sync) \in Frame
    BY <1>2, PlainFramesMade
  <2>2. CalledBy(c, Flush(s, sync))
    BY DEF CalledBy, Flush, OpCall
  <2> QED BY <1>1, <2>1, <2>2, CalledOne
<1> HIDE DEF td
<1>5. /\ Shape(td) /\ AllFormed(td) /\ Released(td)
      /\ \A t : Live(td, t) => Live(todo, t)
      /\ \A t : ToMake(td, t) => ToMake(todo, t)
      /\ \A t : ToMake(todo, t) => ToMake(td, t) \/ Makes(c.op, t)
  BY <1>1, <1>3, <1>4, CalledForms
<1>6. /\ new \in StreamType /\ new.open = TRUE
      /\ new.queue = Append(streams[s].queue, c.op)
      /\ streams[s].open => new.cursor = streams[s].cursor
      /\ \A t \in Tensors : streams[s].open /\ streams[s].variables[t] # NoStream =>
           new.variables[t] # NoStream
      /\ \A t \in Ids(c.op) : new.variables[t] # NoStream
  <2> DEFINE op == c.op
             tags == c.tags
  <2>1. s \in Streams /\ op \in Op /\ tags \in Variables
    BY <1>2
  <2>2. ~streams[s].open => streams[s].queue = <<>>
    BY <1>2, <1>3
  <2> HIDE DEF s, op, tags
  <2>3. QueuedOK(Queued(s, op, tags), s, op)
    BY <1>3, <2>1, <2>2, FusionAssumption, QueuedForms
  <2> QED BY <2>3 DEF op, tags, QueuedOK
<1> HIDE DEF new
<1>7. st[s] = new /\ \A r \in Streams : r # s => st[r] = streams[r]
  BY <1>2, <1>3
<1>8. st \in [Streams -> StreamType]
  BY <1>2, <1>3, <1>6
<1> HIDE DEF st
<1>9. PICK n \in Nat : n = Len(streams[s].queue) /\ DOMAIN streams[s].queue = 1 .. n
  BY <1>2, <1>3, StreamForms
<1>10. /\ DOMAIN st[s].queue = 1 .. n + 1
       /\ st[s].queue[n + 1] = c.op
       /\ \A i \in 1 .. n : st[s].queue[i] = streams[s].queue[i]
  <2>1. streams[s].queue \in Seq(Op)
    BY <1>2, <1>3, StreamForms
  <2> DEFINE queue == streams[s].queue
             longer == Append(queue, c.op)
  <2>2. st[s].queue = longer
    BY <1>6, <1>7
  <2>3. c.op \in Op
    BY <1>2
  <2>4. queue \in Seq(Op)
    BY <2>1
  <2> HIDE DEF queue, c
  <2>5. /\ longer \in Seq(Op) /\ Len(longer) = Len(queue) + 1
        /\ longer[Len(queue) + 1] = c.op
        /\ \A i \in 1 .. Len(queue) : longer[i] = queue[i]
    BY <2>3, <2>4, Appending, SMTT(30)
  <2> HIDE DEF longer
  <2>6. n = Len(queue)
    BY <1>9 DEF queue
  <2>7. DOMAIN longer = 1 .. n + 1
    BY <2>5, <2>6, LenProperties
  <2>8. longer[n + 1] = c.op /\ \A i \in 1 .. n : longer[i] = queue[i]
    BY <2>5, <2>6
  <2> QED BY <2>2, <2>7, <2>8 DEF queue
<1>11. \A i \in DOMAIN st[s].queue : i = n + 1 \/ i \in 1 .. n
  BY <1>10
<1>12. TypesOK(st, td)
  <2>1. \A r \in Streams : ~st[r].open => st[r].queue = <<>>
    BY <1>3, <1>6, <1>7
  <2> QED BY <1>3, <1>4, <1>8, <2>1 DEF TypesOK
<1>13. \A r \in Streams : \A t : EndsIn(st, r, t) => EndsIn(streams, r, t) \/ Ends(c.op, t)
  <2>1. ASSUME NEW t, EndsIn(st, s, t) PROVE EndsIn(streams, s, t) \/ Ends(c.op, t)
    BY <1>9, <1>10, <1>11, <2>1 DEF EndsIn
  <2> QED BY <1>7, <2>1 DEF EndsIn
<1>14. Fresh(st)
  <2>1. \A t : Ends(c.op, t) => t \in Ids(c.op) /\ origin[t] # NoStream
    BY <1>2, OpForms DEF Formed
  <2> QED BY <1>3, <1>13, <2>1 DEF Fresh
<1>15. Last(st, td)
  <2>1. \A t \in Tensors : Ends(c.op, t) => ~Live(todo, t)
    <3>1. Ending(c) = {t \in Tensors : Ends(c.op, t)}
      BY <1>1 DEF Ending
    <3> QED BY <1>1, <1>3, <3>1 DEF Released
  <2> QED BY <1>3, <1>5, <1>13, <2>1 DEF Last
<1>16. Made(st, td)
  <2>1. \A t : Makes(c.op, t) => MakesIn(st, s, t)
    <3>1. n + 1 \in DOMAIN st[s].queue
      BY <1>10
    <3> QED BY <1>10, <3>1 DEF MakesIn
  <2>2. \A r \in Streams : \A t : MakesIn(streams, r, t) => MakesIn(st, r, t)
    <3>1. ASSUME NEW t, MakesIn(streams, s, t) PROVE MakesIn(st, s, t)
      <4>1. \A i \in 1 .. n : i \in DOMAIN st[s].queue
        BY <1>10
      <4> QED BY <1>9, <1>10, <3>1, <4>1 DEF MakesIn
    <3> QED BY <1>7, <3>1 DEF MakesIn
  <2> QED BY <1>2, <1>3, <1>5, <2>1, <2>2 DEF Made
<1>17. Tracked(st, td)
  <2>1. ASSUME NEW r \in Streams, NEW i \in DOMAIN st[r].queue, NEW t \in Tensors,
               Makes(st[r].queue[i], t)
        PROVE  /\ origin[t] = r
               /\ Live(td, t) =>
                    /\ st[r].variables[t] # NoStream
                    /\ t \in DOMAIN shared =>
                         /\ r \in DOMAIN shared[t]
                         /\ shared[t][r].current >= st[r].cursor + i
                         /\ shared[t][r].origin >= st[r].cursor + i
    <3>1. CASE r # s
      BY <1>3, <1>5, <1>7, <2>1, <3>1 DEF Tracked
    <3>2. CASE r = s /\ i = n + 1
      <4>1. Makes(c.op, t) /\ t \in Ids(c.op)
        BY <1>2, <1>10, <2>1, <3>2, OpForms
      <4>2. origin[t] = s /\ t \notin DOMAIN shared
        BY <1>2, <1>3, <4>1 DEF Formed, New
      <4> QED BY <1>6, <1>7, <3>2, <4>1, <4>2
    <3>3. CASE r = s /\ i \in 1 .. n
      <4>1. i \in DOMAIN streams[s].queue /\ Makes(streams[s].queue[i], t)
        BY <1>9, <1>10, <2>1, <3>3
      <4>2. streams[s].open
        <5>1. streams[s].queue # <<>>
          BY <4>1
        <5> QED BY <1>2, <1>3, <5>1
      <4>3. /\ origin[t] = s
            /\ Live(todo, t) =>
                 /\ streams[s].variables[t] # NoStream
                 /\ t \in DOMAIN shared =>
                      /\ s \in DOMAIN shared[t]
                      /\ shared[t][s].current >= streams[s].cursor + i
                      /\ shared[t][s].origin >= streams[s].cursor + i
        BY <1>2, <1>3, <4>1 DEF Tracked
      <4> QED BY <1>5, <1>6, <1>7, <3>3, <4>2, <4>3
    <3> QED BY <1>11, <3>1, <3>2, <3>3
  <2> QED BY <2>1 DEF Tracked
<1>18. New(td)
  BY <1>3, <1>5 DEF New
<1>19. LiveInv(st, td)
  BY <1>5, <1>12, <1>14, <1>15, <1>16, <1>17, <1>18 DEF LiveInv
<1> QED BY <1>1, <1>19 DEF st, td, new

LEMMA StepProcess ==
  ASSUME FusionAssumption, LiveInv(streams, todo), RunProcess
  PROVE  panicked' \/ LiveInv(streams, todo)'
<1> DEFINE c == todo[1]
           s == c.stream
           new == Queued(s, c.op, c.tags)
           n == Len(new.queue)
           st == [streams EXCEPT ![s] = new]
           td == <<Flush(s, c.sync)>> \o Tail(todo)
<1>1. /\ todo \in Seq(Frame) /\ todo # <<>> /\ Calling("process")
      /\ Head(todo) = c /\ c \in Frame /\ c.call = "process" /\ OpCall(c)
  BY HeadForms DEF RunProcess, Calling, LiveInv, TypesOK, OpCall
<1>2. /\ s \in Streams /\ c.op \in Op /\ c.tags \in Variables /\ c.sync \in BOOLEAN
  BY <1>1, FrameForms
<1>3. UNCHANGED <<origin, refs>>
  BY DEF RunProcess
<1>4. LiveInv(st, td)
  BY <1>1, <1>2, QueueStep
<1>5. /\ st[s] = new /\ \A r \in Streams : r # s => st[r] = streams[r]
  BY <1>2 DEF LiveInv, TypesOK
<1>6. new \in StreamType /\ new.open = TRUE /\ n \in Nat
  <2>1. new \in StreamType /\ new.open = TRUE
    BY <1>2, QueuedForms DEF LiveInv, TypesOK, QueuedOK
  <2>2. new.queue \in Seq(Op)
    BY <2>1 DEF StreamType
  <2> QED BY <2>1, <2>2, LenProperties
<1>7. Settled(td)
  <2>1. Settled(Tail(todo)) /\ Tail(todo) \in Seq(Frame)
    BY <1>1, TailSettled, HeadForms DEF LiveInv
  <2>2. Flush(s, c.sync) \in Frame /\ Flush(s, c.sync).call = "flush"
    BY <1>2, PlainFramesMade DEF Flush
  <2>3. PICK m \in Nat : m = Len(Tail(todo)) /\ DOMAIN Tail(todo) = 1 .. m
    BY <2>1, LenProperties
  <2>4. /\ td[1] = Flush(s, c.sync)
        /\ \A i \in DOMAIN td : i > 1 => i - 1 \in DOMAIN Tail(todo) /\ td[i] = Tail(todo)[i - 1]
        /\ \A i \in DOMAIN td : i = 1 \/ i > 1
    <3> DEFINE f == Flush(s, c.sync)
               x == Tail(todo)
    <3> HIDE DEF f, x
    <3>1. <<f>> \in Seq(Frame) /\ Len(<<f>>) = 1 /\ <<f>>[1] = f
      BY <2>2 DEF f
    <3>2. /\ <<f>> \o x \in Seq(Frame) /\ Len(<<f>> \o x) = 1 + m
          /\ \A i \in 1 .. 1 + m : (<<f>> \o x)[i] = IF i <= 1 THEN <<f>>[i] ELSE x[i - 1]
      BY <2>1, <2>3, <3>1, ConcatProperties DEF x
    <3>3. DOMAIN (<<f>> \o x) = 1 .. 1 + m
      BY <3>2, LenProperties
    <3>4. td = <<f>> \o x
      BY DEF f, x
    <3> HIDE DEF td
    <3>5. td[1] = f
      BY <3>1, <3>2, <3>4
    <3>6. \A i \in DOMAIN td : (i > 1 => i - 1 \in DOMAIN x /\ td[i] = x[i - 1]) /\ (i = 1 \/ i > 1)
      BY <2>3, <3>2, <3>3, <3>4 DEF x
    <3> QED BY <3>5, <3>6 DEF f, x
  <2> HIDE DEF td
  <2> QED BY <2>1, <2>2, <2>4 DEF Settled
<1>8. PICK k \in IF PartialPlans THEN 0 .. n ELSE {0, n} :
        \/ Panic
        \/ /\ streams' = st /\ todo' = td
           /\ UNCHANGED <<shared, manual, handles, panicked>>
        \/ Execute(s, new, k, td)
  <2>1. PICK k \in IF PartialPlans THEN 0 .. n ELSE {0, n} :
          CASE Missing(new.queue, k) -> Panic
            [] k = 0 -> /\ streams' = st
                        /\ todo' = td
                        /\ UNCHANGED <<shared, manual, handles, panicked>>
            [] OTHER -> Execute(s, new, k, td)
    BY <1>1 DEF RunProcess
  <2> HIDE DEF new, st, td, n
  <2> QED BY <2>1
<1>9. k \in 0 .. n
  BY <1>6
<1>10. CASE Panic
  BY <1>10 DEF Panic
<1>11. CASE /\ streams' = st /\ todo' = td
            /\ UNCHANGED <<shared, manual, handles, panicked>>
  <2> HIDE DEF st, td
  <2>1. LiveInv(streams', todo')
    BY <1>4, <1>11
  <2> QED BY <1>3, <1>11, <2>1, Reached
<1>12. CASE Execute(s, new, k, td)
  <2> HIDE DEF st, td, new
  <2>1. st[s].open /\ Execute(s, st[s], k, td) /\ k \in 0 .. Len(st[s].queue)
    BY <1>5, <1>6, <1>9, <1>12
  <2> QED BY <1>2, <1>3, <1>4, <1>5, <1>7, <2>1, ExecuteStep
<1> QED BY <1>8, <1>10, <1>11, <1>12
-----------------------------------------------------------------------------
(* read_float(): the stream of the tensor stays in the map, or leaves it.     *)

LEMMA ReadStays ==
  ASSUME NEW td, TypesOK(streams, td), Fresh(streams), Last(streams, td),
         Made(streams, td), Tracked(streams, td), New(td),
         NEW t \in Tensors, ~Live(td, t), handles' = handles \ {t},
         origin' = origin, refs' = refs, shared' = shared, manual' = manual, todo' = td,
         Shape(todo)', AllFormed(todo)', Released(todo)',
         \A u : Live(todo, u)' <=> Live(td, u),
         streams' = [r \in Streams |-> streams'[r]],
         \A r \in Streams : /\ streams'[r] \in StreamType
                            /\ streams'[r].queue = streams[r].queue
                            /\ streams'[r].cursor = streams[r].cursor
                            /\ streams'[r].open = streams[r].open,
         \A r \in Streams, u \in Tensors : u # t =>
           streams'[r].variables[u] = streams[r].variables[u]
  PROVE  LiveInv(streams, todo)'
<1>1. TypesOK(streams, todo)'
  <2>1. streams' \in [Streams -> StreamType]
    OBVIOUS
  <2> QED BY <2>1 DEF TypesOK
<1>2. Fresh(streams)'
  BY DEF Fresh, EndsIn
<1>3. Last(streams, todo)'
  BY DEF Last, EndsIn
<1>4. Made(streams, todo)'
  BY DEF Made, MakesIn
<1>5. Tracked(streams, todo)'
  <2>1. \A r \in Streams : \A i \in DOMAIN streams'[r].queue : \A u \in Tensors :
          Makes(streams'[r].queue[i], u) =>
            /\ origin'[u] = r
            /\ Live(td, u) =>
                 /\ streams'[r].variables[u] # NoStream
                 /\ u \in DOMAIN shared' =>
                      /\ r \in DOMAIN shared'[u]
                      /\ shared'[u][r].current >= streams'[r].cursor + i
                      /\ shared'[u][r].origin >= streams'[r].cursor + i
    BY DEF Tracked
  <2> QED BY <2>1 DEF Tracked
<1>6. New(todo)'
  BY DEF New
<1> QED BY <1>1, <1>2, <1>3, <1>4, <1>5, <1>6 DEF LiveInv

LEMMA ReadCloses ==
  ASSUME NEW td, TypesOK(streams, td), Fresh(streams), Last(streams, td),
         Made(streams, td), Tracked(streams, td), New(td),
         NEW t \in Tensors, ~Live(td, t), handles' = handles \ {t},
         origin' = origin, refs' = refs, shared' = shared, manual' = manual, todo' = td,
         Shape(todo)', AllFormed(todo)', Released(todo)',
         \A u : Live(todo, u)' <=> Live(td, u),
         streams' = [r \in Streams |-> streams'[r]],
         NEW s \in Streams, streams'[s] = Closed, Closed \in StreamType, Closed.queue = <<>>,
         \A r \in Streams : r # s => streams'[r] = streams[r],
         \A u \in Tensors : Live(td, u) => ~MakesIn(streams, s, u)
  PROVE  LiveInv(streams, todo)'
<1>1. TypesOK(streams, todo)'
  <2>1. \A r \in Streams : streams'[r] \in StreamType
    BY DEF TypesOK
  <2>2. streams' \in [Streams -> StreamType]
    BY <2>1
  <2>3. \A r \in Streams : ~streams'[r].open => streams'[r].queue = <<>>
    BY DEF TypesOK
  <2> QED BY <2>2, <2>3 DEF TypesOK
<1>2. \A u : ~MakesIn(streams', s, u) /\ ~EndsIn(streams', s, u)
  BY DEF MakesIn, EndsIn
<1>3. \A r \in Streams : r # s => \A u :
        /\ MakesIn(streams', r, u) <=> MakesIn(streams, r, u)
        /\ EndsIn(streams', r, u) <=> EndsIn(streams, r, u)
  BY DEF MakesIn, EndsIn
<1>4. Fresh(streams)'
  <2>1. \A u \in Tensors : origin[u] = NoStream =>
          /\ refs[u] = 0
          /\ \A r \in Streams : ~EndsIn(streams', r, u)
          /\ u \notin manual
          /\ u \notin DOMAIN shared
    BY <1>2, <1>3 DEF Fresh
  <2> QED BY <2>1 DEF Fresh
<1>5. Last(streams, todo)'
  <2>1. \A u \in Tensors : Live(td, u) => u \notin manual /\ \A r \in Streams : ~EndsIn(streams', r, u)
    BY <1>2, <1>3 DEF Last
  <2> QED BY <2>1 DEF Last
<1>6. Made(streams, todo)'
  <2>1. \A u \in Tensors : Live(td, u) =>
          u \in handles' \/ (\E r \in Streams : MakesIn(streams', r, u)) \/ ToMake(todo', u)
    BY <1>3 DEF Made
  <2> QED BY <2>1 DEF Made
<1>7. Tracked(streams, todo)'
  <2>1. \A r \in Streams : \A i \in DOMAIN streams'[r].queue : \A u \in Tensors :
          Makes(streams'[r].queue[i], u) =>
            /\ origin'[u] = r
            /\ Live(td, u) =>
                 /\ streams'[r].variables[u] # NoStream
                 /\ u \in DOMAIN shared' =>
                      /\ r \in DOMAIN shared'[u]
                      /\ shared'[u][r].current >= streams'[r].cursor + i
                      /\ shared'[u][r].origin >= streams'[r].cursor + i
    BY DEF Tracked
  <2> QED BY <2>1 DEF Tracked
<1>8. New(todo)'
  BY DEF New
<1> QED BY <1>1, <1>4, <1>5, <1>6, <1>7, <1>8 DEF LiveInv
LEMMA StepRead ==
  ASSUME LiveInv(streams, todo), RunRead
  PROVE  panicked' \/ LiveInv(streams, todo)'
<1> DEFINE c == todo[1]
           s == c.stream
           t == c.node.id
           vs == [streams[s].variables EXCEPT ![t] = NoStream]
<1>1. /\ todo \in Seq(Frame) /\ todo # <<>>
      /\ Head(todo) = c /\ c \in Frame /\ c.call = "read" /\ 1 \in DOMAIN todo
  BY HeadForms DEF RunRead, Calling, LiveInv, TypesOK
<1>2. s \in Streams /\ c.node \in Node /\ t \in Tensors /\ ~OpCall(c)
  BY <1>1, FrameForms DEF OpCall, Node
<1>3. UNCHANGED <<origin, refs>>
  BY DEF RunRead
<1>4. Tail(todo) \in Seq(Frame) /\ LiveInv(streams, Tail(todo)) /\ Called(todo, Tail(todo), 0)
  BY <1>1, <1>2, CalledNone, CallsStep
<1>5. \/ Panic
      \/ /\ todo' = Tail(todo)
         /\ UNCHANGED <<handles, streams, shared, manual>>
      \/ /\ todo' = Tail(todo)
         /\ c.node.status = "ReadWrite"
         /\ handles' = handles \ {t}
         /\ streams' = [streams EXCEPT ![s] =
                          IF ~streams[s].open \/ vs = NoVariables THEN Closed
                          ELSE [streams[s] EXCEPT !.variables = vs]]
         /\ UNCHANGED <<shared, manual>>
  BY <1>1 DEF RunRead
<1>6. CASE Panic
  BY <1>6 DEF Panic
<1>7. CASE /\ todo' = Tail(todo)
           /\ UNCHANGED <<handles, streams, shared, manual>>
  BY <1>3, <1>4, <1>7, Unmoved
<1>8. CASE /\ todo' = Tail(todo)
           /\ c.node.status = "ReadWrite"
           /\ handles' = handles \ {t}
           /\ streams' = [streams EXCEPT ![s] =
                            IF ~streams[s].open \/ vs = NoVariables THEN Closed
                            ELSE [streams[s] EXCEPT !.variables = vs]]
           /\ UNCHANGED <<shared, manual>>
  <2> DEFINE td == Tail(todo)
  <2>1. /\ TypesOK(streams, td) /\ Shape(td) /\ AllFormed(td) /\ Released(td)
        /\ Fresh(streams) /\ Last(streams, td) /\ Made(streams, td)
        /\ Tracked(streams, td) /\ New(td)
        /\ streams \in [Streams -> StreamType]
        /\ \A r \in Streams : ~streams[r].open => streams[r].queue = <<>>
    BY <1>4 DEF LiveInv, TypesOK
  <2>2. ~Live(td, t)
    <3>1. Ending(c) = {t}
      BY <1>1, <1>8 DEF Ending
    <3>2. ~Live(todo, t)
      BY <1>1, <3>1 DEF LiveInv, Released
    <3>3. \A u : Live(td, u) => Live(todo, u)
      BY <1>1, <1>4, CalledForms DEF LiveInv, TypesOK
    <3> QED BY <3>2, <3>3
  <2>3. origin' = origin /\ refs' = refs /\ shared' = shared /\ manual' = manual /\ todo' = td
    BY <1>3, <1>8
  <2> HIDE DEF td
  <2>4. /\ Shape(todo)' /\ AllFormed(todo)' /\ Released(todo)'
        /\ \A u : Live(todo, u)' <=> Live(td, u)
    BY <1>3, <2>1, <2>3, CallsPrimed
\* The stream of the tensor, which may leave the map.
  <2>5. vs \in Variables /\ \A u \in Tensors : u # t => vs[u] = streams[s].variables[u]
    <3>1. streams[s].variables \in Variables
      BY <1>2, <2>1, StreamForms
    <3> QED BY <1>2, <3>1 DEF Variables
  <2>6. \A r \in Streams : r # s => streams'[r] = streams[r]
    BY <1>2, <1>8, <2>1
  <2>7. \/ streams'[s] = Closed /\ (~streams[s].open \/ vs = NoVariables)
        \/ streams'[s] = [streams[s] EXCEPT !.variables = vs] /\ streams[s].open
    BY <1>2, <1>8, <2>1
  <2> HIDE DEF vs
  <2>8. /\ Closed \in StreamType /\ Closed.queue = <<>>
    <3>1. NoVariables \in Variables
      BY DEF NoVariables, Variables
    <3>2. <<>> \in Seq(Op)
      BY EmptySeq
    <3> QED BY <3>1, <3>2 DEF Closed, StreamType
  <2>9. CASE streams'[s] = [streams[s] EXCEPT !.variables = vs] /\ streams[s].open
    <3>1. /\ streams'[s] \in StreamType /\ streams'[s].open = streams[s].open
          /\ streams'[s].queue = streams[s].queue /\ streams'[s].variables = vs
          /\ streams'[s].cursor = streams[s].cursor
      <4> HIDE DEF s
      <4>1. streams[s] \in StreamType /\ vs \in Variables
        BY <1>2, <2>1, <2>5
      <4>2. /\ [streams[s] EXCEPT !.variables = vs].open = streams[s].open
            /\ [streams[s] EXCEPT !.variables = vs].queue = streams[s].queue
            /\ [streams[s] EXCEPT !.variables = vs].variables = vs
            /\ [streams[s] EXCEPT !.variables = vs].cursor = streams[s].cursor
            /\ [streams[s] EXCEPT !.variables = vs] \in StreamType
        BY <4>1, WithVariables
      <4> QED BY <2>9, <4>2
    <3>2. /\ \A r \in Streams : streams'[r] \in StreamType /\ streams'[r].queue = streams[r].queue
                               /\ streams'[r].cursor = streams[r].cursor
                               /\ streams'[r].open = streams[r].open
          /\ \A r \in Streams, u \in Tensors : u # t =>
               streams'[r].variables[u] = streams[r].variables[u]
      BY <2>1, <2>5, <2>6, <3>1
    <3>3. streams' = [r \in Streams |-> streams'[r]] /\ handles' = handles \ {t}
      BY <1>8, <2>1
    <3> QED BY <1>2, <2>1, <2>2, <2>3, <2>4, <3>2, <3>3, ReadStays
  <2>10. CASE streams'[s] = Closed /\ (~streams[s].open \/ vs = NoVariables)
    <3>1. \A u \in Tensors : Live(td, u) => ~MakesIn(streams, s, u)
      <4>1. CASE ~streams[s].open
        <5>1. streams[s].queue = <<>>
          BY <1>2, <2>1, <4>1
        <5> QED BY <5>1 DEF MakesIn
      <4>2. CASE vs = NoVariables
        <5>1. ASSUME NEW u \in Tensors, Live(td, u), MakesIn(streams, s, u) PROVE FALSE
          <6>1. streams[s].variables[u] # NoStream
            BY <1>2, <2>1, <5>1 DEF Tracked, MakesIn
          <6>2. u # t /\ vs[u] = NoStream
            BY <2>2, <4>2, <5>1 DEF NoVariables
          <6> QED BY <2>5, <6>1, <6>2
        <5> QED BY <5>1
      <4> QED BY <2>10, <4>1, <4>2
    <3>2. streams' = [r \in Streams |-> streams'[r]] /\ handles' = handles \ {t}
      BY <1>8, <2>1
    <3> QED BY <1>2, <2>1, <2>2, <2>3, <2>4, <2>6, <2>8, <2>10, <3>1, <3>2, ReadCloses
  <2> QED BY <2>7, <2>9, <2>10
<1> QED BY <1>5, <1>6, <1>7, <1>8
-----------------------------------------------------------------------------
(* Calls of clients.                                                         *)

\* A client's call moves no tensor and queues nothing: what it makes is new.
LEMMA ClientStep ==
  ASSUME LiveInv(streams, todo), todo = <<>>, UNCHANGED server,
         origin' \in Variables, refs' \in [Tensors -> Nat], todo' \in Seq(Frame),
         Shape(todo'), AllFormed(todo)', Released(todo)',
         \A t \in Tensors : Live(todo, t)' => refs[t] > 0 \/ (origin[t] = NoStream /\ ToMake(todo', t)),
         \A t \in Tensors : ToMake(todo', t) => origin[t] = NoStream,
         \A t \in Tensors : origin[t] # NoStream => origin'[t] = origin[t],
         \A t \in Tensors : origin'[t] = NoStream => refs'[t] = 0
  PROVE  LiveInv(streams, todo)'
<1>1. /\ streams' = streams /\ shared' = shared /\ manual' = manual /\ handles' = handles
  BY DEF server
<1>2. /\ TypesOK(streams, todo) /\ Fresh(streams) /\ Last(streams, todo)
      /\ Made(streams, todo) /\ Tracked(streams, todo)
  BY DEF LiveInv
<1>3. DOMAIN todo = {}
  OBVIOUS
<1>4. (\A t : ~ToMake(todo, t)) /\ (\A t : Live(todo, t) <=> refs[t] > 0)
  BY <1>3 DEF ToMake, Live
<1>5. TypesOK(streams, todo)'
  BY <1>1, <1>2 DEF TypesOK
<1>6. Fresh(streams)'
  BY <1>1, <1>2 DEF Fresh
<1>7. Last(streams, todo)'
  <2>1. ASSUME NEW t \in Tensors, Live(todo, t)'
        PROVE  t \notin manual /\ \A s \in Streams : ~EndsIn(streams, s, t)
    BY <1>2, <1>4, <2>1 DEF Last, Fresh
  <2>2. \A t \in Tensors : Live(todo, t)' =>
          t \notin manual' /\ \A s \in Streams : ~EndsIn(streams', s, t)
    BY <1>1, <2>1
  <2> QED BY <2>2 DEF Last
<1>8. Made(streams, todo)'
  <2>1. ASSUME NEW t \in Tensors, Live(todo, t)'
        PROVE  \/ t \in handles
               \/ \E s \in Streams : MakesIn(streams, s, t)
               \/ ToMake(todo', t)
    BY <1>2, <1>4, <2>1 DEF Made
  <2>2. \A t \in Tensors : Live(todo, t)' =>
          \/ t \in handles'
          \/ \E s \in Streams : MakesIn(streams', s, t)
          \/ ToMake(todo', t)
    BY <1>1, <2>1
  <2> QED BY <2>2 DEF Made
<1>9. Tracked(streams, todo)'
  <2>1. ASSUME NEW r \in Streams, NEW i \in DOMAIN streams[r].queue, NEW t \in Tensors,
               Makes(streams[r].queue[i], t)
        PROVE  /\ origin'[t] = r
               /\ Live(todo, t)' =>
                    /\ streams[r].variables[t] # NoStream
                    /\ t \in DOMAIN shared =>
                         /\ r \in DOMAIN shared[t]
                         /\ shared[t][r].current >= streams[r].cursor + i
                         /\ shared[t][r].origin >= streams[r].cursor + i
    <3>1. origin[t] = r /\ origin[t] # NoStream
      BY <1>2, <2>1, FusionAssumption DEF Tracked
    <3> QED BY <1>2, <1>4, <2>1, <3>1 DEF Tracked
  <2>2. \A r \in Streams : \A i \in DOMAIN streams'[r].queue : \A t \in Tensors :
          Makes(streams'[r].queue[i], t) =>
            /\ origin'[t] = r
            /\ Live(todo, t)' =>
                 /\ streams'[r].variables[t] # NoStream
                 /\ t \in DOMAIN shared' =>
                      /\ r \in DOMAIN shared'[t]
                      /\ shared'[t][r].current >= streams'[r].cursor + i
                      /\ shared'[t][r].origin >= streams'[r].cursor + i
    BY <1>1, <2>1
  <2> QED BY <2>2 DEF Tracked
<1>10. New(todo)'
  <2>1. \A t \in Tensors : ToMake(todo', t) => t \notin DOMAIN shared'
    BY <1>1, <1>2 DEF Fresh
  <2> QED BY <2>1 DEF New
<1>11. Shape(todo)'
  OBVIOUS
<1> QED BY <1>5, <1>6, <1>7, <1>8, <1>9, <1>10, <1>11 DEF LiveInv

\* Calls that are not on operations.
LEMMA NoOperation ==
  ASSUME NEW td \in Seq(Frame), \A i \in DOMAIN td : ~OpCall(td[i])
  PROVE  /\ AllFormed(td)
         /\ \A t : ~ToMake(td, t)
         /\ \A t : Live(td, t) <=> refs[t] > 0
<1>1. \A i \in DOMAIN td : ~Asked(td[i])
  BY DEF Asked, OpCall
<1> QED BY <1>1 DEF AllFormed, ToMake, Live

\* The call of a client on an operation.
LEMMA OneOperation ==
  ASSUME NEW f \in Frame, f.call = "register", ~Again(f)
  PROVE  /\ <<f>> \in Seq(Frame) /\ DOMAIN <<f>> = {1} /\ <<f>>[1] = f
         /\ Shape(<<f>>)
         /\ Ending(f) = {}
         /\ \A t : ToMake(<<f>>, t) <=> Makes(f.op, t)
         /\ \A t : Live(<<f>>, t) <=> refs[t] > 0 \/ t \in Ids(f.op)
<1>1. <<f>> \in Seq(Frame) /\ DOMAIN <<f>> = {1} /\ <<f>>[1] = f /\ Len(<<f>>) = 1
  OBVIOUS
<1>2. OpCall(f) /\ Asked(f)
  BY DEF OpCall, Asked
<1>3. Shape(<<f>>)
  BY <1>1 DEF Shape
<1>4. Ending(f) = {}
  BY DEF Ending
<1>5. \A t : ToMake(<<f>>, t) <=> Makes(f.op, t)
  BY <1>1, <1>2 DEF ToMake
<1>6. \A t : Live(<<f>>, t) <=> refs[t] > 0 \/ t \in Ids(f.op)
  BY <1>1, <1>2 DEF Live
<1> QED BY <1>1, <1>3, <1>4, <1>5, <1>6

\* An operation that takes tensors by value.
Taken(ins, out) ==
  [nodes |-> {IntoIr(t) : t \in ins} \cup {[id |-> out, status |-> "NotInit"]}, drop |-> FALSE]

LEMMA TakenForms ==
  ASSUME refs \in [Tensors -> Nat],
         NEW ins \in SUBSET Tensors, NEW out \in Tensors, out \notin ins,
         NEW op, op = Taken(ins, out)
  PROVE  /\ op \in Op /\ op.drop = FALSE
         /\ Ids(op) = ins \cup {out}
         /\ \A t : Makes(op, t) <=> t = out
         /\ \A t : Ends(op, t) => t \in ins /\ refs[t] = 1
<1>1. \A t \in ins : /\ IntoIr(t) \in Node /\ IntoIr(t).id = t
                     /\ IntoIr(t).status = IF refs[t] = 1 THEN "ReadWrite" ELSE "ReadOnly"
  BY DEF IntoIr, Node, Status
<1>2. [id |-> out, status |-> "NotInit"] \in Node
  BY DEF Node, Status
<1>3. op.nodes = {IntoIr(t) : t \in ins} \cup {[id |-> out, status |-> "NotInit"]} /\ op.drop = FALSE
  BY DEF Taken
<1>4. op \in Op
  <2>1. op.nodes \subseteq Node
    BY <1>1, <1>2, <1>3
  <2> QED BY <2>1 DEF Op, Taken
<1>5. Ids(op) = ins \cup {out}
  <2>1. ASSUME NEW t \in ins \cup {out} PROVE \E n \in op.nodes : n.id = t
    <3>1. CASE t \in ins
      BY <1>1, <1>3, <3>1
    <3>2. CASE t = out
      <4>1. [id |-> out, status |-> "NotInit"].id = out
        OBVIOUS
      <4> QED BY <1>3, <3>2, <4>1
    <3> QED BY <3>1, <3>2
  <2>2. ASSUME NEW n \in op.nodes PROVE n.id \in ins \cup {out}
    BY <1>1, <1>3
  <2> QED BY <2>1, <2>2 DEF Ids
<1>6. ASSUME NEW t PROVE Makes(op, t) <=> t = out
  <2>1. \A u \in ins : IntoIr(u) # [id |-> t, status |-> "NotInit"]
    <3>1. \A u \in ins : IntoIr(u).status # "NotInit"
      BY <1>1
    <3> QED BY <3>1
  <2>2. [id |-> out, status |-> "NotInit"] = [id |-> t, status |-> "NotInit"] <=> t = out
    <3>1. [id |-> out, status |-> "NotInit"].id = out /\ [id |-> t, status |-> "NotInit"].id = t
      OBVIOUS
    <3> QED BY <3>1
  <2> QED BY <1>3, <2>1, <2>2 DEF Makes
<1>7. ASSUME NEW t, Ends(op, t) PROVE t \in ins /\ refs[t] = 1
  <2>1. [id |-> out, status |-> "NotInit"] # [id |-> t, status |-> "ReadWrite"]
    OBVIOUS
  <2>2. PICK u \in ins : IntoIr(u) = [id |-> t, status |-> "ReadWrite"]
    BY <1>3, <1>7, <2>1 DEF Ends
  <2>3. IntoIr(u).id = t /\ IntoIr(u).status = "ReadWrite"
    BY <2>2
  <2> QED BY <1>1, <2>3
<1> QED BY <1>3, <1>4, <1>5, <1>6, <1>7

LEMMA StepApply ==
  ASSUME LiveInv(streams, todo), NEW s \in Streams, NEW out \in Tensors,
         NEW ins \in SUBSET Tensors, Apply(s, ins, out)
  PROVE  LiveInv(streams, todo)'
<1> DEFINE op == [nodes |-> {IntoIr(t) : t \in ins} \cup {[id |-> out, status |-> "NotInit"]},
                  drop |-> FALSE]
           tags == [t \in Tensors |-> IF t \in ins THEN origin[t] ELSE NoStream]
           f == Register(s, op, tags)
<1>1. /\ todo = <<>> /\ UNCHANGED server
      /\ \A t \in ins : refs[t] > 0
      /\ origin[out] = NoStream
      /\ origin' = [origin EXCEPT ![out] = s]
      /\ refs' = [t \in Tensors |-> IF t \in ins THEN refs[t] - 1
                                    ELSE IF t = out THEN 1 ELSE refs[t]]
      /\ todo' = <<f>>
  BY DEF Apply, Call
<1>2. /\ origin \in Variables /\ refs \in [Tensors -> Nat] /\ Fresh(streams)
  BY DEF LiveInv, TypesOK
<1>3. out \notin ins
  BY <1>1, <1>2 DEF Fresh
<1>4. /\ op \in Op /\ op.drop = FALSE
      /\ Ids(op) = ins \cup {out}
      /\ \A t : Makes(op, t) <=> t = out
      /\ \A t : Ends(op, t) => t \in ins /\ refs[t] = 1
  <2>1. op = Taken(ins, out)
    BY DEF Taken
  <2> HIDE DEF op
  <2> QED BY <1>2, <1>3, <2>1, TakenForms
<1> HIDE DEF op
<1>5. /\ tags \in Variables /\ tags[out] = NoStream
      /\ \A t \in ins : tags[t] = origin[t]
  BY <1>2, <1>3 DEF Variables
<1> HIDE DEF tags
<1>6. /\ f \in Frame /\ f.call = "register" /\ f.op = op /\ f.tags = tags /\ f.stream = s
      /\ ~Again(f)
  BY <1>4, <1>5, FramesMade DEF Register, Again
<1> HIDE DEF f
<1>7. /\ <<f>> \in Seq(Frame) /\ DOMAIN <<f>> = {1} /\ <<f>>[1] = f
      /\ Shape(<<f>>)
      /\ Ending(f) = {}
      /\ \A t : ToMake(<<f>>, t) <=> t = out
  BY <1>4, <1>6, OneOperation
<1>8. origin' \in Variables /\ refs' \in [Tensors -> Nat]
  <2>1. \A t \in ins : refs[t] - 1 \in Nat
    BY <1>1, <1>2
  <2> QED BY <1>1, <1>2, <2>1 DEF Variables
<1>9. /\ \A t \in Tensors : origin[t] # NoStream => origin'[t] = origin[t]
      /\ origin'[out] = s
      /\ \A t \in Tensors : t # out => origin'[t] = origin[t]
      /\ \A t \in ins : origin[t] # NoStream
  BY <1>1, <1>2 DEF Variables, Fresh
<1>10. /\ \A t \in ins : refs'[t] = refs[t] - 1 /\ refs[t] > 0 /\ refs[t] \in Nat
       /\ \A t \in Tensors : t \notin ins /\ t # out => refs'[t] = refs[t]
  BY <1>1, <1>2
<1>11. \A t \in Tensors : Live(todo, t)' => refs[t] > 0 \/ t = out
  <2>1. \A t \in Tensors : Live(todo, t)' => refs'[t] > 0 \/ t \in Ids(f.op)
    BY <1>1, <1>7 DEF Live
  <2> QED BY <1>4, <1>6, <1>10, <2>1
<1>12. AllFormed(todo)'
  <2>1. /\ ~op.drop
        /\ \A t \in Ids(op) :
             /\ origin'[t] # NoStream
             /\ IF Makes(op, t) THEN tags[t] = NoStream /\ origin'[t] = s
                ELSE tags[t] = origin'[t]
             /\ Ends(op, t) => refs'[t] = 0
    <3>1. s # NoStream
      BY FusionAssumption
    <3>2. \A t \in Tensors : Ends(op, t) => refs'[t] = 0
      BY <1>4, <1>10
    <3>3. ins \subseteq Tensors
      OBVIOUS
    <3> QED BY <1>4, <1>5, <1>9, <3>1, <3>2, <3>3
  <2>2. \A i \in DOMAIN todo' : todo'[i] = f
    BY <1>1, <1>7
  <2> QED BY <2>2, <1>6, <2>1 DEF AllFormed, Formed
<1>13. Released(todo)'
  BY <1>1, <1>7 DEF Released
<1>14. \A t \in Tensors : origin'[t] = NoStream => refs'[t] = 0
  BY <1>2, <1>9, <1>10, FusionAssumption DEF Fresh
<1>15. /\ todo' \in Seq(Frame) /\ Shape(todo')
       /\ \A t \in Tensors : ToMake(todo', t) <=> t = out
  BY <1>1, <1>7
<1>16. /\ \A t \in Tensors : Live(todo, t)' => refs[t] > 0 \/ (origin[t] = NoStream /\ ToMake(todo', t))
       /\ \A t \in Tensors : ToMake(todo', t) => origin[t] = NoStream
  BY <1>1, <1>11, <1>15
<1> QED BY <1>1, <1>8, <1>9, <1>12, <1>13, <1>14, <1>15, <1>16, ClientStep

LEMMA StepClone ==
  ASSUME LiveInv(streams, todo), NEW t \in Tensors, Clone(t)
  PROVE  LiveInv(streams, todo)'
<1>1. /\ todo = <<>> /\ todo' = <<>> /\ UNCHANGED server /\ origin' = origin
      /\ refs[t] > 0
      /\ refs' = [refs EXCEPT ![t] = @ + 1]
  BY DEF Clone
<1>2. /\ origin \in Variables /\ refs \in [Tensors -> Nat] /\ Fresh(streams)
  BY DEF LiveInv, TypesOK
<1>3. /\ refs' \in [Tensors -> Nat]
      /\ \A u \in Tensors : refs'[u] > 0 => refs[u] > 0
      /\ \A u \in Tensors : u # t => refs'[u] = refs[u]
  BY <1>1, <1>2
<1>4. /\ todo' \in Seq(Frame) /\ DOMAIN todo' = {}
  BY <1>1, EmptySeq
<1>5. /\ Shape(todo') /\ AllFormed(todo)' /\ Released(todo)'
      /\ \A u : ~ToMake(todo', u)
      /\ \A u \in Tensors : Live(todo, u)' => refs'[u] > 0
  BY <1>4 DEF Shape, AllFormed, Released, ToMake, Live
<1>6. \A u \in Tensors : origin'[u] = NoStream => refs'[u] = 0
  BY <1>1, <1>2, <1>3 DEF Fresh
<1>7. /\ \A u \in Tensors : Live(todo, u)' => refs[u] > 0 \/ (origin[u] = NoStream /\ ToMake(todo', u))
      /\ \A u \in Tensors : ToMake(todo', u) => origin[u] = NoStream
      /\ \A u \in Tensors : origin[u] # NoStream => origin'[u] = origin[u]
      /\ origin' \in Variables
  BY <1>1, <1>2, <1>3, <1>5
<1> QED BY <1>1, <1>3, <1>4, <1>5, <1>6, <1>7, ClientStep

LEMMA StepDropTensor ==
  ASSUME LiveInv(streams, todo), NEW s \in Streams, NEW t \in Tensors, DropTensor(s, t)
  PROVE  LiveInv(streams, todo)'
<1> DEFINE tags == [NoTags EXCEPT ![t] = origin[t]]
           f == Register(s, DropOf(t), tags)
<1>1. /\ todo = <<>> /\ UNCHANGED server /\ origin' = origin
      /\ refs[t] > 0
      /\ refs' = [refs EXCEPT ![t] = @ - 1]
      /\ todo' = IF refs[t] = 1 THEN <<f>> ELSE <<>>
  BY DEF DropTensor, Call
<1>2. /\ origin \in Variables /\ refs \in [Tensors -> Nat] /\ Fresh(streams)
  BY DEF LiveInv, TypesOK
<1>3. /\ refs' \in [Tensors -> Nat]
      /\ \A u \in Tensors : refs'[u] > 0 => refs[u] > 0
      /\ \A u \in Tensors : u # t => refs'[u] = refs[u]
      /\ refs'[t] = refs[t] - 1
  BY <1>1, <1>2
<1>4. origin[t] # NoStream
  BY <1>1, <1>2 DEF Fresh
<1>5. tags \in Variables /\ tags[t] = origin[t] /\ tags # NoTags
  <2>1. NoTags \in Variables /\ NoTags[t] = NoStream
    BY DEF NoTags, Variables
  <2>2. tags \in Variables
    BY <1>2, <2>1 DEF Variables
  <2>3. tags[t] = origin[t]
    BY <2>1 DEF Variables
  <2> QED BY <1>4, <2>1, <2>2, <2>3
<1> HIDE DEF tags
<1>6. /\ f \in Frame /\ f.call = "register" /\ f.op = DropOf(t) /\ f.tags = tags /\ f.stream = s
      /\ ~Again(f)
  <2>1. f \in Frame
    BY <1>5, DropOfForms, FramesMade
  <2> QED BY <1>5, <2>1 DEF Register, Again
<1> HIDE DEF f
<1>7. \A u \in Tensors : origin'[u] = NoStream => refs'[u] = 0
  BY <1>1, <1>2, <1>3, <1>4 DEF Fresh
<1>8. CASE refs[t] = 1
  <2>1. /\ <<f>> \in Seq(Frame) /\ DOMAIN <<f>> = {1} /\ <<f>>[1] = f
        /\ Shape(<<f>>)
        /\ Ending(f) = {}
        /\ \A u : ToMake(<<f>>, u) <=> Makes(f.op, u)
    BY <1>6, OneOperation
  <2>2. /\ Ids(f.op) = {t} /\ \A u : ~Makes(f.op, u)
    BY <1>6, DropOfForms
  <2>3. \A u \in Tensors : Live(todo, u)' => refs[u] > 0
    <3>1. \A u \in Tensors : Live(todo, u)' => refs'[u] > 0 \/ u \in Ids(f.op)
      BY <1>1, <1>8, <2>1 DEF Live
    <3> QED BY <1>1, <1>3, <2>2, <3>1
  <2>4. AllFormed(todo)'
    <3>1. \A i \in DOMAIN todo' : todo'[i] = f
      BY <1>1, <1>8, <2>1
    <3>2. refs'[t] = 0
      BY <1>3, <1>8
    <3>3. \A u \in Ids(f.op) : origin'[u] # NoStream /\ f.tags[u] = origin'[u] /\ refs'[u] = 0
      BY <1>1, <1>4, <1>5, <1>6, <2>2, <3>2
    <3> QED BY <1>6, <2>2, <3>1, <3>3 DEF AllFormed, Formed
  <2>5. Released(todo)'
    BY <1>1, <1>8, <2>1 DEF Released
  <2>6. /\ todo' \in Seq(Frame) /\ Shape(todo')
        /\ \A u \in Tensors : ~ToMake(todo', u)
    BY <1>1, <1>8, <2>1, <2>2
  <2>7. /\ \A u \in Tensors : Live(todo, u)' => refs[u] > 0 \/ (origin[u] = NoStream /\ ToMake(todo', u))
        /\ \A u \in Tensors : ToMake(todo', u) => origin[u] = NoStream
        /\ \A u \in Tensors : origin[u] # NoStream => origin'[u] = origin[u]
        /\ origin' \in Variables
    BY <1>1, <1>2, <2>3, <2>6
  <2> QED BY <1>1, <1>3, <1>7, <2>4, <2>5, <2>6, <2>7, ClientStep
<1>9. CASE refs[t] # 1
  <2>1. /\ todo' \in Seq(Frame) /\ DOMAIN todo' = {}
    BY <1>1, <1>9, EmptySeq
  <2>2. /\ Shape(todo') /\ AllFormed(todo)' /\ Released(todo)'
        /\ \A u : ~ToMake(todo', u)
        /\ \A u \in Tensors : Live(todo, u)' => refs'[u] > 0
    BY <2>1 DEF Shape, AllFormed, Released, ToMake, Live
  <2>3. /\ \A u \in Tensors : Live(todo, u)' => refs[u] > 0 \/ (origin[u] = NoStream /\ ToMake(todo', u))
        /\ \A u \in Tensors : ToMake(todo', u) => origin[u] = NoStream
        /\ \A u \in Tensors : origin[u] # NoStream => origin'[u] = origin[u]
        /\ origin' \in Variables
    BY <1>1, <1>2, <1>3, <2>2
  <2> QED BY <1>1, <1>3, <1>7, <2>1, <2>2, <2>3, ClientStep
<1> QED BY <1>8, <1>9

LEMMA StepIntoData ==
  ASSUME LiveInv(streams, todo), NEW t \in Tensors, IntoData(t)
  PROVE  LiveInv(streams, todo)'
<1> DEFINE f == Drain(origin[t])
           g == Read(origin[t], IntoIr(t))
<1>1. /\ todo = <<>> /\ UNCHANGED server /\ origin' = origin
      /\ refs[t] > 0
      /\ refs' = [refs EXCEPT ![t] = @ - 1]
      /\ todo' = <<f, g>>
  BY DEF IntoData, Call
<1>2. /\ origin \in Variables /\ refs \in [Tensors -> Nat] /\ Fresh(streams)
  BY DEF LiveInv, TypesOK
<1>3. /\ refs' \in [Tensors -> Nat]
      /\ \A u \in Tensors : refs'[u] > 0 => refs[u] > 0
      /\ \A u \in Tensors : u # t => refs'[u] = refs[u]
      /\ refs'[t] = refs[t] - 1
  BY <1>1, <1>2
<1>4. origin[t] # NoStream /\ origin[t] \in Streams
  BY <1>1, <1>2 DEF Fresh, Variables
<1>5. /\ IntoIr(t) \in Node /\ IntoIr(t).id = t
      /\ IntoIr(t).status = "ReadWrite" => refs[t] = 1
  BY DEF IntoIr, Node, Status
<1>6. /\ f \in Frame /\ f.call = "drain" /\ g \in Frame /\ g.call = "read" /\ g.node = IntoIr(t)
  BY <1>4, <1>5, PlainFramesMade DEF Drain, Read
<1> HIDE DEF f, g
<1>7. /\ todo' \in Seq(Frame) /\ DOMAIN todo' = {1, 2} /\ Len(todo') = 2
      /\ todo'[1] = f /\ todo'[2] = g
  BY <1>1, <1>6
<1>8. \A i \in DOMAIN todo' : ~OpCall(todo'[i])
  BY <1>6, <1>7 DEF OpCall
<1>9. Shape(todo')
  BY <1>6, <1>7 DEF Shape
<1>10. \A u \in Tensors : Live(todo, u)' => refs'[u] > 0
  BY <1>8 DEF Live, Asked, OpCall
<1>11. AllFormed(todo)'
  BY <1>8 DEF AllFormed
<1>12. Released(todo)'
  <2>1. Ending(f) = {} /\ Ending(g) = IF IntoIr(t).status = "ReadWrite" THEN {t} ELSE {}
    BY <1>5, <1>6 DEF Ending
  <2>2. ASSUME NEW i \in DOMAIN todo', NEW u \in Ending(todo'[i])
        PROVE  origin'[u] # NoStream /\ ~Live(todo, u)'
    <3>1. u = t /\ refs[t] = 1
      BY <1>5, <1>7, <2>1, <2>2
    <3> QED BY <1>1, <1>3, <1>4, <1>10, <3>1
  <2> QED BY <2>2 DEF Released
<1>13. \A u \in Tensors : origin'[u] = NoStream => refs'[u] = 0
  BY <1>1, <1>2, <1>3, <1>4 DEF Fresh
<1>14. \A u \in Tensors : ~ToMake(todo', u)
  BY <1>8 DEF ToMake
<1>15. /\ \A u \in Tensors : Live(todo, u)' => refs[u] > 0 \/ (origin[u] = NoStream /\ ToMake(todo', u))
       /\ \A u \in Tensors : ToMake(todo', u) => origin[u] = NoStream
       /\ \A u \in Tensors : origin[u] # NoStream => origin'[u] = origin[u]
       /\ origin' \in Variables
  BY <1>1, <1>2, <1>3, <1>10, <1>14
<1> QED BY <1>1, <1>3, <1>7, <1>9, <1>11, <1>12, <1>13, <1>15, ClientStep

LEMMA StepSync ==
  ASSUME LiveInv(streams, todo), NEW s \in Streams, Sync(s)
  PROVE  LiveInv(streams, todo)'
<1> DEFINE f == Drain(s)
<1>1. /\ todo = <<>> /\ UNCHANGED server /\ origin' = origin /\ refs' = refs
      /\ todo' = <<f>>
  BY DEF Sync, Call
<1>2. /\ origin \in Variables /\ refs \in [Tensors -> Nat] /\ Fresh(streams)
  BY DEF LiveInv, TypesOK
<1>3. f \in Frame /\ f.call = "drain"
  BY PlainFramesMade DEF Drain
<1> HIDE DEF f
<1>4. /\ todo' \in Seq(Frame) /\ DOMAIN todo' = {1} /\ todo'[1] = f
  BY <1>1, <1>3
<1>5. /\ Shape(todo') /\ AllFormed(todo)'
      /\ \A u : ~ToMake(todo', u)
      /\ \A u \in Tensors : Live(todo, u)' => refs'[u] > 0
  BY <1>3, <1>4 DEF Shape, AllFormed, ToMake, Live, Asked, OpCall
<1>6. Released(todo)'
  <2>1. Ending(f) = {}
    BY <1>3 DEF Ending
  <2> QED BY <1>4, <2>1 DEF Released
<1>7. /\ \A u \in Tensors : origin'[u] = NoStream => refs'[u] = 0
      /\ \A u \in Tensors : Live(todo, u)' => refs[u] > 0 \/ (origin[u] = NoStream /\ ToMake(todo', u))
      /\ \A u \in Tensors : ToMake(todo', u) => origin[u] = NoStream
      /\ \A u \in Tensors : origin[u] # NoStream => origin'[u] = origin[u]
      /\ origin' \in Variables /\ refs' \in [Tensors -> Nat]
  BY <1>1, <1>2, <1>5 DEF Fresh
<1> QED BY <1>1, <1>4, <1>5, <1>6, <1>7, ClientStep
-----------------------------------------------------------------------------
(* Theorems.                                                                 *)

LEMMA LiveInit == Init => LiveState
<1> SUFFICES ASSUME Init PROVE LiveInv(streams, todo)
  BY DEF LiveState
<1>1. /\ origin = [t \in Tensors |-> NoStream]
      /\ refs = [t \in Tensors |-> 0]
      /\ streams = [s \in Streams |-> Closed]
      /\ shared = <<>> /\ manual = {} /\ handles = {} /\ todo = <<>>
  BY DEF Init
<1>2. Closed \in StreamType /\ Closed.queue = <<>> /\ DOMAIN Closed.queue = {}
  <2>1. NoVariables \in Variables
    BY DEF NoVariables, Variables
  <2>2. <<>> \in Seq(Op)
    BY EmptySeq
  <2> QED BY <2>1, <2>2 DEF Closed, StreamType
<1>3. DOMAIN shared = {} /\ todo \in Seq(Frame) /\ DOMAIN todo = {}
  BY <1>1, EmptySeq
<1>4. TypesOK(streams, todo)
  BY <1>1, <1>2, <1>3 DEF TypesOK, Variables
<1>5. (\A t \in Tensors : ~Live(todo, t)) /\ (\A t : ~ToMake(todo, t))
  BY <1>1, <1>3 DEF Live, ToMake
<1>6. \A s \in Streams : streams[s].queue = <<>> /\ DOMAIN streams[s].queue = {}
  BY <1>1, <1>2
<1>7. Shape(todo) /\ AllFormed(todo) /\ Released(todo) /\ New(todo)
  BY <1>3, <1>5 DEF Shape, AllFormed, Released, New
<1>8. Fresh(streams)
  BY <1>1, <1>3, <1>6 DEF Fresh, EndsIn
<1>9. Last(streams, todo) /\ Made(streams, todo)
  BY <1>5 DEF Last, Made
<1>10. Tracked(streams, todo)
  BY <1>6 DEF Tracked
<1> QED BY <1>4, <1>7, <1>8, <1>9, <1>10 DEF LiveInv

LEMMA LiveNext == LiveState /\ [Next]_vars => LiveState'
<1> SUFFICES ASSUME LiveState, [Next]_vars, ~panicked' PROVE LiveInv(streams, todo)'
  BY DEF LiveState
<1>1. CASE UNCHANGED vars
  <2>1. LiveInv(streams, todo) /\ todo' = todo /\ UNCHANGED <<origin, refs, streams, shared, manual, handles>>
    BY <1>1 DEF LiveState, vars
  <2>2. LiveInv(streams, todo')
    BY <2>1
  <2> QED BY <2>1, <2>2, Unmoved
<1>2. CASE Client
  <2>1. ~panicked => LiveInv(streams, todo)
    BY DEF LiveState
  <2>2. ASSUME NEW s \in Streams, NEW out \in Tensors, NEW ins \in SUBSET Tensors, Apply(s, ins, out)
        PROVE  LiveInv(streams, todo)'
    <3>1. ~panicked
      BY <2>2 DEF Apply, Call
    <3> QED BY <2>1, <2>2, <3>1, StepApply
  <2>3. ASSUME NEW t \in Tensors, Clone(t) PROVE LiveInv(streams, todo)'
    <3>1. ~panicked
      BY <2>3 DEF Clone
    <3> QED BY <2>1, <2>3, <3>1, StepClone
  <2>4. ASSUME NEW t \in Tensors, IntoData(t) PROVE LiveInv(streams, todo)'
    <3>1. ~panicked
      BY <2>4 DEF IntoData, Call
    <3> QED BY <2>1, <2>4, <3>1, StepIntoData
  <2>5. ASSUME NEW s \in Streams, NEW t \in Tensors, DropTensor(s, t) PROVE LiveInv(streams, todo)'
    <3>1. ~panicked
      BY <2>5 DEF DropTensor, Call
    <3> QED BY <2>1, <2>5, <3>1, StepDropTensor
  <2>6. ASSUME NEW s \in Streams, Sync(s) PROVE LiveInv(streams, todo)'
    <3>1. ~panicked
      BY <2>6 DEF Sync, Call
    <3> QED BY <2>1, <2>6, <3>1, StepSync
  <2> QED BY <1>2, <2>2, <2>3, <2>4, <2>5, <2>6 DEF Client
<1>3. CASE Server
  <2>1. LiveInv(streams, todo)
    <3>1. ~panicked
      BY <1>3 DEF Server, RunRegister, RunResolve, RunAdmit, RunProcess, RunFlush,
                  RunDrain, RunDropShared, RunRead, Calling
    <3> QED BY <3>1 DEF LiveState
  <2>2. CASE RunRegister
    BY <2>1, <2>2, StepRegister
  <2>3. CASE RunResolve
    BY <2>1, <2>3, StepResolve
  <2>4. CASE RunAdmit
    BY <2>1, <2>4, StepAdmit
  <2>5. CASE RunProcess
    BY <2>1, <2>5, StepProcess, FusionAssumption
  <2>6. CASE RunFlush
    BY <2>1, <2>6, StepFlush
  <2>7. CASE RunDrain
    BY <2>1, <2>7, StepDrain
  <2>8. CASE RunDropShared
    BY <2>1, <2>8, StepDropShared
  <2>9. CASE RunRead
    BY <2>1, <2>9, StepRead
  <2> QED BY <1>3, <2>2, <2>3, <2>4, <2>5, <2>6, <2>7, <2>8, <2>9 DEF Server
<1> QED BY <1>1, <1>2, <1>3 DEF Next

\* Whatever prefix of its queue a stream executes: what is live has a handle or
\* is still to be made, is released by no operation queued and by no drop
\* deferred, and keeps the stream in the map that will make it.
THEOREM LiveInvariant == Spec => []LiveState
<1>1. Init => LiveState
  BY LiveInit
<1>2. LiveState /\ [Next]_vars => LiveState'
  BY LiveNext
<1> QED BY <1>1, <1>2, PTL DEF Spec

\* A tensor that a client holds has a handle, or an operation that is still
\* queued will make it.
THEOREM HeldTensorsLiveHolds == Spec => []HeldTensorsLive
<1>1. LiveState => HeldTensorsLive
  <2> SUFFICES ASSUME LiveInv(streams, todo), todo = <<>>, NEW t \in Tensors, refs[t] > 0
               PROVE  t \in handles \/ Pending(t, "NotInit")
    BY DEF LiveState, HeldTensorsLive
  <2>1. Live(todo, t)
    BY DEF Live
  <2>2. ~ToMake(todo, t)
    <3>1. DOMAIN todo = {}
      OBVIOUS
    <3> QED BY <3>1 DEF ToMake
  <2>3. t \in handles \/ \E s \in Streams : MakesIn(streams, s, t)
    BY <2>1, <2>2 DEF LiveInv, Made
  <2> QED BY <2>3 DEF MakesIn, Makes, Pending
<1> QED BY <1>1, LiveInvariant, PTL
-----------------------------------------------------------------------------
(* Drops, with the drain that ContinueDropDrain adds after each of them.  The  *)
(* invariant is about the streams st, the calls td, the tensors sh that are    *)
(* shared, those of mn whose drop is deferred, and the streams of D, which are *)
(* being drained.                                                              *)

DropIn(st, s) == \E i \in DOMAIN st[s].queue : st[s].queue[i].drop
OnlyDrops(st, s) == \A i \in DOMAIN st[s].queue : st[s].queue[i].drop

Draining(td) == {s \in Streams : td # <<>> /\ td[1] = Drain(s)}

\* Calls that only go on with the drops of stream s.
Local(f, s) ==
  \/ f.call \in {"drop", "flush"} /\ f.stream = s
  \/ OpCall(f) /\ Again(f) /\ f.stream = s
  \/ f.call = "resolve" /\ f.streams = {}

\* Nothing but the drops of s comes before the drain of s.
Awaited(td, s) ==
  \E i \in DOMAIN td :
    td[i] = Flush(s, TRUE) /\ \A j \in DOMAIN td : j < i => Local(td[j], s)

\* The operation to come that uses t waits for stream s.
WaitsFor(td, s, t) ==
  \E i \in DOMAIN td :
    td[i].call = "resolve" /\ s \in td[i].streams /\ t \in Ids(td[i].op)

\* The tensors whose drop is registered again.
Deferred(f) ==
  CASE f.call = "drop" -> f.tensors
    [] OpCall(f) -> IF Again(f) THEN Ids(f.op) ELSE {}
    [] OTHER -> {}

\* An operation is a drop or makes a tensor, which it does not release.
Whole(op) ==
  /\ op.drop \/ \E w \in Tensors : Makes(op, w)
  /\ \A t \in Tensors : ~(Makes(op, t) /\ Ends(op, t))

FrameOK(f, st, sh, mn, D) ==
  /\ OpCall(f) => Whole(f.op)
  /\ f.call = "process" =>
       /\ f.op.drop => f.sync
       /\ \A t \in Tensors : Makes(f.op, t) => \A s \in Streams : ~EndsIn(st, s, t)
  /\ Deferred(f) \cap DOMAIN sh = {}
  /\ \A t \in Ending(f) : t \notin mn /\ \A s \in Streams : ~EndsIn(st, s, t)
  /\ f.call = "read" => f.stream \in D \/ OnlyDrops(st, f.stream)

FramesOK(td, st, sh, mn, D) == \A i \in DOMAIN td : FrameOK(td[i], st, sh, mn, D)

\* No tensor is released by two calls.
Distinct(td) ==
  \A i, j \in DOMAIN td : i # j => Ending(td[i]) \cap Ending(td[j]) = {}
Apart(f, td) == \A i \in DOMAIN td : Ending(f) \cap Ending(td[i]) = {}

\* What is still to be made stays a variable of its stream until then, whether
\* it is held or not.
QueueOK(st, s, sh, mn) ==
  \A i \in DOMAIN st[s].queue :
    /\ Whole(st[s].queue[i])
    /\ \A t \in mn : ~Ends(st[s].queue[i], t)
    /\ \A t \in Tensors : Makes(st[s].queue[i], t) =>
         /\ \A j \in DOMAIN st[s].queue : j <= i => ~Ends(st[s].queue[j], t)
         /\ st[s].variables[t] = s
         /\ t \in DOMAIN sh =>
              s \in DOMAIN sh[t] /\ sh[t][s].current >= st[s].cursor + i

QueuesOK(st, sh, mn) == \A s \in Streams : QueueOK(st, s, sh, mn)

\* The streams that are to make a shared tensor are drained first.
Synced(st, td, sh, D) ==
  \A s \in Streams, t \in Tensors :
    MakesIn(st, s, t) /\ t \in DOMAIN sh => s \in D \/ WaitsFor(td, s, t)

\* A drop that is queued is drained before anything else happens ...
Window(st, td, D) == \A s \in Streams : DropIn(st, s) => s \in D \/ Awaited(td, s)

\* ... for the stream has a variable until then.
Anchor(st, s, w, sh) ==
  /\ st[s].variables[w] = s
  /\ w \notin DOMAIN sh
  /\ \A i \in DOMAIN st[s].queue : Ends(st[s].queue[i], w) => i = Len(st[s].queue)

Held(st, td, sh, D) ==
  \A s \in Streams : DropIn(st, s) =>
    \/ s \in D
    \/ \E w \in Tensors : Anchor(st, s, w, sh)
    \/ /\ Len(st[s].queue) = 1
       /\ td # <<>> /\ td[1] = Flush(s, TRUE)
       /\ st[s].variables # NoVariables

DropInv(st, td, sh, mn, D) ==
  /\ FramesOK(td, st, sh, mn, D)
  /\ Distinct(td)
  /\ QueuesOK(st, sh, mn)
  /\ Synced(st, td, sh, D)
  /\ Window(st, td, D)
  /\ Held(st, td, sh, D)

DropState ==
  ~panicked /\ ContinueDropDrain =>
    LiveInv(streams, todo) /\ DropInv(streams, todo, shared, manual, Draining(todo))

-----------------------------------------------------------------------------
(* A stack is a call and the calls below it.                                 *)

Split(c, f, x) ==
  /\ f \in Frame /\ x \in Seq(Frame) /\ c \in Seq(Frame)
  /\ c # <<>> /\ 1 \in DOMAIN c /\ c[1] = f
  /\ \A i \in DOMAIN c : i = 1 \/ (i > 1 /\ i - 1 \in DOMAIN x /\ c[i] = x[i - 1])
  /\ \A i \in DOMAIN x : i > 0 /\ i + 1 \in DOMAIN c /\ c[i + 1] = x[i]

LEMMA SplitPush ==
  ASSUME NEW f \in Frame, NEW x \in Seq(Frame)
  PROVE  Split(<<f>> \o x, f, x)
<1> DEFINE c == <<f>> \o x
<1>1. PICK n \in Nat : n = Len(x) /\ DOMAIN x = 1 .. n
  BY LenProperties
<1>2. <<f>> \in Seq(Frame) /\ Len(<<f>>) = 1 /\ <<f>>[1] = f
  OBVIOUS
<1>3. /\ c \in Seq(Frame) /\ Len(c) = 1 + n
      /\ \A i \in 1 .. 1 + n : c[i] = IF i <= 1 THEN <<f>>[i] ELSE x[i - 1]
  BY <1>1, <1>2, ConcatProperties
<1> HIDE DEF c
<1>4. DOMAIN c = 1 .. 1 + n
  BY <1>3, LenProperties
<1>5. c # <<>> /\ 1 \in DOMAIN c /\ c[1] = f
  <2>1. Len(c) # 0
    BY <1>3
  <2> QED BY <1>2, <1>3, <1>4, <2>1
<1>6. \A i \in DOMAIN c : i = 1 \/ (i > 1 /\ i - 1 \in DOMAIN x /\ c[i] = x[i - 1])
  BY <1>1, <1>3, <1>4
<1>7. \A i \in DOMAIN x : i > 0 /\ i + 1 \in DOMAIN c /\ c[i + 1] = x[i]
  <2>1. ASSUME NEW i \in 1 .. n PROVE i > 0 /\ i + 1 \in 1 .. 1 + n /\ c[i + 1] = x[i]
    <3>1. i + 1 \in 1 .. 1 + n /\ ~(i + 1 <= 1) /\ (i + 1) - 1 = i /\ i > 0
      OBVIOUS
    <3> QED BY <1>3, <3>1
  <2> QED BY <1>1, <1>4, <2>1
<1>8. Split(c, f, x)
  BY <1>3, <1>5, <1>6, <1>7 DEF Split
<1> QED BY <1>8 DEF c

LEMMA SplitTail ==
  ASSUME NEW td \in Seq(Frame), td # <<>>
  PROVE  Split(td, td[1], Tail(td))
<1>1. PICK n \in Nat : n = Len(td) /\ DOMAIN td = 1 .. n
  BY LenProperties
<1>2. n > 0
  BY <1>1, EmptySeq
<1>3. /\ Tail(td) \in Seq(Frame) /\ Len(Tail(td)) = n - 1
      /\ DOMAIN Tail(td) = 1 .. n - 1
      /\ \A i \in 1 .. n - 1 : Tail(td)[i] = td[i + 1]
  BY <1>1, <1>2
<1> DEFINE x == Tail(td)
<1> HIDE DEF x
<1>4. /\ x \in Seq(Frame) /\ DOMAIN x = 1 .. n - 1
      /\ \A i \in 1 .. n - 1 : x[i] = td[i + 1]
  BY <1>3 DEF x
<1>5. \A i \in DOMAIN td : i = 1 \/ (i > 1 /\ i - 1 \in DOMAIN x /\ td[i] = x[i - 1])
  <2>1. ASSUME NEW i \in 1 .. n, i # 1 PROVE i > 1 /\ i - 1 \in 1 .. n - 1 /\ td[i] = x[i - 1]
    <3>1. i > 1 /\ i - 1 \in 1 .. n - 1 /\ (i - 1) + 1 = i
      BY <2>1
    <3> QED BY <1>4, <3>1
  <2> QED BY <1>1, <1>4, <2>1
<1>6. \A i \in DOMAIN x : i > 0 /\ i + 1 \in DOMAIN td /\ td[i + 1] = x[i]
  BY <1>1, <1>4
<1>7. 1 \in DOMAIN td /\ td[1] \in Frame
  BY <1>1, <1>2, ElementOfSeq
<1>8. Split(td, td[1], x)
  BY <1>4, <1>5, <1>6, <1>7 DEF Split
<1> QED BY <1>8 DEF x

LEMMA SplitDraining ==
  ASSUME NEW c, NEW f, NEW x, Split(c, f, x)
  PROVE  Draining(c) = {s \in Streams : f = Drain(s)}
BY DEF Split, Draining

\* The parts of the invariant that speak of the stack.
LEMMA SplitForms ==
  ASSUME NEW c, NEW f, NEW x, Split(c, f, x)
  PROVE  /\ \A st, sh, mn, D :
              FramesOK(c, st, sh, mn, D) <=>
                FrameOK(f, st, sh, mn, D) /\ FramesOK(x, st, sh, mn, D)
         /\ Distinct(c) <=> Apart(f, x) /\ Distinct(x)
         /\ \A g : Apart(g, c) <=> Ending(g) \cap Ending(f) = {} /\ Apart(g, x)
         /\ \A s, t : WaitsFor(c, s, t) <=>
              \/ f.call = "resolve" /\ s \in f.streams /\ t \in Ids(f.op)
              \/ WaitsFor(x, s, t)
         /\ \A s : Awaited(c, s) <=>
              f = Flush(s, TRUE) \/ (Local(f, s) /\ Awaited(x, s))
<1>1. /\ 1 \in DOMAIN c /\ c[1] = f /\ c # <<>>
      /\ \A i \in DOMAIN c : i = 1 \/ (i > 1 /\ i - 1 \in DOMAIN x /\ c[i] = x[i - 1])
      /\ \A i \in DOMAIN x : i > 0 /\ i + 1 \in DOMAIN c /\ c[i + 1] = x[i]
  BY DEF Split
<1>2. \A i \in DOMAIN c : i \in Nat
  BY LenProperties DEF Split
<1>3. \A i \in DOMAIN x : i \in Nat
  BY LenProperties DEF Split
<1>4. ASSUME NEW st, NEW sh, NEW mn, NEW D
      PROVE  FramesOK(c, st, sh, mn, D) <=>
               FrameOK(f, st, sh, mn, D) /\ FramesOK(x, st, sh, mn, D)
  BY <1>1 DEF FramesOK
<1>5. Distinct(c) <=> Apart(f, x) /\ Distinct(x)
  <2>1. ASSUME Distinct(c), NEW i \in DOMAIN x PROVE Ending(f) \cap Ending(x[i]) = {}
    <3>1. i + 1 # 1 /\ i + 1 \in DOMAIN c /\ c[i + 1] = x[i]
      BY <1>1, <1>3
    <3> QED BY <1>1, <2>1, <3>1 DEF Distinct
  <2>2. ASSUME Distinct(c), NEW i \in DOMAIN x, NEW j \in DOMAIN x, i # j
        PROVE  Ending(x[i]) \cap Ending(x[j]) = {}
    <3>1. /\ i + 1 # j + 1
          /\ i + 1 \in DOMAIN c /\ c[i + 1] = x[i]
          /\ j + 1 \in DOMAIN c /\ c[j + 1] = x[j]
      BY <1>1, <1>3, <2>2
    <3> QED BY <2>2, <3>1 DEF Distinct
  <2>3. ASSUME Apart(f, x), Distinct(x), NEW i \in DOMAIN c, NEW j \in DOMAIN c, i # j
        PROVE  Ending(c[i]) \cap Ending(c[j]) = {}
    <3>1. CASE i = 1
      BY <1>1, <2>3, <3>1 DEF Apart
    <3>2. CASE j = 1
      BY <1>1, <2>3, <3>2 DEF Apart
    <3>3. CASE i # 1 /\ j # 1
      <4>1. /\ i - 1 \in DOMAIN x /\ c[i] = x[i - 1]
            /\ j - 1 \in DOMAIN x /\ c[j] = x[j - 1]
            /\ i - 1 # j - 1
        BY <1>1, <1>2, <2>3, <3>3
      <4> QED BY <2>3, <4>1 DEF Distinct
    <3> QED BY <3>1, <3>2, <3>3
  <2> QED BY <2>1, <2>2, <2>3 DEF Distinct, Apart
<1>6. ASSUME NEW g
      PROVE  Apart(g, c) <=> Ending(g) \cap Ending(f) = {} /\ Apart(g, x)
  BY <1>1 DEF Apart
<1>7. ASSUME NEW s, NEW t
      PROVE  WaitsFor(c, s, t) <=>
               \/ f.call = "resolve" /\ s \in f.streams /\ t \in Ids(f.op)
               \/ WaitsFor(x, s, t)
  BY <1>1 DEF WaitsFor
<1>8. ASSUME NEW s
      PROVE  Awaited(c, s) <=> f = Flush(s, TRUE) \/ (Local(f, s) /\ Awaited(x, s))
  <2>1. ASSUME Awaited(c, s), f # Flush(s, TRUE) PROVE Local(f, s) /\ Awaited(x, s)
    <3>1. PICK i \in DOMAIN c : c[i] = Flush(s, TRUE) /\ \A j \in DOMAIN c : j < i => Local(c[j], s)
      BY <2>1 DEF Awaited
    <3>2. i > 1 /\ i - 1 \in DOMAIN x /\ c[i] = x[i - 1]
      BY <1>1, <2>1, <3>1
    <3>3. Local(f, s)
      BY <1>1, <3>1, <3>2
    <3>4. ASSUME NEW j \in DOMAIN x, j < i - 1 PROVE Local(x[j], s)
      <4>1. j + 1 \in DOMAIN c /\ c[j + 1] = x[j] /\ j + 1 < i
        BY <1>1, <1>2, <1>3, <3>4
      <4> QED BY <3>1, <4>1
    <3> QED BY <3>1, <3>2, <3>3, <3>4 DEF Awaited
  <2>2. ASSUME f = Flush(s, TRUE) PROVE Awaited(c, s)
    <3>1. \A j \in DOMAIN c : ~(j < 1)
      BY <1>1, <1>2
    <3> QED BY <1>1, <2>2, <3>1 DEF Awaited
  <2>3. ASSUME Local(f, s), Awaited(x, s) PROVE Awaited(c, s)
    <3>1. PICK i \in DOMAIN x : x[i] = Flush(s, TRUE) /\ \A j \in DOMAIN x : j < i => Local(x[j], s)
      BY <2>3 DEF Awaited
    <3>2. i + 1 \in DOMAIN c /\ c[i + 1] = Flush(s, TRUE)
      BY <1>1, <3>1
    <3>3. ASSUME NEW j \in DOMAIN c, j < i + 1 PROVE Local(c[j], s)
      <4>1. CASE j = 1
        BY <1>1, <2>3, <4>1
      <4>2. CASE j # 1
        <5>1. j - 1 \in DOMAIN x /\ c[j] = x[j - 1] /\ j - 1 < i
          BY <1>1, <1>2, <1>3, <3>3, <4>2
        <5> QED BY <3>1, <5>1
      <4> QED BY <4>1, <4>2
    <3> QED BY <3>2, <3>3 DEF Awaited
  <2> QED BY <2>1, <2>2, <2>3
<1> QED BY <1>4, <1>5, <1>6, <1>7, <1>8

\* Calls that release nothing.
LEMMA QuietForms ==
  ASSUME NEW f, f.call \in {"resolve", "drain", "flush"}
  PROVE  /\ Ending(f) = {}
         /\ \A st, sh, mn, D : FrameOK(f, st, sh, mn, D)
         /\ \A x : Apart(f, x)
<1>1. Ending(f) = {} /\ ~OpCall(f)
  BY DEF Ending, OpCall
<1>2. Deferred(f) = {}
  BY <1>1 DEF Deferred
<1> QED BY <1>1, <1>2 DEF FrameOK, Apart

\* What the invariant says of a call f other than drain() and the calls x below.
Headed(f, x, st, sh, mn) ==
  /\ FrameOK(f, st, sh, mn, {}) /\ FramesOK(x, st, sh, mn, {})
  /\ Apart(f, x) /\ Distinct(x)
  /\ QueuesOK(st, sh, mn)
  /\ \A s \in Streams, t \in Tensors : MakesIn(st, s, t) /\ t \in DOMAIN sh =>
       \/ f.call = "resolve" /\ s \in f.streams /\ t \in Ids(f.op)
       \/ WaitsFor(x, s, t)
  /\ \A s \in Streams : DropIn(st, s) =>
       f = Flush(s, TRUE) \/ (Local(f, s) /\ Awaited(x, s))
  /\ \A s \in Streams : DropIn(st, s) =>
       \/ \E w \in Tensors : Anchor(st, s, w, sh)
       \/ /\ Len(st[s].queue) = 1 /\ f = Flush(s, TRUE)
          /\ st[s].variables # NoVariables

LEMMA DropHead ==
  ASSUME NEW st, NEW td, NEW sh, NEW mn, td \in Seq(Frame), td # <<>>, td[1].call # "drain",
         DropInv(st, td, sh, mn, Draining(td))
  PROVE  /\ Headed(td[1], Tail(td), st, sh, mn)
         /\ Split(td, td[1], Tail(td)) /\ Draining(td) = {}
<1> DEFINE f == td[1]
           x == Tail(td)
<1>1. Split(td, f, x) /\ f \in Frame /\ x \in Seq(Frame)
  BY SplitTail DEF Split
<1> HIDE DEF x, f
<1>2. Draining(td) = {}
  <2>1. \A s : Drain(s).call = "drain"
    BY DEF Drain
  <2>2. Draining(td) = {s \in Streams : f = Drain(s)}
    BY <1>1, SplitDraining
  <2> QED BY <2>1, <2>2 DEF f
<1>3. DropInv(st, td, sh, mn, {})
  BY <1>2
<1>4. FramesOK(td, st, sh, mn, {}) /\ Distinct(td)
  BY <1>3 DEF DropInv
<1>5. /\ FrameOK(f, st, sh, mn, {}) /\ FramesOK(x, st, sh, mn, {})
      /\ Apart(f, x) /\ Distinct(x)
  BY <1>1, <1>4, SplitForms
<1>6. \A s \in Streams, t \in Tensors : MakesIn(st, s, t) /\ t \in DOMAIN sh =>
        \/ f.call = "resolve" /\ s \in f.streams /\ t \in Ids(f.op)
        \/ WaitsFor(x, s, t)
  <2>1. Synced(st, td, sh, {})
    BY <1>3 DEF DropInv
  <2>2. \A s, t : WaitsFor(td, s, t) <=>
          \/ f.call = "resolve" /\ s \in f.streams /\ t \in Ids(f.op)
          \/ WaitsFor(x, s, t)
    BY <1>1, SplitForms
  <2> QED BY <2>1, <2>2 DEF Synced
<1>7. \A s \in Streams : DropIn(st, s) => f = Flush(s, TRUE) \/ (Local(f, s) /\ Awaited(x, s))
  <2>1. Window(st, td, {})
    BY <1>3 DEF DropInv
  <2>2. \A s : Awaited(td, s) <=> f = Flush(s, TRUE) \/ (Local(f, s) /\ Awaited(x, s))
    BY <1>1, SplitForms
  <2> QED BY <2>1, <2>2 DEF Window
<1>8. \A s \in Streams : DropIn(st, s) =>
        \/ \E w \in Tensors : Anchor(st, s, w, sh)
        \/ /\ Len(st[s].queue) = 1 /\ f = Flush(s, TRUE)
           /\ st[s].variables # NoVariables
  BY <1>3 DEF DropInv, Held, f
<1>9. QueuesOK(st, sh, mn)
  BY <1>3 DEF DropInv
<1>10. Headed(f, x, st, sh, mn)
  BY <1>5, <1>6, <1>7, <1>8, <1>9 DEF Headed
<1> QED BY <1>1, <1>2, <1>10 DEF f, x

\* The invariant for a call f above others.
LEMMA DropPush ==
  ASSUME NEW st, NEW sh, NEW mn, NEW D, NEW c, NEW f, NEW x, Split(c, f, x),
         FrameOK(f, st, sh, mn, D), FramesOK(x, st, sh, mn, D),
         Apart(f, x), Distinct(x), QueuesOK(st, sh, mn),
         \A s \in Streams, t \in Tensors : MakesIn(st, s, t) /\ t \in DOMAIN sh =>
           \/ s \in D
           \/ f.call = "resolve" /\ s \in f.streams /\ t \in Ids(f.op)
           \/ WaitsFor(x, s, t),
         \A s \in Streams : DropIn(st, s) =>
           \/ s \in D
           \/ f = Flush(s, TRUE)
           \/ Local(f, s) /\ Awaited(x, s),
         \A s \in Streams : DropIn(st, s) =>
           \/ s \in D
           \/ \E w \in Tensors : Anchor(st, s, w, sh)
           \/ /\ Len(st[s].queue) = 1 /\ f = Flush(s, TRUE)
              /\ st[s].variables # NoVariables
  PROVE  DropInv(st, c, sh, mn, D)
<1>1. FramesOK(c, st, sh, mn, D) /\ Distinct(c)
  BY SplitForms
<1>2. Synced(st, c, sh, D)
  <2>1. \A s, t : WaitsFor(c, s, t) <=>
          \/ f.call = "resolve" /\ s \in f.streams /\ t \in Ids(f.op)
          \/ WaitsFor(x, s, t)
    BY SplitForms
  <2> QED BY <2>1 DEF Synced
<1>3. Window(st, c, D)
  <2>1. \A s : Awaited(c, s) <=> f = Flush(s, TRUE) \/ (Local(f, s) /\ Awaited(x, s))
    BY SplitForms
  <2> QED BY <2>1 DEF Window
<1>4. Held(st, c, sh, D)
  <2>1. c # <<>> /\ c[1] = f
    BY DEF Split
  <2> QED BY <2>1 DEF Held
<1> QED BY <1>1, <1>2, <1>3, <1>4 DEF DropInv

\* The streams that are drained are those of the first call.
LEMMA DrainingPush ==
  ASSUME NEW c, NEW f, NEW x, Split(c, f, x)
  PROVE  /\ f.call # "drain" => Draining(c) = {}
         /\ \A s \in Streams : f = Drain(s) => Draining(c) = {s}
<1>1. Draining(c) = {s \in Streams : f = Drain(s)}
  BY SplitDraining
<1>2. \A s : Drain(s).call = "drain" /\ Drain(s).stream = s
  BY DEF Drain
<1> QED BY <1>1, <1>2

\* The same invariant, with more streams being drained.
LEMMA FramesDrained ==
  ASSUME NEW x, NEW st, NEW sh, NEW mn, NEW D, FramesOK(x, st, sh, mn, {})
  PROVE  FramesOK(x, st, sh, mn, D)
BY DEF FramesOK, FrameOK

LEMMA DrainingTail ==
  ASSUME NEW td \in Seq(Frame), td # <<>>, Shape(td)
  PROVE  /\ Tail(td) \in Seq(Frame) /\ Settled(Tail(td))
         /\ Draining(Tail(td)) = {}
<1> DEFINE x == Tail(td)
<1>1. x \in Seq(Frame) /\ Settled(x)
  BY TailSettled, HeadForms
<1> HIDE DEF x
<1>2. x # <<>> => 1 \in DOMAIN x
  BY <1>1, HeadForms
<1>3. \A s : Drain(s).call = "drain"
  BY DEF Drain
<1>4. Draining(x) = {}
  BY <1>1, <1>2, <1>3 DEF Draining, Settled
<1> QED BY <1>1, <1>4 DEF x

LEMMA DropResolve ==
  ASSUME LiveInv(streams, todo), RunResolve,
         DropInv(streams, todo, shared, manual, Draining(todo))
  PROVE  DropInv(streams', todo', shared', manual', Draining(todo'))
<1> DEFINE c == todo[1]
           x == Tail(todo)
           g(s) == Resolve(c.streams \ {s}, c.op)
<1>1. /\ todo \in Seq(Frame) /\ todo # <<>> /\ Shape(todo)
      /\ Head(todo) = c /\ c \in Frame /\ c.call = "resolve"
  BY HeadForms DEF RunResolve, Calling, LiveInv, TypesOK
<1>2. /\ c.streams \subseteq Streams /\ c.op \in Op /\ Ids(c.op) \subseteq Tensors /\ ~OpCall(c)
  BY <1>1, FrameForms, OpForms DEF OpCall
<1>3. streams' = streams /\ shared' = shared /\ manual' = manual
  BY DEF RunResolve
<1>4. /\ x \in Seq(Frame) /\ Draining(x) = {}
  BY <1>1, DrainingTail
<1>5. /\ FramesOK(x, streams, shared, manual, {}) /\ Distinct(x)
      /\ QueuesOK(streams, shared, manual)
      /\ \A s \in Streams, t \in Tensors : MakesIn(streams, s, t) /\ t \in DOMAIN shared =>
           \/ s \in c.streams /\ t \in Ids(c.op)
           \/ WaitsFor(x, s, t)
      /\ \A s \in Streams : DropIn(streams, s) =>
           /\ Local(c, s) /\ Awaited(x, s)
           /\ \E w \in Tensors : Anchor(streams, s, w, shared)
  <2>1. \A s : Flush(s, TRUE).call = "flush"
    BY DEF Flush
  <2>2. Headed(c, x, streams, shared, manual)
    BY <1>1, DropHead
  <2> HIDE DEF c, x
  <2> QED BY <1>1, <2>1, <2>2 DEF Headed
<1>6. c.streams # {} => \A s \in Streams : ~DropIn(streams, s)
  BY <1>1, <1>2, <1>5 DEF Local, OpCall
<1>7. \A s \in c.streams : /\ g(s) \in Frame /\ g(s).call = "resolve"
                           /\ g(s).streams = c.streams \ {s} /\ g(s).op = c.op
  BY <1>2 DEF Resolve, Frame
<1> HIDE DEF c, x
<1>8. CASE c.streams = {} /\ todo' = x
  <2>1. DropInv(streams, x, shared, manual, {})
    BY <1>5, <1>8 DEF DropInv, Synced, Window, Held
  <2> QED BY <1>3, <1>4, <1>8, <2>1
<1>9. ASSUME NEW s \in c.streams, NEW h, h = g(s), NEW y, y = <<h>> \o x
      PROVE  /\ Split(y, h, x) /\ y \in Seq(Frame) /\ Draining(y) = {}
             /\ FramesOK(y, streams, shared, manual, {}) /\ Distinct(y)
             /\ \A r, t : WaitsFor(y, r, t) <=>
                  \/ r \in c.streams \ {s} /\ t \in Ids(c.op)
                  \/ WaitsFor(x, r, t)
  <2>1. h \in Frame /\ h.call = "resolve" /\ h.streams = c.streams \ {s} /\ h.op = c.op
    BY <1>7, <1>9
  <2> HIDE DEF g
  <2>2. Split(y, h, x) /\ y \in Seq(Frame)
    <3>1. Split(<<h>> \o x, h, x)
      BY <1>4, <2>1, SplitPush
    <3> QED BY <1>9, <3>1 DEF Split
  <2>3. /\ \A st, sh, mn, D : FrameOK(h, st, sh, mn, D)
        /\ Apart(h, x)
    BY <2>1, QuietForms
  <2>4. Draining(y) = {}
    BY <2>1, <2>2, DrainingPush
  <2>5. FramesOK(y, streams, shared, manual, {}) /\ Distinct(y)
    BY <1>5, <2>2, <2>3, SplitForms
  <2>6. \A r, t : WaitsFor(y, r, t) <=>
          \/ h.call = "resolve" /\ r \in h.streams /\ t \in Ids(h.op)
          \/ WaitsFor(x, r, t)
    BY <2>2, SplitForms
  <2> QED BY <2>1, <2>2, <2>4, <2>5, <2>6
\* The stream has nothing of the operation, and is not drained.
<1>10. ASSUME NEW s \in c.streams, todo' = <<g(s)>> \o x,
              ~(streams[s].open /\ \E t \in Ids(c.op) : streams[s].variables[t] # NoStream)
       PROVE  DropInv(streams', todo', shared', manual', Draining(todo'))
  <2> DEFINE y == <<g(s)>> \o x
  <2>1. /\ Draining(y) = {}
        /\ FramesOK(y, streams, shared, manual, {}) /\ Distinct(y)
        /\ \A r, t : WaitsFor(y, r, t) <=>
             \/ r \in c.streams \ {s} /\ t \in Ids(c.op)
             \/ WaitsFor(x, r, t)
    BY <1>9
  <2> HIDE DEF y
  <2>2. ASSUME NEW r \in Streams, NEW t \in Tensors, MakesIn(streams, r, t), t \in DOMAIN shared
        PROVE  WaitsFor(y, r, t)
    <3>1. CASE WaitsFor(x, r, t)
      BY <2>1, <3>1
    <3>2. CASE r \in c.streams /\ t \in Ids(c.op) /\ r # s
      BY <2>1, <3>2
    <3>3. CASE r \in c.streams /\ t \in Ids(c.op) /\ r = s
      <4>1. streams[s].variables[t] = s
        BY <1>5, <2>2, <3>3 DEF QueuesOK, QueueOK, MakesIn
      <4>2. s # NoStream
        BY <1>2, FusionAssumption
      <4>3. streams[s].open
        <5>1. streams[s].queue # <<>>
          BY <2>2, <3>3 DEF MakesIn
        <5> QED BY <1>2, <5>1 DEF LiveInv, TypesOK
      <4> QED BY <1>10, <3>3, <4>1, <4>2, <4>3
    <3> QED BY <1>5, <2>2, <3>1, <3>2, <3>3
  <2>3. \A r \in Streams : ~DropIn(streams, r)
    BY <1>6, <1>10
  <2>4. DropInv(streams, y, shared, manual, {})
    BY <1>5, <2>1, <2>2, <2>3 DEF DropInv, Synced, Window, Held
  <2> QED BY <1>3, <1>10, <2>1, <2>4 DEF y
\* The stream is drained.
<1>11. ASSUME NEW s \in c.streams, todo' = <<Drain(s)>> \o (<<g(s)>> \o x)
       PROVE  DropInv(streams', todo', shared', manual', Draining(todo'))
  <2> DEFINE y == <<g(s)>> \o x
             z == <<Drain(s)>> \o y
  <2>1. /\ y \in Seq(Frame)
        /\ FramesOK(y, streams, shared, manual, {}) /\ Distinct(y)
        /\ \A r, t : WaitsFor(y, r, t) <=>
             \/ r \in c.streams \ {s} /\ t \in Ids(c.op)
             \/ WaitsFor(x, r, t)
    BY <1>9
  <2> HIDE DEF y
  <2>2. Drain(s) \in Frame /\ Drain(s).call = "drain" /\ s \in Streams
    BY <1>2, PlainFramesMade DEF Drain
  <2>3. Split(z, Drain(s), y)
    BY <2>1, <2>2, SplitPush
  <2> HIDE DEF z
  <2>4. Draining(z) = {s}
    BY <2>2, <2>3, DrainingPush
  <2>5. /\ \A st, sh, mn, D : FrameOK(Drain(s), st, sh, mn, D)
        /\ Apart(Drain(s), y)
    BY <2>2, QuietForms
  <2>6. FramesOK(y, streams, shared, manual, {s})
    BY <2>1, FramesDrained
  <2>7. \A r \in Streams : ~DropIn(streams, r)
    BY <1>6, <1>11
  <2>8. DropInv(streams, z, shared, manual, {s})
    BY <1>5, <2>1, <2>3, <2>5, <2>6, <2>7, DropPush
  <2> QED BY <1>3, <1>11, <2>4, <2>8 DEF y, z
<1>12. \/ c.streams = {} /\ todo' = x
       \/ \E s \in c.streams :
            \/ /\ todo' = <<g(s)>> \o x
               /\ ~(streams[s].open /\ \E t \in Ids(c.op) : streams[s].variables[t] # NoStream)
            \/ todo' = <<Drain(s)>> \o (<<g(s)>> \o x)
  BY <1>1 DEF RunResolve, x
<1> QED BY <1>8, <1>10, <1>11, <1>12

LEMMA DropFlush ==
  ASSUME LiveInv(streams, todo), RunFlush,
         DropInv(streams, todo, shared, manual, Draining(todo))
  PROVE  DropInv(streams', todo', shared', manual', Draining(todo'))
<1> DEFINE c == todo[1]
           x == Tail(todo)
           s == c.stream
<1>1. /\ todo \in Seq(Frame) /\ todo # <<>> /\ Shape(todo)
      /\ Head(todo) = c /\ c \in Frame /\ c.call = "flush"
  BY HeadForms DEF RunFlush, Calling, LiveInv, TypesOK
<1>2. s \in Streams /\ ~OpCall(c)
  BY <1>1, FrameForms DEF OpCall
<1>3. streams' = streams /\ shared' = shared /\ manual' = manual
  BY DEF RunFlush, server
<1>4. /\ x \in Seq(Frame) /\ Draining(x) = {}
  BY <1>1, DrainingTail
<1>5. /\ FramesOK(x, streams, shared, manual, {}) /\ Distinct(x)
      /\ QueuesOK(streams, shared, manual)
      /\ \A r \in Streams, t \in Tensors : MakesIn(streams, r, t) /\ t \in DOMAIN shared =>
           WaitsFor(x, r, t)
      /\ \A r \in Streams : DropIn(streams, r) =>
           c = Flush(r, TRUE) \/ (Local(c, r) /\ Awaited(x, r))
      /\ \A r \in Streams : DropIn(streams, r) =>
           \/ \E w \in Tensors : Anchor(streams, r, w, shared)
           \/ c = Flush(r, TRUE) /\ streams[r].variables # NoVariables
  <2>1. Headed(c, x, streams, shared, manual)
    BY <1>1, DropHead
  <2>2. ~(c.call = "resolve")
    BY <1>1
  <2> HIDE DEF c, x
  <2> QED BY <2>1, <2>2 DEF Headed
<1>6. \A r : Flush(r, TRUE).stream = r /\ Flush(r, TRUE).sync = TRUE
  BY DEF Flush
<1>7. \A r \in Streams : DropIn(streams, r) => r = s
  BY <1>1, <1>2, <1>5, <1>6 DEF Local
<1> HIDE DEF c, x
<1>8. CASE /\ todo' = x
           /\ ~(c.sync /\ streams[s].open /\ streams[s].variables # NoVariables)
  <2>1. ASSUME NEW r \in Streams, DropIn(streams, r)
        PROVE  Awaited(x, r) /\ \E w \in Tensors : Anchor(streams, r, w, shared)
    <3>1. streams[s].open
      <4>1. streams[s].queue # <<>>
        BY <1>7, <2>1 DEF DropIn
      <4> QED BY <1>2, <4>1 DEF LiveInv, TypesOK
    <3>2. PICK w \in Tensors : Anchor(streams, s, w, shared)
      BY <1>5, <1>6, <1>7, <1>8, <2>1, <3>1
    <3>3. streams[s].variables # NoVariables
      <4>1. streams[s].variables[w] = s /\ s # NoStream
        BY <1>2, <3>2, FusionAssumption DEF Anchor
      <4> QED BY <4>1 DEF NoVariables
    <3> QED BY <1>5, <1>6, <1>7, <1>8, <2>1, <3>1, <3>2, <3>3
  <2>2. DropInv(streams, x, shared, manual, {})
    BY <1>5, <2>1 DEF DropInv, Synced, Window, Held
  <2> QED BY <1>3, <1>4, <1>8, <2>2
<1>9. CASE todo' = <<Drain(s)>> \o x
  <2> DEFINE z == <<Drain(s)>> \o x
  <2>1. Drain(s) \in Frame /\ Drain(s).call = "drain"
    BY <1>2, PlainFramesMade DEF Drain
  <2>2. Split(z, Drain(s), x)
    BY <1>4, <2>1, SplitPush
  <2> HIDE DEF z
  <2>3. Draining(z) = {s}
    BY <1>2, <2>1, <2>2, DrainingPush
  <2>4. /\ \A st, sh, mn, D : FrameOK(Drain(s), st, sh, mn, D)
        /\ Apart(Drain(s), x)
    BY <2>1, QuietForms
  <2>5. FramesOK(x, streams, shared, manual, {s})
    BY <1>5, FramesDrained
  <2>6. DropInv(streams, z, shared, manual, {s})
    BY <1>5, <1>7, <2>2, <2>4, <2>5, DropPush
  <2> QED BY <1>3, <1>9, <2>3, <2>6 DEF z
<1>10. \/ /\ todo' = x
          /\ ~(c.sync /\ streams[s].open /\ streams[s].variables # NoVariables)
       \/ todo' = <<Drain(s)>> \o x
  BY <1>1 DEF RunFlush, x
<1> QED BY <1>8, <1>9, <1>10

LEMMA DropDropShared ==
  ASSUME LiveInv(streams, todo), RunDropShared,
         DropInv(streams, todo, shared, manual, Draining(todo))
  PROVE  DropInv(streams', todo', shared', manual', Draining(todo'))
<1> DEFINE c == todo[1]
           x == Tail(todo)
           s == c.stream
<1>1. /\ todo \in Seq(Frame) /\ todo # <<>> /\ Shape(todo)
      /\ Head(todo) = c /\ c \in Frame /\ c.call = "drop"
  BY HeadForms DEF RunDropShared, Calling, LiveInv, TypesOK
<1>2. s \in Streams /\ ~OpCall(c) /\ c.tensors \subseteq Tensors
  BY <1>1, FrameForms DEF OpCall
<1>3. streams' = streams /\ shared' = shared /\ manual' = manual
  BY DEF RunDropShared, server
<1>4. /\ x \in Seq(Frame) /\ Draining(x) = {}
  BY <1>1, DrainingTail
<1>5. /\ FrameOK(c, streams, shared, manual, {}) /\ Apart(c, x)
      /\ FramesOK(x, streams, shared, manual, {}) /\ Distinct(x)
      /\ QueuesOK(streams, shared, manual)
      /\ \A r \in Streams, t \in Tensors : MakesIn(streams, r, t) /\ t \in DOMAIN shared =>
           WaitsFor(x, r, t)
      /\ \A r \in Streams : DropIn(streams, r) =>
           /\ Local(c, r) /\ Awaited(x, r)
           /\ \E w \in Tensors : Anchor(streams, r, w, shared)
  <2>1. \A r : Flush(r, TRUE).call = "flush"
    BY DEF Flush
  <2>2. Headed(c, x, streams, shared, manual)
    BY <1>1, DropHead
  <2> HIDE DEF c, x
  <2> QED BY <1>1, <2>1, <2>2 DEF Headed
<1>6. \A r \in Streams : DropIn(streams, r) => r = s
  BY <1>1, <1>2, <1>5 DEF Local
<1>7. /\ \A t \in c.tensors :
           t \notin DOMAIN shared /\ t \notin manual /\ \A r \in Streams : ~EndsIn(streams, r, t)
      /\ Ending(c) = c.tensors
  <2>1. c.tensors = Deferred(c) /\ Ending(c) = c.tensors
    BY <1>1, <1>2 DEF Deferred, Ending
  <2> HIDE DEF c
  <2> QED BY <1>5, <2>1 DEF FrameOK
<1> HIDE DEF c, x
<1>8. CASE todo' = x
  <2>1. DropInv(streams, x, shared, manual, {})
    BY <1>5 DEF DropInv, Synced, Window, Held
  <2> QED BY <1>3, <1>4, <1>8, <2>1
<1>9. ASSUME NEW t \in c.tensors,
             todo' = <<Register(s, DropOf(t), NoTags), DropShared(s, c.tensors \ {t})>> \o x
      PROVE  DropInv(streams', todo', shared', manual', Draining(todo'))
  <2> DEFINE f == Register(s, DropOf(t), NoTags)
             g == DropShared(s, c.tensors \ {t})
             y == <<g>> \o x
             z == <<f>> \o y
  <2>1. /\ f \in Frame /\ f.call = "register" /\ f.op = DropOf(t) /\ f.stream = s
        /\ Again(f) /\ OpCall(f)
        /\ g \in Frame /\ g.call = "drop" /\ g.tensors = c.tensors \ {t} /\ g.stream = s
        /\ ~OpCall(g)
    <3>1. NoTags \in Variables /\ DropOf(t) \in Op
      BY <1>2, DropOfForms DEF NoTags, Variables
    <3>2. f \in Frame /\ g \in Frame
      BY <1>2, <3>1, FramesMade, PlainFramesMade
    <3> QED BY <3>2 DEF Again, Register, DropShared, DropOf, OpCall
  <2>2. /\ Ids(f.op) = {t} /\ f.op.drop /\ \A u : ~Makes(f.op, u)
    BY <1>2, <2>1, DropOfForms
  <2> HIDE DEF f, g
  <2>3. /\ Ending(f) = {t} /\ Deferred(f) = {t}
        /\ Ending(g) = c.tensors \ {t} /\ Deferred(g) = c.tensors \ {t}
    BY <2>1, <2>2 DEF Ending, Deferred
  <2>4. Whole(f.op)
    BY <2>2 DEF Whole
  <2>5. FrameOK(f, streams, shared, manual, {})
    BY <1>7, <2>1, <2>3, <2>4 DEF FrameOK
  <2>6. FrameOK(g, streams, shared, manual, {})
    BY <1>7, <2>1, <2>3 DEF FrameOK
  <2>7. Apart(f, x) /\ Apart(g, x) /\ Ending(f) \cap Ending(g) = {}
    BY <1>5, <1>7, <2>3 DEF Apart
  <2>8. Split(y, g, x)
    BY <1>4, <2>1, SplitPush
  <2>9. y \in Seq(Frame)
    BY <2>8 DEF Split
  <2> HIDE DEF y
  <2>10. Split(z, f, y)
    BY <2>1, <2>9, SplitPush
  <2> HIDE DEF z
  <2>11. Draining(z) = {}
    BY <2>1, <2>10, DrainingPush
  <2>12. FramesOK(y, streams, shared, manual, {}) /\ Distinct(y) /\ Apart(f, y)
    BY <1>5, <2>6, <2>7, <2>8, SplitForms
  <2>13. \A r \in Streams, u \in Tensors : MakesIn(streams, r, u) /\ u \in DOMAIN shared =>
           WaitsFor(y, r, u)
    BY <1>5, <2>8, SplitForms
  <2>14. \A r \in Streams : DropIn(streams, r) => Local(f, r) /\ Awaited(y, r)
    <3>1. ASSUME NEW r \in Streams, DropIn(streams, r) PROVE Local(f, r) /\ Awaited(y, r)
      <4>1. Local(f, r) /\ Local(g, r) /\ Awaited(x, r)
        BY <1>5, <1>6, <2>1, <3>1 DEF Local
      <4> QED BY <2>8, <4>1, SplitForms
    <3> QED BY <3>1
  <2>15. DropInv(streams, z, shared, manual, {})
    BY <1>5, <2>5, <2>10, <2>12, <2>13, <2>14, DropPush
  <2>16. todo' = z
    <3>1. <<f, g>> \o x = <<f>> \o (<<g>> \o x)
      BY <1>4, <2>1, PairPushed
    <3> QED BY <1>9, <3>1 DEF f, g, y, z
  <2> QED BY <1>3, <2>11, <2>15, <2>16
<1>10. todo' = x \/ \E t \in c.tensors :
         todo' = <<Register(s, DropOf(t), NoTags), DropShared(s, c.tensors \ {t})>> \o x
  BY <1>1 DEF RunDropShared, x
<1> QED BY <1>8, <1>9, <1>10

\* The operation of a client is alone: no drop is queued, and nothing that is
\* shared is still to be made.
LEMMA DropAlone ==
  ASSUME LiveInv(streams, todo), todo # <<>>, OpCall(todo[1]), ~Again(todo[1]),
         DropInv(streams, todo, shared, manual, Draining(todo))
  PROVE  /\ \A s \in Streams : ~DropIn(streams, s)
         /\ \A s \in Streams, t \in Tensors : MakesIn(streams, s, t) => t \notin DOMAIN shared
         /\ \A st, sh, mn, D : FramesOK(Tail(todo), st, sh, mn, D)
         /\ Distinct(Tail(todo)) /\ \A g : Apart(g, Tail(todo))
<1> DEFINE c == todo[1]
           x == Tail(todo)
<1>1. /\ todo \in Seq(Frame) /\ todo # <<>> /\ c.call \notin {"drain", "flush", "resolve"}
      /\ DOMAIN todo = {1}
  <2>1. todo \in Seq(Frame) /\ Head(todo) = c
    BY HeadForms DEF LiveInv, TypesOK
  <2>2. DOMAIN todo = {1}
    BY <2>1, OpHead
  <2> QED BY <2>1, <2>2 DEF OpCall
<1>2. Headed(c, x, streams, shared, manual) /\ Split(todo, c, x)
  BY <1>1, DropHead
<1> HIDE DEF x, c
<1>3. DOMAIN x = {}
  <2>1. ASSUME NEW i \in DOMAIN x PROVE FALSE
    <3>1. i > 0 /\ i + 1 \in DOMAIN todo
      BY <1>2 DEF Split
    <3>2. i \in Nat
      BY <1>2, LenProperties DEF Split
    <3> QED BY <1>1, <3>1, <3>2
  <2> QED BY <2>1
<1>4. (\A s : ~Awaited(x, s)) /\ (\A s, t : ~WaitsFor(x, s, t))
  BY <1>3 DEF Awaited, WaitsFor
<1>5. \A s : Flush(s, TRUE).call = "flush"
  BY DEF Flush
<1>6. \A s \in Streams : ~DropIn(streams, s)
  BY <1>1, <1>2, <1>4, <1>5 DEF Headed
<1>7. \A s \in Streams, t \in Tensors : MakesIn(streams, s, t) => t \notin DOMAIN shared
  BY <1>1, <1>2, <1>4 DEF Headed
<1>8. /\ \A st, sh, mn, D : FramesOK(x, st, sh, mn, D)
      /\ Distinct(x) /\ \A g : Apart(g, x)
  BY <1>3 DEF FramesOK, Distinct, Apart
<1> QED BY <1>6, <1>7, <1>8 DEF x

LEMMA QueuesKept ==
  ASSUME NEW st, NEW sh, NEW mn, NEW sh2, NEW mn2, QueuesOK(st, sh, mn),
         \A t \in mn2 : t \in mn \/ \A s \in Streams : ~EndsIn(st, s, t),
         \A s \in Streams : \A i \in DOMAIN st[s].queue : \A t \in Tensors :
           Makes(st[s].queue[i], t) /\ t \in DOMAIN sh2 =>
             s \in DOMAIN sh2[t] /\ sh2[t][s].current >= st[s].cursor + i
  PROVE  QueuesOK(st, sh2, mn2)
<1>1. ASSUME NEW s \in Streams, NEW i \in DOMAIN st[s].queue, NEW t \in mn2
      PROVE  ~Ends(st[s].queue[i], t)
  BY <1>1 DEF QueuesOK, QueueOK, EndsIn
<1> QED BY <1>1 DEF QueuesOK, QueueOK

\* Only calls that register a drop again refer to tensors that must not be shared.
LEMMA FramesShared ==
  ASSUME NEW x, NEW st, NEW sh, NEW mn, NEW D, NEW sh2, FramesOK(x, st, sh, mn, D),
         DOMAIN sh2 = DOMAIN sh
  PROVE  FramesOK(x, st, sh2, mn, D)
<1>1. ASSUME NEW f, FrameOK(f, st, sh, mn, D) PROVE FrameOK(f, st, sh2, mn, D)
  BY <1>1 DEF FrameOK
<1> QED BY <1>1 DEF FramesOK

LEMMA DropRegister ==
  ASSUME LiveInv(streams, todo), RunRegister,
         DropInv(streams, todo, shared, manual, Draining(todo))
  PROVE  DropInv(streams', todo', shared', manual', Draining(todo'))
<1> DEFINE c == todo[1]
           x == Tail(todo)
           s == c.stream
           foreign == Foreign(s, c.op, c.tags)
           sync == ToSync(s, c.op, c.tags)
           f == Resolve(sync, c.op)
           g == Admit(s, c.op, c.tags)
           y == <<g>> \o x
           z == <<f>> \o y
<1>1. /\ todo \in Seq(Frame) /\ todo # <<>> /\ Shape(todo)
      /\ Head(todo) = c /\ c \in Frame /\ c.call = "register" /\ OpCall(c)
  BY HeadForms DEF RunRegister, Calling, LiveInv, TypesOK, OpCall
<1>2. s \in Streams /\ c.op \in Op /\ c.tags \in Variables /\ Formed(c)
  BY <1>1, OpHead
<1>3. /\ SharedOK(shared) /\ streams \in [Streams -> StreamType]
      /\ \A r \in Streams : ~streams[r].open => streams[r].queue = <<>>
      /\ Tracked(streams, todo)
  BY DEF LiveInv, TypesOK, SharedOK
<1>4. /\ streams' = streams /\ manual' = manual
      /\ shared' = Analysed(s, c.op, c.tags)
      /\ todo' = <<f, g>> \o x
  BY <1>1 DEF RunRegister
<1>5. /\ x \in Seq(Frame) /\ Split(todo, c, x)
      /\ Headed(c, x, streams, shared, manual)
  BY <1>1, DropHead, DrainingTail
<1>6. AnalysedOK(shared', s, c.op, c.tags)
  BY <1>2, <1>3, <1>4, AnalysedForms
<1>7. /\ f \in Frame /\ f.call = "resolve" /\ f.streams = sync /\ f.op = c.op
      /\ g \in Frame /\ g.call = "admit" /\ g.op = c.op /\ g.stream = s /\ g.tags = c.tags
      /\ OpCall(g) /\ (Again(g) <=> Again(c))
  <2>1. f \in Frame /\ g \in Frame
    BY <1>2, <1>3, ToSyncForms, FramesMade
  <2> QED BY <2>1 DEF Resolve, Admit, OpCall, Again
<1>8. Ending(g) = Ending(c) /\ Deferred(g) = Deferred(c)
  <2> HIDE DEF g, c
  <2> QED BY <1>1, <1>7 DEF Ending, Deferred
<1>9. Again(c) => Deferred(c) = Ids(c.op)
  <2> HIDE DEF c
  <2> QED BY <1>1 DEF Deferred
<1>10. ~Again(c) => Deferred(c) = {}
  <2> HIDE DEF c
  <2> QED BY <1>1 DEF Deferred, OpCall
<1>11. todo' = z
  BY <1>4, <1>5, <1>7, PairPushed
<1> HIDE DEF f, g
<1>12. /\ \A st, sh, mn, D : FrameOK(f, st, sh, mn, D)
       /\ \A td : Apart(f, td)
  BY <1>7, QuietForms
<1>13. Split(y, g, x) /\ y \in Seq(Frame)
  BY <1>5, <1>7, SplitPush DEF Split
<1> HIDE DEF y
<1>14. Split(z, f, y)
  BY <1>7, <1>13, SplitPush
<1> HIDE DEF z
<1>15. Draining(z) = {}
  BY <1>7, <1>14, DrainingPush
<1>16. \A D, sh : FrameOK(g, streams, sh, manual, D) <=>
         FrameOK(c, streams, sh, manual, D)
  BY <1>1, <1>7, <1>8 DEF FrameOK
\* A drop is registered again: nothing becomes shared.
<1>17. CASE Again(c)
  <2>1. foreign = {} /\ \A t : ~Makes(c.op, t)
    BY <1>1, <1>2, <1>17, AgainForms
  <2>2. DOMAIN shared' = DOMAIN shared /\ \A t \in DOMAIN shared : shared'[t] = shared[t]
    BY <1>6, <2>1 DEF AnalysedOK
  <2>3. FrameOK(c, streams, shared, manual, {})
    BY <1>5 DEF Headed
  <2>4. sync = {}
    <3>1. \A n \in c.op.nodes : n.id \notin DOMAIN shared
      BY <1>2, <1>9, <1>17, <2>3, OpForms DEF FrameOK
    <3>2. Current(s, c.op, c.tags) = {}
      BY <3>1 DEF Current, IsShared
    <3> QED BY <2>1, <3>2 DEF ToSync
  <2> HIDE DEF c, x, sync, foreign, s
  <2>5. /\ FramesOK(x, streams, shared', manual, {}) /\ Apart(g, x) /\ Distinct(x)
        /\ FrameOK(g, streams, shared', manual, {})
    <3>1. FrameOK(c, streams, shared', manual, {})
      BY <2>2, <2>3 DEF FrameOK
    <3>2. Apart(g, x)
      BY <1>5, <1>8 DEF Headed, Apart
    <3> QED BY <1>5, <1>16, <2>2, <3>1, <3>2, FramesShared DEF Headed
  <2>6. FramesOK(y, streams, shared', manual, {}) /\ Distinct(y)
    BY <1>13, <2>5, SplitForms
  <2>7. QueuesOK(streams, shared', manual)
    <3>1. QueuesOK(streams, shared, manual)
      BY <1>5 DEF Headed
    <3>2. \A r \in Streams : \A i \in DOMAIN streams[r].queue : \A t \in Tensors :
            Makes(streams[r].queue[i], t) /\ t \in DOMAIN shared' =>
              r \in DOMAIN shared'[t] /\ shared'[t][r].current >= streams[r].cursor + i
      BY <2>2, <3>1 DEF QueuesOK, QueueOK
    <3> QED BY <3>1, <3>2, QueuesKept
  <2>8. \A r \in Streams, t \in Tensors : MakesIn(streams, r, t) /\ t \in DOMAIN shared' =>
          WaitsFor(y, r, t)
    <3>1. \A r, t : WaitsFor(x, r, t) => WaitsFor(y, r, t)
      BY <1>13, SplitForms
    <3> QED BY <1>1, <1>5, <2>2, <3>1 DEF Headed
  <2>9. ASSUME NEW r \in Streams, DropIn(streams, r)
        PROVE  /\ Local(f, r) /\ Awaited(y, r)
               /\ \E w \in Tensors : Anchor(streams, r, w, shared')
    <3>1. \A u : Flush(u, TRUE).call = "flush"
      BY DEF Flush
    <3>2. Local(c, r) /\ Awaited(x, r) /\ \E w \in Tensors : Anchor(streams, r, w, shared)
      BY <1>1, <1>5, <2>9, <3>1 DEF Headed
    <3>3. s = r
      BY <1>1, <3>2 DEF Local, s
    <3>4. Local(g, r) /\ Local(f, r)
      BY <1>7, <1>17, <2>4, <3>3 DEF Local
    <3>5. Awaited(y, r)
      BY <1>13, <3>2, <3>4, SplitForms
    <3> QED BY <2>2, <3>2, <3>4, <3>5 DEF Anchor
  <2>10. DropInv(streams, z, shared', manual, {})
    BY <1>12, <1>14, <2>6, <2>7, <2>8, <2>9, DropPush
  <2> QED BY <1>4, <1>11, <1>15, <2>10
\* The operation of a client: no drop is queued, and nothing was shared that is
\* still to be made.
<1>18. CASE ~Again(c)
  <2>1. /\ \A r \in Streams : ~DropIn(streams, r)
        /\ \A r \in Streams, t \in Tensors : MakesIn(streams, r, t) => t \notin DOMAIN shared
        /\ \A st, sh, mn, D : FramesOK(x, st, sh, mn, D)
        /\ Distinct(x) /\ Apart(g, x)
    BY <1>1, <1>18, DropAlone
  <2>2. ASSUME NEW r \in Streams, NEW i \in DOMAIN streams[r].queue, NEW t \in Tensors,
               Makes(streams[r].queue[i], t), t \in DOMAIN shared'
        PROVE  /\ r \in sync /\ t \in Ids(c.op)
               /\ r \in DOMAIN shared'[t] /\ shared'[t][r].current >= streams[r].cursor + i
    <3>1. t \notin DOMAIN shared
      BY <2>1, <2>2 DEF MakesIn
    <3>2. t \in foreign
      BY <1>6, <2>2, <3>1 DEF AnalysedOK
    <3>3. t \in Ids(c.op) /\ c.tags[t] # NoStream
      BY <3>2 DEF Foreign
    <3>4. c.tags[t] = r
      <4>1. origin[t] = r
        BY <1>3, <2>2 DEF Tracked
      <4>2. c.tags[t] = origin[t]
        BY <1>2, <1>18, <3>3 DEF Formed
      <4> QED BY <4>1, <4>2
    <3>5. r \in sync
      <4>1. c.tags[t] \notin DOMAIN States(t)
        BY <3>1 DEF States, IsShared
      <4> QED BY <3>2, <3>4, <4>1 DEF ToSync
    <3>6. r \in DOMAIN shared'[t] /\ shared'[t][r].current = End(r)
      BY <1>6, <3>2, <3>4 DEF AnalysedOK
    <3>7. End(r) >= streams[r].cursor + i
      <4>1. streams[r].open
        <5>1. streams[r].queue # <<>>
          BY <2>2
        <5> QED BY <1>3, <5>1
      <4>2. /\ streams[r].cursor \in Nat /\ Len(streams[r].queue) \in Nat
            /\ i \in 1 .. Len(streams[r].queue)
        BY <1>3, <2>2, StreamForms
      <4> QED BY <4>1, <4>2 DEF End
    <3> QED BY <3>3, <3>5, <3>6, <3>7
  <2> HIDE DEF c, x, sync, foreign, s
  <2>3. QueuesOK(streams, shared', manual)
    <3>1. QueuesOK(streams, shared, manual)
      BY <1>5 DEF Headed
    <3> QED BY <2>2, <3>1, QueuesKept
  <2>4. FrameOK(g, streams, shared', manual, {})
    <3>1. FrameOK(c, streams, shared, manual, {})
      BY <1>5 DEF Headed
    <3>2. FrameOK(c, streams, shared', manual, {})
      BY <1>10, <1>18, <3>1 DEF FrameOK
    <3> QED BY <1>16, <3>2
  <2>5. FramesOK(y, streams, shared', manual, {}) /\ Distinct(y)
    BY <1>13, <2>1, <2>4, SplitForms
  <2>6. \A r \in Streams, t \in Tensors : MakesIn(streams, r, t) /\ t \in DOMAIN shared' =>
          f.call = "resolve" /\ r \in f.streams /\ t \in Ids(f.op)
    BY <1>7, <2>2 DEF MakesIn
  <2>7. DropInv(streams, z, shared', manual, {})
    BY <1>12, <1>14, <2>1, <2>3, <2>5, <2>6, DropPush
  <2> QED BY <1>4, <1>11, <1>15, <2>7
<1> QED BY <1>17, <1>18

LEMMA DropAdmit ==
  ASSUME LiveInv(streams, todo), RunAdmit, ContinueDropDrain,
         DropInv(streams, todo, shared, manual, Draining(todo))
  PROVE  DropInv(streams', todo', shared', manual', Draining(todo'))
<1> DEFINE c == todo[1]
           x == Tail(todo)
           s == c.stream
           foreign == Foreign(s, c.op, c.tags)
<1>1. /\ todo \in Seq(Frame) /\ todo # <<>> /\ Shape(todo)
      /\ Head(todo) = c /\ c \in Frame /\ c.call = "admit" /\ OpCall(c) /\ 1 \in DOMAIN todo
  BY HeadForms DEF RunAdmit, Calling, LiveInv, TypesOK, OpCall
<1>2. s \in Streams /\ c.op \in Op /\ c.tags \in Variables /\ Formed(c)
  BY <1>1, OpHead
<1>3. streams' = streams
  BY DEF RunAdmit
<1>4. /\ x \in Seq(Frame) /\ Split(todo, c, x) /\ Draining(x) = {}
      /\ Headed(c, x, streams, shared, manual)
  BY <1>1, DropHead, DrainingTail
<1>5. /\ FrameOK(c, streams, shared, manual, {}) /\ FramesOK(x, streams, shared, manual, {})
      /\ Apart(c, x) /\ Distinct(x) /\ QueuesOK(streams, shared, manual)
  BY <1>4 DEF Headed
<1>6. Again(c) => /\ foreign = {} /\ \A t : ~Makes(c.op, t)
                  /\ Ending(c) = Ids(c.op) /\ Deferred(c) = Ids(c.op)
  <2>1. Again(c) => foreign = {} /\ \A t : ~Makes(c.op, t)
    BY <1>1, <1>2, AgainForms
  <2> HIDE DEF c, foreign
  <2> QED BY <1>1, <2>1 DEF Ending, Deferred
<1>7. ~Again(c) =>
        /\ \A r \in Streams : ~DropIn(streams, r)
        /\ \A r \in Streams, t \in Tensors : MakesIn(streams, r, t) => t \notin DOMAIN shared
        /\ \A st, sh, mn, D : FramesOK(x, st, sh, mn, D)
        /\ Distinct(x) /\ \A g : Apart(g, x)
        /\ \A t \in Ids(c.op) : t \notin manual /\ \A r \in Streams : ~EndsIn(streams, r, t)
  <2>1. ASSUME ~Again(c)
        PROVE  \A t \in Ids(c.op) : t \notin manual /\ \A r \in Streams : ~EndsIn(streams, r, t)
    <3>1. \A t \in Ids(c.op) : t \in Tensors /\ Live(todo, t)
      BY <1>1, <1>2, <2>1, OpForms DEF Live, Asked
    <3> QED BY <3>1 DEF LiveInv, Last
  <2>2. ASSUME ~Again(c)
        PROVE  /\ \A r \in Streams : ~DropIn(streams, r)
               /\ \A r \in Streams, t \in Tensors : MakesIn(streams, r, t) => t \notin DOMAIN shared
               /\ \A st, sh, mn, D : FramesOK(x, st, sh, mn, D)
               /\ Distinct(x) /\ \A g : Apart(g, x)
    BY <1>1, <2>2, DropAlone
  <2> QED BY <2>1, <2>2
<1> HIDE DEF c, x, s, foreign
\* The operation goes on to the queue.
<1>8. ASSUME NEW op \in Op, NEW sync \in BOOLEAN,
             todo' = <<Process(s, op, c.tags, sync)>> \o x,
             op.drop = c.op.drop, op.drop => sync,
             \A t : Makes(op, t) => Makes(c.op, t),
             \A t : Makes(c.op, t) => Makes(op, t),
             \A t : Ends(op, t) => Ends(c.op, t) /\ t \notin manual',
             Ids(op) = Ids(c.op),
             \A t \in manual' : t \in manual \/ \A r \in Streams : ~EndsIn(streams, r, t),
             DOMAIN shared' \subseteq DOMAIN shared,
             \A t \in DOMAIN shared' : shared'[t] = shared[t],
             Again(c) => manual' \subseteq manual
      PROVE  DropInv(streams', todo', shared', manual', Draining(todo'))
  <2> DEFINE f == Process(s, op, c.tags, sync)
             z == <<f>> \o x
  <2>1. /\ f \in Frame /\ f.call = "process" /\ f.op = op /\ f.tags = c.tags /\ f.stream = s
        /\ f.sync = sync /\ OpCall(f) /\ (Again(f) <=> Again(c))
    <3>1. f \in Frame
      BY <1>2, FramesMade DEF s
    <3> QED BY <1>8, <3>1 DEF Process, OpCall, Again
  <2> HIDE DEF f
  <2>2. Split(z, f, x)
    BY <1>4, <2>1, SplitPush
  <2> HIDE DEF z
  <2>3. Draining(z) = {}
    BY <2>1, <2>2, DrainingPush
  <2>4. /\ \A t : Makes(op, t) \/ Ends(op, t) => t \in Ids(c.op)
        /\ Ids(c.op) \subseteq Tensors
    BY <1>2, <1>8, OpForms
  <2>5. \A t \in Ids(c.op) : Makes(op, t) \/ Ends(op, t) =>
          \A r \in Streams : ~EndsIn(streams, r, t)
    <3>1. CASE Again(c)
      BY <1>5, <1>6, <3>1 DEF FrameOK
    <3>2. CASE ~Again(c)
      BY <1>7, <3>2
    <3> QED BY <3>1, <3>2
  <2>6. Ending(f) = {t \in Tensors : Ends(op, t)}
    BY <2>1 DEF Ending
  <2>7. Deferred(f) = IF Again(c) THEN Ids(c.op) ELSE {}
    BY <1>8, <2>1 DEF Deferred
  <2>8. Whole(op)
    <3>1. Whole(c.op)
      BY <1>1, <1>5 DEF FrameOK
    <3> QED BY <1>8, <3>1 DEF Whole
  <2>9. Deferred(f) \cap DOMAIN shared' = {}
    BY <1>5, <1>6, <1>8, <2>7 DEF FrameOK
  <2>10. FrameOK(f, streams, shared', manual', {})
    BY <1>8, <2>1, <2>4, <2>5, <2>6, <2>8, <2>9 DEF FrameOK
  <2>11. FramesOK(x, streams, shared', manual', {}) /\ Apart(f, x)
    <3>1. CASE Again(c)
      <4>1. Ending(f) \subseteq Ending(c)
        BY <1>6, <2>4, <2>6, <3>1
      <4>2. Apart(f, x)
        BY <1>5, <4>1 DEF Apart
      <4>3. ASSUME NEW i \in DOMAIN x PROVE FrameOK(x[i], streams, shared', manual', {})
        <5>1. FrameOK(x[i], streams, shared, manual, {})
          BY <1>5 DEF FramesOK
        <5> QED BY <1>8, <3>1, <5>1 DEF FrameOK
      <4> QED BY <4>2, <4>3 DEF FramesOK
    <3>2. CASE ~Again(c)
      BY <1>7, <3>2
    <3> QED BY <3>1, <3>2
  <2>12. QueuesOK(streams, shared', manual')
    <3>1. \A r \in Streams : \A i \in DOMAIN streams[r].queue : \A t \in Tensors :
            Makes(streams[r].queue[i], t) /\ t \in DOMAIN shared' =>
              r \in DOMAIN shared'[t] /\ shared'[t][r].current >= streams[r].cursor + i
      BY <1>5, <1>8 DEF QueuesOK, QueueOK
    <3> QED BY <1>5, <1>8, <3>1, QueuesKept
  <2>13. \A r \in Streams, t \in Tensors : MakesIn(streams, r, t) /\ t \in DOMAIN shared' =>
           WaitsFor(x, r, t)
    BY <1>1, <1>4, <1>8 DEF Headed
  <2>14. ASSUME NEW r \in Streams, DropIn(streams, r)
         PROVE  /\ Local(f, r) /\ Awaited(x, r)
                /\ \E w \in Tensors : Anchor(streams, r, w, shared')
    <3>1. \A u : Flush(u, TRUE).call = "flush"
      BY DEF Flush
    <3>2. Again(c)
      BY <1>7, <2>14
    <3>3. Local(c, r) /\ Awaited(x, r) /\ \E w \in Tensors : Anchor(streams, r, w, shared)
      BY <1>1, <1>4, <2>14, <3>1 DEF Headed
    <3>4. Local(f, r)
      BY <1>1, <2>1, <3>2, <3>3 DEF Local, s
    <3> QED BY <1>8, <3>3, <3>4 DEF Anchor
  <2>15. DropInv(streams, z, shared', manual', {})
    BY <1>5, <2>2, <2>10, <2>11, <2>12, <2>13, <2>14, DropPush
  <2>16. todo' = z
    BY <1>8 DEF f, z
  <2> QED BY <1>3, <2>3, <2>15, <2>16
<1>9. CASE /\ c.op.drop => foreign = {}
           /\ manual' = manual \cup Tagged(c.op, foreign)
           /\ \E sync \in BOOLEAN :
                /\ c.op.drop => sync
                /\ todo' = <<Process(s, MarkReadOnly(c.op, foreign), c.tags, sync)>> \o x
           /\ shared' = shared
  <2> DEFINE op == MarkReadOnly(c.op, foreign)
  <2>1. PICK sync \in BOOLEAN :
          (c.op.drop => sync) /\ todo' = <<Process(s, op, c.tags, sync)>> \o x
    BY <1>9
  <2>2. /\ op \in Op /\ op.drop = c.op.drop /\ Ids(op) = Ids(c.op)
        /\ \A t : Makes(op, t) <=> Makes(c.op, t)
        /\ \A t : Ends(op, t) <=> Ends(c.op, t) /\ t \notin foreign
    BY <1>2, MarkForms
  <2> HIDE DEF op
  <2>3. \A t \in Tagged(c.op, foreign) : t \in foreign /\ t \in Ids(c.op)
    BY <1>2, TaggedForms
  <2>4. Again(c) => Tagged(c.op, foreign) = {}
    BY <1>6, <2>3
  <2>5. \A t \in manual' : t \in manual \/ \A r \in Streams : ~EndsIn(streams, r, t)
    BY <1>7, <1>9, <2>3, <2>4
  <2>6. \A t : Ends(op, t) => Ends(c.op, t) /\ t \notin manual'
    <3>1. ASSUME NEW t, Ends(op, t) PROVE t \notin manual
      <4>1. t \in Ids(c.op)
        BY <1>2, <2>2, <3>1, OpForms
      <4> QED BY <1>5, <1>6, <1>7, <4>1 DEF FrameOK
    <3> QED BY <1>9, <2>2, <2>3, <3>1
  <2> QED BY <1>8, <1>9, <2>1, <2>2, <2>4, <2>5, <2>6
<1>10. CASE /\ c.op.drop /\ foreign # {}
            /\ manual' = manual \ foreign
            /\ shared' = Restrict(shared, DOMAIN shared \ foreign)
            /\ todo' = <<Process(s, c.op, c.tags, TRUE)>> \o x
  <2>1. /\ DOMAIN shared' = DOMAIN shared \ foreign
        /\ \A t \in DOMAIN shared' : shared'[t] = shared[t]
    BY <1>10 DEF Restrict
  <2>2. ~Again(c)
    BY <1>6, <1>10
  <2>3. \A t : Ends(c.op, t) => t \notin manual'
    <3>1. \A t : Ends(c.op, t) => t \in Ids(c.op)
      BY <1>2, OpForms
    <3> QED BY <1>7, <1>10, <2>2, <3>1
  <2> QED BY <1>2, <1>8, <1>10, <2>1, <2>3
<1>11. ASSUME c.op.drop, NEW t \in foreign, ~ForceDrop(s, t),
              shared' = IF streams[s].open THEN shared
                        ELSE [shared EXCEPT ![t] = Restrict(@, DOMAIN @ \ {s})],
              manual' = manual \cup {t},
              todo' = x
       PROVE  DropInv(streams', todo', shared', manual', Draining(todo'))
  <2>1. ~Again(c) /\ t \in Ids(c.op)
    BY <1>6, <1>11 DEF foreign, Foreign
  <2>2. t \in DOMAIN shared
    BY <1>11 DEF ForceDrop, IsShared
  <2>3. DOMAIN shared' = DOMAIN shared
    BY <1>11, <2>2
  <2>4. \A r \in Streams, u \in Tensors : MakesIn(streams, r, u) => u \notin DOMAIN shared'
    BY <1>7, <2>1, <2>3
  <2>5. QueuesOK(streams, shared', manual')
    <3>1. \A u \in manual' : u \in manual \/ \A r \in Streams : ~EndsIn(streams, r, u)
      BY <1>7, <1>11, <2>1
    <3>2. \A r \in Streams : \A i \in DOMAIN streams[r].queue : \A u \in Tensors :
            Makes(streams[r].queue[i], u) => u \notin DOMAIN shared'
      BY <2>4 DEF MakesIn
    <3> QED BY <1>5, <3>1, <3>2, QueuesKept
  <2>6. DropInv(streams, x, shared', manual', {})
    BY <1>7, <2>1, <2>4, <2>5 DEF DropInv, Synced, Window, Held
  <2> QED BY <1>3, <1>4, <1>11, <2>6
<1>12. \/ /\ c.op.drop => foreign = {}
          /\ manual' = manual \cup Tagged(c.op, foreign)
          /\ \E sync \in BOOLEAN :
               /\ c.op.drop => sync
               /\ todo' = <<Process(s, MarkReadOnly(c.op, foreign), c.tags, sync)>> \o x
          /\ shared' = shared
       \/ /\ c.op.drop /\ foreign # {}
          /\ manual' = manual \ foreign
          /\ shared' = Restrict(shared, DOMAIN shared \ foreign)
          /\ todo' = <<Process(s, c.op, c.tags, TRUE)>> \o x
       \/ /\ c.op.drop
          /\ \E t \in foreign :
               /\ ~ForceDrop(s, t)
               /\ shared' = IF streams[s].open THEN shared
                            ELSE [shared EXCEPT ![t] = Restrict(@, DOMAIN @ \ {s})]
               /\ manual' = manual \cup {t}
          /\ todo' = x
  <2>1. /\ (c.op.drop /\ ((\E t \in Ids(c.op) : IsShared(t)) \/ ContinueDropDrain)) \in BOOLEAN
        /\ c.op.drop => (c.op.drop /\ ((\E t \in Ids(c.op) : IsShared(t)) \/ ContinueDropDrain))
    OBVIOUS
  <2> QED BY <1>1, <2>1 DEF RunAdmit, x, s, foreign
<1> QED BY <1>9, <1>10, <1>11, <1>12

\* Stream s executes k operations.  The streams that are drained are among {s},
\* and a drop is left in the queue only when something keeps the stream's
\* variables.
LEMMA DropExecute ==
  ASSUME NEW st \in [Streams -> StreamType], NEW td \in Seq(Frame), Settled(td),
         NEW s \in Streams, st[s].open,
         \A r \in Streams : r # s => st[r] = streams[r],
         \A r \in Streams : ~st[r].open => st[r].queue = <<>>,
         NEW k \in 0 .. Len(st[s].queue), Execute(s, st[s], k, td),
         SharedOK(shared), manual \subseteq Tensors,
         NEW D, D \subseteq {s}, s \in D => k = Len(st[s].queue),
         DropInv(st, td, shared, manual, D),
         \A r \in Streams : r # s => ~DropIn(st, r),
         DropIn(st, s) /\ k > 0 /\ k < Len(st[s].queue) =>
           \E w \in Tensors : Anchor(st, s, w, shared),
         k = 0 => Len(st[s].queue) = 0
  PROVE  /\ DropInv(streams', todo', shared', manual', Draining(todo'))
         /\ \A r \in Streams : st[r].open /\ ~streams'[r].open => st[r].queue = <<>>
<1> DEFINE n == Len(st[s].queue)
           cursor == st[s].cursor + k
<1>1. /\ StreamsAfter(st, s, k) /\ SharedAfter(s, cursor)
      /\ \E dropped \in SUBSET manual :
           /\ manual' = manual \ dropped
           /\ dropped = {t \in manual : t \notin DOMAIN shared'}
           /\ todo' = <<DropShared(s, dropped)>> \o td
  BY ExecuteForms
<1>2. PICK dropped \in SUBSET manual :
        /\ manual' = manual \ dropped
        /\ dropped = {t \in manual : t \notin DOMAIN shared'}
        /\ todo' = <<DropShared(s, dropped)>> \o td
  BY <1>1
<1>3. /\ n \in Nat /\ k \in Nat /\ k <= n /\ st[s].cursor \in Nat /\ s # NoStream
      /\ DOMAIN st[s].queue = 1 .. n
  BY StreamForms, FusionAssumption
<1>4. /\ DOMAIN shared' \subseteq DOMAIN shared
      /\ \A t \in DOMAIN shared' : \A r \in DOMAIN shared'[t] : shared'[t][r] = shared[t][r]
      /\ \A t \in DOMAIN shared : \A r \in DOMAIN shared[t] :
           Retained(t, r, s, cursor) => t \in DOMAIN shared' /\ r \in DOMAIN shared'[t]
  BY <1>1 DEF SharedAfter
<1>5. /\ FramesOK(td, st, shared, manual, D) /\ Distinct(td)
      /\ QueuesOK(st, shared, manual) /\ Synced(st, td, shared, D)
      /\ Window(st, td, D) /\ Held(st, td, shared, D)
  BY DEF DropInv
<1>6. \A r \in Streams, t \in Tensors :
        /\ st[r].open /\ st[r].variables[t] # NoStream
        /\ t \in DOMAIN shared => Retained(t, r, s, cursor)
        /\ t \notin manual \/ st[r].variables[t] = r
        /\ r = s => \A i \in 1 .. k : ~Ends(st[s].queue[i], t)
        => streams'[r].open /\ streams'[r].variables[t] = st[r].variables[t]
  BY <1>1 DEF StreamsAfter
<1> HIDE DEF cursor
\* What is left in a queue.
<1>7. ASSUME NEW r \in Streams, NEW i \in DOMAIN streams'[r].queue
      PROVE  /\ st[r].open
             /\ \E j \in DOMAIN st[r].queue :
                  /\ streams'[r].queue[i] = st[r].queue[j]
                  /\ streams'[r].cursor + i = st[r].cursor + j
                  /\ r = s => j = i + k
  <2>1. StreamsAfter(st, s, k)
    BY <1>1
  <2> QED BY <1>7, <2>1, QueuesAfter
<1>8. \A r \in Streams : /\ streams'[r].cursor \in Nat /\ st[r].cursor \in Nat
                         /\ \A i \in DOMAIN streams'[r].queue : i \in Nat /\ i > 0
                         /\ \A i \in DOMAIN st[r].queue : i \in Nat /\ i > 0
  <2>1. streams' \in [Streams -> StreamType]
    BY <1>1 DEF StreamsAfter
  <2> QED BY <2>1, StreamForms
<1>9. /\ \A r \in Streams : \A t : EndsIn(streams', r, t) => EndsIn(st, r, t)
      /\ \A r \in Streams : \A t : MakesIn(streams', r, t) => MakesIn(st, r, t)
      /\ \A r \in Streams : DropIn(streams', r) => DropIn(st, r)
      /\ \A r \in Streams : OnlyDrops(st, r) => OnlyDrops(streams', r)
  BY <1>7 DEF EndsIn, MakesIn, DropIn, OnlyDrops
<1>10. /\ DOMAIN streams'[s].queue = 1 .. n - k
       /\ \A i \in 1 .. n - k : streams'[s].queue[i] = st[s].queue[i + k]
       /\ Len(streams'[s].queue) = n - k
  <2> DEFINE q == st[s].queue
             after == SubSeq(q, k + 1, Len(q))
  <2>1. q \in Seq(Op) /\ k \in 0 .. Len(q)
    BY StreamForms
  <2>2. /\ DOMAIN after = 1 .. Len(q) - k
        /\ \A i \in DOMAIN after : i + k \in DOMAIN q /\ after[i] = q[i + k]
    BY <2>1, Shifted
  <2>3. streams'[s].queue = after
    BY <1>1 DEF StreamsAfter
  <2>4. streams' \in [Streams -> StreamType]
    BY <1>1 DEF StreamsAfter
  <2>5. /\ Len(streams'[s].queue) \in Nat
        /\ DOMAIN streams'[s].queue = 1 .. Len(streams'[s].queue)
    BY <2>4, StreamForms
  <2> HIDE DEF after, q
  <2>6. DOMAIN streams'[s].queue = 1 .. n - k
    BY <2>2, <2>3 DEF q
  <2>7. Len(streams'[s].queue) = n - k
    <3>1. n - k \in Nat
      BY <1>3
    <3> QED BY <2>5, <2>6, <3>1
  <2> QED BY <2>2, <2>3, <2>6, <2>7 DEF q
<1>11. s \in D => DOMAIN streams'[s].queue = {}
  BY <1>3, <1>10
\* What is to be made stays a variable.
<1>12. ASSUME NEW r \in Streams, NEW j \in DOMAIN st[r].queue, NEW t \in Tensors,
              Makes(st[r].queue[j], t), r = s => j > k
       PROVE  /\ streams'[r].open /\ streams'[r].variables[t] = r
              /\ t \in DOMAIN shared' =>
                   /\ r \in DOMAIN shared'[t]
                   /\ shared'[t][r].current >= st[r].cursor + j
  <2>1. /\ \A i \in DOMAIN st[r].queue : i <= j => ~Ends(st[r].queue[i], t)
        /\ st[r].variables[t] = r
        /\ t \in DOMAIN shared =>
             r \in DOMAIN shared[t] /\ shared[t][r].current >= st[r].cursor + j
    BY <1>5, <1>12 DEF QueuesOK, QueueOK
  <2>2. t \in DOMAIN shared => Retained(t, r, s, cursor)
    <3>1. ASSUME t \in DOMAIN shared, r = s PROVE shared[t][r].current > cursor
      <4>1. shared[t][s].current \in Nat /\ shared[t][s].current >= st[s].cursor + j /\ j > k
        BY <1>12, <2>1, <3>1 DEF SharedOK
      <4>2. j \in Nat
        BY <1>3, <3>1
      <4> QED BY <1>3, <3>1, <4>1, <4>2 DEF cursor
    <3> QED BY <2>1, <3>1 DEF Retained
  <2>3. r = s => \A i \in 1 .. k : ~Ends(st[s].queue[i], t)
    BY <1>3, <1>12, <2>1
  <2>4. st[r].open /\ r # NoStream
    <3>1. st[r].queue # <<>>
      BY <1>12
    <3> QED BY <3>1, FusionAssumption
  <2> QED BY <1>4, <1>6, <2>1, <2>2, <2>3, <2>4
\* Nobody leaves the map with an operation.
<1>13. \A r \in Streams : st[r].open /\ ~streams'[r].open => st[r].queue = <<>>
  <2> SUFFICES ASSUME NEW r \in Streams, st[r].open, ~streams'[r].open, st[r].queue # <<>>
               PROVE  FALSE
    OBVIOUS
  <2>1. r # s
    BY <1>1 DEF StreamsAfter
  <2>2. 1 \in DOMAIN st[r].queue
    <3>1. st[r].queue \in Seq(Op) /\ Len(st[r].queue) \in Nat /\ DOMAIN st[r].queue = 1 .. Len(st[r].queue)
      BY StreamForms
    <3>2. Len(st[r].queue) # 0
      BY <3>1, EmptySeq
    <3> QED BY <3>1, <3>2
  <2>3. Whole(st[r].queue[1]) /\ ~st[r].queue[1].drop
    BY <1>5, <2>1, <2>2 DEF QueuesOK, QueueOK, DropIn
  <2>4. PICK w \in Tensors : Makes(st[r].queue[1], w)
    BY <2>3 DEF Whole
  <2> QED BY <1>12, <2>1, <2>2, <2>4
<1>14. QueuesOK(streams', shared', manual')
  <2>1. ASSUME NEW r \in Streams, NEW i \in DOMAIN streams'[r].queue
        PROVE  /\ Whole(streams'[r].queue[i])
               /\ \A t \in manual' : ~Ends(streams'[r].queue[i], t)
               /\ \A t \in Tensors : Makes(streams'[r].queue[i], t) =>
                    /\ \A j \in DOMAIN streams'[r].queue : j <= i => ~Ends(streams'[r].queue[j], t)
                    /\ streams'[r].variables[t] = r
                    /\ t \in DOMAIN shared' =>
                         /\ r \in DOMAIN shared'[t]
                         /\ shared'[t][r].current >= streams'[r].cursor + i
    <3>1. PICK i2 \in DOMAIN st[r].queue :
            /\ streams'[r].queue[i] = st[r].queue[i2]
            /\ streams'[r].cursor + i = st[r].cursor + i2
            /\ r = s => i2 = i + k
      BY <1>7, <2>1
    <3>2. r = s => i2 > k
      BY <1>3, <1>8, <2>1, <3>1
    <3>3. /\ Whole(streams'[r].queue[i])
          /\ \A t \in manual' : ~Ends(streams'[r].queue[i], t)
      BY <1>2, <1>5, <3>1 DEF QueuesOK, QueueOK
    <3>4. ASSUME NEW t \in Tensors, Makes(streams'[r].queue[i], t),
                 NEW j \in DOMAIN streams'[r].queue, j <= i
          PROVE  ~Ends(streams'[r].queue[j], t)
      <4>1. PICK j2 \in DOMAIN st[r].queue :
              /\ streams'[r].queue[j] = st[r].queue[j2]
              /\ streams'[r].cursor + j = st[r].cursor + j2
        BY <1>7, <3>4
      <4>2. j2 <= i2
        <5>1. /\ i \in Nat /\ j \in Nat /\ i2 \in Nat /\ j2 \in Nat
              /\ streams'[r].cursor \in Nat /\ st[r].cursor \in Nat
          BY <1>8, <2>1, <3>1, <3>4, <4>1
        <5>2. /\ streams'[r].cursor + i = st[r].cursor + i2
              /\ streams'[r].cursor + j = st[r].cursor + j2
              /\ j <= i
          BY <3>1, <3>4, <4>1
        <5>3. ASSUME NEW a \in Nat, NEW b \in Nat, a + i = b + i2, a + j = b + j2
              PROVE  j2 <= i2
          BY <5>1, <5>2, <5>3
        <5> QED BY <5>1, <5>2, <5>3
      <4> QED BY <1>5, <3>1, <3>4, <4>1, <4>2 DEF QueuesOK, QueueOK
    <3>5. ASSUME NEW t \in Tensors, Makes(streams'[r].queue[i], t)
          PROVE  /\ streams'[r].variables[t] = r
                 /\ t \in DOMAIN shared' =>
                      /\ r \in DOMAIN shared'[t]
                      /\ shared'[t][r].current >= streams'[r].cursor + i
      BY <1>12, <3>1, <3>2, <3>5
    <3> QED BY <3>3, <3>4, <3>5
  <2> QED BY <2>1 DEF QueuesOK, QueueOK
\* The calls.
<1>15. FramesOK(td, streams', shared', manual', {})
  <2>1. ASSUME NEW i \in DOMAIN td PROVE FrameOK(td[i], streams', shared', manual', {})
    <3>1. FrameOK(td[i], st, shared, manual, D)
      BY <1>5 DEF FramesOK
    <3>2. td[i].call # "process"
      BY DEF Settled
    <3>3. td[i].call = "read" => OnlyDrops(streams', td[i].stream)
      <4>1. td[i].call = "read" => td[i].stream \in Streams
        BY ElementOfSeq, FrameForms
      <4>2. s \in D => OnlyDrops(streams', s)
        BY <1>11 DEF OnlyDrops
      <4> QED BY <1>9, <3>1, <4>1, <4>2 DEF FrameOK
    <3>4. manual' \subseteq manual
      BY <1>2
    <3> QED BY <1>4, <1>9, <3>1, <3>2, <3>3, <3>4 DEF FrameOK
  <2> QED BY <2>1 DEF FramesOK
<1> DEFINE f == DropShared(s, dropped)
           z == <<f>> \o td
<1>16. /\ f \in Frame /\ f.call = "drop" /\ f.stream = s /\ f.tensors = dropped /\ ~OpCall(f)
  <2>1. f \in Frame
    BY <1>2, PlainFramesMade
  <2> QED BY <2>1 DEF DropShared, OpCall
<1>17. todo' = z
  BY <1>2
<1> HIDE DEF f
<1>18. Split(z, f, td)
  BY <1>16, SplitPush
<1> HIDE DEF z
<1>19. Draining(z) = {}
  BY <1>16, <1>18, DrainingPush
<1>20. Ending(f) = dropped /\ Deferred(f) = dropped
  BY <1>16 DEF Ending, Deferred
<1>21. FrameOK(f, streams', shared', manual', {})
  <2>1. \A t \in dropped : t \notin manual' /\ t \notin DOMAIN shared'
    BY <1>2
  <2>2. ASSUME NEW t \in dropped, NEW r \in Streams PROVE ~EndsIn(streams', r, t)
    <3>1. ~EndsIn(st, r, t)
      BY <1>2, <1>5, <2>2 DEF QueuesOK, QueueOK, EndsIn
    <3> QED BY <1>9, <3>1
  <2> QED BY <1>16, <1>20, <2>1, <2>2 DEF FrameOK
<1>22. Apart(f, td)
  BY <1>2, <1>5, <1>20 DEF Apart, FramesOK, FrameOK
<1>23. \A r \in Streams, t \in Tensors : MakesIn(streams', r, t) /\ t \in DOMAIN shared' =>
         WaitsFor(td, r, t)
  <2>1. ASSUME NEW r \in Streams, NEW t \in Tensors, MakesIn(streams', r, t), t \in DOMAIN shared'
        PROVE  WaitsFor(td, r, t)
    <3>1. r \notin D
      BY <1>11, <2>1 DEF MakesIn
    <3> QED BY <1>4, <1>5, <1>9, <2>1, <3>1 DEF Synced
  <2> QED BY <2>1
<1>24. ASSUME NEW r \in Streams, DropIn(streams', r)
       PROVE  /\ Local(f, r) /\ Awaited(td, r)
              /\ \E w \in Tensors : Anchor(streams', r, w, shared')
  <2>1. r = s /\ DropIn(st, s)
    BY <1>9, <1>24
  <2>2. s \notin D
    BY <1>11, <1>24, <2>1 DEF DropIn
  <2>3. Local(f, r) /\ Awaited(td, r)
    BY <1>5, <1>16, <2>1, <2>2 DEF Local, Window
  <2>4. k > 0 /\ k < n
    <3>1. DOMAIN streams'[s].queue # {}
      BY <1>24, <2>1 DEF DropIn
    <3> QED BY <1>3, <1>10, <3>1
  <2>5. PICK w \in Tensors : Anchor(st, s, w, shared)
    BY <2>1, <2>4
  <2>6. /\ st[s].variables[w] = s /\ w \notin DOMAIN shared
        /\ \A i \in 1 .. n : Ends(st[s].queue[i], w) => i = n
    BY <1>3, <2>5 DEF Anchor
  <2>7. streams'[s].variables[w] = s
    <3>1. \A i \in 1 .. k : ~Ends(st[s].queue[i], w)
      BY <1>3, <2>4, <2>6
    <3> QED BY <1>3, <1>6, <2>6, <3>1
  <2>8. \A i \in DOMAIN streams'[s].queue : Ends(streams'[s].queue[i], w) => i = n - k
    <3>1. ASSUME NEW i \in 1 .. n - k, Ends(streams'[s].queue[i], w) PROVE i = n - k
      <4>1. i + k \in 1 .. n /\ streams'[s].queue[i] = st[s].queue[i + k]
        BY <1>3, <1>10
      <4>2. i + k = n
        BY <2>6, <3>1, <4>1
      <4> QED BY <1>3, <4>2
    <3> QED BY <1>10, <3>1
  <2>9. Anchor(streams', s, w, shared')
    BY <1>4, <1>10, <2>6, <2>7, <2>8 DEF Anchor
  <2> QED BY <2>1, <2>3, <2>9
<1>25. DropInv(streams', z, shared', manual', {})
  BY <1>5, <1>14, <1>15, <1>18, <1>21, <1>22, <1>23, <1>24, DropPush
<1> QED BY <1>13, <1>17, <1>19, <1>25

LEMMA DropDrain ==
  ASSUME LiveInv(streams, todo), RunDrain,
         DropInv(streams, todo, shared, manual, Draining(todo))
  PROVE  \/ Panic
         \/ /\ DropInv(streams', todo', shared', manual', Draining(todo'))
            /\ \A r \in Streams : streams[r].open /\ ~streams'[r].open => streams[r].queue = <<>>
<1> DEFINE c == todo[1]
           x == Tail(todo)
           s == c.stream
<1>1. /\ todo \in Seq(Frame) /\ todo # <<>> /\ Shape(todo)
      /\ Head(todo) = c /\ c \in Frame /\ c.call = "drain"
  BY HeadForms DEF RunDrain, Calling, LiveInv, TypesOK
<1>2. s \in Streams
  BY <1>1, FrameForms
<1>3. /\ streams \in [Streams -> StreamType] /\ SharedOK(shared) /\ manual \subseteq Tensors
      /\ \A r \in Streams : ~streams[r].open => streams[r].queue = <<>>
  BY DEF LiveInv, TypesOK, SharedOK
<1>4. /\ x \in Seq(Frame) /\ Settled(x) /\ Draining(x) = {} /\ Split(todo, c, x)
  BY <1>1, DrainingTail, SplitTail
<1>5. \/ todo' = x /\ UNCHANGED server /\ ~streams[s].open
      \/ Panic
      \/ streams[s].open /\ Execute(s, streams[s], Len(streams[s].queue), x)
  BY <1>1 DEF RunDrain
<1>6. c = Drain(s)
  <2>1. c \in [call: {"drain"}, stream: Streams]
    BY <1>1 DEF Frame
  <2> QED BY <2>1 DEF Drain
<1>7. Draining(todo) = {s}
  BY <1>2, <1>4, <1>6, DrainingPush
<1>8. DropInv(streams, todo, shared, manual, {s})
  BY <1>7
<1> HIDE DEF c, x, s
<1>9. \A r \in Streams : DropIn(streams, r) => r = s
  <2>1. Window(streams, todo, {s})
    BY <1>8 DEF DropInv
  <2>2. \A r : Awaited(todo, r) => c = Flush(r, TRUE) \/ Local(c, r)
    BY <1>4, SplitForms
  <2>3. \A r : c # Flush(r, TRUE) /\ ~Local(c, r)
    BY <1>1 DEF Flush, Local, OpCall
  <2> QED BY <2>1, <2>2, <2>3 DEF Window
<1>10. DropInv(streams, x, shared, manual, {s})
  <2>1. /\ FramesOK(todo, streams, shared, manual, {s}) /\ Distinct(todo)
        /\ QueuesOK(streams, shared, manual) /\ Synced(streams, todo, shared, {s})
    BY <1>8 DEF DropInv
  <2>2. FramesOK(x, streams, shared, manual, {s}) /\ Distinct(x)
    BY <1>4, <2>1, SplitForms
  <2>3. \A r, t : WaitsFor(todo, r, t) => WaitsFor(x, r, t)
    BY <1>1, <1>4, SplitForms
  <2>4. Synced(streams, x, shared, {s})
    BY <2>1, <2>3 DEF Synced
  <2>5. Window(streams, x, {s}) /\ Held(streams, x, shared, {s})
    BY <1>9 DEF Window, Held
  <2> QED BY <2>1, <2>2, <2>4, <2>5 DEF DropInv
<1>11. CASE todo' = x /\ UNCHANGED server /\ ~streams[s].open
  <2>1. streams[s].queue = <<>> /\ DOMAIN streams[s].queue = {}
    BY <1>2, <1>3, <1>11
  <2>2. DropInv(streams, x, shared, manual, {})
    <3>1. /\ FramesOK(x, streams, shared, manual, {s}) /\ Distinct(x)
          /\ QueuesOK(streams, shared, manual) /\ Synced(streams, x, shared, {s})
      BY <1>10 DEF DropInv
    <3>2. FramesOK(x, streams, shared, manual, {})
      <4>1. ASSUME NEW i \in DOMAIN x PROVE FrameOK(x[i], streams, shared, manual, {})
        <5>1. FrameOK(x[i], streams, shared, manual, {s})
          BY <3>1 DEF FramesOK
        <5>2. OnlyDrops(streams, s)
          BY <2>1 DEF OnlyDrops
        <5> QED BY <5>1, <5>2 DEF FrameOK
      <4> QED BY <4>1 DEF FramesOK
    <3>3. ~DropIn(streams, s) /\ \A t : ~MakesIn(streams, s, t)
      BY <2>1 DEF DropIn, MakesIn
    <3> QED BY <1>9, <3>1, <3>2, <3>3 DEF DropInv, Synced, Window, Held
  <2>3. streams' = streams /\ shared' = shared /\ manual' = manual
    BY <1>11 DEF server
  <2> QED BY <1>4, <1>11, <2>2, <2>3
<1>12. CASE Panic
  BY <1>12
<1>13. CASE streams[s].open /\ Execute(s, streams[s], Len(streams[s].queue), x)
  <2> DEFINE n == Len(streams[s].queue)
  <2>1. n \in Nat /\ n \in 0 .. n
    BY <1>2, <1>3, StreamForms
  <2>2. n = 0 => n = 0
    OBVIOUS
  <2>3. {s} \subseteq {s} /\ (s \in {s} => n = n) /\ ~(n < n)
    BY <2>1
  <2>4. \A r \in Streams : r # s => ~DropIn(streams, r)
    BY <1>9
  <2> QED BY <1>2, <1>3, <1>4, <1>10, <1>13, <2>1, <2>2, <2>3, <2>4, DropExecute
<1> QED BY <1>5, <1>11, <1>12, <1>13

\* Stream s of st is that of streams with one more operation.
Enqueued(st, s, op, tags, n) ==
  /\ st \in [Streams -> StreamType]
  /\ \A r \in Streams : r # s => st[r] = streams[r]
  /\ st[s].open
  /\ \A t \in Ids(op) :
       st[s].variables[t] = IF tags[t] # NoStream THEN tags[t] ELSE s
  /\ streams[s].open =>
       /\ st[s].cursor = streams[s].cursor
       /\ \A t \in Tensors \ Ids(op) : st[s].variables[t] = streams[s].variables[t]
  /\ n = Len(streams[s].queue) /\ DOMAIN streams[s].queue = 1 .. n
  /\ n > 0 => streams[s].open
  /\ Len(st[s].queue) = n + 1 /\ DOMAIN st[s].queue = 1 .. n + 1
  /\ st[s].queue[n + 1] = op
  /\ \A i \in 1 .. n : st[s].queue[i] = streams[s].queue[i]

LEMMA EnqueuedForms ==
  ASSUME NEW s \in Streams, NEW op \in Op, NEW tags \in Variables,
         streams \in [Streams -> StreamType],
         \A r \in Streams : ~streams[r].open => streams[r].queue = <<>>,
         NEW st, st = [streams EXCEPT ![s] = Queued(s, op, tags)]
  PROVE  \E n \in Nat : Enqueued(st, s, op, tags, n)
<1> DEFINE new == Queued(s, op, tags)
           stream == IF streams[s].open THEN streams[s] ELSE Opened
           vs == [t \in Tensors |->
                    IF t \notin Ids(op) THEN stream.variables[t]
                    ELSE IF tags[t] # NoStream THEN tags[t] ELSE s]
           queue == streams[s].queue
           longer == Append(queue, op)
<1>1. /\ new \in StreamType /\ new.open = TRUE
      /\ new.queue = longer
      /\ streams[s].open => new.cursor = streams[s].cursor
  <2>1. QueuedOK(new, s, op)
    BY FusionAssumption, QueuedForms
  <2> HIDE DEF new
  <2> QED BY <2>1 DEF QueuedOK, longer, queue
<1>2. stream \in StreamType
  <2>1. <<>> \in Seq(Op) /\ NoVariables \in Variables
    BY EmptySeq DEF NoVariables, Variables
  <2>2. streams[s] \in StreamType
    OBVIOUS
  <2> QED BY <2>1, <2>2 DEF Opened, Closed, StreamType
<1>3. new = [stream EXCEPT !.queue = Append(stream.queue, op), !.variables = vs]
  BY DEF Queued
<1>4. streams[s].open => stream = streams[s]
  OBVIOUS
<1> HIDE DEF stream, new
<1>5. /\ stream = [open |-> stream.open, queue |-> stream.queue,
                   variables |-> stream.variables, cursor |-> stream.cursor]
  BY <1>2 DEF StreamType
<1>6. \A t \in Tensors : vs[t] = IF t \notin Ids(op) THEN stream.variables[t]
                                ELSE IF tags[t] # NoStream THEN tags[t] ELSE s
  OBVIOUS
<1> HIDE DEF vs
<1>7. new.variables = vs
  BY <1>2, <1>3 DEF StreamType
<1>8. Ids(op) \subseteq Tensors
  BY OpForms
<1>9. /\ st[s] = new /\ st \in [Streams -> StreamType]
      /\ \A r \in Streams : r # s => st[r] = streams[r]
  BY <1>1 DEF new
<1> HIDE DEF queue, longer
<1>10. queue \in Seq(Op)
  BY DEF queue, StreamType
<1>11. /\ longer \in Seq(Op) /\ Len(longer) = Len(queue) + 1
       /\ longer[Len(queue) + 1] = op
       /\ \A i \in 1 .. Len(queue) : longer[i] = queue[i]
  BY <1>10, Appending, SMTT(30) DEF longer
<1>12. PICK n \in Nat : n = Len(queue) /\ DOMAIN queue = 1 .. n
  BY <1>10, LenProperties
<1>13. DOMAIN longer = 1 .. n + 1
  BY <1>11, <1>12, LenProperties
<1>14. n > 0 => streams[s].open
  <2>1. n > 0 => queue # <<>>
    BY <1>10, <1>12, EmptySeq
  <2> QED BY <2>1 DEF queue
<1>15. \A t \in Ids(op) : st[s].variables[t] = IF tags[t] # NoStream THEN tags[t] ELSE s
  BY <1>6, <1>7, <1>8, <1>9
<1>16. streams[s].open =>
         /\ st[s].cursor = streams[s].cursor
         /\ \A t \in Tensors \ Ids(op) : st[s].variables[t] = streams[s].variables[t]
  BY <1>1, <1>4, <1>6, <1>7, <1>9
<1>17. Enqueued(st, s, op, tags, n)
  BY <1>1, <1>9, <1>11, <1>12, <1>13, <1>14, <1>15, <1>16 DEF Enqueued, queue
<1> QED BY <1>17

\* An operation joins the queue.
LEMMA DropQueue ==
  ASSUME LiveInv(streams, todo), Calling("process"),
         DropInv(streams, todo, shared, manual, Draining(todo)),
         NEW st, NEW s, NEW n \in Nat, s = Head(todo).stream,
         Enqueued(st, s, Head(todo).op, Head(todo).tags, n)
  PROVE  /\ DropInv(st, <<Flush(s, Head(todo).sync)>> \o Tail(todo), shared, manual, {})
         /\ \A r \in Streams : r # s => ~DropIn(st, r)
         /\ DropIn(st, s) /\ n > 0 => \E w \in Tensors : Anchor(st, s, w, shared)
<1> DEFINE c == todo[1]
           x == Tail(todo)
           op == c.op
           tags == c.tags
           f == Flush(s, c.sync)
           z == <<f>> \o x
<1>1. /\ todo \in Seq(Frame) /\ todo # <<>> /\ Shape(todo)
      /\ Head(todo) = c /\ c \in Frame /\ c.call = "process" /\ OpCall(c)
  BY HeadForms DEF Calling, LiveInv, TypesOK, OpCall
<1>2. /\ s \in Streams /\ op \in Op /\ tags \in Variables /\ Formed(c)
      /\ \A t : Makes(op, t) => t \notin DOMAIN shared
  <2>1. /\ c.stream \in Streams /\ op \in Op /\ tags \in Variables /\ Formed(c)
        /\ \A t : Makes(op, t) => ToMake(todo, t)
    BY <1>1, OpHead
  <2>2. \A t : Makes(op, t) => t \in Tensors
    BY <2>1, OpForms
  <2> HIDE DEF op
  <2> QED BY <1>1, <2>1, <2>2 DEF LiveInv, New
<1>3. /\ x \in Seq(Frame) /\ Split(todo, c, x) /\ Draining(x) = {} /\ Settled(x)
      /\ Headed(c, x, streams, shared, manual)
  BY <1>1, DropHead, DrainingTail
<1>4. /\ FrameOK(c, streams, shared, manual, {}) /\ FramesOK(x, streams, shared, manual, {})
      /\ Apart(c, x) /\ Distinct(x) /\ QueuesOK(streams, shared, manual)
  BY <1>3 DEF Headed
<1>5. /\ Enqueued(st, s, op, tags, n) /\ c.stream = s /\ c.sync \in BOOLEAN
  BY <1>1, FrameForms
<1>6. ~Again(c) =>
        /\ \A r \in Streams : ~DropIn(streams, r)
        /\ \A r \in Streams, t \in Tensors : MakesIn(streams, r, t) => t \notin DOMAIN shared
        /\ \A st2, sh, mn, D : FramesOK(x, st2, sh, mn, D)
  BY <1>1, DropAlone
<1>7. /\ Whole(op)
      /\ op.drop => c.sync = TRUE
      /\ \A t \in Tensors : Makes(op, t) => \A r \in Streams : ~EndsIn(streams, r, t)
      /\ \A t \in Tensors : Ends(op, t) => t \notin manual /\ \A r \in Streams : ~EndsIn(streams, r, t)
      /\ Deferred(c) \cap DOMAIN shared = {}
      /\ Ending(c) = {t \in Tensors : Ends(op, t)}
  <2>1. Ending(c) = {t \in Tensors : Ends(op, t)}
    BY <1>1 DEF Ending
  <2>2. op.drop => c.sync = TRUE
    BY <1>1, <1>4, <1>5 DEF FrameOK
  <2>3. /\ Whole(op) /\ Deferred(c) \cap DOMAIN shared = {}
        /\ \A t \in Tensors : Makes(op, t) => \A r \in Streams : ~EndsIn(streams, r, t)
    BY <1>1, <1>4 DEF FrameOK
  <2>4. \A t \in Ending(c) : t \notin manual /\ \A r \in Streams : ~EndsIn(streams, r, t)
    BY <1>4 DEF FrameOK
  <2> QED BY <2>1, <2>2, <2>3, <2>4
<1>8. op.drop => \E u \in Tensors : op = DropOf(u)
  BY <1>2 DEF Formed
<1>9. /\ \A t \in Ids(op) : t \in Tensors
      /\ \A t : Makes(op, t) => t \in Ids(op)
      /\ \A t : Ends(op, t) => t \in Ids(op)
  BY <1>2, OpForms
<1>10. \A t \in Ids(op) :
         IF Makes(op, t) THEN tags[t] = NoStream
         ELSE Again(c) \/ tags[t] = origin[t]
  BY <1>2 DEF Formed
<1>11. Again(c) => op.drop /\ \A t \in Tensors : tags[t] = NoStream
  BY DEF Again, NoTags
<1>12. f.call = "flush" /\ f \in Frame /\ (op.drop => f = Flush(s, TRUE))
  <2>1. f \in Frame
    BY <1>2, <1>5, PlainFramesMade
  <2> QED BY <1>7, <2>1 DEF Flush
<1>13. Split(z, f, x)
  BY <1>3, <1>12, SplitPush
<1>14. \A r \in Streams : DropIn(streams, r) => r = s /\ Again(c)
  <2>1. \A r : Flush(r, TRUE).call = "flush"
    BY DEF Flush
  <2>2. \A r \in Streams : DropIn(streams, r) => Local(c, r)
    BY <1>1, <1>3, <2>1 DEF Headed
  <2> QED BY <1>1, <1>5, <2>2 DEF Local
<1>15. \A r \in Streams : \A t : MakesIn(streams, r, t) /\ t \in Tensors /\ t \in DOMAIN shared =>
         WaitsFor(x, r, t)
  BY <1>1, <1>3 DEF Headed
<1> HIDE DEF f, x, op, tags, c, z
<1>16. /\ \A r \in Streams : r # s => st[r] = streams[r]
       /\ st[s].open
       /\ \A t \in Ids(op) : st[s].variables[t] = IF tags[t] # NoStream THEN tags[t] ELSE s
       /\ streams[s].open =>
            /\ st[s].cursor = streams[s].cursor
            /\ \A t \in Tensors \ Ids(op) : st[s].variables[t] = streams[s].variables[t]
       /\ DOMAIN streams[s].queue = 1 .. n
       /\ n > 0 => streams[s].open
       /\ Len(st[s].queue) = n + 1 /\ DOMAIN st[s].queue = 1 .. n + 1
       /\ st[s].queue[n + 1] = op
       /\ \A i \in 1 .. n : st[s].queue[i] = streams[s].queue[i]
  BY <1>5 DEF Enqueued
<1>17. n + 1 \in 1 .. n + 1 /\ \A i \in 1 .. n + 1 : i = n + 1 \/ (i \in 1 .. n /\ i <= n)
  OBVIOUS
<1>18. /\ \A r \in Streams : \A t : EndsIn(st, r, t) => EndsIn(streams, r, t) \/ Ends(op, t)
       /\ \A r \in Streams : \A t : MakesIn(st, r, t) => MakesIn(streams, r, t) \/ (r = s /\ Makes(op, t))
       /\ \A r \in Streams : DropIn(st, r) => DropIn(streams, r) \/ (r = s /\ op.drop)
  <2>1. ASSUME NEW t, EndsIn(st, s, t) PROVE EndsIn(streams, s, t) \/ Ends(op, t)
    BY <1>16, <1>17, <2>1 DEF EndsIn
  <2>2. ASSUME NEW t, MakesIn(st, s, t) PROVE MakesIn(streams, s, t) \/ Makes(op, t)
    BY <1>16, <1>17, <2>2 DEF MakesIn
  <2>3. ASSUME DropIn(st, s) PROVE DropIn(streams, s) \/ op.drop
    BY <1>16, <1>17, <2>3 DEF DropIn
  <2>4. ASSUME NEW r \in Streams, r # s
        PROVE  /\ \A t : EndsIn(st, r, t) => EndsIn(streams, r, t)
               /\ \A t : MakesIn(st, r, t) => MakesIn(streams, r, t)
               /\ DropIn(st, r) => DropIn(streams, r)
    BY <1>16, <2>4 DEF EndsIn, MakesIn, DropIn
  <2> QED BY <2>1, <2>2, <2>3, <2>4
<1>19. \A r \in Streams : DropIn(st, r) => r = s /\ op.drop
  BY <1>11, <1>14, <1>18
\* The queue of s.
<1>20. QueueOK(st, s, shared, manual)
  <2>1. ASSUME NEW i \in 1 .. n
        PROVE  /\ Whole(st[s].queue[i])
               /\ \A t \in manual : ~Ends(st[s].queue[i], t)
               /\ \A t \in Tensors : Makes(st[s].queue[i], t) =>
                    /\ \A j \in 1 .. n + 1 : j <= i => ~Ends(st[s].queue[j], t)
                    /\ st[s].variables[t] = s
                    /\ t \in DOMAIN shared =>
                         s \in DOMAIN shared[t] /\ shared[t][s].current >= st[s].cursor + i
    <3>1. /\ i \in DOMAIN streams[s].queue /\ st[s].queue[i] = streams[s].queue[i]
          /\ streams[s].open
      BY <1>16
    <3>2. QueueOK(streams, s, shared, manual)
      BY <1>2, <1>4 DEF QueuesOK
    <3>3. /\ Whole(st[s].queue[i])
          /\ \A t \in manual : ~Ends(st[s].queue[i], t)
      BY <3>1, <3>2 DEF QueueOK
    <3>4. ASSUME NEW t \in Tensors, Makes(st[s].queue[i], t)
          PROVE  /\ \A j \in 1 .. n : j <= i => ~Ends(streams[s].queue[j], t)
                 /\ streams[s].variables[t] = s
                 /\ t \in DOMAIN shared =>
                      s \in DOMAIN shared[t] /\ shared[t][s].current >= streams[s].cursor + i
      BY <1>16, <3>1, <3>2, <3>4 DEF QueueOK
    <3>5. ASSUME NEW t \in Tensors, Makes(st[s].queue[i], t), NEW j \in 1 .. n + 1, j <= i
          PROVE  ~Ends(st[s].queue[j], t)
      <4>1. j \in 1 .. n
        BY <3>5
      <4> QED BY <1>16, <3>4, <3>5, <4>1
    <3>6. ASSUME NEW t \in Tensors, Makes(st[s].queue[i], t)
          PROVE  st[s].variables[t] = s
      <4>1. origin[t] = s
        BY <1>2, <3>1, <3>6 DEF LiveInv, Tracked
      <4>2. CASE t \notin Ids(op)
        BY <1>16, <3>1, <3>4, <3>6, <4>2
      <4>3. CASE t \in Ids(op)
        <5>1. tags[t] = NoStream \/ tags[t] = s
          BY <1>10, <1>11, <4>1, <4>3
        <5> QED BY <1>16, <4>3, <5>1
      <4> QED BY <4>2, <4>3
    <3>7. ASSUME NEW t \in Tensors, Makes(st[s].queue[i], t), t \in DOMAIN shared
          PROVE  s \in DOMAIN shared[t] /\ shared[t][s].current >= st[s].cursor + i
      BY <1>16, <3>1, <3>4, <3>7
    <3> QED BY <3>3, <3>5, <3>6, <3>7
  <2>2. /\ Whole(op)
        /\ \A t \in manual : ~Ends(op, t)
        /\ \A t \in Tensors : Makes(op, t) =>
             /\ \A j \in 1 .. n + 1 : ~Ends(st[s].queue[j], t)
             /\ st[s].variables[t] = s
             /\ t \notin DOMAIN shared
    <3>1. \A t \in manual : ~Ends(op, t)
      BY <1>7, <1>9
    <3>2. ASSUME NEW t \in Tensors, Makes(op, t), NEW j \in 1 .. n + 1
          PROVE  ~Ends(st[s].queue[j], t)
      <4>1. ~Ends(op, t) /\ ~EndsIn(streams, s, t)
        BY <1>2, <1>7, <3>2 DEF Whole
      <4> QED BY <1>16, <1>17, <4>1 DEF EndsIn
    <3>3. ASSUME NEW t \in Tensors, Makes(op, t) PROVE st[s].variables[t] = s
      BY <1>9, <1>10, <1>16, <3>3
    <3> QED BY <1>2, <1>7, <3>1, <3>2, <3>3
  <2>3. st[s].queue[n + 1] = op /\ DOMAIN st[s].queue = 1 .. n + 1
    BY <1>16
  <2> HIDE DEF QueueOK
  <2>4. ASSUME NEW i \in 1 .. n + 1
        PROVE  /\ Whole(st[s].queue[i])
               /\ \A t \in manual : ~Ends(st[s].queue[i], t)
               /\ \A t \in Tensors : Makes(st[s].queue[i], t) =>
                    /\ \A j \in 1 .. n + 1 : j <= i => ~Ends(st[s].queue[j], t)
                    /\ st[s].variables[t] = s
                    /\ t \in DOMAIN shared =>
                         s \in DOMAIN shared[t] /\ shared[t][s].current >= st[s].cursor + i
    <3>1. CASE i \in 1 .. n
      BY <2>1, <3>1
    <3>2. CASE i = n + 1
      BY <2>2, <2>3, <3>2
    <3> QED BY <1>17, <3>1, <3>2
  <2> QED BY <2>3, <2>4 DEF QueueOK
<1>21. QueuesOK(st, shared, manual)
  <2>1. ASSUME NEW r \in Streams, r # s PROVE QueueOK(st, r, shared, manual)
    <3>1. QueueOK(streams, r, shared, manual) /\ st[r] = streams[r]
      BY <1>4, <1>16, <2>1 DEF QueuesOK
    <3> QED BY <3>1 DEF QueueOK
  <2> QED BY <1>20, <2>1 DEF QueuesOK
\* The calls below.
<1>22. FramesOK(x, st, shared, manual, {})
  <2>1. CASE ~Again(c)
    BY <1>6, <2>1
  <2>2. ASSUME Again(c), NEW i \in DOMAIN x PROVE FrameOK(x[i], st, shared, manual, {})
    <3>1. FrameOK(x[i], streams, shared, manual, {}) /\ Ending(c) \cap Ending(x[i]) = {}
      BY <1>4, <2>2 DEF FramesOK, Apart
    <3>2. x[i].call # "process" /\ x[i] \in Frame
      BY <1>3, <2>2, ElementOfSeq DEF Settled
    <3>3. ASSUME NEW t \in Ending(x[i]), NEW r \in Streams PROVE ~EndsIn(st, r, t)
      <4>1. ~EndsIn(streams, r, t)
        BY <3>1, <3>3 DEF FrameOK
      <4>2. ~Ends(op, t)
        BY <1>7, <1>9, <3>1, <3>3
      <4> QED BY <1>18, <4>1, <4>2
    <3>4. x[i].call = "read" => OnlyDrops(st, x[i].stream)
      <4>1. ASSUME x[i].call = "read" PROVE OnlyDrops(st, x[i].stream)
        <5>1. x[i].stream \in Streams /\ OnlyDrops(streams, x[i].stream)
          BY <3>1, <3>2, <4>1, FrameForms DEF FrameOK
        <5>2. \A r \in Streams : OnlyDrops(streams, r) => OnlyDrops(st, r)
          <6>1. OnlyDrops(streams, s) => OnlyDrops(st, s)
            BY <1>11, <1>16, <1>17, <2>2 DEF OnlyDrops
          <6> QED BY <1>16, <6>1 DEF OnlyDrops
        <5> QED BY <5>1, <5>2
      <4> QED BY <4>1
    <3> QED BY <3>1, <3>2, <3>3, <3>4 DEF FrameOK
  <2> QED BY <2>1, <2>2 DEF FramesOK
\* The variable that keeps the stream in the map.
<1>23. ASSUME DropIn(st, s), n > 0 PROVE \E w \in Tensors : Anchor(st, s, w, shared)
  <2>1. op.drop
    BY <1>2, <1>19, <1>23
  <2>2. CASE Again(c)
    <3>1. PICK u \in Tensors : op = DropOf(u)
      BY <1>8, <2>1
    <3>2. u \in Ids(op) /\ Ends(op, u)
      BY <3>1 DEF DropOf, Ids, Ends
    <3>3. st[s].variables[u] = s
      BY <1>11, <1>16, <2>2, <3>2
    <3>4. u \notin DOMAIN shared
      <4>1. Deferred(c) = Ids(op)
        BY <1>1, <2>2 DEF Deferred, op, OpCall
      <4> QED BY <1>7, <3>2, <4>1
    <3>5. \A i \in 1 .. n : ~Ends(st[s].queue[i], u)
      BY <1>2, <1>7, <1>16, <3>2 DEF EndsIn
    <3>6. Anchor(st, s, u, shared)
      BY <1>16, <1>17, <3>3, <3>4, <3>5 DEF Anchor
    <3> QED BY <3>6
  <2>3. CASE ~Again(c)
    <3>1. n \in 1 .. n /\ n \in 1 .. n + 1
      BY <1>23
    <3>2. /\ n \in DOMAIN streams[s].queue /\ ~streams[s].queue[n].drop
          /\ Whole(streams[s].queue[n])
      BY <1>2, <1>4, <1>6, <1>16, <2>3, <3>1 DEF QueuesOK, QueueOK, DropIn
    <3>3. PICK w \in Tensors : Makes(streams[s].queue[n], w)
      BY <3>2 DEF Whole
    <3>4. w \notin DOMAIN shared
      BY <1>2, <1>6, <2>3, <3>2, <3>3 DEF MakesIn
    <3>5. /\ st[s].variables[w] = s
          /\ \A j \in 1 .. n + 1 : j <= n => ~Ends(st[s].queue[j], w)
      BY <1>16, <1>20, <3>1, <3>3 DEF QueueOK
    <3>6. \A i \in 1 .. n + 1 : Ends(st[s].queue[i], w) => i = n + 1
      BY <1>17, <3>5
    <3>7. Anchor(st, s, w, shared)
      BY <1>16, <3>4, <3>5, <3>6 DEF Anchor
    <3> QED BY <3>7
  <2> QED BY <2>2, <2>3
<1>24. n = 0 /\ op.drop => st[s].variables # NoVariables
  <2>1. ASSUME op.drop PROVE st[s].variables # NoVariables
    <3>1. PICK u \in Tensors : op = DropOf(u)
      BY <1>8, <2>1
    <3>2. u \in Ids(op)
      BY <3>1 DEF DropOf, Ids
    <3>3. st[s].variables[u] # NoStream
      BY <1>2, <1>16, <3>2, FusionAssumption
    <3> QED BY <3>3 DEF NoVariables
  <2> QED BY <2>1
<1>25. FrameOK(f, st, shared, manual, {}) /\ Apart(f, x)
  BY <1>12, QuietForms
<1>26. \A r \in Streams, t \in Tensors : MakesIn(st, r, t) /\ t \in DOMAIN shared =>
         WaitsFor(x, r, t)
  BY <1>2, <1>15, <1>18
<1>27. \A r \in Streams : DropIn(st, r) => f = Flush(r, TRUE)
  BY <1>12, <1>19
<1>28. \A r \in Streams : DropIn(st, r) =>
         \/ \E w \in Tensors : Anchor(st, r, w, shared)
         \/ /\ Len(st[r].queue) = 1 /\ f = Flush(r, TRUE)
            /\ st[r].variables # NoVariables
  <2>1. ASSUME DropIn(st, s), n = 0
        PROVE  /\ Len(st[s].queue) = 1 /\ f = Flush(s, TRUE)
               /\ st[s].variables # NoVariables
    <3>1. Len(st[s].queue) = 1
      BY <1>16, <2>1
    <3>2. op.drop /\ f = Flush(s, TRUE)
      BY <1>2, <1>19, <1>27, <2>1
    <3> QED BY <1>24, <2>1, <3>1, <3>2
  <2>2. n = 0 \/ n > 0
    OBVIOUS
  <2> QED BY <1>19, <1>23, <2>1, <2>2
<1>29. DropInv(st, z, shared, manual, {})
  BY <1>4, <1>13, <1>21, <1>22, <1>25, <1>26, <1>27, <1>28, DropPush
<1>30. \A r \in Streams : r # s => ~DropIn(st, r)
  BY <1>19
<1>31. z = <<Flush(s, Head(todo).sync)>> \o Tail(todo)
  BY <1>1 DEF z, f, x
<1> QED BY <1>23, <1>29, <1>30, <1>31

LEMMA DropProcess ==
  ASSUME LiveInv(streams, todo), RunProcess,
         DropInv(streams, todo, shared, manual, Draining(todo))
  PROVE  \/ Panic
         \/ /\ DropInv(streams', todo', shared', manual', Draining(todo'))
            /\ \A r \in Streams : streams[r].open /\ ~streams'[r].open => streams[r].queue = <<>>
<1> DEFINE c == todo[1]
           x == Tail(todo)
           s == c.stream
           new == Queued(s, c.op, c.tags)
           st == [streams EXCEPT ![s] = new]
           f == Flush(s, c.sync)
           td == <<f>> \o x
<1>1. /\ todo \in Seq(Frame) /\ todo # <<>> /\ Calling("process") /\ Shape(todo)
      /\ Head(todo) = c /\ c \in Frame /\ c.call = "process" /\ OpCall(c)
  BY HeadForms DEF RunProcess, Calling, LiveInv, TypesOK, OpCall
<1>2. /\ s \in Streams /\ c.op \in Op /\ c.tags \in Variables /\ c.sync \in BOOLEAN
  BY <1>1, FrameForms
<1>3. /\ streams \in [Streams -> StreamType] /\ SharedOK(shared) /\ manual \subseteq Tensors
      /\ \A r \in Streams : ~streams[r].open => streams[r].queue = <<>>
  BY DEF LiveInv, TypesOK, SharedOK
<1>4. PICK n \in Nat : Enqueued(st, s, c.op, c.tags, n)
  <2> DEFINE op == c.op
             tags == c.tags
  <2>1. s \in Streams /\ op \in Op /\ tags \in Variables
        /\ st = [streams EXCEPT ![s] = Queued(s, op, tags)]
    BY <1>2
  <2> HIDE DEF s, op, tags, st
  <2>2. \E n \in Nat : Enqueued(st, s, op, tags, n)
    BY <1>3, <2>1, EnqueuedForms
  <2> QED BY <2>2 DEF op, tags
<1>5. /\ DropInv(st, td, shared, manual, {})
      /\ \A r \in Streams : r # s => ~DropIn(st, r)
      /\ DropIn(st, s) /\ n > 0 => \E w \in Tensors : Anchor(st, s, w, shared)
  <2>1. s = Head(todo).stream /\ c.op = Head(todo).op /\ c.tags = Head(todo).tags
        /\ c.sync = Head(todo).sync
    BY <1>1
  <2>2. td = <<Flush(s, Head(todo).sync)>> \o Tail(todo)
    BY <2>1
  <2> HIDE DEF st, td
  <2> QED BY <1>1, <1>4, <2>1, <2>2, DropQueue
<1>6. /\ st \in [Streams -> StreamType] /\ st[s].open /\ Len(st[s].queue) = n + 1
      /\ \A r \in Streams : r # s => st[r] = streams[r]
      /\ DOMAIN st[s].queue = 1 .. n + 1
  BY <1>4 DEF Enqueued
<1>7. /\ f \in Frame /\ f.call = "flush"
  BY <1>2, PlainFramesMade DEF Flush
<1>8. Split(td, f, x) /\ Settled(x) /\ x \in Seq(Frame) /\ td \in Seq(Frame)
  <2>1. Settled(x) /\ x \in Seq(Frame)
    BY <1>1, DrainingTail
  <2> HIDE DEF f, x
  <2>2. Split(td, f, x)
    BY <1>7, <2>1, SplitPush
  <2> QED BY <2>1, <2>2 DEF Split
<1>9. Settled(td) /\ Draining(td) = {}
  <2> HIDE DEF td, f, x
  <2>1. Draining(td) = {}
    BY <1>7, <1>8, DrainingPush
  <2> QED BY <1>7, <1>8, <2>1 DEF Split, Settled
<1>10. PICK k \in IF PartialPlans THEN 0 .. Len(new.queue) ELSE {0, Len(new.queue)} :
         \/ Panic
         \/ /\ streams' = st /\ todo' = td
            /\ UNCHANGED <<shared, manual, handles, panicked>>
         \/ k # 0 /\ Execute(s, new, k, td)
  <2>1. PICK k \in IF PartialPlans THEN 0 .. Len(new.queue) ELSE {0, Len(new.queue)} :
          CASE Missing(new.queue, k) -> Panic
            [] k = 0 -> /\ streams' = st
                        /\ todo' = td
                        /\ UNCHANGED <<shared, manual, handles, panicked>>
            [] OTHER -> Execute(s, new, k, td)
    BY <1>1 DEF RunProcess
  <2> HIDE DEF new, st, td
  <2> QED BY <2>1
<1>11. st[s] = new
  BY <1>2, <1>3
<1> HIDE DEF st, td, new, f, x
<1>12. k \in 0 .. Len(st[s].queue) /\ n + 1 \in 0 .. n + 1
  BY <1>6, <1>10, <1>11
<1>13. st[s].queue # <<>> /\ \A r \in Streams : ~st[r].open => st[r].queue = <<>>
  <2>1. 1 \in DOMAIN st[s].queue
    BY <1>6
  <2> QED BY <1>3, <1>6, <2>1
<1>14. CASE Panic
  BY <1>14
<1>15. CASE /\ streams' = st /\ todo' = td
            /\ UNCHANGED <<shared, manual, handles, panicked>>
  BY <1>5, <1>6, <1>9, <1>15
<1>16. CASE k # 0 /\ Execute(s, new, k, td)
  <2> HIDE DEF s, c
  <2>1. DropIn(st, s) /\ k > 0 /\ k < Len(st[s].queue) =>
          \E w \in Tensors : Anchor(st, s, w, shared)
    BY <1>5, <1>6, <1>12
  <2>2. Execute(s, st[s], k, td) /\ (k = 0 => Len(st[s].queue) = 0)
    BY <1>11, <1>16
  <2>3. {} \subseteq {s} /\ (s \in {} => k = Len(st[s].queue))
    OBVIOUS
  <2>4. /\ DropInv(streams', todo', shared', manual', Draining(todo'))
        /\ \A r \in Streams : st[r].open /\ ~streams'[r].open => st[r].queue = <<>>
    BY <1>2, <1>3, <1>5, <1>6, <1>8, <1>9, <1>12, <1>13, <2>1, <2>2, <2>3, DropExecute
  <2>5. ASSUME NEW r \in Streams, streams[r].open, ~streams'[r].open
        PROVE  streams[r].queue = <<>>
    <3>1. CASE r = s
      BY <1>6, <1>13, <2>4, <2>5, <3>1
    <3>2. CASE r # s
      BY <1>6, <2>4, <2>5, <3>2
    <3> QED BY <3>1, <3>2
  <2> QED BY <2>4, <2>5
<1> QED BY <1>10, <1>14, <1>15, <1>16

LEMMA DropRead ==
  ASSUME LiveInv(streams, todo), RunRead,
         DropInv(streams, todo, shared, manual, Draining(todo))
  PROVE  \/ Panic
         \/ /\ DropInv(streams', todo', shared', manual', Draining(todo'))
            /\ \A r \in Streams : streams[r].open /\ ~streams'[r].open => streams[r].queue = <<>>
<1> DEFINE c == todo[1]
           x == Tail(todo)
           s == c.stream
<1>1. /\ todo \in Seq(Frame) /\ todo # <<>> /\ Shape(todo)
      /\ Head(todo) = c /\ c \in Frame /\ c.call = "read" /\ 1 \in DOMAIN todo
  BY HeadForms DEF RunRead, Calling, LiveInv, TypesOK
<1>2. s \in Streams /\ streams \in [Streams -> StreamType]
  BY <1>1, FrameForms DEF LiveInv, TypesOK
<1>3. /\ x \in Seq(Frame) /\ Split(todo, c, x) /\ Draining(x) = {}
      /\ Headed(c, x, streams, shared, manual)
  BY <1>1, DropHead, DrainingTail
<1>4. DOMAIN x = {}
  <2>1. Len(todo) = 1
    BY <1>1 DEF Shape
  <2>2. DOMAIN todo = 1 .. 1
    BY <1>1, <2>1, LenProperties
  <2> HIDE DEF x
  <2>3. \A i \in DOMAIN x : i \in Nat /\ i > 0 /\ i + 1 \in DOMAIN todo
    BY <1>3, LenProperties DEF Split
  <2> QED BY <2>2, <2>3
\* Nothing is left to execute on the stream.
<1>5. /\ \A r \in Streams : ~DropIn(streams, r)
      /\ OnlyDrops(streams, s) /\ QueuesOK(streams, shared, manual)
      /\ \A r \in Streams, t \in Tensors : MakesIn(streams, r, t) => t \notin DOMAIN shared
  <2>1. /\ \A r : Flush(r, TRUE).call = "flush"
        /\ \A r : ~Local(c, r)
    BY <1>1 DEF Flush, Local, OpCall
  <2>2. \A r, t : ~WaitsFor(x, r, t)
    BY <1>4 DEF WaitsFor
  <2>3. OnlyDrops(streams, s)
    BY <1>1, <1>3 DEF Headed, FrameOK
  <2> HIDE DEF c, x, s
  <2> QED BY <1>1, <1>3, <2>1, <2>2, <2>3 DEF Headed
<1>6. DOMAIN streams[s].queue = {} /\ streams[s].queue = <<>>
  <2>1. DOMAIN streams[s].queue = {}
    BY <1>2, <1>5 DEF DropIn, OnlyDrops
  <2>2. streams[s].queue \in Seq(Op)
    BY <1>2, StreamForms
  <2>3. PICK n \in Nat : n = Len(streams[s].queue) /\ DOMAIN streams[s].queue = 1 .. n
    BY <2>2, LenProperties
  <2>4. Len(streams[s].queue) = 0
    <3>1. 1 \notin 1 .. n
      BY <2>1, <2>3
    <3> QED BY <2>3, <3>1
  <2> QED BY <2>1, <2>2, <2>4, EmptySeq
<1>7. \/ Panic
      \/ /\ todo' = x /\ shared' = shared /\ manual' = manual
         /\ streams' \in [Streams -> {streams[r] : r \in Streams} \cup {streams'[s]}]
         /\ \A r \in Streams : r # s => streams'[r] = streams[r]
         /\ streams'[s].queue = <<>>
  <2> DEFINE t == c.node.id
             vs == [streams[s].variables EXCEPT ![t] = NoStream]
             left == IF ~streams[s].open \/ vs = NoVariables THEN Closed
                     ELSE [streams[s] EXCEPT !.variables = vs]
  <2>1. \/ Panic
        \/ /\ todo' = x
           /\ UNCHANGED <<streams, shared, manual>>
        \/ /\ todo' = x
           /\ streams' = [streams EXCEPT ![s] = left]
           /\ UNCHANGED <<shared, manual>>
    BY <1>1 DEF RunRead
  <2>2. left.queue = <<>>
    <3>1. Closed.queue = <<>>
      BY DEF Closed
    <3>2. [streams[s] EXCEPT !.variables = vs].queue = streams[s].queue
      <4> HIDE DEF vs
      <4>1. streams[s] \in StreamType
        BY <1>2
      <4> QED BY <4>1 DEF StreamType
    <3> QED BY <1>6, <3>1, <3>2
  <2> HIDE DEF x, s, left
  <2>3. CASE todo' = x /\ UNCHANGED <<streams, shared, manual>>
    BY <1>2, <1>6, <2>3
  <2>4. CASE /\ todo' = x
             /\ streams' = [streams EXCEPT ![s] = left]
             /\ UNCHANGED <<shared, manual>>
    BY <1>2, <2>2, <2>4
  <2> QED BY <2>1, <2>3, <2>4
<1> HIDE DEF c, x, s
<1>8. ASSUME /\ todo' = x /\ shared' = shared /\ manual' = manual
             /\ \A r \in Streams : r # s => streams'[r] = streams[r]
             /\ streams'[s].queue = <<>>
      PROVE  /\ DropInv(streams', todo', shared', manual', Draining(todo'))
             /\ \A r \in Streams : streams[r].open /\ ~streams'[r].open => streams[r].queue = <<>>
  <2>1. FramesOK(x, streams', shared, manual, {}) /\ Distinct(x)
    BY <1>4 DEF FramesOK, Distinct
  <2>2. DOMAIN streams'[s].queue = {}
    BY <1>8
  <2>3. QueuesOK(streams', shared, manual)
    <3>1. QueueOK(streams', s, shared, manual)
      BY <2>2 DEF QueueOK
    <3>2. ASSUME NEW r \in Streams, r # s PROVE QueueOK(streams', r, shared, manual)
      <4>1. QueueOK(streams, r, shared, manual) /\ streams'[r] = streams[r]
        BY <1>5, <1>8, <3>2 DEF QueuesOK
      <4> QED BY <4>1 DEF QueueOK
    <3> QED BY <3>1, <3>2 DEF QueuesOK
  <2>4. ASSUME NEW r \in Streams
        PROVE  ~DropIn(streams', r) /\ \A t \in Tensors : MakesIn(streams', r, t) => t \notin DOMAIN shared
    <3>1. CASE r = s
      BY <2>2, <3>1 DEF DropIn, MakesIn
    <3>2. CASE r # s
      BY <1>5, <1>8, <3>2 DEF DropIn, MakesIn
    <3> QED BY <3>1, <3>2
  <2>5. DropInv(streams', x, shared, manual, {})
    BY <2>1, <2>3, <2>4 DEF DropInv, Synced, Window, Held
  <2>6. \A r \in Streams : streams[r].open /\ ~streams'[r].open => streams[r].queue = <<>>
    BY <1>6, <1>8
  <2> QED BY <1>3, <1>8, <2>5, <2>6
<1> QED BY <1>7, <1>8

\* A client's call.
LEMMA DropClient ==
  ASSUME todo = <<>>, DropInv(streams, todo, shared, manual, Draining(todo)),
         UNCHANGED server, NEW td, todo' = td, NEW D, D = Draining(td),
         FramesOK(td, streams, shared, manual, D), Distinct(td)
  PROVE  DropInv(streams', todo', shared', manual', Draining(todo'))
<1>1. streams' = streams /\ shared' = shared /\ manual' = manual
  BY DEF server
<1>2. Draining(todo) = {}
  BY DEF Draining
<1>3. \A r, t : ~WaitsFor(todo, r, t) /\ ~Awaited(todo, r)
  <2>1. DOMAIN todo = {}
    OBVIOUS
  <2> QED BY <2>1 DEF WaitsFor, Awaited
<1>4. /\ \A r \in Streams : ~DropIn(streams, r)
      /\ \A r \in Streams, t \in Tensors : MakesIn(streams, r, t) => t \notin DOMAIN shared
      /\ QueuesOK(streams, shared, manual)
  BY <1>2, <1>3 DEF DropInv, Synced, Window
<1>5. DropInv(streams, td, shared, manual, D)
  BY <1>4 DEF DropInv, Synced, Window, Held
<1> QED BY <1>1, <1>5

\* Lists of no call and of one call.
LEMMA DropSmall ==
  ASSUME NEW st, NEW sh, NEW mn, NEW D
  PROVE  /\ FramesOK(<<>>, st, sh, mn, D) /\ Distinct(<<>>) /\ Draining(<<>>) = {}
         /\ \A f : FrameOK(f, st, sh, mn, D) => FramesOK(<<f>>, st, sh, mn, D) /\ Distinct(<<f>>)
<1>1. DOMAIN <<>> = {}
  OBVIOUS
<1>2. FramesOK(<<>>, st, sh, mn, D) /\ Distinct(<<>>) /\ Draining(<<>>) = {}
  BY <1>1 DEF FramesOK, Distinct, Draining
<1>3. ASSUME NEW f, FrameOK(f, st, sh, mn, D)
      PROVE  FramesOK(<<f>>, st, sh, mn, D) /\ Distinct(<<f>>)
  <2>1. DOMAIN <<f>> = {1} /\ <<f>>[1] = f
    OBVIOUS
  <2> QED BY <1>3, <2>1 DEF FramesOK, Distinct
<1> QED BY <1>2, <1>3

LEMMA DropApply ==
  ASSUME LiveInv(streams, todo), DropInv(streams, todo, shared, manual, Draining(todo)),
         NEW s \in Streams, NEW out \in Tensors, NEW ins \in SUBSET Tensors, Apply(s, ins, out)
  PROVE  DropInv(streams', todo', shared', manual', Draining(todo'))
<1> DEFINE op == [nodes |-> {IntoIr(t) : t \in ins} \cup {[id |-> out, status |-> "NotInit"]},
                  drop |-> FALSE]
           tags == [t \in Tensors |-> IF t \in ins THEN origin[t] ELSE NoStream]
           f == Register(s, op, tags)
           td == <<f>>
<1>1. /\ todo = <<>> /\ UNCHANGED server /\ origin[out] = NoStream
      /\ \A t \in ins : refs[t] > 0
      /\ todo' = td
  BY DEF Apply, Call
<1>2. /\ refs \in [Tensors -> Nat] /\ Fresh(streams)
  BY DEF LiveInv, TypesOK
<1>3. out \notin ins
  BY <1>1, <1>2 DEF Fresh
<1>4. /\ op.drop = FALSE
      /\ \A t : Makes(op, t) <=> t = out
      /\ \A t : Ends(op, t) => t \in ins /\ refs[t] = 1
  <2>1. op = Taken(ins, out)
    BY DEF Taken
  <2> HIDE DEF op
  <2> QED BY <1>2, <1>3, <2>1, TakenForms
<1> HIDE DEF op, tags
<1>5. f.call = "register" /\ f.op = op /\ ~Again(f) /\ OpCall(f)
  BY <1>4 DEF Register, Again, OpCall
<1> HIDE DEF f
<1>6. Ending(f) = {} /\ Deferred(f) = {}
  BY <1>5 DEF Ending, Deferred
<1>7. Whole(op)
  BY <1>3, <1>4 DEF Whole
<1>8. FrameOK(f, streams, shared, manual, Draining(td))
  BY <1>5, <1>6, <1>7 DEF FrameOK
<1>9. FramesOK(td, streams, shared, manual, Draining(td)) /\ Distinct(td)
  BY <1>8, DropSmall
<1> HIDE DEF td
<1> QED BY <1>1, <1>9, DropClient

LEMMA DropDropTensor ==
  ASSUME DropInv(streams, todo, shared, manual, Draining(todo)), LiveInv(streams, todo),
         NEW s \in Streams, NEW t \in Tensors, DropTensor(s, t)
  PROVE  DropInv(streams', todo', shared', manual', Draining(todo'))
<1> DEFINE tags == [NoTags EXCEPT ![t] = origin[t]]
           f == Register(s, DropOf(t), tags)
           td == <<f>>
<1>1. /\ todo = <<>> /\ UNCHANGED server /\ refs[t] > 0
      /\ todo' = IF refs[t] = 1 THEN td ELSE <<>>
  BY DEF DropTensor, Call
<1>2. tags # NoTags
  <2>1. NoTags[t] = NoStream
    BY DEF NoTags
  <2>2. origin[t] # NoStream
    BY <1>1 DEF LiveInv, Fresh
  <2>3. tags[t] = origin[t]
    BY DEF NoTags
  <2> QED BY <2>1, <2>2, <2>3
<1> HIDE DEF tags
<1>3. /\ f.call = "register" /\ f.op = DropOf(t) /\ ~Again(f) /\ OpCall(f)
  BY <1>2 DEF Register, Again, OpCall
<1> HIDE DEF f
<1>4. Ending(f) = {} /\ Deferred(f) = {}
  BY <1>3 DEF Ending, Deferred
<1>5. Whole(f.op)
  <2>1. DropOf(t).drop /\ \A u : ~Makes(DropOf(t), u)
    BY DropOfForms DEF DropOf
  <2> QED BY <1>3, <2>1 DEF Whole
<1>6. FrameOK(f, streams, shared, manual, Draining(td))
  BY <1>3, <1>4, <1>5 DEF FrameOK
<1>7. FramesOK(td, streams, shared, manual, Draining(td)) /\ Distinct(td)
  BY <1>6, DropSmall
<1> HIDE DEF td
<1>8. FramesOK(<<>>, streams, shared, manual, Draining(<<>>)) /\ Distinct(<<>>)
  BY DropSmall
<1>9. CASE todo' = td
  BY <1>1, <1>7, <1>9, DropClient
<1>10. CASE todo' = <<>>
  BY <1>1, <1>8, <1>10, DropClient
<1> QED BY <1>1, <1>9, <1>10

LEMMA DropClone ==
  ASSUME DropInv(streams, todo, shared, manual, Draining(todo)), NEW t \in Tensors, Clone(t)
  PROVE  DropInv(streams', todo', shared', manual', Draining(todo'))
<1>1. todo = <<>> /\ UNCHANGED server /\ todo' = <<>>
  BY DEF Clone
<1>2. FramesOK(<<>>, streams, shared, manual, Draining(<<>>)) /\ Distinct(<<>>)
  BY DropSmall
<1> QED BY <1>1, <1>2, DropClient

LEMMA DropSync ==
  ASSUME DropInv(streams, todo, shared, manual, Draining(todo)), NEW s \in Streams, Sync(s)
  PROVE  DropInv(streams', todo', shared', manual', Draining(todo'))
<1> DEFINE f == Drain(s)
           td == <<f>>
<1>1. todo = <<>> /\ UNCHANGED server /\ todo' = td
  BY DEF Sync, Call
<1>2. f.call = "drain"
  BY DEF Drain
<1> HIDE DEF f
<1>3. FrameOK(f, streams, shared, manual, Draining(td))
  BY <1>2, QuietForms
<1>4. FramesOK(td, streams, shared, manual, Draining(td)) /\ Distinct(td)
  BY <1>3, DropSmall
<1> HIDE DEF td
<1> QED BY <1>1, <1>4, DropClient

LEMMA DropIntoData ==
  ASSUME LiveInv(streams, todo), DropInv(streams, todo, shared, manual, Draining(todo)),
         NEW t \in Tensors, IntoData(t)
  PROVE  DropInv(streams', todo', shared', manual', Draining(todo'))
<1> DEFINE s == origin[t]
           f == Drain(s)
           g == Read(s, IntoIr(t))
           td == <<f, g>>
<1>1. todo = <<>> /\ UNCHANGED server /\ todo' = td /\ refs[t] > 0
  BY DEF IntoData, Call
<1>2. origin \in Variables /\ refs \in [Tensors -> Nat] /\ Fresh(streams) /\ Last(streams, todo)
  BY DEF LiveInv, TypesOK
<1>3. s \in Streams
  BY <1>1, <1>2 DEF Fresh, Variables
<1>4. t \notin manual /\ \A r \in Streams : ~EndsIn(streams, r, t)
  BY <1>1, <1>2 DEF Last, Live
<1>5. IntoIr(t).id = t
  BY DEF IntoIr
<1>6. f.call = "drain" /\ g.call = "read" /\ g.stream = s /\ g.node = IntoIr(t) /\ ~OpCall(g)
  BY DEF Drain, Read, OpCall
<1>7. td[1] = f /\ td[2] = g /\ DOMAIN td = {1, 2} /\ td # <<>>
  OBVIOUS
<1>8. s \in Draining(td)
  BY <1>3, <1>7 DEF Draining
<1> HIDE DEF f, g, td, s
<1>9. Ending(g) \subseteq {t} /\ Deferred(g) = {}
  BY <1>5, <1>6 DEF Ending, Deferred
<1>10. Ending(f) = {} /\ FrameOK(f, streams, shared, manual, Draining(td))
  BY <1>6, QuietForms
<1>11. FrameOK(g, streams, shared, manual, Draining(td))
  BY <1>4, <1>6, <1>8, <1>9 DEF FrameOK
<1>12. FramesOK(td, streams, shared, manual, Draining(td)) /\ Distinct(td)
  BY <1>7, <1>10, <1>11 DEF FramesOK, Distinct
<1> QED BY <1>1, <1>12, DropClient

LEMMA DropInit == Init => DropState
<1> SUFFICES ASSUME Init PROVE LiveInv(streams, todo) /\ DropInv(streams, todo, shared, manual, Draining(todo))
  BY DEF DropState
<1>1. LiveInv(streams, todo)
  BY LiveInit DEF LiveState, Init
<1>2. todo = <<>> /\ DOMAIN todo = {} /\ \A s \in Streams : DOMAIN streams[s].queue = {}
  <2>1. DOMAIN Closed.queue = {}
    BY DEF Closed
  <2> QED BY <2>1 DEF Init
<1>3. FramesOK(todo, streams, shared, manual, Draining(todo)) /\ Distinct(todo)
  BY <1>2 DEF FramesOK, Distinct
<1>4. QueuesOK(streams, shared, manual)
  BY <1>2 DEF QueuesOK, QueueOK
<1>5. \A s \in Streams : ~DropIn(streams, s) /\ \A t : ~MakesIn(streams, s, t)
  BY <1>2 DEF DropIn, MakesIn
<1>6. DropInv(streams, todo, shared, manual, Draining(todo))
  BY <1>3, <1>4, <1>5 DEF DropInv, Synced, Window, Held
<1> QED BY <1>1, <1>6

\* The step of the calls: a stream leaves the map only with an empty queue.
LEMMA DropStep ==
  ASSUME LiveInv(streams, todo), DropInv(streams, todo, shared, manual, Draining(todo)),
         ContinueDropDrain, Server
  PROVE  \/ Panic
         \/ /\ DropInv(streams', todo', shared', manual', Draining(todo'))
            /\ \A r \in Streams : streams[r].open /\ ~streams'[r].open => streams[r].queue = <<>>
<1>1. CASE RunRegister
  <2>1. streams' = streams
    BY <1>1 DEF RunRegister
  <2> QED BY <1>1, <2>1, DropRegister
<1>2. CASE RunResolve
  <2>1. streams' = streams
    BY <1>2 DEF RunResolve
  <2> QED BY <1>2, <2>1, DropResolve
<1>3. CASE RunAdmit
  <2>1. streams' = streams
    BY <1>3 DEF RunAdmit
  <2> QED BY <1>3, <2>1, DropAdmit
<1>4. CASE RunProcess
  BY <1>4, DropProcess
<1>5. CASE RunFlush
  <2>1. streams' = streams
    BY <1>5 DEF RunFlush, server
  <2> QED BY <1>5, <2>1, DropFlush
<1>6. CASE RunDrain
  BY <1>6, DropDrain
<1>7. CASE RunDropShared
  <2>1. streams' = streams
    BY <1>7 DEF RunDropShared, server
  <2> QED BY <1>7, <2>1, DropDropShared
<1>8. CASE RunRead
  BY <1>8, DropRead
<1> QED BY <1>1, <1>2, <1>3, <1>4, <1>5, <1>6, <1>7, <1>8 DEF Server

LEMMA ServerCalled == Server => ~panicked
BY DEF Server, RunRegister, RunResolve, RunAdmit, RunProcess, RunFlush,
       RunDrain, RunDropShared, RunRead, Calling

LEMMA DropNext == DropState /\ [Next]_vars => DropState'
<1> SUFFICES ASSUME DropState, [Next]_vars, ~panicked', ContinueDropDrain
             PROVE  /\ LiveInv(streams, todo)'
                    /\ DropInv(streams', todo', shared', manual', Draining(todo'))
  BY DEF DropState, Draining
<1> USE DEF DropState
<1>1. ~panicked
  <2>1. CASE UNCHANGED vars
    BY <2>1 DEF vars
  <2>2. CASE Client
    BY <2>2 DEF Client, Apply, Clone, IntoData, DropTensor, Sync, Call
  <2>3. CASE Server
    BY <2>3, ServerCalled
  <2> QED BY <2>1, <2>2, <2>3 DEF Next
<1>2. LiveInv(streams, todo) /\ DropInv(streams, todo, shared, manual, Draining(todo))
  BY <1>1
<1>3. LiveInv(streams, todo)'
  <2>1. LiveState'
    BY <1>2, LiveNext DEF LiveState
  <2> QED BY <2>1 DEF LiveState
<1>4. CASE UNCHANGED vars
  <2>1. streams' = streams /\ todo' = todo /\ shared' = shared /\ manual' = manual
    BY <1>4 DEF vars
  <2> QED BY <1>2, <1>3, <2>1
<1>5. CASE Client
  <2>1. ASSUME NEW s \in Streams, NEW out \in Tensors, NEW ins \in SUBSET Tensors, Apply(s, ins, out)
        PROVE  DropInv(streams', todo', shared', manual', Draining(todo'))
    BY <1>2, <2>1, DropApply
  <2>2. ASSUME NEW t \in Tensors, Clone(t) \/ IntoData(t)
        PROVE  DropInv(streams', todo', shared', manual', Draining(todo'))
    BY <1>2, <2>2, DropClone, DropIntoData
  <2>3. ASSUME NEW s \in Streams, NEW t \in Tensors, DropTensor(s, t)
        PROVE  DropInv(streams', todo', shared', manual', Draining(todo'))
    BY <1>2, <2>3, DropDropTensor
  <2>4. ASSUME NEW s \in Streams, Sync(s)
        PROVE  DropInv(streams', todo', shared', manual', Draining(todo'))
    BY <1>2, <2>4, DropSync
  <2> QED BY <1>3, <1>5, <2>1, <2>2, <2>3, <2>4 DEF Client
<1>6. CASE Server
  <2>1. ~Panic
    BY DEF Panic
  <2> QED BY <1>2, <1>3, <1>6, <2>1, DropStep
<1> QED BY <1>4, <1>5, <1>6 DEF Next

\* A drop that is queued is drained before the server returns, and until then a
\* variable of its stream keeps the stream in the map.  What a queue still has
\* to make stays a variable of its stream, and the shared tensors record it.
THEOREM DropInvariant == Spec => []DropState
<1>1. Init => DropState
  BY DropInit
<1>2. DropState /\ [Next]_vars => DropState'
  BY DropNext
<1> QED BY <1>1, <1>2, PTL DEF Spec

\* With the drop-triggered drain no drop waits in a queue.
THEOREM DropsExecutedHolds == Spec => []DropsExecuted
<1>1. DropState => DropsExecuted
  <2> SUFFICES ASSUME todo = <<>>, DropInv(streams, todo, shared, manual, Draining(todo)),
                      NEW s \in Streams
               PROVE  ~DropIn(streams, s)
    BY DEF DropState, DropsExecuted, DropIn
  <2>1. DOMAIN todo = {} /\ Draining(todo) = {}
    BY DEF Draining
  <2> QED BY <2>1 DEF DropInv, Window, Awaited
<1> QED BY <1>1, DropInvariant, PTL

\* With the drop-triggered drain no operation is lost: a stream leaves the map
\* only with an empty queue.  Without it a drop can be lost.
THEOREM NoLostOperationHolds ==
  ASSUME ContinueDropDrain
  PROVE  Spec => NoLostOperation
<1> DEFINE Lossless == \A s \in Streams : streams[s].open /\ ~streams'[s].open =>
                         streams[s].queue = <<>>
<1>1. DropState /\ [Next]_vars => [Lossless]_vars
  <2> SUFFICES ASSUME DropState, [Next]_vars PROVE streams' = streams \/ Lossless
    BY DEF vars
  <2>1. CASE UNCHANGED vars
    BY <2>1 DEF vars
  <2>2. CASE Client
    BY <2>2 DEF Client, Apply, Clone, IntoData, DropTensor, Sync, Call, server
  <2>3. CASE Server
    <3>1. LiveInv(streams, todo) /\ DropInv(streams, todo, shared, manual, Draining(todo))
      BY <2>3, ServerCalled DEF DropState
    <3>2. Panic => streams' = streams
      BY DEF Panic
    <3> QED BY <2>3, <3>1, <3>2, DropStep
  <2> QED BY <2>1, <2>2, <2>3 DEF Next
<1> QED BY <1>1, DropInvariant, PTL DEF Spec, NoLostOperation
=============================================================================
