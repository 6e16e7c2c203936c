------------------------- MODULE FusionClientProofs -------------------------
(***************************************************************************)
(* Proofs about FusionClient, for any threads and bounds and any sound     *)
(* operations, of programs that use no tensor from two threads at once: a  *)
(* closure finds the handle of every input, a tensor that can be used has  *)
(* a handle or a closure that makes it, and every other handle is released.*)
(***************************************************************************)
EXTENDS FusionClient, CommonProofs

-----------------------------------------------------------------------------
(* The queued operations. *)

\* The closure of e takes the handle of t; it is the last to; it has to do
\* with t at all.
Reads(e, t) == \E i \in DOMAIN e.reads : e.reads[i].id = t
Ends(e, t) == t \in e.drops \/ t \in Consumed(e)
About(e, t) == t \in e.outs \/ t \in e.drops \/ Reads(e, t)

Read == [id : Nat, status : {"ReadOnly", "ReadWrite"}]

\* A closure takes no handle that it removed before, and what it makes is new.
Entries ==
  {e \in [reads : UNION {[J -> Read] : J \in SUBSET Nat}, outs : SUBSET Nat, drops : SUBSET Nat] :
     /\ \A i, j \in DOMAIN e.reads :
          j < i => e.reads[j] # [id |-> e.reads[i].id, status |-> "ReadWrite"]
     /\ \A t \in e.outs : ~Reads(e, t) /\ t \notin e.drops}

\* A list of operations has to do with t.
Works(w, t) == \E i \in DOMAIN w : About(w[i], t)

\* In a list of operations that starts with the handles of have, t is made
\* before anything else is done with it, it has a handle when it is read, and
\* nothing is done with it after it was released.
InTurn(w, have, t) ==
  /\ \A i \in DOMAIN w : t \in w[i].outs =>
       /\ t \notin have
       /\ \A j \in DOMAIN w : j < i => ~About(w[j], t)
  /\ \A i \in DOMAIN w : Reads(w[i], t) =>
       t \in have \/ \E j \in DOMAIN w : j < i /\ t \in w[j].outs
  /\ \A i \in DOMAIN w : Ends(w[i], t) => \A j \in DOMAIN w : i < j => ~About(w[j], t)

\* Work on a tensor is queued on one stream, and is in turn.
Good(q, have) ==
  /\ \A r, s \in Threads : \A t \in Nat : Works(q[r], t) /\ Works(q[s], t) => r = s
  /\ \A s \in Threads : \A t \in Nat : InTurn(q[s], have, t)

\* Once all that is queued was executed, t has a handle.
Made(q, t) == \E s \in Threads : \E i \in DOMAIN q[s] : t \in q[s][i].outs
Ended(q, t) == \E s \in Threads : \E i \in DOMAIN q[s] : Ends(q[s][i], t)
Survives(q, have, t) == (t \in have \/ Made(q, t)) /\ ~Ended(q, t)

-----------------------------------------------------------------------------
(* The invariant. *)

\* The threads that hold t, and the threads in a wrapper that t was given to.
Holders(t) == {s \in Threads : t \in held[s]}
Given(s, t) == \E p \in DOMAIN call[s].args : call[s].args[p] = t
Alive(t) == Holders(t) # {} \/ \E s \in Threads : Given(s, t)

\* The clone of t that a wrapper has yet to drop.
Owes(s, t) == call[s].owed /\ call[s].args[LastOf(call[s].args)] = t
Owed(t) == IF \E s \in Threads : Owes(s, t) THEN 1 ELSE 0

\* The names of kinds.
Names == STRING

TypesOK ==
  /\ kind \in Seq(Names)
  /\ origin \in Seq(Threads)
  /\ count \in Seq(Int)
  /\ Len(origin) = Len(kind) /\ Len(count) = Len(kind)
  /\ held \in [Threads -> SUBSET Tensors]
  /\ call = [s \in Threads |-> call[s]]
  /\ queue \in [Threads -> Seq(Entries)]
  /\ handles \subseteq Tensors
  /\ \A s \in Threads : \A t \in Nat : Works(queue[s], t) => t \in Tensors

\* A wrapper reads a tensor for the last time at its last use, and only where
\* nobody holds the tensor any more.
CallOK(c) ==
  /\ c = [op |-> c.op, args |-> c.args, statuses |-> c.statuses, owed |-> c.owed]
  /\ c.op \in Signatures
  /\ DOMAIN c.args \subseteq DOMAIN c.op.ins
  /\ c.args \in [DOMAIN c.args -> Tensors]
  /\ c.statuses \in [DOMAIN c.args -> {"ReadOnly", "ReadWrite"}]
  /\ \A p \in DOMAIN c.args : kind[c.args[p]] = c.op.ins[p]
  /\ \A p \in DOMAIN c.args :
       c.statuses[p] = "ReadWrite" <=>
         /\ Holders(c.args[p]) = {}
         /\ \A i \in DOMAIN c.args : c.args[i] = c.args[p] => i <= p
  /\ c.owed \in BOOLEAN
  /\ c.owed => /\ LastOf(c.args) \in DOMAIN c.args
               /\ Holders(c.args[LastOf(c.args)]) # {}

Calls == \A s \in Threads : call[s] = Idle \/ CallOK(call[s])

\* No tensor is given to two wrappers.
Exclusive == \A r, s \in Threads : \A t \in Tensors : Given(r, t) /\ Given(s, t) => r = s

\* The count of a tensor is the number of its clones, while there are any.
Counted == \A t \in Tensors :
  Holders(t) # {} => count[t] = Cardinality(Holders(t)) + Owed(t)

\* The tensors that a program can still use are those that survive what is
\* queued.
Surviving == \A t \in Tensors : Alive(t) <=> Survives(queue, handles, t)

ClientInv ==
  /\ TypesOK
  /\ panicked = FALSE
  /\ Good(queue, handles)
  /\ Calls
  /\ Exclusive
  /\ Counted
  /\ Surviving
-----------------------------------------------------------------------------
(* Executing operations. *)

LEMMA EntryForms ==
  ASSUME NEW e \in Entries
  PROVE  /\ e.outs \in SUBSET Nat /\ e.drops \in SUBSET Nat
         /\ \A i \in DOMAIN e.reads :
              i \in Nat /\ e.reads[i] \in Read /\ e.reads[i].id \in Nat
         /\ \A i, j \in DOMAIN e.reads :
              j < i => e.reads[j] # [id |-> e.reads[i].id, status |-> "ReadWrite"]
         /\ \A t \in e.outs : ~Reads(e, t) /\ t \notin e.drops
         /\ \A t : t \in Consumed(e) <=>
                     \E i \in DOMAIN e.reads : e.reads[i] = [id |-> t, status |-> "ReadWrite"]
         /\ \A t : Ends(e, t) => About(e, t)
         /\ \A t : About(e, t) => t \in Nat
<1>1. /\ e.outs \in SUBSET Nat /\ e.drops \in SUBSET Nat
      /\ e.reads \in UNION {[J -> Read] : J \in SUBSET Nat}
      /\ \A i, j \in DOMAIN e.reads :
           j < i => e.reads[j] # [id |-> e.reads[i].id, status |-> "ReadWrite"]
      /\ \A t \in e.outs : ~Reads(e, t) /\ t \notin e.drops
  BY DEF Entries
<1>2. PICK J \in SUBSET Nat : e.reads \in [J -> Read]
  BY <1>1
<1>3. \A i \in DOMAIN e.reads : i \in Nat /\ e.reads[i] \in Read
  BY <1>2
<1>4. \A r \in Read : r.id \in Nat /\ r = [id |-> r.id, status |-> r.status]
  BY DEF Read
<1>5. \A i \in DOMAIN e.reads : e.reads[i].id \in Nat
  BY <1>3, <1>4
<1>6. ASSUME NEW t
      PROVE  t \in Consumed(e) <=>
               \E i \in DOMAIN e.reads : e.reads[i] = [id |-> t, status |-> "ReadWrite"]
  <2>1. t \in Consumed(e) <=> \E i \in DOMAIN e.reads : e.reads[i].status = "ReadWrite" /\ t = e.reads[i].id
    BY DEF Consumed, Range
  <2>2. \A i \in DOMAIN e.reads :
          e.reads[i].status = "ReadWrite" /\ t = e.reads[i].id <=>
            e.reads[i] = [id |-> t, status |-> "ReadWrite"]
    BY <1>3, <1>4
  <2> QED BY <2>1, <2>2
<1>7. ASSUME NEW t, Ends(e, t) PROVE About(e, t)
  <2>1. CASE t \in e.drops
    BY <2>1 DEF About
  <2>2. CASE t \in Consumed(e)
    <3>1. PICK i \in DOMAIN e.reads : e.reads[i] = [id |-> t, status |-> "ReadWrite"]
      BY <1>6, <2>2
    <3>2. e.reads[i].id = t
      BY <3>1
    <3> QED BY <3>2 DEF About, Reads
  <2> QED BY <1>7, <2>1, <2>2 DEF Ends
<1>8. \A t : About(e, t) => t \in Nat
  BY <1>1, <1>5 DEF About, Reads
<1> QED BY <1>1, <1>3, <1>5, <1>6, <1>7, <1>8

\* What one operation leaves of the handles.
Left(e, have) == ((have \ Consumed(e)) \cup e.outs) \ e.drops

LEMMA AfterForms ==
  ASSUME NEW w \in Seq(Entries), NEW have \in SUBSET Nat
  PROVE  /\ After(w, have)[0] = have
         /\ \A k \in 1 .. Len(w) : After(w, have)[k] = Left(w[k], After(w, have)[k - 1])
<1> DEFINE N == Len(w)
           V == SUBSET Nat
           Step(f) == [k \in 0 .. N |->
                         IF k = 0 THEN have
                         ELSE ((f[k - 1] \ Consumed(w[k])) \cup w[k].outs) \ w[k].drops]
           step == [k \in 1 .. N |-> [v \in V |-> Left(w[k], v)]]
<1>1. N \in Nat /\ \A k \in 1 .. N : w[k] \in Entries
  BY LenProperties, ElementOfSeq
<1>2. \A k \in 1 .. N : \A v \in V : Left(w[k], v) \in V
  <2>1. \A k \in 1 .. N : w[k].outs \in SUBSET Nat
    BY <1>1, EntryForms
  <2> QED BY <2>1 DEF Left
<1>3. step \in [1 .. N -> [V -> V]]
  BY <1>2
<1>4. \A k \in 1 .. N : \A v \in V : step[k][v] = Left(w[k], v)
  OBVIOUS
<1>5. have \in V
  OBVIOUS
<1> HIDE DEF step, V
<1>6. PICK g : Iterates(N, have, step, g, V)
  BY <1>1, <1>3, <1>5, IterationExists
<1>7. g \in [0 .. N -> V] /\ \A k \in 0 .. N : g[k] = IF k = 0 THEN have ELSE step[k][g[k - 1]]
  BY <1>6 DEF Iterates
<1>8. \A k \in 0 .. N : g[k] = IF k = 0 THEN have ELSE Left(w[k], g[k - 1])
  <2>1. ASSUME NEW k \in 0 .. N, k # 0 PROVE g[k] = Left(w[k], g[k - 1])
    <3>1. k \in 1 .. N /\ k - 1 \in 0 .. N
      BY <1>1, <2>1
    <3> QED BY <1>4, <1>7, <2>1, <3>1
  <2> QED BY <1>7, <2>1
<1>9. g = Step(g)
  BY <1>7, <1>8 DEF Left
<1> DEFINE after == CHOOSE f : f = Step(f)
<1>10. After(w, have) = after
  BY DEF After
<1>11. after = Step(after)
  BY <1>9
<1>12. \A k \in 0 .. N : after[k] = IF k = 0 THEN have ELSE Left(w[k], after[k - 1])
  BY <1>11 DEF Left
<1> HIDE DEF after, Step
<1>13. 0 \in 0 .. N /\ \A k \in 1 .. N : k \in 0 .. N /\ k # 0
  BY <1>1
<1> QED BY <1>10, <1>12, <1>13

\* Operations that are in turn find their handles, and what has a handle after
\* them was there or was made, and was not released.
LEMMA RunWork ==
  ASSUME NEW w \in Seq(Entries), NEW have \in SUBSET Nat,
         \A t \in Nat : InTurn(w, have, t)
  PROVE  /\ \A t : t \in After(w, have)[Len(w)] <=>
                     /\ t \in have \/ \E i \in DOMAIN w : t \in w[i].outs
                     /\ \A i \in DOMAIN w : ~Ends(w[i], t)
         /\ \A k \in DOMAIN w : Finds(w[k], After(w, have)[k - 1])
<1> DEFINE N == Len(w)
           after == After(w, have)
           There(k, t) == /\ t \in have \/ \E i \in 1 .. k : t \in w[i].outs
                          /\ \A i \in 1 .. k : ~Ends(w[i], t)
           S == {k \in 0 .. N : \A t : t \in after[k] <=> There(k, t)}
<1>1. N \in Nat /\ DOMAIN w = 1 .. N /\ \A k \in 1 .. N : w[k] \in Entries
  BY LenProperties, ElementOfSeq
<1>2. after[0] = have /\ \A k \in 1 .. N : after[k] = Left(w[k], after[k - 1])
  BY AfterForms
<1> HIDE DEF after
<1>3. \A t : \A i \in 1 .. N : t \in w[i].outs =>
        /\ t \in Nat
        /\ ~Ends(w[i], t)
        /\ \A j \in 1 .. N : j < i => ~About(w[j], t)
  <2>1. ASSUME NEW t, NEW i \in 1 .. N, t \in w[i].outs
        PROVE  t \in Nat /\ ~Ends(w[i], t)
    <3>1. t \in Nat /\ ~Reads(w[i], t) /\ t \notin w[i].drops
      BY <1>1, <2>1, EntryForms
    <3>2. t \notin Consumed(w[i])
      <4>1. \A j \in DOMAIN w[i].reads : w[i].reads[j] # [id |-> t, status |-> "ReadWrite"]
        BY <3>1 DEF Reads
      <4> QED BY <1>1, <4>1, EntryForms
    <3> QED BY <3>1, <3>2 DEF Ends
  <2> QED BY <1>1, <2>1 DEF InTurn
<1>4. \A t : \A i \in 1 .. N : Ends(w[i], t) => About(w[i], t) /\ t \in Nat
  BY <1>1, EntryForms
<1>5. 0 \in S
  BY <1>1, <1>2
<1>6. ASSUME NEW k \in 0 .. N - 1, k \in S PROVE k + 1 \in S
  <2>1. /\ k + 1 \in 1 .. N /\ (k + 1) - 1 = k /\ k + 1 \in 0 .. N
        /\ \A i \in 1 .. k : i \in 1 .. N /\ i < k + 1
        /\ \A i \in 1 .. k + 1 : i \in 1 .. k \/ i = k + 1
    BY <1>1
  <2> DEFINE e == w[k + 1]
  <2>2. after[k + 1] = Left(e, after[k])
    BY <1>2, <2>1
  <2>3. ASSUME NEW t PROVE t \in after[k] <=> There(k, t)
    BY <1>6
  <2> HIDE DEF S
  <2>4. ASSUME NEW t PROVE t \in after[k + 1] <=> There(k + 1, t)
    <3>1. t \in after[k + 1] <=> t \notin e.drops /\ (t \in e.outs \/ (t \in after[k] /\ t \notin Consumed(e)))
      BY <2>2 DEF Left
    <3>2. CASE t \in e.outs
      <4>1. ~Ends(e, t) /\ \A i \in 1 .. k : ~About(w[i], t)
        BY <1>3, <2>1, <3>2
      <4>2. \A i \in 1 .. k : ~Ends(w[i], t)
        BY <1>4, <2>1, <4>1
      <4>3. There(k + 1, t)
        BY <2>1, <3>2, <4>1, <4>2
      <4>4. t \notin e.drops
        BY <4>1 DEF Ends
      <4> QED BY <3>1, <3>2, <4>3, <4>4
    <3>3. CASE t \notin e.outs
      <4>1. t \in after[k + 1] <=> There(k, t) /\ ~Ends(e, t)
        BY <2>3, <3>1, <3>3 DEF Ends
      <4>2. There(k + 1, t) <=> There(k, t) /\ ~Ends(e, t)
        <5>1. (\E i \in 1 .. k + 1 : t \in w[i].outs) <=> \E i \in 1 .. k : t \in w[i].outs
          BY <2>1, <3>3
        <5>2. (\A i \in 1 .. k + 1 : ~Ends(w[i], t)) <=> (\A i \in 1 .. k : ~Ends(w[i], t)) /\ ~Ends(e, t)
          BY <2>1
        <5> QED BY <5>1, <5>2
      <4> QED BY <4>1, <4>2
    <3> QED BY <3>2, <3>3
  <2> QED BY <2>1, <2>4 DEF S
<1>7. \A k \in 0 .. N : k \in S
  <2>1. \A k \in 0 .. N - 1 : k \in S => k + 1 \in S
    BY <1>6
  <2> HIDE DEF S
  <2> QED BY <1>1, <1>5, <2>1, Climb
<1>8. \A k \in 0 .. N : \A t : t \in after[k] <=> There(k, t)
  <2>1. ASSUME NEW k \in 0 .. N PROVE \A t : t \in after[k] <=> There(k, t)
    <3>1. k \in S
      <4> HIDE DEF S
      <4> QED BY <1>7
    <3> QED BY <3>1
  <2> QED BY <2>1
<1>9. ASSUME NEW k \in 1 .. N PROVE Finds(w[k], after[k - 1])
  <2>1. k - 1 \in 0 .. N /\ \A i \in 1 .. k - 1 : i \in 1 .. N /\ i < k
    BY <1>1
  <2>2. ASSUME NEW i \in DOMAIN w[k].reads PROVE w[k].reads[i].id \in after[k - 1]
    <3> DEFINE t == w[k].reads[i].id
    <3>1. t \in Nat /\ Reads(w[k], t) /\ About(w[k], t)
      BY <1>1, EntryForms DEF Reads, About
    <3> HIDE DEF t
    <3>2. t \in have \/ \E j \in 1 .. N : j < k /\ t \in w[j].outs
      BY <1>1, <3>1 DEF InTurn
    <3>3. t \in have \/ \E j \in 1 .. k - 1 : t \in w[j].outs
      <4>1. \A j \in 1 .. N : j < k => j \in 1 .. k - 1
        BY <1>1
      <4> QED BY <3>2, <4>1
    <3>4. \A j \in 1 .. k - 1 : ~Ends(w[j], t)
      BY <1>1, <2>1, <3>1 DEF InTurn
    <3>5. There(k - 1, t)
      BY <3>3, <3>4
    <3>6. t \in after[k - 1]
      BY <1>8, <2>1, <3>5
    <3> QED BY <3>6 DEF t
  <2>3. \A i, j \in DOMAIN w[k].reads :
          j < i => w[k].reads[j] # [id |-> w[k].reads[i].id, status |-> "ReadWrite"]
    BY <1>1, EntryForms
  <2> QED BY <2>2, <2>3 DEF Finds
<1>10. \A t : t \in after[N] <=> There(N, t)
  <2>1. N \in 0 .. N
    BY <1>1
  <2> QED BY <1>8, <2>1
<1> QED BY <1>1, <1>9, <1>10 DEF after

-----------------------------------------------------------------------------
(* Draining queues. *)

\* W has what the queues of D hold, each queue in its order: place a of the
\* queue of s is place at[s][a] of W.
Places(W, q, D, at) ==
  /\ \A s \in D : \A a \in DOMAIN q[s] : at[s][a] \in DOMAIN W /\ W[at[s][a]] = q[s][a]
  /\ \A s \in D : \A a, b \in DOMAIN q[s] : a < b => at[s][a] < at[s][b]
  /\ \A j \in DOMAIN W : \E s \in D : \E a \in DOMAIN q[s] : j = at[s][a]

Emptied(q, D) == [r \in Threads |-> IF r \in D THEN <<>> ELSE q[r]]

LEMMA PlacesForms ==
  ASSUME NEW W, NEW q, NEW D, NEW at, Places(W, q, D, at)
  PROVE  /\ \A j \in DOMAIN W : \E s \in D : \E a \in DOMAIN q[s] :
              j = at[s][a] /\ W[j] = q[s][a]
         /\ \A s \in D : \A a \in DOMAIN q[s] : at[s][a] \in DOMAIN W /\ W[at[s][a]] = q[s][a]
         /\ \A s \in D : \A a, b \in DOMAIN q[s] : a < b => at[s][a] < at[s][b]
<1>1. /\ \A s \in D : \A a \in DOMAIN q[s] : at[s][a] \in DOMAIN W /\ W[at[s][a]] = q[s][a]
      /\ \A s \in D : \A a, b \in DOMAIN q[s] : a < b => at[s][a] < at[s][b]
  BY DEF Places
<1>2. ASSUME NEW j \in DOMAIN W
      PROVE  \E s \in D : \E a \in DOMAIN q[s] : j = at[s][a] /\ W[j] = q[s][a]
  <2>1. PICK s \in D : \E a \in DOMAIN q[s] : j = at[s][a]
    BY DEF Places
  <2>2. PICK a \in DOMAIN q[s] : j = at[s][a]
    BY <2>1
  <2> QED BY <1>1, <2>2
<1> QED BY <1>1, <1>2

\* The work on a tensor comes from one queue, so that it is in turn in W.
LEMMA PlacesInTurn ==
  ASSUME NEW q \in [Threads -> Seq(Entries)], NEW have \in SUBSET Nat, Good(q, have),
         NEW D \in SUBSET Threads, NEW W \in Seq(Entries), NEW at, Places(W, q, D, at),
         NEW t \in Nat
  PROVE  InTurn(W, have, t)
<1>0. /\ \A j \in DOMAIN W : \E s \in D : \E a \in DOMAIN q[s] :
           j = at[s][a] /\ W[j] = q[s][a]
      /\ \A s \in D : \A a \in DOMAIN q[s] : at[s][a] \in DOMAIN W /\ W[at[s][a]] = q[s][a]
      /\ \A s \in D : \A a, b \in DOMAIN q[s] : a < b => at[s][a] < at[s][b]
  BY PlacesForms
<1>1. PICK N \in Nat : DOMAIN W = 1 .. N /\ \A i \in 1 .. N : W[i] \in Entries
  BY LenProperties, ElementOfSeq
<1>2. ASSUME NEW s \in D
      PROVE \E n \in Nat : DOMAIN q[s] = 1 .. n /\ \A a \in 1 .. n : q[s][a] \in Entries
  BY LenProperties, ElementOfSeq
\* Two places in W that have to do with t are places of one queue.
<1>3. ASSUME NEW i \in DOMAIN W, NEW j \in DOMAIN W, About(W[i], t), About(W[j], t)
      PROVE  \E s \in D : \E a, b \in DOMAIN q[s] :
               /\ i = at[s][a] /\ W[i] = q[s][a]
               /\ j = at[s][b] /\ W[j] = q[s][b]
               /\ i < j => a < b
  <2> DEFINE Place(m, s, c) == s \in D /\ c \in DOMAIN q[s] /\ m = at[s][c] /\ W[m] = q[s][c]
  <2>1. PICK r, a : Place(i, r, a)
    BY PlacesForms
  <2>2. PICK s, b : Place(j, s, b)
    BY PlacesForms
  <2>3. r = s
    <3>1. Works(q[r], t) /\ Works(q[s], t)
      BY <1>3, <2>1, <2>2 DEF Works
    <3> QED BY <2>1, <2>2, <3>1 DEF Good
  <2>4. ASSUME i < j PROVE a < b
    <3>1. i \in Nat /\ j \in Nat
      BY <1>1
    <3>2. a \in Nat /\ b \in Nat
      BY <1>2, <2>1, <2>2, <2>3
    <3>3. ~(b < a)
      <4>1. SUFFICES ASSUME b < a PROVE FALSE
        OBVIOUS
      <4>2. j < i
        BY <1>0, <2>1, <2>2, <2>3, <4>1
      <4> QED BY <2>4, <3>1, <4>2
    <3>4. a # b
      BY <2>1, <2>2, <2>3, <2>4, <3>1
    <3> QED BY <3>2, <3>3, <3>4
  <2> QED BY <2>1, <2>2, <2>3, <2>4
<1>4. \A s \in D : InTurn(q[s], have, t)
  BY DEF Good
<1>5. ASSUME NEW i \in DOMAIN W, t \in W[i].outs
      PROVE  t \notin have /\ \A j \in DOMAIN W : j < i => ~About(W[j], t)
  <2>1. About(W[i], t)
    BY <1>5 DEF About
  <2>2. t \notin have
    <3>1. PICK s \in D : \E a \in DOMAIN q[s] : W[i] = q[s][a]
      BY <1>3, <2>1
    <3> QED BY <1>4, <1>5, <3>1 DEF InTurn
  <2>3. ASSUME NEW j \in DOMAIN W, j < i, About(W[j], t) PROVE FALSE
    <3>1. PICK s \in D : \E b, a \in DOMAIN q[s] : W[j] = q[s][b] /\ W[i] = q[s][a] /\ b < a
      BY <1>3, <2>1, <2>3
    <3> QED BY <1>4, <1>5, <2>3, <3>1 DEF InTurn
  <2> QED BY <2>2, <2>3
<1>6. ASSUME NEW i \in DOMAIN W, Reads(W[i], t)
      PROVE  t \in have \/ \E j \in DOMAIN W : j < i /\ t \in W[j].outs
  <2>1. PICK s \in D : \E a \in DOMAIN q[s] : i = at[s][a] /\ W[i] = q[s][a]
    BY PlacesForms
  <2>2. PICK a \in DOMAIN q[s] : i = at[s][a] /\ W[i] = q[s][a]
    BY <2>1
  <2>3. t \in have \/ \E b \in DOMAIN q[s] : b < a /\ t \in q[s][b].outs
    BY <1>4, <1>6, <2>2 DEF InTurn
  <2>4. ASSUME NEW b \in DOMAIN q[s], b < a, t \in q[s][b].outs
        PROVE  at[s][b] \in DOMAIN W /\ at[s][b] < i /\ t \in W[at[s][b]].outs
    BY <1>0, <2>2, <2>4
  <2> QED BY <2>3, <2>4
<1>7. ASSUME NEW i \in DOMAIN W, Ends(W[i], t), NEW j \in DOMAIN W, i < j, About(W[j], t)
      PROVE  FALSE
  <2>1. About(W[i], t)
    BY <1>1, <1>7, EntryForms
  <2>2. PICK s \in D : \E a, b \in DOMAIN q[s] : W[i] = q[s][a] /\ W[j] = q[s][b] /\ a < b
    BY <1>3, <1>7, <2>1
  <2> QED BY <1>4, <1>7, <2>2 DEF InTurn
<1> QED BY <1>5, <1>6, <1>7 DEF InTurn

\* The queues of some streams are drained: every handle is found, the other
\* queues are still good, and what survives is what survived.
LEMMA Drain ==
  ASSUME NEW q \in [Threads -> Seq(Entries)], NEW have \in SUBSET Nat, Good(q, have),
         NEW D \in SUBSET Threads, NEW W \in Seq(Entries), NEW at, Places(W, q, D, at),
         NEW left, left = After(W, have)[Len(W)]
  PROVE  /\ \A k \in DOMAIN W : Finds(W[k], After(W, have)[k - 1])
         /\ \A t \in left : t \in have \/ \E s \in Threads : Works(q[s], t)
         /\ Emptied(q, D) \in [Threads -> Seq(Entries)]
         /\ \A s \in Threads : \A t : Works(Emptied(q, D)[s], t) => s \notin D /\ Works(q[s], t)
         /\ Good(Emptied(q, D), left)
         /\ \A t \in Nat : Survives(Emptied(q, D), left, t) <=> Survives(q, have, t)
<1> DEFINE p == Emptied(q, D)
<1>0. /\ \A j \in DOMAIN W : \E s \in D : \E a \in DOMAIN q[s] : W[j] = q[s][a]
      /\ \A s \in D : \A a \in DOMAIN q[s] : at[s][a] \in DOMAIN W /\ W[at[s][a]] = q[s][a]
  BY PlacesForms
<1>1. \A t \in Nat : InTurn(W, have, t)
  BY PlacesInTurn
<1>2. \A k \in DOMAIN W : Finds(W[k], After(W, have)[k - 1])
  BY <1>1, RunWork
<1>3. \A t : t \in left <=>
        /\ t \in have \/ \E i \in DOMAIN W : t \in W[i].outs
        /\ \A i \in DOMAIN W : ~Ends(W[i], t)
  BY <1>1, RunWork
<1>4. ASSUME NEW t
      PROVE  t \in left <=>
               /\ t \in have \/ \E s \in D : \E a \in DOMAIN q[s] : t \in q[s][a].outs
               /\ \A s \in D : \A a \in DOMAIN q[s] : ~Ends(q[s][a], t)
  <2>1. (\E i \in DOMAIN W : t \in W[i].outs) <=> \E s \in D : \E a \in DOMAIN q[s] : t \in q[s][a].outs
    <3>1. ASSUME NEW i \in DOMAIN W, t \in W[i].outs
          PROVE  \E s \in D : \E a \in DOMAIN q[s] : t \in q[s][a].outs
      <4>1. PICK s \in D : \E a \in DOMAIN q[s] : W[i] = q[s][a]
        BY <1>0
      <4> QED BY <3>1, <4>1
    <3>2. ASSUME NEW s \in D, NEW a \in DOMAIN q[s], t \in q[s][a].outs
          PROVE  \E i \in DOMAIN W : t \in W[i].outs
      <4>1. at[s][a] \in DOMAIN W /\ W[at[s][a]] = q[s][a]
        BY <1>0
      <4> QED BY <3>2, <4>1
    <3> QED BY <3>1, <3>2
  <2>2. (\A i \in DOMAIN W : ~Ends(W[i], t)) <=> \A s \in D : \A a \in DOMAIN q[s] : ~Ends(q[s][a], t)
    <3>1. (\E i \in DOMAIN W : Ends(W[i], t)) <=> \E s \in D : \E a \in DOMAIN q[s] : Ends(q[s][a], t)
      BY <1>0
    <3> QED BY <3>1
  <2> QED BY <1>3, <2>1, <2>2
<1>5. \A t \in left : t \in have \/ \E s \in Threads : Works(q[s], t)
  BY <1>4 DEF Works, About
<1>6. p \in [Threads -> Seq(Entries)]
  <2>1. <<>> \in Seq(Entries)
    BY EmptySeq
  <2> QED BY <2>1 DEF Emptied
<1>7. \A s \in Threads : p[s] = IF s \in D THEN <<>> ELSE q[s]
  BY DEF Emptied
<1> HIDE DEF p
<1>8. DOMAIN <<>> = {}
  OBVIOUS
<1>9. \A s \in Threads : \A t : Works(p[s], t) => s \notin D /\ Works(q[s], t)
  BY <1>7, <1>8 DEF Works
\* An operation that has to do with a tensor is in Entries.
<1>10. \A s \in Threads : \A i \in DOMAIN q[s] : \A t :
         /\ t \in q[s][i].outs => Works(q[s], t)
         /\ Ends(q[s][i], t) => Works(q[s], t)
         /\ Reads(q[s][i], t) => Works(q[s], t)
  <2>1. ASSUME NEW s \in Threads, NEW i \in DOMAIN q[s] PROVE q[s][i] \in Entries
    <3>1. q[s] \in Seq(Entries)
      OBVIOUS
    <3>2. i \in 1 .. Len(q[s])
      BY <3>1, LenProperties
    <3> QED BY <3>1, <3>2, ElementOfSeq
  <2>2. ASSUME NEW s \in Threads, NEW i \in DOMAIN q[s], NEW t, Ends(q[s][i], t)
        PROVE  About(q[s][i], t)
    BY <2>1, <2>2, EntryForms
  <2> QED BY <2>2 DEF Works, About
\* What the drained queues do nothing with stays as it was.
<1>11. ASSUME NEW t, \A s \in D : ~Works(q[s], t)
       PROVE  t \in left <=> t \in have
  <2>1. \A s \in D : \A a \in DOMAIN q[s] : t \notin q[s][a].outs /\ ~Ends(q[s][a], t)
    BY <1>10, <1>11
  <2> QED BY <1>4, <2>1
<1>12. Good(p, left)
  <2>1. ASSUME NEW r \in Threads, NEW s \in Threads, NEW t \in Nat, Works(p[r], t), Works(p[s], t)
        PROVE  r = s
    BY <1>9, <2>1 DEF Good
  <2>2. ASSUME NEW s \in Threads, NEW t \in Nat PROVE InTurn(p[s], left, t)
    <3>1. CASE s \in D
      <4>1. DOMAIN p[s] = {}
        BY <1>7, <1>8, <3>1
      <4> QED BY <4>1 DEF InTurn
    <3>2. CASE s \notin D /\ ~Works(q[s], t)
      <4>1. p[s] = q[s]
        BY <1>7, <3>2
      <4>2. \A i \in DOMAIN q[s] : t \notin q[s][i].outs /\ ~Ends(q[s][i], t) /\ ~Reads(q[s][i], t)
        BY <1>10, <3>2
      <4> QED BY <4>1, <4>2 DEF InTurn
    <3>3. CASE s \notin D /\ Works(q[s], t)
      <4>1. p[s] = q[s] /\ InTurn(q[s], have, t)
        BY <1>7, <3>3 DEF Good
      <4>2. \A r \in D : ~Works(q[r], t)
        BY <3>3 DEF Good
      <4>3. t \in left <=> t \in have
        BY <1>11, <4>2
      <4> QED BY <4>1, <4>3 DEF InTurn
    <3> QED BY <3>1, <3>2, <3>3
  <2> QED BY <2>1, <2>2 DEF Good
<1>13. ASSUME NEW t \in Nat
       PROVE  Survives(p, left, t) <=> Survives(q, have, t)
  <2>1. CASE \E s \in D : Works(q[s], t)
    <3>1. \A r \in Threads \ D : ~Works(q[r], t)
      BY <2>1 DEF Good
    <3>2. ~Made(p, t) /\ ~Ended(p, t)
      <4>1. \A r \in Threads : \A i \in DOMAIN p[r] : r \in Threads \ D /\ p[r] = q[r]
        BY <1>7, <1>8
      <4> QED BY <1>10, <3>1, <4>1 DEF Made, Ended
    <3>3. Made(q, t) <=> \E s \in D : \E a \in DOMAIN q[s] : t \in q[s][a].outs
      BY <1>10, <3>1 DEF Made
    <3>4. Ended(q, t) <=> ~\A s \in D : \A a \in DOMAIN q[s] : ~Ends(q[s][a], t)
      BY <1>10, <3>1 DEF Ended
    <3> QED BY <1>4, <3>2, <3>3, <3>4 DEF Survives
  <2>2. CASE \A s \in D : ~Works(q[s], t)
    <3>1. t \in left <=> t \in have
      BY <1>11, <2>2
    <3>2. \A s \in D : \A i \in DOMAIN q[s] : t \notin q[s][i].outs /\ ~Ends(q[s][i], t)
      BY <1>10, <2>2
    <3>3. (Made(p, t) <=> Made(q, t)) /\ (Ended(p, t) <=> Ended(q, t))
      BY <1>7, <1>8, <3>2 DEF Made, Ended
    <3> QED BY <3>1, <3>3 DEF Survives
  <2> QED BY <2>1, <2>2
<1> QED BY <1>2, <1>5, <1>6, <1>9, <1>12, <1>13 DEF p

-----------------------------------------------------------------------------
(* Queueing an operation. *)

Queued(q, s, e) == [r \in Threads |-> IF r = s THEN Append(q[r], e) ELSE q[r]]

\* An operation may be queued when no other stream works on its tensors, those
\* it makes are new, and the others survive what is queued.
Fits(q, have, s, e) ==
  \A t \in Nat : About(e, t) =>
    /\ \A r \in Threads : r # s => ~Works(q[r], t)
    /\ t \in e.outs => t \notin have /\ ~Works(q[s], t)
    /\ t \notin e.outs => Survives(q, have, t)

LEMMA Enqueue ==
  ASSUME NEW q \in [Threads -> Seq(Entries)], NEW have \in SUBSET Nat, Good(q, have),
         NEW s \in Threads, NEW e \in Entries, Fits(q, have, s, e)
  PROVE  /\ Queued(q, s, e) \in [Threads -> Seq(Entries)]
         /\ \A r \in Threads : \A t :
              Works(Queued(q, s, e)[r], t) <=> Works(q[r], t) \/ (r = s /\ About(e, t))
         /\ Good(Queued(q, s, e), have)
         /\ \A t \in Nat : Survives(Queued(q, s, e), have, t) <=>
              (Survives(q, have, t) \/ t \in e.outs) /\ ~Ends(e, t)
<1> DEFINE p == Queued(q, s, e)
<1>1. PICK n \in Nat : n = Len(q[s]) /\ DOMAIN q[s] = 1 .. n /\ q[s] \in Seq(Entries)
  BY LenProperties
<1>2. /\ p[s] \in Seq(Entries)
      /\ DOMAIN p[s] = 1 .. n + 1
      /\ \A i \in 1 .. n : p[s][i] = q[s][i]
      /\ p[s][n + 1] = e
  <2>1. p[s] = Append(q[s], e)
    BY DEF Queued
  <2>2. /\ Append(q[s], e) \in Seq(Entries)
        /\ Len(Append(q[s], e)) = n + 1
        /\ \A i \in 1 .. n : Append(q[s], e)[i] = q[s][i]
        /\ Append(q[s], e)[n + 1] = e
    BY <1>1, AppendProperties
  <2>3. DOMAIN Append(q[s], e) = 1 .. n + 1
    BY <2>2, LenProperties
  <2> QED BY <2>1, <2>2, <2>3
<1>3. \A r \in Threads : r # s => p[r] = q[r]
  BY DEF Queued
<1>4. p \in [Threads -> Seq(Entries)]
  <2>1. \A r \in Threads : p[r] \in Seq(Entries)
    BY <1>2, <1>3
  <2>2. p = [r \in Threads |-> p[r]]
    BY DEF Queued
  <2> HIDE DEF p
  <2> QED BY <2>1, <2>2
<1> HIDE DEF p
<1>5. /\ \A i \in 1 .. n : i \in 1 .. n + 1 /\ i < n + 1 /\ ~(n + 1 < i)
      /\ \A i \in 1 .. n + 1 : i = n + 1 \/ i \in 1 .. n
      /\ n + 1 \in 1 .. n + 1 /\ ~(n + 1 < n + 1)
  OBVIOUS
<1>6. \A t : Works(p[s], t) <=> Works(q[s], t) \/ About(e, t)
  BY <1>1, <1>2, <1>5 DEF Works
<1>7. \A r \in Threads : \A t : Works(p[r], t) <=> Works(q[r], t) \/ (r = s /\ About(e, t))
  BY <1>3, <1>6
\* What the operations of q are about.
<1>8. \A r \in Threads : \A i \in DOMAIN q[r] : \A t :
        /\ t \in q[r][i].outs => Works(q[r], t)
        /\ Ends(q[r][i], t) => Works(q[r], t)
  <2>1. ASSUME NEW r \in Threads, NEW i \in DOMAIN q[r] PROVE q[r][i] \in Entries
    <3>1. q[r] \in Seq(Entries)
      OBVIOUS
    <3>2. i \in 1 .. Len(q[r])
      BY <3>1, LenProperties
    <3> QED BY <3>1, <3>2, ElementOfSeq
  <2>2. ASSUME NEW r \in Threads, NEW i \in DOMAIN q[r], NEW t, Ends(q[r][i], t)
        PROVE  About(q[r][i], t)
    BY <2>1, <2>2, EntryForms
  <2> QED BY <2>2 DEF Works, About
<1>9. ASSUME NEW t \in Nat
      PROVE  /\ About(e, t) => \A r \in Threads : r # s => ~Works(q[r], t)
             /\ t \in e.outs => /\ t \notin have
                                /\ \A r \in Threads : ~Works(q[r], t)
                                /\ ~Reads(e, t) /\ ~Ends(e, t)
             /\ About(e, t) /\ t \notin e.outs => Survives(q, have, t)
             /\ Ends(e, t) => About(e, t)
  <2>1. ASSUME t \in e.outs PROVE ~Reads(e, t) /\ ~Ends(e, t)
    <3>1. ~Reads(e, t) /\ t \notin e.drops
      BY <2>1, EntryForms
    <3>2. t \notin Consumed(e)
      <4>1. \A j \in DOMAIN e.reads : e.reads[j] # [id |-> t, status |-> "ReadWrite"]
        BY <3>1 DEF Reads
      <4> QED BY <4>1, EntryForms
    <3> QED BY <3>1, <3>2 DEF Ends
  <2>2. t \in e.outs => About(e, t)
    BY DEF About
  <2>3. Ends(e, t) => About(e, t)
    BY EntryForms
  <2> QED BY <2>1, <2>2, <2>3 DEF Fits
<1>10. ASSUME NEW t \in Nat PROVE InTurn(p[s], have, t)
  <2>1. InTurn(q[s], have, t)
    BY DEF Good
  <2>2. ASSUME NEW i \in 1 .. n + 1, t \in p[s][i].outs
        PROVE  t \notin have /\ \A j \in 1 .. n + 1 : j < i => ~About(p[s][j], t)
    <3>1. CASE i \in 1 .. n
      <4>1. t \in q[s][i].outs
        BY <1>2, <2>2, <3>1
      <4>2. t \notin have /\ \A j \in 1 .. n : j < i => ~About(q[s][j], t)
        BY <1>1, <2>1, <3>1, <4>1 DEF InTurn
      <4> QED BY <1>2, <1>5, <3>1, <4>2
    <3>2. CASE i = n + 1
      <4>1. t \in e.outs
        BY <1>2, <2>2, <3>2
      <4>2. t \notin have /\ ~Works(q[s], t)
        BY <1>9, <4>1
      <4>3. \A j \in 1 .. n : ~About(q[s][j], t)
        BY <1>1, <4>2 DEF Works
      <4> QED BY <1>2, <1>5, <3>2, <4>2, <4>3
    <3> QED BY <1>5, <3>1, <3>2
  <2>3. ASSUME NEW i \in 1 .. n + 1, Reads(p[s][i], t)
        PROVE  t \in have \/ \E j \in 1 .. n + 1 : j < i /\ t \in p[s][j].outs
    <3>1. CASE i \in 1 .. n
      <4>1. Reads(q[s][i], t)
        BY <1>2, <2>3, <3>1
      <4>2. t \in have \/ \E j \in 1 .. n : j < i /\ t \in q[s][j].outs
        BY <1>1, <2>1, <3>1, <4>1 DEF InTurn
      <4> QED BY <1>2, <1>5, <4>2
    <3>2. CASE i = n + 1
      <4>1. Reads(e, t) /\ About(e, t)
        BY <1>2, <2>3, <3>2 DEF About
      <4>2. t \in have \/ Made(q, t)
        BY <1>9, <4>1 DEF Survives
      <4>3. ASSUME Made(q, t) PROVE \E j \in 1 .. n : t \in q[s][j].outs
        <5>1. PICK r \in Threads : \E j \in DOMAIN q[r] : t \in q[r][j].outs
          BY <4>3 DEF Made
        <5>2. r = s
          BY <1>8, <1>9, <4>1, <5>1
        <5> QED BY <1>1, <5>1, <5>2
      <4> QED BY <1>2, <1>5, <3>2, <4>2, <4>3
    <3> QED BY <1>5, <3>1, <3>2
  <2>4. ASSUME NEW i \in 1 .. n + 1, Ends(p[s][i], t), NEW j \in 1 .. n + 1, i < j
        PROVE  ~About(p[s][j], t)
    <3>1. i \in 1 .. n
      BY <2>4
    <3>2. Ends(q[s][i], t)
      BY <1>2, <2>4, <3>1
    <3>3. CASE j \in 1 .. n
      <4>1. ~About(q[s][j], t)
        BY <1>1, <2>1, <2>4, <3>1, <3>2, <3>3 DEF InTurn
      <4> QED BY <1>2, <3>3, <4>1
    <3>4. CASE j = n + 1
      <4>1. Works(q[s], t) /\ Ended(q, t)
        BY <1>1, <1>8, <3>1, <3>2 DEF Ended
      <4>2. ~About(e, t)
        BY <1>9, <4>1 DEF Survives
      <4> QED BY <1>2, <3>4, <4>2
    <3> QED BY <1>5, <3>3, <3>4
  <2> QED BY <1>2, <2>2, <2>3, <2>4 DEF InTurn
<1>11. Good(p, have)
  <2>1. ASSUME NEW r \in Threads, NEW t \in Nat PROVE InTurn(p[r], have, t)
    BY <1>3, <1>10 DEF Good
  <2>2. ASSUME NEW u \in Threads, NEW r \in Threads, NEW t \in Nat, Works(p[u], t), Works(p[r], t)
        PROVE  u = r
    <3>1. \A x, y \in Threads : Works(q[x], t) /\ Works(q[y], t) => x = y
      BY DEF Good
    <3> QED BY <1>7, <1>9, <2>2, <3>1
  <2> QED BY <2>1, <2>2 DEF Good
<1>12. ASSUME NEW t \in Nat
       PROVE  Survives(p, have, t) <=> (Survives(q, have, t) \/ t \in e.outs) /\ ~Ends(e, t)
  <2>1. (\E i \in DOMAIN p[s] : t \in p[s][i].outs) <=>
          (\E i \in DOMAIN q[s] : t \in q[s][i].outs) \/ t \in e.outs
    <3>1. ASSUME NEW i \in 1 .. n + 1, t \in p[s][i].outs
          PROVE  (\E j \in 1 .. n : t \in q[s][j].outs) \/ t \in e.outs
      <4>1. CASE i \in 1 .. n
        BY <1>2, <3>1, <4>1
      <4>2. CASE i = n + 1
        BY <1>2, <3>1, <4>2
      <4> QED BY <1>5, <4>1, <4>2
    <3>2. ASSUME NEW i \in 1 .. n, t \in q[s][i].outs
          PROVE  \E j \in 1 .. n + 1 : t \in p[s][j].outs
      BY <1>2, <1>5, <3>2
    <3>3. t \in e.outs => \E j \in 1 .. n + 1 : t \in p[s][j].outs
      BY <1>2, <1>5
    <3> QED BY <1>1, <1>2, <3>1, <3>2, <3>3
  <2>2. (\E i \in DOMAIN p[s] : Ends(p[s][i], t)) <=>
          (\E i \in DOMAIN q[s] : Ends(q[s][i], t)) \/ Ends(e, t)
    BY <1>1, <1>2, <1>5
  <2>3. Made(p, t) <=> Made(q, t) \/ t \in e.outs
    BY <1>3, <2>1 DEF Made
  <2>4. Ended(p, t) <=> Ended(q, t) \/ Ends(e, t)
    BY <1>3, <2>2 DEF Ended
  <2>5. t \in e.outs => ~Ended(q, t)
    BY <1>8, <1>9 DEF Ended
  <2> QED BY <2>3, <2>4, <2>5 DEF Survives
<1> QED BY <1>4, <1>7, <1>11, <1>12 DEF p

-----------------------------------------------------------------------------
(* What the server does. *)

\* The queues of some streams, one after the other, in any order.
LEMMA JoinedPlaces ==
  ASSUME NEW q \in [Threads -> Seq(Entries)], NEW D \in SUBSET Threads, NEW N \in Nat,
         NEW order \in Bijection(1 .. N, D)
  PROVE  /\ Joined([i \in DOMAIN order |-> q[order[i]]]) \in Seq(Entries)
         /\ \E at : Places(Joined([i \in DOMAIN order |-> q[order[i]]]), q, D, at)
<1> DEFINE w == [i \in DOMAIN order |-> q[order[i]]]
           J == Joined(w)
<1>1. /\ order \in [1 .. N -> D]
      /\ DOMAIN order = 1 .. N
      /\ \A i, j \in 1 .. N : order[i] = order[j] => i = j
      /\ \A s \in D : \E i \in 1 .. N : order[i] = s
  <2>1. order \in [1 .. N -> D]
    BY DEF Bijection, Injection
  <2>2. \A i, j \in 1 .. N : order[i] = order[j] => i = j
    BY DEF Bijection, Injection, IsInjective
  <2>3. \A s \in D : \E i \in 1 .. N : order[i] = s
    BY DEF Bijection, Surjection
  <2> QED BY <2>1, <2>2, <2>3
<1>2. w \in [1 .. N -> Seq(Entries)] /\ \A i \in 1 .. N : w[i] = q[order[i]]
  BY <1>1
<1>3. w \in Seq(Seq(Entries)) /\ Len(w) = N
  BY <1>2, SeqDef, LenProperties
<1> HIDE DEF w
<1>4. PICK start : Starts(w, start)
  BY <1>3, StartsExist
<1>5. J \in Seq(Entries) /\ Joins(J, w, start)
  BY <1>3, <1>4, JoinedForms
<1> HIDE DEF J
<1>6. \A s \in D : \A a \in DOMAIN q[s] : a \in Nat
  <2>1. \A s \in D : DOMAIN q[s] = 1 .. Len(q[s]) /\ Len(q[s]) \in Nat
    BY LenProperties
  <2> QED BY <2>1
<1>7. DOMAIN J = 1 .. Len(J) /\ \A i \in 1 .. N : DOMAIN w[i] = 1 .. Len(w[i])
  BY <1>2, <1>5, LenProperties
<1>8. \A i \in 1 .. N : start[i - 1] \in Nat
  <2>1. \A i \in 1 .. N : i - 1 \in 0 .. N
    OBVIOUS
  <2> QED BY <1>3, <1>4, <2>1 DEF Starts
<1> DEFINE turn == [s \in D |-> CHOOSE i \in 1 .. N : order[i] = s]
           at == [s \in D |-> [a \in DOMAIN q[s] |-> start[turn[s] - 1] + a]]
<1>9. \A s \in D : turn[s] \in 1 .. N /\ order[turn[s]] = s
  BY <1>1
<1>10. \A i \in 1 .. N : order[i] \in D /\ turn[order[i]] = i
  <2>1. \A i \in 1 .. N : order[i] \in D
    BY <1>1
  <2> HIDE DEF turn
  <2> QED BY <1>1, <1>9, <2>1
<1>11. \A s \in D : \A a \in DOMAIN q[s] : at[s][a] = start[turn[s] - 1] + a
  OBVIOUS
<1> HIDE DEF turn, at
<1>12. ASSUME NEW s \in D, NEW a \in DOMAIN q[s]
       PROVE  at[s][a] \in DOMAIN J /\ J[at[s][a]] = q[s][a]
  <2>1. turn[s] \in 1 .. N /\ w[turn[s]] = q[s] /\ a \in 1 .. Len(w[turn[s]])
    <3>1. turn[s] \in 1 .. N /\ order[turn[s]] = s
      BY <1>9
    <3>2. w[turn[s]] = q[s] /\ DOMAIN w[turn[s]] = 1 .. Len(w[turn[s]])
      BY <1>2, <1>7, <3>1
    <3> QED BY <3>1, <3>2
  <2>2. /\ start[turn[s] - 1] + a \in 1 .. Len(J)
        /\ J[start[turn[s] - 1] + a] = w[turn[s]][a]
    BY <1>3, <1>5, <2>1 DEF Joins
  <2> QED BY <1>7, <1>11, <2>1, <2>2
<1>13. ASSUME NEW s \in D, NEW a \in DOMAIN q[s], NEW b \in DOMAIN q[s], a < b
       PROVE  at[s][a] < at[s][b]
  <2>1. start[turn[s] - 1] \in Nat /\ a \in Nat /\ b \in Nat
    BY <1>6, <1>8, <1>9
  <2>2. at[s][a] = start[turn[s] - 1] + a /\ at[s][b] = start[turn[s] - 1] + b
    BY <1>11
  <2> QED BY <1>13, <2>1, <2>2
<1>14. ASSUME NEW j \in DOMAIN J PROVE \E s \in D : \E a \in DOMAIN q[s] : j = at[s][a]
  <2>1. PICK i \in 1 .. N : \E a \in 1 .. Len(w[i]) : j = start[i - 1] + a
    BY <1>3, <1>5, <1>7 DEF Joins
  <2>2. PICK a \in 1 .. Len(w[i]) : j = start[i - 1] + a
    BY <2>1
  <2>3. order[i] \in D /\ w[i] = q[order[i]] /\ turn[order[i]] = i
    BY <1>2, <1>10
  <2>4. a \in DOMAIN q[order[i]]
    BY <1>7, <2>3
  <2>5. at[order[i]][a] = start[i - 1] + a
    BY <1>11, <2>3, <2>4
  <2> QED BY <2>2, <2>3, <2>4, <2>5
<1>15. Places(J, q, D, at)
  BY <1>12, <1>13, <1>14 DEF Places
<1> QED BY <1>5, <1>15 DEF J, w

LEMMA WorksTouches ==
  ASSUME NEW r, NEW ts
  PROVE  Touches(r, ts) <=> \E t \in ts : Works(queue[r], t)
<1>1. \A e, t : t \in {x.id : x \in Range(e.reads)} <=> Reads(e, t)
  BY DEF Range, Reads
<1>2. \A e : (ts \cap (e.outs \cup e.drops \cup {x.id : x \in Range(e.reads)}) # {})
               <=> \E t \in ts : About(e, t)
  BY <1>1 DEF About
<1> QED BY <1>2 DEF Touches, Works

\* What a drain leaves, in the next state.
Drained(q, have, D) ==
  /\ panicked' = FALSE
  /\ Good(Emptied(q, D), handles')
  /\ handles' \in SUBSET Nat
  /\ \A t \in handles' : t \in have \/ \E s \in Threads : Works(q[s], t)
  /\ \A t \in Nat : Survives(Emptied(q, D), handles', t) <=> Survives(q, have, t)

LEMMA ExecuteForms ==
  ASSUME NEW q \in [Threads -> Seq(Entries)], NEW have \in SUBSET Nat, Good(q, have),
         NEW D \in SUBSET Threads, NEW W \in Seq(Entries), NEW at, Places(W, q, D, at),
         Execute(W, have)
  PROVE  Drained(q, have, D)
<1> DEFINE left == After(W, have)[Len(W)]
<1>0. left = After(W, have)[Len(W)]
  OBVIOUS
<1>1. handles' = left /\ panicked' = ~\A k \in DOMAIN W : Finds(W[k], After(W, have)[k - 1])
  BY DEF Execute
<1> HIDE DEF left
<1>2. /\ \A k \in DOMAIN W : Finds(W[k], After(W, have)[k - 1])
      /\ \A t \in left : t \in have \/ \E s \in Threads : Works(q[s], t)
      /\ Good(Emptied(q, D), left)
      /\ \A t \in Nat : Survives(Emptied(q, D), left, t) <=> Survives(q, have, t)
  BY <1>0, Drain
<1>3. ASSUME NEW t \in left, t \notin have PROVE t \in Nat
  <2>1. PICK s \in Threads : Works(q[s], t)
    BY <1>2, <1>3
  <2>2. PICK i \in DOMAIN q[s] : About(q[s][i], t)
    BY <2>1 DEF Works
  <2>3. q[s][i] \in Entries
    <3>1. q[s] \in Seq(Entries)
      OBVIOUS
    <3>2. i \in 1 .. Len(q[s])
      BY <3>1, LenProperties
    <3> QED BY <3>1, <3>2, ElementOfSeq
  <2> QED BY <2>2, <2>3, EntryForms
<1> QED BY <1>1, <1>2, <1>3 DEF Drained

\* Draining one queue.
LEMMA DrainOne ==
  ASSUME NEW q \in [Threads -> Seq(Entries)], NEW have \in SUBSET Nat, Good(q, have),
         NEW s \in Threads, Execute(q[s], have)
  PROVE  Drained(q, have, {s})
<1> DEFINE at == [r \in {s} |-> [a \in DOMAIN q[s] |-> a]]
<1>1. Places(q[s], q, {s}, at)
  BY DEF Places
<1> HIDE DEF at
<1> QED BY <1>1, ExecuteForms

\* An operation is registered whose tensors are among ts, or are tensors that
\* no stream works on.
LEMMA SubmitForms ==
  ASSUME ClientAssumption, NEW s \in Threads, NEW e \in Entries, NEW ts,
         NEW have \in SUBSET Nat,
         queue \in [Threads -> Seq(Entries)], Good(queue, have),
         \A t \in Nat : About(e, t) =>
           /\ t \in ts \/ \A r \in Threads : ~Works(queue[r], t)
           /\ t \in e.outs => t \notin have /\ \A r \in Threads : ~Works(queue[r], t)
           /\ t \notin e.outs => Survives(queue, have, t),
         Submit(s, e, ts, have)
  PROVE  /\ panicked' = FALSE
         /\ queue' \in [Threads -> Seq(Entries)]
         /\ \A r \in Threads : \A t :
              Works(queue'[r], t) => About(e, t) \/ \E u \in Threads : Works(queue[u], t)
         /\ \A t \in handles' : t \in have \/ \E r \in Threads : Works(queue[r], t)
         /\ Good(queue', handles')
         /\ \A t \in Nat : Survives(queue', handles', t) <=>
              (Survives(queue, have, t) \/ t \in e.outs) /\ ~Ends(e, t)
<1> DEFINE D == {r \in Threads \ {s} : Touches(r, ts)}
<1>1. D \in SUBSET Threads /\ s \notin D
  OBVIOUS
<1>2. \A r \in Threads : r # s => (r \in D <=> \E t \in ts : Works(queue[r], t))
  BY WorksTouches
<1>3. /\ \E order \in Bijection(1 .. Cardinality(D), D) :
           Execute(Joined([i \in DOMAIN order |-> queue[order[i]]]), have)
      /\ queue' = [r \in Threads |-> IF r \in D THEN <<>>
                                     ELSE IF r = s THEN Append(queue[r], e)
                                     ELSE queue[r]]
  BY DEF Submit
<1> HIDE DEF D
<1>4. Cardinality(D) \in Nat
  BY <1>1, FS_Subset, FS_CardinalityType DEF ClientAssumption
<1>5. Drained(queue, have, D)
  <2>1. PICK order \in Bijection(1 .. Cardinality(D), D) :
          Execute(Joined([i \in DOMAIN order |-> queue[order[i]]]), have)
    BY <1>3
  <2>2. /\ Joined([i \in DOMAIN order |-> queue[order[i]]]) \in Seq(Entries)
        /\ \E at : Places(Joined([i \in DOMAIN order |-> queue[order[i]]]), queue, D, at)
    BY <1>1, <1>4, JoinedPlaces
  <2> DEFINE W == Joined([i \in DOMAIN order |-> queue[order[i]]])
  <2>3. Execute(W, have) /\ W \in Seq(Entries) /\ \E at : Places(W, queue, D, at)
    BY <2>1, <2>2
  <2> HIDE DEF W
  <2>4. PICK at : Places(W, queue, D, at)
    BY <2>3
  <2> QED BY <1>1, <2>3, <2>4, ExecuteForms
<1> DEFINE q == Emptied(queue, D)
<1>6. /\ panicked' = FALSE
      /\ Good(q, handles')
      /\ handles' \in SUBSET Nat
      /\ \A t \in handles' : t \in have \/ \E r \in Threads : Works(queue[r], t)
      /\ \A t \in Nat : Survives(q, handles', t) <=> Survives(queue, have, t)
  BY <1>5 DEF Drained
<1>7. \A r \in Threads : q[r] = IF r \in D THEN <<>> ELSE queue[r]
  BY DEF Emptied
<1>8. q \in [Threads -> Seq(Entries)]
  <2>1. <<>> \in Seq(Entries)
    BY EmptySeq
  <2> QED BY <2>1 DEF Emptied
<1>9. queue' = Queued(q, s, e)
  BY <1>1, <1>3 DEF Queued, Emptied
<1> HIDE DEF q
<1>10. \A r \in Threads : \A t : Works(q[r], t) => r \notin D /\ Works(queue[r], t)
  <2>1. DOMAIN <<>> = {}
    OBVIOUS
  <2> QED BY <1>7, <2>1 DEF Works
<1>11. Fits(q, handles', s, e)
  <2> SUFFICES ASSUME NEW t \in Nat, About(e, t)
               PROVE  /\ \A r \in Threads : r # s => ~Works(q[r], t)
                      /\ t \in e.outs => t \notin handles' /\ ~Works(q[s], t)
                      /\ t \notin e.outs => Survives(q, handles', t)
    BY DEF Fits
  <2>1. \A r \in Threads : r # s => ~Works(q[r], t)
    BY <1>2, <1>10
  <2>2. t \in e.outs => t \notin handles' /\ ~Works(q[s], t)
    BY <1>6, <1>10
  <2>3. t \notin e.outs => Survives(q, handles', t)
    BY <1>6
  <2> QED BY <2>1, <2>2, <2>3
<1>12. /\ Queued(q, s, e) \in [Threads -> Seq(Entries)]
       /\ \A r \in Threads : \A t :
            Works(Queued(q, s, e)[r], t) <=> Works(q[r], t) \/ (r = s /\ About(e, t))
       /\ Good(Queued(q, s, e), handles')
       /\ \A t \in Nat : Survives(Queued(q, s, e), handles', t) <=>
            (Survives(q, handles', t) \/ t \in e.outs) /\ ~Ends(e, t)
  <2>1. PICK h \in SUBSET Nat : h = handles'
    BY <1>6
  <2>2. Good(q, h) /\ Fits(q, h, s, e)
    BY <1>6, <1>11, <2>1
  <2>3. /\ Queued(q, s, e) \in [Threads -> Seq(Entries)]
        /\ \A r \in Threads : \A t :
             Works(Queued(q, s, e)[r], t) <=> Works(q[r], t) \/ (r = s /\ About(e, t))
        /\ Good(Queued(q, s, e), h)
        /\ \A t \in Nat : Survives(Queued(q, s, e), h, t) <=>
             (Survives(q, h, t) \/ t \in e.outs) /\ ~Ends(e, t)
    BY <1>8, <2>2, Enqueue
  <2> QED BY <2>1, <2>3
<1> QED BY <1>6, <1>9, <1>10, <1>12

-----------------------------------------------------------------------------
(* What the invariant says of a state. *)

LEMMA InvForms ==
  ASSUME ClientInv, ClientAssumption
  PROVE  /\ Len(kind) \in Nat /\ Tensors = 1 .. Len(kind)
         /\ count \in [Tensors -> Int] /\ DOMAIN origin = Tensors
         /\ \A t \in Tensors : t \in Nat /\ origin[t] \in Threads
         /\ \A t : IsFiniteSet(Holders(t)) /\ Cardinality(Holders(t)) \in Nat
         /\ \A s \in Threads : \A t :
              /\ t \in held[s] => t \in Tensors
              /\ Given(s, t) => t \in Tensors
              /\ Owes(s, t) => Given(s, t) /\ Holders(t) # {}
              /\ call[s] = Idle => ~Given(s, t) /\ ~Owes(s, t)
         /\ handles \in SUBSET Nat
         /\ \A s \in Threads : \A t : Works(queue[s], t) => t \in Tensors
<1>1. /\ kind \in Seq(Names) /\ origin \in Seq(Threads) /\ count \in Seq(Int)
      /\ Len(origin) = Len(kind) /\ Len(count) = Len(kind)
      /\ held \in [Threads -> SUBSET Tensors]
      /\ queue \in [Threads -> Seq(Entries)]
      /\ handles \subseteq Tensors
      /\ \A s \in Threads : \A t \in Nat : Works(queue[s], t) => t \in Tensors
  BY DEF ClientInv, TypesOK
<1>2. Len(kind) \in Nat /\ Tensors = 1 .. Len(kind)
  BY <1>1, LenProperties DEF Tensors
<1>3. count \in [Tensors -> Int] /\ origin \in [Tensors -> Threads]
  <2>1. count \in [1 .. Len(count) -> Int] /\ origin \in [1 .. Len(origin) -> Threads]
    BY <1>1, LenProperties
  <2> QED BY <1>1, <1>2, <2>1
<1>4. \A t \in Tensors : t \in Nat
  BY <1>2
<1>5. ASSUME NEW t PROVE IsFiniteSet(Holders(t)) /\ Cardinality(Holders(t)) \in Nat
  <2>1. Holders(t) \in SUBSET Threads
    BY DEF Holders
  <2> QED BY <2>1, FS_Subset, FS_CardinalityType DEF ClientAssumption
<1>6. ASSUME NEW s \in Threads, NEW t
      PROVE  /\ t \in held[s] => t \in Tensors
             /\ Given(s, t) => t \in Tensors
             /\ Owes(s, t) => Given(s, t) /\ Holders(t) # {}
             /\ call[s] = Idle => ~Given(s, t) /\ ~Owes(s, t)
  <2>1. t \in held[s] => t \in Tensors
    BY <1>1
  <2>2. ASSUME call[s] = Idle PROVE ~Given(s, t) /\ ~Owes(s, t)
    <3>1. call[s].args = <<>> /\ call[s].owed = FALSE /\ DOMAIN <<>> = {}
      BY <2>2 DEF Idle
    <3> QED BY <3>1 DEF Given, Owes
  <2>3. ASSUME CallOK(call[s])
        PROVE  /\ Given(s, t) => t \in Tensors
               /\ Owes(s, t) => Given(s, t) /\ Holders(t) # {}
    <3>1. /\ call[s].args \in [DOMAIN call[s].args -> Tensors]
          /\ call[s].owed => /\ LastOf(call[s].args) \in DOMAIN call[s].args
                             /\ Holders(call[s].args[LastOf(call[s].args)]) # {}
      BY <2>3 DEF CallOK
    <3> QED BY <3>1 DEF Given, Owes
  <2> QED BY <2>1, <2>2, <2>3 DEF ClientInv, Calls
<1>7. ASSUME NEW s \in Threads, NEW t, Works(queue[s], t) PROVE t \in Tensors
  <2>1. PICK i \in DOMAIN queue[s] : About(queue[s][i], t)
    BY <1>7 DEF Works
  <2>2. queue[s][i] \in Entries
    <3>1. queue[s] \in Seq(Entries)
      BY <1>1
    <3>2. i \in 1 .. Len(queue[s])
      BY <3>1, LenProperties
    <3> QED BY <3>1, <3>2, ElementOfSeq
  <2>3. t \in Nat
    BY <2>1, <2>2, EntryForms
  <2> QED BY <1>1, <1>7, <2>3
<1> QED BY <1>1, <1>2, <1>3, <1>4, <1>5, <1>6, <1>7

\* Without races a tensor that a thread may use is given to no wrapper.
LEMMA MayUseForms ==
  ASSUME ClientInv, ClientAssumption, ~Races, NEW s \in Threads, NEW ts, MayUse(s, ts)
  PROVE  /\ call[s] = Idle
         /\ \A t \in ts : \A r \in Threads : ~Given(r, t) /\ ~Owes(r, t)
         /\ \A t \in ts : Owed(t) = 0
<1>1. call[s] = Idle
  BY DEF MayUse
<1>2. ASSUME NEW t \in ts, NEW r \in Threads PROVE ~Given(r, t)
  <2>1. ts \cap Range(call[r].args) = {}
    BY DEF MayUse
  <2> QED BY <1>2, <2>1 DEF Given, Range
<1>3. ASSUME NEW t \in ts, NEW r \in Threads PROVE ~Owes(r, t)
  BY <1>2, InvForms
<1> QED BY <1>1, <1>2, <1>3 DEF Owed

\* A wrapper goes on as before where nothing happens to its tensors.
LEMMA CallKept ==
  ASSUME ClientInv, NEW r \in Threads, call'[r] = call[r], call[r] = Idle \/ CallOK(call[r]),
         \A t \in Tensors : Given(r, t) =>
           t \in Tensors' /\ kind'[t] = kind[t] /\ Holders(t)' = Holders(t)
  PROVE  (call[r] = Idle \/ CallOK(call[r]))'
<1>1. CASE call[r] = Idle
  BY <1>1
<1>2. CASE CallOK(call[r])
  <2> DEFINE c == call[r]
  <2>1. \A p \in DOMAIN c.args : c.args[p] \in Tensors
    BY <1>2 DEF CallOK
  <2>2. \A p \in DOMAIN c.args :
          /\ c.args[p] \in Tensors'
          /\ kind'[c.args[p]] = kind[c.args[p]]
          /\ Holders(c.args[p])' = Holders(c.args[p])
    BY <2>1 DEF Given
  <2>3. c.args \in [DOMAIN c.args -> Tensors']
    BY <1>2, <2>2 DEF CallOK
  <2>4. PICK g : g = c /\ CallOK(g)
    BY <1>2
  <2>5. /\ g.args \in [DOMAIN g.args -> Tensors']
        /\ \A p \in DOMAIN g.args :
             kind'[g.args[p]] = kind[g.args[p]] /\ Holders(g.args[p])' = Holders(g.args[p])
        /\ call'[r] = g
    BY <2>2, <2>3, <2>4
  <2>6. g.owed => LastOf(g.args) \in DOMAIN g.args /\ Holders(g.args[LastOf(g.args)])' # {}
    BY <2>4, <2>5 DEF CallOK
  <2>7. \A p \in DOMAIN g.args : kind'[g.args[p]] = g.op.ins[p]
    BY <2>4, <2>5 DEF CallOK
  <2>8. \A p \in DOMAIN g.args :
          g.statuses[p] = "ReadWrite" <=>
            /\ Holders(g.args[p])' = {}
            /\ \A i \in DOMAIN g.args : g.args[i] = g.args[p] => i <= p
    BY <2>4, <2>5 DEF CallOK
  <2>9. CallOK(g)'
    BY <2>4, <2>5, <2>6, <2>7, <2>8 DEF CallOK, Signatures
  <2> QED BY <2>5, <2>9
<1> QED BY <1>1, <1>2

\* What concerns only the tensors and the wrappers, and what concerns only the
\* server, stays as it is with them.
LEMMA ClientsKept ==
  ASSUME ClientInv, ClientAssumption, UNCHANGED <<kind, origin, count, held, call>>
  PROVE  /\ Calls' /\ Exclusive' /\ Counted'
         /\ Tensors' = Tensors
         /\ \A t : Alive(t)' <=> Alive(t)
<1>1. /\ Tensors' = Tensors
      /\ \A t : Holders(t)' = Holders(t) /\ Owed(t)' = Owed(t)
      /\ \A s \in Threads : \A t : Given(s, t)' <=> Given(s, t)
  BY DEF Tensors, Holders, Owed, Owes, Given
<1>2. Calls'
  <2>1. ASSUME NEW r \in Threads PROVE (call[r] = Idle \/ CallOK(call[r]))'
    <3>1. call[r] = Idle \/ CallOK(call[r])
      BY DEF ClientInv, Calls
    <3> QED BY <1>1, <3>1, CallKept
  <2> QED BY <2>1 DEF Calls
<1>3. Exclusive' /\ Counted'
  BY <1>1 DEF ClientInv, Exclusive, Counted
<1>4. \A t : Alive(t)' <=> Alive(t)
  BY <1>1 DEF Alive
<1> QED BY <1>1, <1>2, <1>3, <1>4

LEMMA ServerKept ==
  ASSUME ClientInv, UNCHANGED <<queue, handles, panicked>>
  PROVE  /\ (panicked = FALSE)' /\ Good(queue, handles)'
         /\ \A t : Survives(queue, handles, t)' <=> Survives(queue, handles, t)
         /\ \A s \in Threads : \A t : Works(queue[s], t)' <=> Works(queue[s], t)
BY DEF ClientInv

\* A drain changes nothing for the clients.
LEMMA FlushKeeps ==
  ASSUME ClientInv, ClientAssumption, NEW s \in Threads, Flush(s)
  PROVE  ClientInv'
<1>1. /\ UNCHANGED <<kind, origin, count, held, call>>
      /\ Execute(queue[s], handles)
      /\ queue' = [queue EXCEPT ![s] = <<>>]
  BY DEF Flush
<1>2. /\ queue \in [Threads -> Seq(Entries)] /\ Good(queue, handles)
      /\ handles \in SUBSET Nat /\ handles \subseteq Tensors
      /\ \A r \in Threads : \A t : Works(queue[r], t) => t \in Tensors
  BY InvForms DEF ClientInv, TypesOK
<1>3. Drained(queue, handles, {s})
  BY <1>1, <1>2, DrainOne
<1>4. queue' = Emptied(queue, {s})
  BY <1>1, <1>2 DEF Emptied
<1>5. /\ panicked' = FALSE /\ Good(queue', handles')
      /\ \A t \in handles' : t \in handles \/ \E r \in Threads : Works(queue[r], t)
      /\ \A t \in Nat : Survives(queue', handles', t) <=> Survives(queue, handles, t)
  BY <1>3, <1>4 DEF Drained
<1>6. \A r \in Threads : queue'[r] = IF r = s THEN <<>> ELSE queue[r]
  BY <1>1, <1>2
<1>7. queue' \in [Threads -> Seq(Entries)]
  <2>1. <<>> \in Seq(Entries)
    BY EmptySeq
  <2> QED BY <1>1, <1>2, <2>1
<1>8. \A r \in Threads : \A t : Works(queue'[r], t) => Works(queue[r], t)
  <2>1. DOMAIN <<>> = {}
    OBVIOUS
  <2> QED BY <1>6, <2>1 DEF Works
<1>9. /\ Calls' /\ Exclusive' /\ Counted'
      /\ Tensors' = Tensors
      /\ \A t : Alive(t)' <=> Alive(t)
  BY <1>1, ClientsKept
<1>10. TypesOK'
  <2>1. handles' \subseteq Tensors
    BY <1>2, <1>5
  <2>2. \A r \in Threads : \A t \in Nat : Works(queue'[r], t) => t \in Tensors
    BY <1>2, <1>8
  <2>3. TypesOK
    BY DEF ClientInv
  <2> QED BY <1>1, <1>7, <1>9, <2>1, <2>2, <2>3 DEF TypesOK
<1>11. Surviving'
  <2>1. \A t \in Tensors : t \in Nat
    BY InvForms
  <2> QED BY <1>5, <1>9, <2>1 DEF ClientInv, Surviving
<1> QED BY <1>5, <1>9, <1>10, <1>11 DEF ClientInv

\* A clone that is sent is counted.
LEMMA SendKeeps ==
  ASSUME ClientInv, ClientAssumption, ~Races, NEW s \in Threads, NEW r \in Threads,
         NEW t \in Tensors, Send(s, r, t)
  PROVE  ClientInv'
<1>1. /\ MayUse(s, {t}) /\ t \in held[s] /\ t \notin held[r]
      /\ count' = [count EXCEPT ![t] = @ + 1]
      /\ held' = [held EXCEPT ![r] = @ \cup {t}]
      /\ UNCHANGED <<kind, origin, call, queue, handles, panicked>>
  BY DEF Send
<1>2. /\ count \in [Tensors -> Int]
      /\ \A u : IsFiniteSet(Holders(u)) /\ Cardinality(Holders(u)) \in Nat
      /\ Owed(t) = 0 /\ \A u \in Threads : ~Given(u, t)
  BY <1>1, InvForms, MayUseForms
<1>3. TypesOK
  BY DEF ClientInv
<1>4. /\ Tensors' = Tensors
      /\ \A u : Owed(u)' = Owed(u)
      /\ \A x \in Threads : \A u : Given(x, u)' <=> Given(x, u)
  BY <1>1 DEF Tensors, Owed, Owes, Given
<1>5. \A x \in Threads : held'[x] = IF x = r THEN held[x] \cup {t} ELSE held[x]
  BY <1>1, <1>3 DEF TypesOK
<1>6. Holders(t)' = Holders(t) \cup {r} /\ r \notin Holders(t) /\ s \in Holders(t)
  BY <1>1, <1>5 DEF Holders
<1>7. \A u : u # t => Holders(u)' = Holders(u)
  BY <1>5 DEF Holders
<1>8. /\ count'[t] = count[t] + 1 /\ \A u \in Tensors : u # t => count'[u] = count[u]
      /\ count' \in [Tensors -> Int]
  BY <1>1, <1>2
<1>9. Cardinality(Holders(t)') = Cardinality(Holders(t)) + 1
  <2>1. IsFiniteSet(Holders(t)) /\ r \notin Holders(t)
    BY <1>2, <1>6
  <2>2. Cardinality(Holders(t) \cup {r}) = Cardinality(Holders(t)) + 1
    BY <2>1, FS_AddElement
  <2> QED BY <1>6, <2>2
<1>10. Counted'
  <2>1. ASSUME NEW u \in Tensors, Holders(u)' # {}
        PROVE  count'[u] = Cardinality(Holders(u)') + Owed(u)'
    <3>1. CASE u = t
      <4>1. count[t] = Cardinality(Holders(t)) + Owed(t)
        BY <1>6 DEF ClientInv, Counted
      <4> QED BY <1>2, <1>4, <1>8, <1>9, <3>1, <4>1
    <3>2. CASE u # t
      BY <1>4, <1>7, <1>8, <2>1, <3>2 DEF ClientInv, Counted
    <3> QED BY <3>1, <3>2
  <2> QED BY <1>4, <2>1 DEF Counted
<1>11. Calls'
  <2>1. ASSUME NEW x \in Threads PROVE (call[x] = Idle \/ CallOK(call[x]))'
    <3>1. call[x] = Idle \/ CallOK(call[x])
      BY DEF ClientInv, Calls
    <3>2. \A u \in Tensors : Given(x, u) => u \in Tensors' /\ kind'[u] = kind[u] /\ Holders(u)' = Holders(u)
      BY <1>1, <1>2, <1>4, <1>7
    <3> QED BY <1>1, <3>1, <3>2, CallKept
  <2> QED BY <2>1 DEF Calls
<1>12. Exclusive'
  BY <1>4 DEF ClientInv, Exclusive
<1>13. \A u : Alive(u)' <=> Alive(u)
  BY <1>4, <1>6, <1>7 DEF Alive
<1>14. /\ (panicked = FALSE)' /\ Good(queue, handles)'
       /\ \A u : Survives(queue, handles, u)' <=> Survives(queue, handles, u)
       /\ \A x \in Threads : \A u : Works(queue[x], u)' <=> Works(queue[x], u)
  BY <1>1, ServerKept
<1>15. TypesOK'
  <2>1. count' \in Seq(Int) /\ Len(count') = Len(count)
    BY <1>1, <1>3, <1>8, ExceptSeq DEF TypesOK
  <2>2. held' \in [Threads -> SUBSET Tensors]
    BY <1>1, <1>3 DEF TypesOK
  <2> QED BY <1>1, <1>3, <1>4, <1>14, <2>1, <2>2 DEF TypesOK
<1>16. Surviving'
  BY <1>4, <1>13, <1>14 DEF ClientInv, Surviving
<1> QED BY <1>10, <1>11, <1>12, <1>14, <1>15, <1>16 DEF ClientInv

\* A thread gives its clone of t up, and t is given to no wrapper: what was
\* counted is still counted, where the count was lowered or nobody is left.
LEMMA GivenUp ==
  ASSUME ClientInv, ClientAssumption, NEW s \in Threads, NEW t \in held[s],
         \A r \in Threads : ~Given(r, t) /\ ~Owes(r, t),
         held' = [held EXCEPT ![s] = @ \ {t}],
         \/ count' = [count EXCEPT ![t] = @ - 1]
         \/ StatusOf(count[t]) = "ReadWrite" /\ count' = count,
         UNCHANGED <<kind, origin, call>>
  PROVE  /\ t \in Tensors /\ Tensors' = Tensors
         /\ StatusOf(count[t]) = "ReadWrite" <=> Holders(t) = {s}
         /\ StatusOf(count[t]) \in {"ReadOnly", "ReadWrite"}
         /\ \A u : Alive(u)' <=> Alive(u) /\ ~(u = t /\ Holders(t) = {s})
         /\ Alive(t)
         /\ Calls' /\ Exclusive' /\ Counted'
         /\ count' \in Seq(Int) /\ Len(count') = Len(count)
         /\ held' \in [Threads -> SUBSET Tensors]
<1>1. /\ count \in [Tensors -> Int] /\ t \in Tensors
      /\ \A u : IsFiniteSet(Holders(u)) /\ Cardinality(Holders(u)) \in Nat
      /\ Tensors = 1 .. Len(kind)
  BY InvForms
<1>2. TypesOK
  BY DEF ClientInv
<1>3. /\ Tensors' = Tensors
      /\ \A u : Owed(u)' = Owed(u)
      /\ \A x \in Threads : \A u : Given(x, u)' <=> Given(x, u)
  BY DEF Tensors, Owed, Owes, Given
<1>4. \A x \in Threads : held'[x] = IF x = s THEN held[x] \ {t} ELSE held[x]
  BY <1>2 DEF TypesOK
<1>5. /\ Holders(t)' = Holders(t) \ {s} /\ s \in Holders(t)
      /\ \A u : u # t => Holders(u)' = Holders(u)
  BY <1>4 DEF Holders
<1>6. PICK c \in Nat : c = Cardinality(Holders(t))
  BY <1>1
<1>7. Cardinality(Holders(t) \ {s}) = c - 1 /\ c - 1 \in Nat
  <2>1. IsFiniteSet(Holders(t))
    BY <1>1
  <2>2. IsFiniteSet(Holders(t) \ {s}) /\ Cardinality(Holders(t) \ {s}) = c - 1
    BY <1>5, <1>6, <2>1, FS_RemoveElement
  <2> QED BY <2>2, FS_CardinalityType
<1>8. count[t] = c
  <2>1. Owed(t) = 0
    BY DEF Owed
  <2>2. count[t] = Cardinality(Holders(t)) + Owed(t)
    BY <1>1, <1>5 DEF ClientInv, Counted
  <2> QED BY <1>6, <2>1, <2>2
<1>9. c - 1 = 0 <=> Holders(t) = {s}
  <2>1. IsFiniteSet(Holders(t) \ {s})
    BY <1>1, FS_Subset
  <2>2. Cardinality(Holders(t) \ {s}) = 0 <=> Holders(t) \ {s} = {}
    BY <2>1, FS_EmptySet
  <2> QED BY <1>5, <1>7, <2>2
<1>10. StatusOf(count[t]) = "ReadWrite" <=> Holders(t) = {s}
  <2>1. "ReadWrite" # "ReadOnly"
    OBVIOUS
  <2>2. c <= 1 <=> c - 1 = 0
    BY <1>7
  <2> QED BY <1>8, <1>9, <2>1, <2>2 DEF StatusOf
<1>11. \A u : Alive(u)' <=> Alive(u) /\ ~(u = t /\ Holders(t) = {s})
  BY <1>3, <1>5 DEF Alive
<1>12. Calls'
  <2>1. ASSUME NEW x \in Threads PROVE (call[x] = Idle \/ CallOK(call[x]))'
    <3>1. call[x] = Idle \/ CallOK(call[x])
      BY DEF ClientInv, Calls
    <3>2. \A u \in Tensors : Given(x, u) => u \in Tensors' /\ kind'[u] = kind[u] /\ Holders(u)' = Holders(u)
      BY <1>3, <1>5
    <3> QED BY <3>1, <3>2, CallKept
  <2> QED BY <2>1 DEF Calls
<1>13. Exclusive'
  BY <1>3 DEF ClientInv, Exclusive
<1>14. /\ \A u \in Tensors : u # t => count'[u] = count[u]
       /\ Holders(t)' # {} => count'[t] = count[t] - 1
  <2>1. CASE count' = [count EXCEPT ![t] = @ - 1]
    BY <1>1, <2>1
  <2>2. CASE StatusOf(count[t]) = "ReadWrite" /\ count' = count
    BY <1>5, <1>10, <2>2
  <2> QED BY <2>1, <2>2
<1>15. Counted'
  <2>1. ASSUME NEW u \in Tensors, Holders(u)' # {}
        PROVE  count'[u] = Cardinality(Holders(u)') + Owed(u)'
    <3>1. CASE u = t
      <4>1. Owed(t)' = 0
        BY <1>3 DEF Owed
      <4>2. Cardinality(Holders(t)') = c - 1
        BY <1>5, <1>7
      <4>3. count'[t] = c - 1
        BY <1>8, <1>14, <2>1, <3>1
      <4>4. c - 1 = (c - 1) + 0
        OBVIOUS
      <4> QED BY <3>1, <4>1, <4>2, <4>3, <4>4
    <3>2. CASE u # t
      BY <1>3, <1>5, <1>14, <2>1, <3>2 DEF ClientInv, Counted
    <3> QED BY <3>1, <3>2
  <2> QED BY <1>3, <2>1 DEF Counted
<1>16. count' \in Seq(Int) /\ Len(count') = Len(count)
  <2>1. count \in Seq(Int) /\ Len(count) = Len(kind)
    BY <1>2 DEF TypesOK
  <2>2. count[t] - 1 \in Int /\ t \in 1 .. Len(count)
    BY <1>1, <2>1
  <2>3. CASE count' = [count EXCEPT ![t] = count[t] - 1]
    BY <2>1, <2>2, <2>3, ExceptSeq
  <2> QED BY <2>1, <2>3
<1>17. held' \in [Threads -> SUBSET Tensors]
  BY <1>2 DEF TypesOK
<1>18. StatusOf(count[t]) \in {"ReadOnly", "ReadWrite"} /\ Alive(t)
  BY <1>5 DEF StatusOf, Alive
<1> QED BY <1>1, <1>3, <1>10, <1>11, <1>12, <1>13, <1>15, <1>16, <1>17, <1>18

\* The last clone of a tensor registers a drop, wherever it is dropped.
LEMMA DropTensorKeeps ==
  ASSUME ClientInv, ClientAssumption, ~Races, NEW s \in Threads, NEW t \in Tensors,
         DropTensor(s, t)
  PROVE  ClientInv'
<1>1. /\ MayUse(s, {t}) /\ t \in held[s]
      /\ held' = [held EXCEPT ![s] = @ \ {t}]
      /\ count' = [count EXCEPT ![t] = @ - 1]
      /\ IF StatusOf(count[t]) = "ReadWrite"
         THEN Submit(s, Entry(<<>>, {}, {t}), {t}, handles)
         ELSE UNCHANGED <<queue, handles, panicked>>
      /\ UNCHANGED <<kind, origin, call>>
  BY DEF DropTensor, SubmitDrop
<1>2. TypesOK /\ Good(queue, handles) /\ Surviving
  BY DEF ClientInv
<1>3. \A u \in Tensors : u \in Nat
  BY InvForms
<1>4. /\ Tensors' = Tensors
      /\ StatusOf(count[t]) = "ReadWrite" <=> Holders(t) = {s}
      /\ \A u : Alive(u)' <=> Alive(u) /\ ~(u = t /\ Holders(t) = {s})
      /\ Alive(t)
      /\ Calls' /\ Exclusive' /\ Counted'
      /\ count' \in Seq(Int) /\ Len(count') = Len(count)
      /\ held' \in [Threads -> SUBSET Tensors]
  <2>1. \A r \in Threads : ~Given(r, t) /\ ~Owes(r, t)
    BY <1>1, MayUseForms
  <2> QED BY <1>1, <2>1, GivenUp
<1>5. CASE StatusOf(count[t]) = "ReadWrite"
  <2> DEFINE e == Entry(<<>>, {}, {t})
  <2>1. /\ e \in Entries
        /\ \A u : /\ About(e, u) <=> u = t
                  /\ Ends(e, u) <=> u = t
                  /\ u \notin e.outs
    <3>1. e.reads = <<>> /\ e.outs = {} /\ e.drops = {t} /\ DOMAIN <<>> = {}
      BY DEF Entry
    <3>2. e \in [reads : UNION {[J -> Read] : J \in SUBSET Nat}, outs : SUBSET Nat, drops : SUBSET Nat]
      <4>1. <<>> \in [{} -> Read]
        OBVIOUS
      <4> QED BY <1>3, <4>1 DEF Entry
    <3>3. e \in Entries
      BY <3>1, <3>2 DEF Entries
    <3>4. \A u : ~Reads(e, u)
      BY <3>1 DEF Reads
    <3>5. Consumed(e) = {}
      BY <3>1 DEF Consumed, Range
    <3> QED BY <3>1, <3>3, <3>4, <3>5 DEF About, Ends
  <2>2. Submit(s, e, {t}, handles)
    BY <1>1, <1>5
  <2> HIDE DEF e
  <2>3. Survives(queue, handles, t)
    BY <1>2, <1>4 DEF Surviving
  <2>4. handles \in SUBSET Nat /\ queue \in [Threads -> Seq(Entries)]
    BY <1>2, InvForms DEF TypesOK
  <2>5. /\ panicked' = FALSE
        /\ queue' \in [Threads -> Seq(Entries)]
        /\ \A r \in Threads : \A u :
             Works(queue'[r], u) => About(e, u) \/ \E x \in Threads : Works(queue[x], u)
        /\ \A u \in handles' : u \in handles \/ \E r \in Threads : Works(queue[r], u)
        /\ Good(queue', handles')
        /\ \A u \in Nat : Survives(queue', handles', u) <=>
             (Survives(queue, handles, u) \/ u \in e.outs) /\ ~Ends(e, u)
    <3>1. \A u \in Nat : About(e, u) =>
            /\ u \in {t} \/ \A r \in Threads : ~Works(queue[r], u)
            /\ u \in e.outs => u \notin handles /\ \A r \in Threads : ~Works(queue[r], u)
            /\ u \notin e.outs => Survives(queue, handles, u)
      BY <2>1, <2>3
    <3> QED BY <1>2, <2>1, <2>2, <2>4, <3>1, SubmitForms
  <2>6. TypesOK'
    <3>1. handles' \subseteq Tensors
      BY <1>2, <2>5, InvForms DEF TypesOK
    <3>2. \A r \in Threads : \A u \in Nat : Works(queue'[r], u) => u \in Tensors
      BY <2>1, <2>5, InvForms
    <3> QED BY <1>1, <1>2, <1>4, <2>5, <3>1, <3>2 DEF TypesOK
  <2>7. Surviving'
    <3>1. ASSUME NEW u \in Tensors PROVE Alive(u)' <=> Survives(queue', handles', u)
      BY <1>2, <1>3, <1>4, <1>5, <2>1, <2>5, <3>1 DEF Surviving
    <3> QED BY <1>4, <3>1 DEF Surviving
  <2> QED BY <1>4, <2>5, <2>6, <2>7 DEF ClientInv
<1>6. CASE StatusOf(count[t]) # "ReadWrite"
  <2>1. UNCHANGED <<queue, handles, panicked>>
    BY <1>1, <1>6
  <2>2. /\ (panicked = FALSE)' /\ Good(queue, handles)'
        /\ \A u : Survives(queue, handles, u)' <=> Survives(queue, handles, u)
        /\ \A x \in Threads : \A u : Works(queue[x], u)' <=> Works(queue[x], u)
    BY <2>1, ServerKept
  <2>3. TypesOK'
    BY <1>1, <1>2, <1>4, <2>1, <2>2 DEF TypesOK
  <2>4. Surviving'
    BY <1>2, <1>4, <1>6, <2>2 DEF Surviving
  <2> QED BY <1>4, <2>2, <2>3, <2>4 DEF ClientInv
<1> QED BY <1>5, <1>6

\* The data of a tensor is read after what its own stream has queued.
LEMMA IntoDataKeeps ==
  ASSUME ClientInv, ClientAssumption, ~Races, NEW s \in Threads, NEW t \in Tensors,
         IntoData(s, t)
  PROVE  ClientInv'
<1> DEFINE read == [id |-> t, status |-> StatusOf(count[t])]
           e == Entry(<<read>>, {}, {})
           o == origin[t]
           q == Queued(queue, o, e)
<1>1. /\ MayUse(s, {t}) /\ t \in held[s]
      /\ \A r \in Threads \ {o} : ~Touches(r, {t})
      /\ Execute(Append(queue[o], e), handles)
      /\ queue' = [queue EXCEPT ![o] = <<>>]
      /\ count' = IF StatusOf(count[t]) = "ReadWrite" THEN count ELSE [count EXCEPT ![t] = @ - 1]
      /\ held' = [held EXCEPT ![s] = @ \ {t}]
      /\ UNCHANGED <<kind, origin, call>>
  BY DEF IntoData
<1>2. TypesOK /\ Good(queue, handles) /\ Surviving
  BY DEF ClientInv
<1>3. /\ \A u \in Tensors : u \in Nat
      /\ o \in Threads
      /\ handles \in SUBSET Nat /\ queue \in [Threads -> Seq(Entries)]
  BY <1>2, InvForms DEF TypesOK
<1>4. /\ Tensors' = Tensors
      /\ StatusOf(count[t]) = "ReadWrite" <=> Holders(t) = {s}
      /\ StatusOf(count[t]) \in {"ReadOnly", "ReadWrite"}
      /\ \A u : Alive(u)' <=> Alive(u) /\ ~(u = t /\ Holders(t) = {s})
      /\ Alive(t)
      /\ Calls' /\ Exclusive' /\ Counted'
      /\ count' \in Seq(Int) /\ Len(count') = Len(count)
      /\ held' \in [Threads -> SUBSET Tensors]
  <2>1. \A r \in Threads : ~Given(r, t) /\ ~Owes(r, t)
    BY <1>1, MayUseForms
  <2>2. \/ count' = [count EXCEPT ![t] = @ - 1]
        \/ StatusOf(count[t]) = "ReadWrite" /\ count' = count
    BY <1>1
  <2> QED BY <1>1, <2>1, <2>2, GivenUp
<1>5. /\ e \in Entries
      /\ \A u : /\ About(e, u) <=> u = t
                /\ Ends(e, u) <=> u = t /\ Holders(t) = {s}
                /\ u \notin e.outs
  <2>1. /\ e.reads = <<read>> /\ e.outs = {} /\ e.drops = {}
        /\ DOMAIN <<read>> = {1} /\ <<read>>[1] = read
    BY DEF Entry
  <2>2. read \in Read /\ read.id = t
    BY <1>3, <1>4 DEF Read
  <2> HIDE DEF read
  <2>3. <<read>> \in [{1} -> Read]
    BY <2>1, <2>2
  <2>4. e \in [reads : UNION {[J -> Read] : J \in SUBSET Nat}, outs : SUBSET Nat, drops : SUBSET Nat]
    <3>1. {1} \in SUBSET Nat
      OBVIOUS
    <3> QED BY <2>3, <3>1 DEF Entry
  <2> HIDE DEF e
  <2>5. e \in Entries
    <3>1. \A i, j \in DOMAIN e.reads : ~(j < i)
      BY <2>1
    <3> QED BY <2>1, <2>4, <3>1 DEF Entries
  <2>6. ASSUME NEW u PROVE Reads(e, u) <=> u = t
    BY <2>1, <2>2 DEF Reads
  <2>7. ASSUME NEW u PROVE u \in Consumed(e) <=> u = t /\ StatusOf(count[t]) = "ReadWrite"
    <3>1. read.status = StatusOf(count[t])
      BY DEF read
    <3> QED BY <2>1, <2>2, <3>1 DEF Consumed, Range
  <2>8. \A u : About(e, u) <=> u = t
    BY <2>1, <2>6 DEF About
  <2>9. \A u : Ends(e, u) <=> u = t /\ Holders(t) = {s}
    BY <1>4, <2>1, <2>7 DEF Ends
  <2> QED BY <2>1, <2>5, <2>8, <2>9
<1> HIDE DEF e
<1>6. Survives(queue, handles, t)
  BY <1>2, <1>4 DEF Surviving
<1>7. Fits(queue, handles, o, e)
  <2>1. \A r \in Threads : r # o => ~Works(queue[r], t)
    BY <1>1, WorksTouches
  <2> QED BY <1>5, <1>6, <2>1 DEF Fits
<1>8. /\ q \in [Threads -> Seq(Entries)]
      /\ \A r \in Threads : \A u : Works(q[r], u) <=> Works(queue[r], u) \/ (r = o /\ About(e, u))
      /\ Good(q, handles)
      /\ \A u \in Nat : Survives(q, handles, u) <=>
           (Survives(queue, handles, u) \/ u \in e.outs) /\ ~Ends(e, u)
  <2> HIDE DEF o
  <2> QED BY <1>2, <1>3, <1>5, <1>7, Enqueue
<1>9. q[o] = Append(queue[o], e) /\ \A r \in Threads : r # o => q[r] = queue[r]
  BY <1>3 DEF Queued
<1> HIDE DEF q
<1>10. Drained(q, handles, {o})
  BY <1>1, <1>3, <1>8, <1>9, DrainOne
<1>11. queue' = Emptied(q, {o})
  BY <1>1, <1>3, <1>9 DEF Emptied
<1>12. /\ panicked' = FALSE /\ Good(queue', handles')
       /\ \A u \in handles' : u \in handles \/ \E r \in Threads : Works(q[r], u)
       /\ \A u \in Nat : Survives(queue', handles', u) <=> Survives(q, handles, u)
  BY <1>10, <1>11 DEF Drained
<1>13. /\ queue' \in [Threads -> Seq(Entries)]
       /\ \A r \in Threads : \A u : Works(queue'[r], u) => Works(queue[r], u)
  <2>1. <<>> \in Seq(Entries) /\ DOMAIN <<>> = {}
    BY EmptySeq
  <2>2. \A r \in Threads : queue'[r] = IF r = o THEN <<>> ELSE queue[r]
    BY <1>1, <1>3
  <2>3. queue' \in [Threads -> Seq(Entries)]
    BY <1>1, <1>3, <2>1
  <2> QED BY <2>1, <2>2, <2>3 DEF Works
<1>14. TypesOK'
  <2>1. handles' \subseteq Tensors
    BY <1>2, <1>5, <1>8, <1>12, InvForms DEF TypesOK
  <2>2. \A r \in Threads : \A u \in Nat : Works(queue'[r], u) => u \in Tensors
    BY <1>13, InvForms
  <2> QED BY <1>1, <1>2, <1>4, <1>13, <2>1, <2>2 DEF TypesOK
<1>15. Surviving'
  <2>1. ASSUME NEW u \in Tensors PROVE Alive(u)' <=> Survives(queue', handles', u)
    BY <1>2, <1>3, <1>4, <1>5, <1>8, <1>12 DEF Surviving
  <2> QED BY <1>4, <2>1 DEF Surviving
<1> QED BY <1>4, <1>12, <1>14, <1>15 DEF ClientInv

\* A thread creates m tensors, and is in no wrapper any more.
Creates(s, m, new) ==
  /\ new = {Len(kind) + i : i \in 1 .. m}
  /\ kind' \in Seq(Names) /\ origin' \in Seq(Threads) /\ count' \in Seq(Int)
  /\ Len(kind') = Len(kind) + m /\ Len(origin') = Len(kind) + m /\ Len(count') = Len(kind) + m
  /\ \A t \in Tensors : kind'[t] = kind[t] /\ count'[t] = count[t]
  /\ \A t \in new : count'[t] = 1
  /\ held' = [held EXCEPT ![s] = @ \cup new]
  /\ call' = [call EXCEPT ![s] = Idle]
  /\ call[s].owed = FALSE

LEMMA Created ==
  ASSUME ClientInv, ClientAssumption, NEW s \in Threads, NEW m \in Nat, NEW new,
         Creates(s, m, new)
  PROVE  /\ Tensors' = Tensors \cup new
         /\ \A t \in new : t \notin Tensors /\ t \in Nat
         /\ held' \in [Threads -> SUBSET Tensors']
         /\ call' = [r \in Threads |-> call'[r]]
         /\ Calls' /\ Exclusive' /\ Counted'
         /\ \A t \in new : Alive(t)'
         /\ \A t \in Tensors :
              Alive(t)' <=> Holders(t) # {} \/ \E r \in Threads : r # s /\ Given(r, t)
<1> USE DEF Creates
<1>1. /\ Len(kind) \in Nat /\ Tensors = 1 .. Len(kind)
      /\ \A r \in Threads : \A t :
           /\ t \in held[r] => t \in Tensors
           /\ Given(r, t) => t \in Tensors
           /\ Owes(r, t) => Given(r, t)
  BY InvForms
<1>2. TypesOK
  BY DEF ClientInv
<1>3. Tensors' = 1 .. Len(kind) + m
  <2>1. DOMAIN kind' = 1 .. Len(kind')
    BY LenProperties
  <2> QED BY <2>1 DEF Tensors
<1>4. /\ Tensors' = Tensors \cup new
      /\ \A t \in new : t \notin Tensors /\ t \in Nat
  <2>1. ASSUME NEW t \in 1 .. Len(kind) + m, t \notin 1 .. Len(kind) PROVE t \in new
    <3>1. t - Len(kind) \in 1 .. m /\ t = Len(kind) + (t - Len(kind))
      BY <1>1, <2>1
    <3> QED BY <3>1
  <2>2. ASSUME NEW t \in new
        PROVE  t \in 1 .. Len(kind) + m /\ t \notin 1 .. Len(kind) /\ t \in Nat
    BY <1>1
  <2>3. \A t \in 1 .. Len(kind) : t \in 1 .. Len(kind) + m
    BY <1>1
  <2> QED BY <1>1, <1>3, <2>1, <2>2, <2>3
<1>5. \A r \in Threads : held'[r] = IF r = s THEN held[r] \cup new ELSE held[r]
  BY <1>2 DEF TypesOK
<1>6. held' \in [Threads -> SUBSET Tensors']
  BY <1>2, <1>4 DEF TypesOK
<1>7. \A r \in Threads : call'[r] = IF r = s THEN Idle ELSE call[r]
  BY <1>2 DEF TypesOK
<1>8. call' = [r \in Threads |-> call'[r]]
  BY <1>2 DEF TypesOK
<1>9. /\ \A t \in Tensors : Holders(t)' = Holders(t)
      /\ \A t \in new : Holders(t)' = {s}
  <2>1. ASSUME NEW t \in Tensors, NEW r \in Threads PROVE t \in held'[r] <=> t \in held[r]
    <3>1. t \notin new
      BY <1>4
    <3>2. held'[r] = IF r = s THEN held[r] \cup new ELSE held[r]
      BY <1>5
    <3> QED BY <3>1, <3>2
  <2>2. ASSUME NEW t \in new, NEW r \in Threads PROVE t \in held'[r] <=> r = s
    <3>1. t \notin held[r]
      BY <1>1, <1>4
    <3>2. CASE r = s
      <4>1. held'[r] = held[r] \cup new
        BY <1>5, <3>2
      <4> QED BY <3>2, <4>1
    <3>3. CASE r # s
      <4>1. held'[r] = held[r]
        BY <1>5, <3>3
      <4> QED BY <3>1, <3>3, <4>1
    <3> QED BY <3>2, <3>3
  <2>3. ASSUME NEW t \in Tensors PROVE Holders(t)' = Holders(t)
    BY <2>1 DEF Holders
  <2>4. ASSUME NEW t \in new PROVE Holders(t)' = {s}
    BY <2>2 DEF Holders
  <2> QED BY <2>3, <2>4
<1>10. \A t : ~Given(s, t)' /\ ~Owes(s, t)'
  <2>1. call'[s].args = <<>> /\ call'[s].owed = FALSE /\ DOMAIN <<>> = {}
    BY <1>7 DEF Idle
  <2> QED BY <2>1 DEF Given, Owes
<1>11. \A r \in Threads : r # s => \A t : (Given(r, t)' <=> Given(r, t)) /\ (Owes(r, t)' <=> Owes(r, t))
  BY <1>7 DEF Given, Owes
<1>12. \A t : Owed(t)' = Owed(t)
  <2>1. \A t : ~Owes(s, t)
    BY DEF Owes
  <2> QED BY <1>10, <1>11, <2>1 DEF Owed
<1>13. Calls'
  <2>1. ASSUME NEW r \in Threads PROVE (call[r] = Idle \/ CallOK(call[r]))'
    <3>1. CASE r = s
      BY <1>7, <3>1
    <3>2. CASE r # s
      <4>1. call[r] = Idle \/ CallOK(call[r])
        BY DEF ClientInv, Calls
      <4>2. call'[r] = call[r]
        BY <1>7, <3>2
      <4>3. \A t \in Tensors : Given(r, t) => t \in Tensors' /\ kind'[t] = kind[t] /\ Holders(t)' = Holders(t)
        BY <1>4, <1>9
      <4> QED BY <4>1, <4>2, <4>3, CallKept
    <3> QED BY <3>1, <3>2
  <2> QED BY <2>1 DEF Calls
<1>14. Exclusive'
  <2>1. ASSUME NEW x \in Threads, NEW r \in Threads, NEW t \in Tensors', Given(x, t)', Given(r, t)'
        PROVE  x = r
    <3>1. x # s /\ r # s
      BY <1>10, <2>1
    <3>2. Given(x, t) /\ Given(r, t) /\ t \in Tensors
      BY <1>1, <1>11, <2>1, <3>1
    <3> QED BY <3>2 DEF ClientInv, Exclusive
  <2> QED BY <2>1 DEF Exclusive
<1>15. Counted'
  <2>1. ASSUME NEW t \in Tensors', Holders(t)' # {}
        PROVE  count'[t] = Cardinality(Holders(t)') + Owed(t)'
    <3>1. CASE t \in Tensors
      BY <1>9, <1>12, <2>1, <3>1 DEF ClientInv, Counted
    <3>2. CASE t \in new
      <4>1. Owed(t)' = 0
        <5>1. \A r \in Threads : ~Owes(r, t)
          BY <1>1, <1>4, <3>2
        <5> QED BY <1>12, <5>1 DEF Owed
      <4>2. Cardinality(Holders(t)') = 1
        BY <1>9, <3>2, FS_Singleton
      <4>3. count'[t] = 1
        BY <3>2
      <4> QED BY <4>1, <4>2, <4>3
    <3> QED BY <1>4, <3>1, <3>2
  <2> QED BY <2>1 DEF Counted
<1>16. /\ \A t \in new : Alive(t)'
       /\ \A t \in Tensors :
            Alive(t)' <=> Holders(t) # {} \/ \E r \in Threads : r # s /\ Given(r, t)
  BY <1>9, <1>10, <1>11 DEF Alive
<1> QED BY <1>4, <1>6, <1>8, <1>13, <1>14, <1>15, <1>16

\* A new handle disturbs nothing.
LEMMA GoodGrows ==
  ASSUME NEW q, NEW have, Good(q, have), NEW t, \A s \in Threads : ~Works(q[s], t)
  PROVE  /\ Good(q, have \cup {t})
         /\ ~Ended(q, t) => Survives(q, have \cup {t}, t)
         /\ \A u : u # t => (Survives(q, have \cup {t}, u) <=> Survives(q, have, u))
<1>1. ASSUME NEW s \in Threads, NEW u \in Nat PROVE InTurn(q[s], have \cup {t}, u)
  <2>1. InTurn(q[s], have, u)
    BY DEF Good
  <2>2. CASE u # t
    BY <2>1, <2>2 DEF InTurn
  <2>3. CASE u = t
    <3>1. \A i \in DOMAIN q[s] : u \notin q[s][i].outs
      BY <2>3 DEF Works, About
    <3> QED BY <2>1, <3>1 DEF InTurn
  <2> QED BY <2>2, <2>3
<1>2. Good(q, have \cup {t})
  BY <1>1 DEF Good
<1> QED BY <1>2 DEF Survives

\* A tensor made from data has its handle at once.
LEMMA FromDataKeeps ==
  ASSUME ClientInv, ClientAssumption, ~Races, NEW s \in Threads, NEW k \in Names,
         FromData(s, k)
  PROVE  ClientInv'
<1> DEFINE n == Len(kind)
<1>0. PICK t : t = n + 1
  OBVIOUS
<1> DEFINE e == Entry(<<>>, {}, {})
           have == handles \cup {t}
<1>1. /\ MayUse(s, {})
      /\ kind' = Append(kind, k) /\ origin' = Append(origin, s) /\ count' = Append(count, 1)
      /\ held' = [held EXCEPT ![s] = @ \cup {t}]
      /\ Submit(s, e, {}, have)
      /\ call' = call
  BY <1>0 DEF FromData
<1>2. TypesOK /\ Good(queue, handles) /\ Surviving
  BY DEF ClientInv
<1>3. /\ n \in Nat /\ Tensors = 1 .. n
      /\ \A u \in Tensors : u \in Nat
      /\ \A r \in Threads : \A u : Works(queue[r], u) => u \in Tensors
      /\ \A r \in Threads : \A u : call[r] = Idle => ~Given(r, u)
      /\ handles \in SUBSET Nat /\ queue \in [Threads -> Seq(Entries)]
  BY <1>2, InvForms DEF TypesOK
<1>4. call[s] = Idle /\ call[s].owed = FALSE
  BY <1>1, MayUseForms DEF Idle
<1>5. /\ kind' \in Seq(Names) /\ origin' \in Seq(Threads) /\ count' \in Seq(Int)
      /\ Len(kind') = n + 1 /\ Len(origin') = n + 1 /\ Len(count') = n + 1
      /\ \A u \in Tensors : kind'[u] = kind[u] /\ count'[u] = count[u]
      /\ count'[t] = 1
  <2>1. /\ kind \in Seq(Names) /\ origin \in Seq(Threads) /\ count \in Seq(Int)
        /\ Len(origin) = n /\ Len(count) = n
    BY <1>2 DEF TypesOK
  <2>2. kind' \in Seq(Names) /\ Len(kind') = n + 1 /\ \A u \in 1 .. n : kind'[u] = kind[u]
    <3>1. kind \in Seq(Names) /\ k \in Names
      BY <2>1
    <3>2. /\ Append(kind, k) \in Seq(Names) /\ Len(Append(kind, k)) = n + 1
          /\ \A u \in 1 .. n : Append(kind, k)[u] = kind[u]
      BY <3>1, AppendProperties
    <3> QED BY <1>1, <3>2
  <2>3. origin' \in Seq(Threads) /\ Len(origin') = n + 1
    BY <1>1, <2>1, AppendProperties
  <2>4. /\ count' \in Seq(Int) /\ Len(count') = n + 1
        /\ \A u \in 1 .. n : count'[u] = count[u]
        /\ count'[t] = 1
    <3>1. 1 \in Int
      OBVIOUS
    <3> QED BY <1>0, <1>1, <2>1, <3>1, AppendProperties
  <2> QED BY <1>3, <2>2, <2>3, <2>4
<1>6. /\ Tensors' = Tensors \cup {t}
      /\ t \notin Tensors /\ t \in Nat
      /\ held' \in [Threads -> SUBSET Tensors']
      /\ call' = [r \in Threads |-> call'[r]]
      /\ Calls' /\ Exclusive' /\ Counted'
      /\ Alive(t)'
      /\ \A u \in Tensors : Alive(u)' <=> Alive(u)
  <2>1. {t} = {Len(kind) + i : i \in 1 .. 1}
    <3>1. 1 .. 1 = {1}
      OBVIOUS
    <3> QED BY <1>0, <3>1
  <2>2. call' = [call EXCEPT ![s] = Idle]
    BY <1>1, <1>2, <1>4 DEF TypesOK
  <2>3. \A u \in {t} : count'[u] = 1
    BY <1>5
  <2>4. 1 \in Nat
    OBVIOUS
  <2>5. held' = [held EXCEPT ![s] = @ \cup {t}]
    BY <1>1
  <2>6. /\ Tensors' = Tensors \cup {t}
        /\ \A u \in {t} : u \notin Tensors /\ u \in Nat
        /\ held' \in [Threads -> SUBSET Tensors']
        /\ call' = [r \in Threads |-> call'[r]]
        /\ Calls' /\ Exclusive' /\ Counted'
        /\ \A u \in {t} : Alive(u)'
        /\ \A u \in Tensors :
             Alive(u)' <=> Holders(u) # {} \/ \E r \in Threads : r # s /\ Given(r, u)
    <3>1. Creates(s, 1, {t})
      BY <1>4, <1>5, <2>1, <2>2, <2>3, <2>5 DEF Creates
    <3> QED BY <2>4, <3>1, Created
  <2>7. \A u \in Tensors : Alive(u) <=> Holders(u) # {} \/ \E r \in Threads : r # s /\ Given(r, u)
    BY <1>3, <1>4 DEF Alive
  <2> QED BY <2>6, <2>7
<1>7. /\ e \in Entries
      /\ \A u : ~About(e, u) /\ ~Ends(e, u) /\ u \notin e.outs
  <2>1. e.reads = <<>> /\ e.outs = {} /\ e.drops = {} /\ DOMAIN <<>> = {}
    BY DEF Entry
  <2>2. e \in [reads : UNION {[J -> Read] : J \in SUBSET Nat}, outs : SUBSET Nat, drops : SUBSET Nat]
    <3>1. <<>> \in [{} -> Read]
      OBVIOUS
    <3> QED BY <3>1 DEF Entry
  <2>3. e \in Entries
    BY <2>1, <2>2 DEF Entries
  <2>4. \A u : ~Reads(e, u)
    BY <2>1 DEF Reads
  <2>5. Consumed(e) = {}
    BY <2>1 DEF Consumed, Range
  <2> QED BY <2>1, <2>3, <2>4, <2>5 DEF About, Ends
<1> HIDE DEF e
<1>8. /\ Good(queue, have)
      /\ Survives(queue, have, t)
      /\ \A u : u # t => (Survives(queue, have, u) <=> Survives(queue, handles, u))
      /\ have \in SUBSET Nat
  <2>1. \A r \in Threads : ~Works(queue[r], t)
    BY <1>3, <1>6
  <2>2. ~Ended(queue, t)
    <3>1. ASSUME NEW r \in Threads, NEW i \in DOMAIN queue[r], Ends(queue[r][i], t) PROVE FALSE
      <4>1. queue[r][i] \in Entries
        <5>1. queue[r] \in Seq(Entries)
          BY <1>3
        <5>2. i \in 1 .. Len(queue[r])
          BY <5>1, LenProperties
        <5> QED BY <5>1, <5>2, ElementOfSeq
      <4>2. About(queue[r][i], t)
        BY <3>1, <4>1, EntryForms
      <4> QED BY <2>1, <4>2 DEF Works
    <3> QED BY <3>1 DEF Ended
  <2>3. have \in SUBSET Nat
    BY <1>3, <1>6
  <2> QED BY <1>2, <2>1, <2>2, <2>3, GoodGrows
<1> HIDE DEF have
<1>9. /\ panicked' = FALSE
      /\ queue' \in [Threads -> Seq(Entries)]
      /\ \A r \in Threads : \A u :
           Works(queue'[r], u) => About(e, u) \/ \E x \in Threads : Works(queue[x], u)
      /\ \A u \in handles' : u \in have \/ \E r \in Threads : Works(queue[r], u)
      /\ Good(queue', handles')
      /\ \A u \in Nat : Survives(queue', handles', u) <=>
           (Survives(queue, have, u) \/ u \in e.outs) /\ ~Ends(e, u)
  <2>1. \A u \in Nat : About(e, u) =>
          /\ u \in {} \/ \A r \in Threads : ~Works(queue[r], u)
          /\ u \in e.outs => u \notin have /\ \A r \in Threads : ~Works(queue[r], u)
          /\ u \notin e.outs => Survives(queue, have, u)
    BY <1>7
  <2> QED BY <1>1, <1>3, <1>7, <1>8, <2>1, SubmitForms
<1>10. TypesOK'
  <2>1. handles' \subseteq Tensors'
    BY <1>2, <1>3, <1>6, <1>9 DEF TypesOK, have
  <2>2. \A r \in Threads : \A u \in Nat : Works(queue'[r], u) => u \in Tensors'
    BY <1>3, <1>6, <1>7, <1>9
  <2> QED BY <1>5, <1>6, <1>9, <2>1, <2>2 DEF TypesOK
<1>11. Surviving'
  <2>1. ASSUME NEW u \in Tensors' PROVE Alive(u)' <=> Survives(queue', handles', u)
    <3>1. CASE u = t
      BY <1>6, <1>7, <1>8, <1>9, <3>1
    <3>2. CASE u \in Tensors
      <4>1. u # t /\ u \in Nat
        BY <1>3, <1>6, <3>2
      <4>2. Alive(u) <=> Survives(queue, handles, u)
        BY <1>2, <3>2 DEF Surviving
      <4> QED BY <1>6, <1>7, <1>8, <1>9, <3>2, <4>1, <4>2
    <3> QED BY <1>6, <3>1, <3>2
  <2> QED BY <2>1 DEF Surviving
<1> QED BY <1>6, <1>9, <1>10, <1>11 DEF ClientInv

-----------------------------------------------------------------------------
(* The wrappers. *)

AllSound == \A o \in Offered : Sound(o)

LEMMA OpForms ==
  ASSUME ClientAssumption, AllSound, NEW op \in Signatures
  PROVE  /\ op.ins \in Seq(Names) /\ op.outs \in Seq(Names)
         /\ DOMAIN op.ins = 1 .. Len(op.ins) /\ Len(op.ins) \in Nat
         /\ DOMAIN op.outs = 1 .. Len(op.outs) /\ Len(op.outs) \in Nat
         /\ DOMAIN op.gets \in SUBSET Nat
         /\ op.opt \subseteq DOMAIN op.ins
         /\ Sound(op)
<1>1. PICK o \in Offered : op = [o EXCEPT !.ir = <<>>]
  BY DEF Signatures
<1>2. o \in OpType /\ Sound(o)
  BY DEF ClientAssumption, AllSound
<1>3. /\ o.ins \in Seq(Names) /\ o.outs \in Seq(Names) /\ o.gets \in Seq(Nat)
      /\ op.ins = o.ins /\ op.outs = o.outs /\ op.gets = o.gets
      /\ op.streams = o.streams /\ op.makes = o.makes
      /\ op.opt \subseteq DOMAIN op.ins
  BY <1>1, <1>2 DEF OpType, Names
<1>4. Sound(op)
  BY <1>2, <1>3 DEF Sound
<1>5. /\ DOMAIN op.ins = 1 .. Len(op.ins) /\ Len(op.ins) \in Nat
      /\ DOMAIN op.outs = 1 .. Len(op.outs) /\ Len(op.outs) \in Nat
  BY <1>3, LenProperties
<1>6. DOMAIN op.gets = 1 .. Len(op.gets) /\ Len(op.gets) \in Nat
  BY <1>3, LenProperties
<1> QED BY <1>3, <1>4, <1>5, <1>6

LEMMA LastForms ==
  ASSUME NEW N \in Nat, NEW args, DOMAIN args \in SUBSET (1 .. N), DOMAIN args # {}
  PROVE  LastOf(args) \in DOMAIN args /\ \A q \in DOMAIN args : q <= LastOf(args)
<1> DEFINE D == DOMAIN args
           T == {N - p : p \in D}
<1>1. T \in SUBSET Nat /\ T # {}
  OBVIOUS
<1>2. PICK x \in T : \A y \in T : x <= y
  <2> HIDE DEF T
  <2> QED BY <1>1, Smallest
<1>3. PICK p \in D : x = N - p
  OBVIOUS
<1>4. \A q \in D : q <= p
  <2>1. \A q \in D : x <= N - q
    BY <1>2
  <2> QED BY <1>3, <2>1
<1> QED BY <1>4 DEF LastOf

\* The uses of a tensor before its last are one less than all its uses.
LEMMA UsesForms ==
  ASSUME NEW N \in Nat, NEW args, DOMAIN args \in SUBSET (1 .. N), NEW p \in DOMAIN args
  PROVE  /\ Uses(args, args[p]) \in Nat /\ Cardinality(Earlier(args, p)) \in Nat
         /\ Cardinality(Earlier(args, p)) <= Uses(args, args[p]) - 1
         /\ Cardinality(Earlier(args, p)) = Uses(args, args[p]) - 1 <=>
              \A i \in DOMAIN args : args[i] = args[p] => i <= p
<1> DEFINE U == {i \in DOMAIN args : args[i] = args[p]}
           before == Earlier(args, p)
<1>1. Uses(args, args[p]) = Cardinality(U)
  BY DEF Uses
<1>2. /\ before \subseteq U \ {p} /\ p \in U
      /\ \A i \in U : i \in before <=> i < p
  BY DEF Earlier
<1>3. \A i \in U : i \in Nat /\ p \in Nat
  OBVIOUS
<1>4. IsFiniteSet(U)
  BY FS_Interval, FS_Subset
<1>5. PICK u \in Nat : u = Cardinality(U)
  BY <1>4, FS_CardinalityType
<1>6. (\A i \in DOMAIN args : args[i] = args[p] => i <= p) <=> \A i \in U : i <= p
  OBVIOUS
<1> HIDE DEF U, before
<1>7. IsFiniteSet(U \ {p}) /\ Cardinality(U \ {p}) = u - 1
  BY <1>2, <1>4, <1>5, FS_RemoveElement
<1>8. /\ IsFiniteSet(before) /\ Cardinality(before) \in Nat
      /\ Cardinality(before) <= u - 1
      /\ Cardinality(before) = u - 1 => before = U \ {p}
  <2>1. IsFiniteSet(before) /\ Cardinality(before) <= Cardinality(U \ {p})
        /\ (Cardinality(before) = Cardinality(U \ {p}) => before = U \ {p})
    BY <1>2, <1>7, FS_Subset
  <2> QED BY <1>7, <2>1, FS_CardinalityType
<1>9. before = U \ {p} <=> \A i \in U : i <= p
  <2>1. ASSUME before = U \ {p}, NEW i \in U PROVE i <= p
    <3>1. i = p \/ i < p
      BY <1>2, <2>1
    <3> QED BY <1>3, <3>1
  <2>2. ASSUME \A i \in U : i <= p PROVE before = U \ {p}
    <3>1. ASSUME NEW i \in U \ {p} PROVE i \in before
      <4>1. i <= p /\ i # p /\ i \in Nat /\ p \in Nat
        BY <1>3, <2>2
      <4> QED BY <1>2, <4>1
    <3> QED BY <1>2, <3>1
  <2> QED BY <2>1, <2>2
<1>10. before = U \ {p} => Cardinality(before) = u - 1
  BY <1>7
<1> QED BY <1>1, <1>5, <1>6, <1>8, <1>9, <1>10 DEF before

\* What into_ir() finds of the inputs of a wrapper: where c clones stay behind,
\* the last use of a tensor is its last use of all just when there are none,
\* and when there are some, they are counted, with the clone that is still to
\* be dropped.
LEMMA ConvertForms ==
  ASSUME NEW N \in Nat, NEW args, DOMAIN args \in SUBSET (1 .. N),
         args \in [DOMAIN args -> Tensors],
         NEW counts \in [Tensors -> Int], NEW t \in Tensors, NEW c \in Nat,
         counts[t] = c + Uses(args, t)
  PROVE  /\ \A p \in DOMAIN args : args[p] = t =>
              (Convert(args, counts).statuses[p] = "ReadWrite" <=>
                 c = 0 /\ \A i \in DOMAIN args : args[i] = t => i <= p)
         /\ c > 0 => Convert(args, counts).counts[t] =
              c + (IF DOMAIN args # {} /\ args[LastOf(args)] = t THEN 1 ELSE 0)
<1> DEFINE statuses == [p \in DOMAIN args |->
                          StatusOf(counts[args[p]] - Cardinality(Earlier(args, p)))]
           dropped == {p \in DOMAIN args :
                         args[p] = t /\ statuses[p] = "ReadOnly" /\ p # LastOf(args)}
           U == {p \in DOMAIN args : args[p] = t}
           last == LastOf(args)
<1>1. /\ Convert(args, counts).statuses = statuses
      /\ Convert(args, counts).counts[t] = counts[t] - Cardinality(dropped)
  BY DEF Convert
<1>2. ASSUME NEW p \in DOMAIN args, args[p] = t
      PROVE  /\ statuses[p] = "ReadWrite" <=> c = 0 /\ \A i \in DOMAIN args : args[i] = t => i <= p
             /\ c > 0 => statuses[p] = "ReadOnly"
  <2>1. PICK u \in Nat, b \in Nat : u = Uses(args, t) /\ b = Cardinality(Earlier(args, p))
    BY <1>2, UsesForms
  <2>2. b <= u - 1 /\ (b = u - 1 <=> \A i \in DOMAIN args : args[i] = t => i <= p)
    BY <1>2, <2>1, UsesForms
  <2>3. statuses[p] = StatusOf((c + u) - b)
    BY <1>2, <2>1
  <2>4. (c + u) - b <= 1 <=> c = 0 /\ b = u - 1
    BY <2>2
  <2>5. "ReadWrite" # "ReadOnly"
    OBVIOUS
  <2>6. (statuses[p] = "ReadWrite" <=> (c + u) - b <= 1) /\ (statuses[p] = "ReadOnly" <=> ~((c + u) - b <= 1))
    BY <2>3, <2>5 DEF StatusOf
  <2> QED BY <2>2, <2>4, <2>6
<1>3. IsFiniteSet(U) /\ Uses(args, t) = Cardinality(U)
  <2>1. IsFiniteSet(1 .. N)
    <3>1. 1 \in Int /\ N \in Int
      OBVIOUS
    <3> QED BY <3>1, FS_Interval
  <2>2. U \in SUBSET (1 .. N)
    OBVIOUS
  <2>3. IsFiniteSet(U)
    BY <2>1, <2>2, FS_Subset
  <2> QED BY <2>3 DEF Uses
<1>4. PICK u \in Nat : u = Cardinality(U)
  BY <1>3, FS_CardinalityType
<1> HIDE DEF statuses
<1>5. ASSUME c > 0
      PROVE  counts[t] - Cardinality(dropped) =
               c + (IF DOMAIN args # {} /\ args[last] = t THEN 1 ELSE 0)
  <2>1. dropped = U \ {last}
    BY <1>2, <1>5
  <2>2. counts[t] = c + u
    BY <1>3, <1>4
  <2>3. CASE DOMAIN args # {} /\ args[last] = t
    <3>1. last \in U
      BY <2>3, LastForms
    <3> HIDE DEF U, dropped, last
    <3>2. Cardinality(dropped) = u - 1
      BY <1>3, <1>4, <2>1, <3>1, FS_RemoveElement
    <3> QED BY <2>2, <2>3, <3>2
  <2>4. CASE ~(DOMAIN args # {} /\ args[last] = t)
    <3>1. last \notin U
      BY <2>4
    <3>2. dropped = U
      <4> HIDE DEF U, dropped
      <4> QED BY <2>1, <3>1
    <3> HIDE DEF U, dropped, last
    <3>3. Cardinality(dropped) = u
      BY <1>4, <3>2
    <3> QED BY <2>2, <2>4, <3>3
  <2> QED BY <2>3, <2>4
<1> QED BY <1>1, <1>2, <1>5

\* A wrapper takes its clones: a tensor that the thread does not hold on to,
\* and nobody else holds, is read for the last time at its last use.
LEMMA BeginKeeps ==
  ASSUME ClientInv, ClientAssumption, AllSound, ~Races, NEW s \in Threads,
         NEW op \in Signatures, NEW args, DOMAIN args \subseteq DOMAIN op.ins,
         args \in [DOMAIN args -> held[s]], MayUse(s, Range(args)),
         \A p \in DOMAIN args : kind[args[p]] = op.ins[p],
         NEW keep \in SUBSET Range(args), Begin(s, op, args, keep)
  PROVE  ClientInv'
<1> DEFINE used == Range(args)
           cloned == [t \in Tensors |->
                        IF t \notin used THEN count[t]
                        ELSE count[t] - 1 + Uses(args, t) + (IF t \in keep THEN 1 ELSE 0)]
           converted == Convert(args, cloned)
           last == LastOf(args)
           given == [op |-> op, args |-> args, statuses |-> converted.statuses,
                     owed |-> IF args = <<>> THEN FALSE
                              ELSE converted.statuses[last] = "ReadOnly"]
<1>1. /\ count' = converted.counts
      /\ held' = [held EXCEPT ![s] = @ \ (used \ keep)]
      /\ call' = [call EXCEPT ![s] = given]
      /\ UNCHANGED <<kind, origin, queue, handles, panicked>>
  BY DEF Begin
<1>2. TypesOK
  BY DEF ClientInv
<1>3. /\ count \in [Tensors -> Int] /\ Tensors = 1 .. Len(kind) /\ Len(kind) \in Nat
      /\ \A t : IsFiniteSet(Holders(t)) /\ Cardinality(Holders(t)) \in Nat
      /\ held[s] \subseteq Tensors
  BY <1>2, InvForms DEF TypesOK
<1>4. /\ call[s] = Idle
      /\ \A t \in used : \A r \in Threads : ~Given(r, t) /\ ~Owes(r, t)
      /\ \A t \in used : Owed(t) = 0
      /\ \A t : ~Given(s, t) /\ ~Owes(s, t)
  BY MayUseForms, InvForms
<1>5. PICK N \in Nat : DOMAIN args \in SUBSET (1 .. N)
  BY OpForms
<1>6. args \in [DOMAIN args -> Tensors]
  BY <1>3
<1>7. /\ used \subseteq Tensors
      /\ \A t : t \in used <=> \E p \in DOMAIN args : args[p] = t
      /\ \A t \in used : s \in Holders(t)
  BY <1>3 DEF Range, Holders
<1>8. Tensors' = Tensors
  BY <1>1 DEF Tensors
<1>9. \A t : IsFiniteSet({p \in DOMAIN args : args[p] = t}) /\ Uses(args, t) \in Nat
  <2>1. IsFiniteSet(1 .. N)
    <3>1. 1 \in Int /\ N \in Int
      OBVIOUS
    <3> QED BY <3>1, FS_Interval
  <2>2. ASSUME NEW t PROVE IsFiniteSet({p \in DOMAIN args : args[p] = t})
    BY <1>5, <2>1, FS_Subset
  <2> QED BY <2>2, FS_CardinalityType DEF Uses
<1>10. cloned \in [Tensors -> Int]
  <2>1. ASSUME NEW t \in Tensors
        PROVE  (IF t \notin used THEN count[t]
                ELSE count[t] - 1 + Uses(args, t) + (IF t \in keep THEN 1 ELSE 0)) \in Int
    <3>1. count[t] \in Int /\ Uses(args, t) \in Int
      <4>1. Uses(args, t) \in Nat
        BY <1>9
      <4>2. count[t] \in Int
        BY <1>3
      <4> QED BY <4>1, <4>2
    <3> HIDE DEF used
    <3> QED BY <3>1
  <2> QED BY <2>1
<1>11. \A t \in Tensors : cloned[t] =
         IF t \notin used THEN count[t]
         ELSE count[t] - 1 + Uses(args, t) + (IF t \in keep THEN 1 ELSE 0)
  OBVIOUS
<1>12. keep \subseteq used
  OBVIOUS
<1> HIDE DEF cloned, used
<1>13. \A r \in Threads : held'[r] = IF r = s THEN held[r] \ (used \ keep) ELSE held[r]
  BY <1>1, <1>2 DEF TypesOK
<1>14. /\ \A t : t \notin used => Holders(t)' = Holders(t)
       /\ \A t \in used : Holders(t)' = IF t \in keep THEN Holders(t) ELSE Holders(t) \ {s}
  <2>1. ASSUME NEW t, t \notin used, NEW r \in Threads PROVE t \in held'[r] <=> t \in held[r]
    <3>1. CASE r = s
      BY <1>13, <2>1, <3>1
    <3>2. CASE r # s
      BY <1>13, <3>2
    <3> QED BY <3>1, <3>2
  <2>2. ASSUME NEW t \in used, NEW r \in Threads
        PROVE  t \in held'[r] <=> t \in held[r] /\ (r # s \/ t \in keep)
    <3>1. CASE r = s
      BY <1>13, <2>2, <3>1
    <3>2. CASE r # s
      BY <1>13, <3>2
    <3> QED BY <3>1, <3>2
  <2> QED BY <2>1, <2>2 DEF Holders
<1>15. \A t : Cardinality(Holders(t)') \in Nat /\ IsFiniteSet(Holders(t)')
  <2>1. ASSUME NEW t PROVE Holders(t)' \in SUBSET Threads
    BY DEF Holders
  <2>2. ASSUME NEW t PROVE IsFiniteSet(Holders(t)')
    BY <2>1, FS_Subset DEF ClientAssumption
  <2> QED BY <2>2, FS_CardinalityType
<1>16. ASSUME NEW t \in used
       PROVE  cloned[t] = Cardinality(Holders(t)') + Uses(args, t)
  <2>1. PICK c \in Nat : c = Cardinality(Holders(t))
    BY <1>3
  <2>2. count[t] = c
    <3>1. t \in Tensors /\ Holders(t) # {} /\ Owed(t) = 0
      BY <1>4, <1>7
    <3> QED BY <2>1, <3>1 DEF ClientInv, Counted
  <2>3. cloned[t] = c - 1 + Uses(args, t) + (IF t \in keep THEN 1 ELSE 0)
    BY <1>7, <1>11, <2>2
  <2>4. Cardinality(Holders(t)') = IF t \in keep THEN c ELSE c - 1
    <3>1. CASE t \in keep
      BY <1>14, <2>1, <3>1
    <3>2. CASE t \notin keep
      <4>1. IsFiniteSet(Holders(t)) /\ s \in Holders(t)
        BY <1>3, <1>7
      <4>2. Cardinality(Holders(t) \ {s}) = c - 1
        BY <2>1, <4>1, FS_RemoveElement
      <4> QED BY <1>14, <3>2, <4>2
    <3> QED BY <3>1, <3>2
  <2>5. Uses(args, t) \in Nat
    BY <1>9
  <2>6. CASE t \in keep
    BY <2>3, <2>4, <2>5, <2>6
  <2>7. CASE t \notin keep
    BY <2>3, <2>4, <2>5, <2>7
  <2> QED BY <2>6, <2>7
<1>17. ASSUME NEW t \in used
       PROVE  /\ \A p \in DOMAIN args : args[p] = t =>
                   (converted.statuses[p] = "ReadWrite" <=>
                      Holders(t)' = {} /\ \A i \in DOMAIN args : args[i] = t => i <= p)
              /\ Holders(t)' # {} => converted.counts[t] =
                   Cardinality(Holders(t)') + (IF DOMAIN args # {} /\ args[last] = t THEN 1 ELSE 0)
  <2>1. PICK c \in Nat : c = Cardinality(Holders(t)') /\ (c = 0 <=> Holders(t)' = {})
    BY <1>15, FS_EmptySet
  <2>2. t \in Tensors /\ cloned[t] = c + Uses(args, t)
    BY <1>7, <1>16, <2>1
  <2>3. /\ \A p \in DOMAIN args : args[p] = t =>
             (Convert(args, cloned).statuses[p] = "ReadWrite" <=>
                c = 0 /\ \A i \in DOMAIN args : args[i] = t => i <= p)
        /\ c > 0 => Convert(args, cloned).counts[t] =
             c + (IF DOMAIN args # {} /\ args[LastOf(args)] = t THEN 1 ELSE 0)
    BY <1>5, <1>6, <1>10, <2>2, ConvertForms
  <2> QED BY <2>1, <2>3
<1>18. ASSUME NEW t \in Tensors PROVE converted.counts[t] \in Int /\ (t \notin used => converted.counts[t] = count[t])
  <2> DEFINE dropped == {p \in DOMAIN args :
                           args[p] = t /\ converted.statuses[p] = "ReadOnly" /\ p # last}
  <2>1. converted.counts[t] = cloned[t] - Cardinality(dropped)
    BY DEF Convert
  <2>2. IsFiniteSet(dropped) /\ Cardinality(dropped) \in Nat
    <3>1. IsFiniteSet(1 .. N)
      <4>1. 1 \in Int /\ N \in Int
        OBVIOUS
      <4> QED BY <4>1, FS_Interval
    <3>2. IsFiniteSet(dropped)
      BY <1>5, <3>1, FS_Subset
    <3> QED BY <3>2, FS_CardinalityType
  <2>3. t \notin used => dropped = {}
    BY <1>7
  <2> HIDE DEF dropped, converted
  <2>4. cloned[t] \in Int
    BY <1>10
  <2>5. CASE t \notin used
    <3>1. cloned[t] = count[t] /\ count[t] \in Int /\ Cardinality(dropped) = 0
      BY <1>3, <1>11, <2>3, <2>5, FS_EmptySet
    <3> QED BY <2>1, <3>1
  <2>6. CASE t \in used
    BY <2>1, <2>2, <2>4, <2>6
  <2> QED BY <2>5, <2>6
<1>19. count' \in Seq(Int) /\ Len(count') = Len(kind)
  <2>1. DOMAIN converted.counts = Tensors
    BY DEF Convert
  <2>2. converted.counts = [t \in Tensors |-> converted.counts[t]]
    BY DEF Convert
  <2>3. converted.counts \in [1 .. Len(kind) -> Int]
    <3> HIDE DEF converted
    <3> QED BY <1>3, <1>18, <2>1, <2>2
  <2> HIDE DEF converted
  <2>4. PICK n \in Nat : n = Len(kind)
    BY <1>3
  <2>5. count' \in [1 .. n -> Int]
    BY <1>1, <2>3, <2>4
  <2>6. count' \in Seq(Int)
    BY <2>5, SeqDef
  <2>7. Len(count') = n
    <3>1. DOMAIN count' = 1 .. Len(count') /\ Len(count') \in Nat
      BY <2>6, LenProperties
    <3> QED BY <2>5, <3>1
  <2> QED BY <2>4, <2>6, <2>7
<1>20. converted.statuses \in [DOMAIN args -> {"ReadOnly", "ReadWrite"}]
  BY DEF Convert, StatusOf
<1>21. /\ given.op = op /\ given.args = args /\ given.statuses = converted.statuses
       /\ given = [op |-> given.op, args |-> given.args,
                   statuses |-> given.statuses, owed |-> given.owed]
       /\ given.owed \in BOOLEAN
       /\ given.owed <=> DOMAIN args # {} /\ converted.statuses[last] = "ReadOnly"
  <2>1. args = <<>> <=> DOMAIN args = {}
    <3>1. ASSUME DOMAIN args = {} PROVE args = <<>>
      <4>1. args \in [{} -> {}]
        BY <1>6, <3>1
      <4>2. <<>> \in [{} -> {}]
        OBVIOUS
      <4> QED BY <4>1, <4>2
    <3>2. DOMAIN <<>> = {}
      OBVIOUS
    <3> QED BY <3>1, <3>2
  <2> HIDE DEF converted, last
  <2> QED BY <2>1
<1>22. \A r \in Threads : call'[r] = IF r = s THEN given ELSE call[r]
  BY <1>1, <1>2 DEF TypesOK
<1>23. call' = [r \in Threads |-> call'[r]]
  BY <1>1, <1>2 DEF TypesOK
<1> HIDE DEF given, converted
<1>24. PICK g, st :
         /\ call'[s] = g /\ st = g.statuses /\ g.op = op /\ g.args = args
         /\ g = [op |-> g.op, args |-> g.args, statuses |-> g.statuses, owed |-> g.owed]
         /\ st \in [DOMAIN args -> {"ReadOnly", "ReadWrite"}]
         /\ g.owed \in BOOLEAN
         /\ g.owed <=> DOMAIN args # {} /\ st[last] = "ReadOnly"
         /\ \A t \in used : \A p \in DOMAIN args : args[p] = t =>
              (st[p] = "ReadWrite" <=>
                 Holders(t)' = {} /\ \A i \in DOMAIN args : args[i] = t => i <= p)
  <2>1. \A t \in used : \A p \in DOMAIN args : args[p] = t =>
          (converted.statuses[p] = "ReadWrite" <=>
             Holders(t)' = {} /\ \A i \in DOMAIN args : args[i] = t => i <= p)
    BY <1>17
  <2>2. call'[s] = given
    BY <1>22
  <2> HIDE DEF last
  <2> WITNESS given, converted.statuses
  <2> QED BY <1>20, <1>21, <2>1, <2>2
<1>25. \A t \in used : Holders(t)' # {} =>
         count'[t] = Cardinality(Holders(t)') +
                       (IF DOMAIN args # {} /\ args[last] = t THEN 1 ELSE 0)
  BY <1>1, <1>17
<1>26. \A t \in Tensors : t \notin used => count'[t] = count[t]
  BY <1>1, <1>18
<1>27. ASSUME NEW p \in DOMAIN args
       PROVE  st[p] = "ReadWrite" <=>
                Holders(args[p])' = {} /\ \A i \in DOMAIN args : args[i] = args[p] => i <= p
  BY <1>7, <1>24
<1>28. DOMAIN args # {} => last \in DOMAIN args /\ \A q \in DOMAIN args : q <= last
  BY <1>5, LastForms
<1> HIDE DEF last
<1>29. last = LastOf(args)
  BY DEF last
<1>30. CallOK(g)'
  <2>1. g.args \in [DOMAIN g.args -> Tensors']
    BY <1>6, <1>8, <1>24
  <2>2. \A p \in DOMAIN g.args : kind'[g.args[p]] = g.op.ins[p]
    BY <1>1, <1>24
  <2>3. ASSUME g.owed
        PROVE  last \in DOMAIN args /\ Holders(args[last])' # {}
    <3>1. last \in DOMAIN args /\ \A q \in DOMAIN args : q <= last
      BY <1>24, <1>28, <2>3
    <3>2. st[last] # "ReadWrite"
      BY <1>24, <2>3
    <3> QED BY <1>27, <3>1, <3>2
  <2>4. g.op \in Signatures' /\ Signatures' = Signatures
    BY <1>24 DEF Signatures
  <2>5. \A p \in DOMAIN g.args :
          g.statuses[p] = "ReadWrite" <=>
            /\ Holders(g.args[p])' = {}
            /\ \A i \in DOMAIN g.args : g.args[i] = g.args[p] => i <= p
    BY <1>24, <1>27
  <2>6. /\ DOMAIN g.args \subseteq DOMAIN g.op.ins /\ g.owed \in BOOLEAN
        /\ g.statuses \in [DOMAIN g.args -> {"ReadOnly", "ReadWrite"}]
        /\ g = [op |-> g.op, args |-> g.args, statuses |-> g.statuses, owed |-> g.owed]
    BY <1>24
  <2>7. g.owed => /\ LastOf(g.args) \in DOMAIN g.args
                  /\ Holders(g.args[LastOf(g.args)])' # {}
    BY <1>24, <1>29, <2>3
  <2> QED BY <2>1, <2>2, <2>4, <2>5, <2>6, <2>7 DEF CallOK
<1>31. /\ \A r \in Threads : \A t : r # s => (Given(r, t)' <=> Given(r, t)) /\ (Owes(r, t)' <=> Owes(r, t))
       /\ \A t : Given(s, t)' <=> t \in used
       /\ \A t : Owes(s, t)' <=> g.owed /\ args[last] = t
  <2>1. \A r \in Threads : r # s => call'[r] = call[r]
    BY <1>22
  <2>2. ASSUME NEW t PROVE Given(s, t)' <=> t \in used
    BY <1>7, <1>24 DEF Given
  <2>3. ASSUME NEW t PROVE Owes(s, t)' <=> g.owed /\ args[last] = t
    BY <1>24, <1>29 DEF Owes
  <2> QED BY <2>1, <2>2, <2>3 DEF Given, Owes
<1>32. Calls'
  <2>1. ASSUME NEW r \in Threads PROVE (call[r] = Idle \/ CallOK(call[r]))'
    <3>1. CASE r = s
      BY <1>24, <1>30, <3>1
    <3>2. CASE r # s
      <4>1. call[r] = Idle \/ CallOK(call[r])
        BY DEF ClientInv, Calls
      <4>2. call'[r] = call[r]
        BY <1>22, <3>2
      <4>3. \A t \in Tensors : Given(r, t) =>
              t \in Tensors' /\ kind'[t] = kind[t] /\ Holders(t)' = Holders(t)
        BY <1>1, <1>4, <1>8, <1>14
      <4> QED BY <4>1, <4>2, <4>3, CallKept
    <3> QED BY <3>1, <3>2
  <2> QED BY <2>1 DEF Calls
<1>33. Exclusive'
  <2>1. ASSUME NEW x \in Threads, NEW r \in Threads, NEW t \in Tensors, Given(x, t)', Given(r, t)'
        PROVE  x = r
    <3>1. CASE t \in used
      BY <1>4, <1>31, <2>1, <3>1
    <3>2. CASE t \notin used
      <4>1. Given(x, t) /\ Given(r, t)
        BY <1>31, <2>1, <3>2
      <4> QED BY <4>1 DEF ClientInv, Exclusive
    <3> QED BY <3>1, <3>2
  <2> QED BY <1>8, <2>1 DEF Exclusive
<1>34. Counted'
  <2>1. ASSUME NEW t \in Tensors, Holders(t)' # {}
        PROVE  count'[t] = Cardinality(Holders(t)') + Owed(t)'
    <3>1. CASE t \in used
      <4>1. Owed(t)' = IF g.owed /\ args[last] = t THEN 1 ELSE 0
        <5>1. (\E r \in Threads : Owes(r, t)') <=> g.owed /\ args[last] = t
          BY <1>4, <1>31, <3>1
        <5> QED BY <5>1 DEF Owed
      <4>2. g.owed /\ args[last] = t <=> DOMAIN args # {} /\ args[last] = t
        <5>1. ASSUME DOMAIN args # {}, args[last] = t PROVE st[last] = "ReadOnly"
          <6>1. last \in DOMAIN args
            BY <1>28, <5>1
          <6>2. st[last] # "ReadWrite"
            BY <1>27, <2>1, <5>1, <6>1
          <6>3. st[last] \in {"ReadOnly", "ReadWrite"}
            BY <1>24, <6>1
          <6> QED BY <6>2, <6>3
        <5> QED BY <1>24, <5>1
      <4> QED BY <1>25, <2>1, <3>1, <4>1, <4>2
    <3>2. CASE t \notin used
      <4>1. Owed(t)' = Owed(t)
        <5>1. (\E r \in Threads : Owes(r, t)') <=> \E r \in Threads : Owes(r, t)
          <6>1. ~Owes(s, t)' /\ ~Owes(s, t)
            <7>1. ~(g.owed /\ args[last] = t)
              BY <1>7, <1>24, <1>28, <3>2
            <7> QED BY <1>4, <1>31, <7>1
          <6> QED BY <1>31, <6>1
        <5> QED BY <5>1 DEF Owed
      <4>2. Holders(t)' = Holders(t) /\ count'[t] = count[t]
        BY <1>14, <1>26, <3>2
      <4>3. count[t] = Cardinality(Holders(t)) + Owed(t)
        BY <2>1, <4>2 DEF ClientInv, Counted
      <4> QED BY <4>1, <4>2, <4>3
    <3> QED BY <3>1, <3>2
  <2> QED BY <1>8, <2>1 DEF Counted
<1>35. \A t : Alive(t)' <=> Alive(t)
  <2>1. ASSUME NEW t PROVE Alive(t)' <=> Alive(t)
    <3>1. CASE t \in used
      <4>1. Given(s, t)' /\ s \in Holders(t)
        BY <1>7, <1>31, <3>1
      <4> QED BY <4>1 DEF Alive
    <3>2. CASE t \notin used
      <4>1. \A r \in Threads : Given(r, t)' <=> Given(r, t)
        <5>1. ~Given(s, t) /\ ~Given(s, t)'
          BY <1>4, <1>31, <3>2
        <5> QED BY <1>31, <5>1
      <4> QED BY <1>14, <3>2, <4>1 DEF Alive
    <3> QED BY <3>1, <3>2
  <2> QED BY <2>1
<1>36. /\ (panicked = FALSE)' /\ Good(queue, handles)'
       /\ \A u : Survives(queue, handles, u)' <=> Survives(queue, handles, u)
       /\ \A x \in Threads : \A u : Works(queue[x], u)' <=> Works(queue[x], u)
  BY <1>1, ServerKept
<1>37. TypesOK'
  <2>1. held' \in [Threads -> SUBSET Tensors]
    BY <1>1, <1>2 DEF TypesOK
  <2> QED BY <1>1, <1>2, <1>8, <1>19, <1>23, <1>36, <2>1 DEF TypesOK
<1>38. Surviving'
  <2>1. Surviving
    BY DEF ClientInv
  <2> QED BY <1>8, <1>35, <1>36, <2>1 DEF Surviving
<1> QED BY <1>32, <1>33, <1>34, <1>36, <1>37, <1>38 DEF ClientInv

LEMMA CallWrapperKeeps ==
  ASSUME ClientInv, ClientAssumption, AllSound, ~Races, NEW s \in Threads, CallWrapper(s)
  PROVE  ClientInv'
<1>1. PICK op \in Signatures :
        \E present \in SUBSET op.opt :
          \E args \in [(DOMAIN op.ins \ op.opt) \cup present -> held[s]] :
            /\ MayUse(s, Range(args))
            /\ \A p \in DOMAIN args : kind[args[p]] = op.ins[p]
            /\ \E keep \in SUBSET Range(args) : Begin(s, op, args, keep)
  BY DEF CallWrapper
<1>2. PICK present \in SUBSET op.opt :
        \E args \in [(DOMAIN op.ins \ op.opt) \cup present -> held[s]] :
          /\ MayUse(s, Range(args))
          /\ \A p \in DOMAIN args : kind[args[p]] = op.ins[p]
          /\ \E keep \in SUBSET Range(args) : Begin(s, op, args, keep)
  BY <1>1
<1>3. PICK args \in [(DOMAIN op.ins \ op.opt) \cup present -> held[s]] :
        /\ MayUse(s, Range(args))
        /\ \A p \in DOMAIN args : kind[args[p]] = op.ins[p]
        /\ \E keep \in SUBSET Range(args) : Begin(s, op, args, keep)
  BY <1>2
<1>4. PICK keep \in SUBSET Range(args) : Begin(s, op, args, keep)
  BY <1>3
<1>5. DOMAIN args \subseteq DOMAIN op.ins
  BY OpForms
<1>6. args \in [DOMAIN args -> held[s]]
  OBVIOUS
<1> QED BY <1>3, <1>4, <1>5, <1>6, BeginKeeps

\* The clone that a wrapper dropped at last was not the last one: its status
\* said that others were left, and nobody takes them meanwhile.
LEMMA DropCloneKeeps ==
  ASSUME ClientInv, ClientAssumption, NEW s \in Threads, DropClone(s)
  PROVE  ClientInv'
<1> DEFINE c == call[s]
<1>0. PICK t : t = c.args[LastOf(c.args)]
  OBVIOUS
<1>1. /\ call[s].owed
      /\ count' = [count EXCEPT ![t] = @ - 1]
      /\ StatusOf(count[t]) # "ReadWrite" => UNCHANGED <<queue, handles, panicked>>
      /\ call' = [call EXCEPT ![s].owed = FALSE]
      /\ UNCHANGED <<kind, origin, held>>
  BY <1>0 DEF DropClone
<1>2. TypesOK
  BY DEF ClientInv
<1>3. CallOK(c)
  <2>1. c # Idle
    BY <1>1 DEF Idle
  <2> QED BY <2>1 DEF ClientInv, Calls
<1>4. Owes(s, t) /\ Given(s, t) /\ Holders(t) # {} /\ t \in Tensors
  <2>1. Owes(s, t)
    BY <1>0, <1>1 DEF Owes
  <2> QED BY <2>1, InvForms
<1>5. PICK n \in Nat : n = Cardinality(Holders(t)) /\ n > 0
  <2>1. IsFiniteSet(Holders(t)) /\ Cardinality(Holders(t)) \in Nat
    BY InvForms
  <2>2. Cardinality(Holders(t)) # 0
    BY <1>4, <2>1, FS_EmptySet
  <2> QED BY <2>1, <2>2
<1>6. count[t] = n + 1
  <2>1. Owed(t) = 1
    BY <1>4 DEF Owed
  <2>2. count[t] = Cardinality(Holders(t)) + Owed(t)
    BY <1>4 DEF ClientInv, Counted
  <2> QED BY <1>5, <2>1, <2>2
<1>7. UNCHANGED <<queue, handles, panicked>>
  <2>1. StatusOf(count[t]) = "ReadOnly"
    BY <1>5, <1>6 DEF StatusOf
  <2>2. "ReadOnly" # "ReadWrite"
    OBVIOUS
  <2> QED BY <1>1, <2>1, <2>2
<1>8. PICK g : g = [c EXCEPT !.owed = FALSE] /\ \A r \in Threads : call'[r] = IF r = s THEN g ELSE call[r]
  <2>1. \A r \in Threads : call'[r] = IF r = s THEN [c EXCEPT !.owed = FALSE] ELSE call[r]
    BY <1>1, <1>2 DEF TypesOK
  <2> QED BY <2>1
<1>9. call' = [r \in Threads |-> call'[r]]
  BY <1>1, <1>2 DEF TypesOK
<1>10. /\ g.op = c.op /\ g.args = c.args /\ g.statuses = c.statuses
       /\ g.owed = FALSE
       /\ g = [op |-> g.op, args |-> g.args, statuses |-> g.statuses, owed |-> g.owed]
  <2>1. PICK o, a, u, w : c = [op |-> o, args |-> a, statuses |-> u, owed |-> w]
    BY <1>3 DEF CallOK
  <2> QED BY <1>8, <2>1
<1>11. /\ Tensors' = Tensors
       /\ \A u : Holders(u)' = Holders(u)
       /\ \A r \in Threads : \A u : Given(r, u)' <=> Given(r, u)
       /\ \A r \in Threads : \A u : Owes(r, u)' <=> Owes(r, u) /\ r # s
  <2>1. ASSUME NEW r \in Threads, NEW u
        PROVE  (Given(r, u)' <=> Given(r, u)) /\ (Owes(r, u)' <=> Owes(r, u) /\ r # s)
    <3>1. CASE r = s
      <4>1. call'[r] = g
        BY <1>8, <3>1
      <4> QED BY <1>10, <3>1, <4>1 DEF Given, Owes
    <3>2. CASE r # s
      <4>1. call'[r] = call[r]
        BY <1>8, <3>2
      <4> QED BY <3>2, <4>1 DEF Given, Owes
    <3> QED BY <3>1, <3>2
  <2> QED BY <1>1, <2>1 DEF Tensors, Holders
<1>12. CallOK(g)'
  <2>1. /\ g.op \in Signatures' /\ DOMAIN g.args \subseteq DOMAIN g.op.ins
        /\ g.args \in [DOMAIN g.args -> Tensors']
        /\ g.statuses \in [DOMAIN g.args -> {"ReadOnly", "ReadWrite"}]
        /\ \A p \in DOMAIN g.args : kind'[g.args[p]] = g.op.ins[p]
    BY <1>1, <1>3, <1>10, <1>11 DEF CallOK, Signatures
  <2>2. \A p \in DOMAIN g.args :
          g.statuses[p] = "ReadWrite" <=>
            /\ Holders(g.args[p])' = {}
            /\ \A i \in DOMAIN g.args : g.args[i] = g.args[p] => i <= p
    BY <1>3, <1>10, <1>11 DEF CallOK
  <2> QED BY <1>10, <2>1, <2>2 DEF CallOK
<1>13. Calls'
  <2>1. ASSUME NEW r \in Threads PROVE (call[r] = Idle \/ CallOK(call[r]))'
    <3>1. CASE r = s
      BY <1>8, <1>12, <3>1
    <3>2. CASE r # s
      <4>1. call[r] = Idle \/ CallOK(call[r])
        BY DEF ClientInv, Calls
      <4>2. call'[r] = call[r]
        BY <1>8, <3>2
      <4> QED BY <1>1, <1>11, <4>1, <4>2, CallKept
    <3> QED BY <3>1, <3>2
  <2> QED BY <2>1 DEF Calls
<1>14. Exclusive'
  BY <1>11 DEF ClientInv, Exclusive
<1>15. count' \in Seq(Int) /\ Len(count') = Len(count) /\ \A u \in Tensors : count'[u] = IF u = t THEN n ELSE count[u]
  <2>1. /\ count \in Seq(Int) /\ Len(count) = Len(kind) /\ Tensors = 1 .. Len(kind)
        /\ count \in [Tensors -> Int]
    BY <1>2, InvForms DEF TypesOK
  <2>2. count[t] - 1 = n /\ n \in Int /\ t \in 1 .. Len(count)
    BY <1>4, <1>6, <2>1
  <2>3. count' = [count EXCEPT ![t] = n]
    BY <1>1, <2>2
  <2>4. count' \in Seq(Int) /\ Len(count') = Len(count)
    BY <2>1, <2>2, <2>3, ExceptSeq
  <2> QED BY <2>1, <2>3, <2>4
<1>16. Counted'
  <2>1. ASSUME NEW u \in Tensors, Holders(u)' # {}
        PROVE  count'[u] = Cardinality(Holders(u)') + Owed(u)'
    <3>1. CASE u = t
      <4>1. \A r \in Threads : ~Owes(r, t)'
        <5>1. ASSUME NEW r \in Threads, Owes(r, t), r # s PROVE FALSE
          <6>1. Given(r, t)
            BY <5>1, InvForms
          <6> QED BY <1>4, <5>1, <6>1 DEF ClientInv, Exclusive
        <5> QED BY <1>11, <5>1
      <4>2. Owed(t)' = 0
        BY <4>1 DEF Owed
      <4>3. Cardinality(Holders(t)') = n /\ count'[t] = n
        BY <1>4, <1>5, <1>11, <1>15
      <4>4. n = n + 0
        OBVIOUS
      <4> QED BY <3>1, <4>2, <4>3, <4>4
    <3>2. CASE u # t
      <4>1. \A r \in Threads : Owes(r, u)' <=> Owes(r, u)
        <5>1. ~Owes(s, u)
          BY <1>0, <3>2 DEF Owes
        <5> QED BY <1>11, <5>1
      <4>2. Owed(u)' = Owed(u)
        BY <4>1 DEF Owed
      <4>3. Holders(u)' = Holders(u) /\ count'[u] = count[u]
        BY <1>11, <1>15, <3>2
      <4>4. count[u] = Cardinality(Holders(u)) + Owed(u)
        BY <2>1, <4>3 DEF ClientInv, Counted
      <4> QED BY <4>2, <4>3, <4>4
    <3> QED BY <3>1, <3>2
  <2> QED BY <1>11, <2>1 DEF Counted
<1>17. \A u : Alive(u)' <=> Alive(u)
  BY <1>11 DEF Alive
<1>18. /\ (panicked = FALSE)' /\ Good(queue, handles)'
       /\ \A u : Survives(queue, handles, u)' <=> Survives(queue, handles, u)
       /\ \A x \in Threads : \A u : Works(queue[x], u)' <=> Works(queue[x], u)
  BY <1>7, ServerKept
<1>19. TypesOK'
  BY <1>1, <1>2, <1>7, <1>9, <1>11, <1>15, <1>18 DEF TypesOK
<1>20. Surviving'
  <2>1. Surviving
    BY DEF ClientInv
  <2> QED BY <1>11, <1>17, <1>18, <2>1 DEF Surviving
<1> QED BY <1>13, <1>14, <1>16, <1>18, <1>19, <1>20 DEF ClientInv

\* What the closure of a wrapper reads.
ReadsOf(c) ==
  [i \in {j \in DOMAIN c.op.gets : c.op.gets[j] \in DOMAIN c.args} |->
     [id |-> c.args[c.op.gets[i]], status |-> c.statuses[c.op.gets[i]]]]

Registers(s, c, new, e) ==
  /\ c = call[s] /\ CallOK(c)
  /\ new \in SUBSET Nat
  /\ \A t \in new : t \notin Tensors
  /\ e = Entry(ReadsOf(c), new, {})

\* The operation that a wrapper registers reads what it was given, every tensor
\* for the last time where nobody holds it any more, and makes what is new.
LEMMA RegisteredForms ==
  ASSUME ClientInv, ClientAssumption, AllSound, NEW s \in Threads, NEW c, NEW new, NEW e,
         Registers(s, c, new, e)
  PROVE  /\ e \in Entries
         /\ e.outs = new
         /\ \A t : About(e, t) <=> t \in new \/ Given(s, t)
         /\ \A t : Ends(e, t) <=> Given(s, t) /\ Holders(t) = {}
<1>00. /\ c = call[s] /\ CallOK(c)
       /\ new \in SUBSET Nat
       /\ \A t \in new : t \notin Tensors
       /\ e = Entry(ReadsOf(c), new, {})
  BY DEF Registers
<1>0. PICK op, args, statuses, gets, reads :
        /\ op = c.op /\ args = c.args /\ statuses = c.statuses /\ gets = c.op.gets
        /\ reads = ReadsOf(c)
  OBVIOUS
<1> DEFINE R == {j \in DOMAIN gets : gets[j] \in DOMAIN args}
<1>1. /\ op \in Signatures
      /\ DOMAIN args \subseteq DOMAIN op.ins
      /\ args \in [DOMAIN args -> Tensors]
      /\ statuses \in [DOMAIN args -> {"ReadOnly", "ReadWrite"}]
      /\ \A p \in DOMAIN args : kind[args[p]] = op.ins[p]
      /\ \A p \in DOMAIN args :
           statuses[p] = "ReadWrite" <=>
             Holders(args[p]) = {} /\ \A i \in DOMAIN args : args[i] = args[p] => i <= p
  BY <1>0, <1>00 DEF CallOK
<1>2. /\ \A p \in DOMAIN op.ins : \E i \in DOMAIN gets : gets[i] = p
      /\ \A i, j \in DOMAIN gets : i < j /\ op.ins[gets[i]] = op.ins[gets[j]] => gets[i] < gets[j]
      /\ DOMAIN gets \in SUBSET Nat
  BY <1>0, <1>1, OpForms DEF Sound
<1>3. PICK N \in Nat : DOMAIN args \in SUBSET (1 .. N)
  <2>1. DOMAIN op.ins = 1 .. Len(op.ins) /\ Len(op.ins) \in Nat
    BY <1>1, OpForms
  <2> QED BY <1>1, <2>1
<1>4. /\ \A t : Given(s, t) <=> \E p \in DOMAIN args : args[p] = t
      /\ \A t \in Tensors : t \in Nat
  <2>1. \A t : Given(s, t) <=> \E p \in DOMAIN args : args[p] = t
    BY <1>0, <1>00 DEF Given
  <2> QED BY <2>1, InvForms
<1>5. /\ DOMAIN reads = R
      /\ \A i \in R : reads[i] = [id |-> args[gets[i]], status |-> statuses[gets[i]]]
      /\ e.reads = reads /\ e.outs = new /\ e.drops = {}
  BY <1>0, <1>00 DEF Entry, ReadsOf
<1>6. \A i \in R : /\ i \in DOMAIN gets /\ gets[i] \in DOMAIN args /\ i \in Nat
                   /\ args[gets[i]] \in Tensors /\ args[gets[i]] \in Nat
                   /\ statuses[gets[i]] \in {"ReadOnly", "ReadWrite"}
  BY <1>1, <1>2, <1>4
<1>7. \A p \in DOMAIN args : \E i \in R : gets[i] = p
  BY <1>1, <1>2
<1> HIDE DEF R
<1>8. ASSUME NEW i \in R PROVE reads[i].id = args[gets[i]] /\ reads[i].status = statuses[gets[i]]
  <2>1. reads[i] = [id |-> args[gets[i]], status |-> statuses[gets[i]]]
    BY <1>5
  <2> QED BY <2>1
<1>9. reads \in [R -> Read] /\ R \in SUBSET Nat
  <2>1. ASSUME NEW i \in R PROVE reads[i] \in Read
    <3>1. reads[i] = [id |-> args[gets[i]], status |-> statuses[gets[i]]]
      BY <1>5
    <3>2. args[gets[i]] \in Nat /\ statuses[gets[i]] \in {"ReadOnly", "ReadWrite"}
      BY <1>6
    <3> QED BY <3>1, <3>2 DEF Read
  <2>2. reads = [i \in R |-> reads[i]]
    <3>1. reads = [i \in DOMAIN reads |-> reads[i]]
      BY <1>0 DEF ReadsOf
    <3> QED BY <1>5, <3>1
  <2> QED BY <1>6, <2>1, <2>2
<1>10. ASSUME NEW i \in R, NEW j \in R, j < i
       PROVE  reads[j] # [id |-> reads[i].id, status |-> "ReadWrite"]
  <2>1. SUFFICES ASSUME reads[j] = [id |-> reads[i].id, status |-> "ReadWrite"] PROVE FALSE
    OBVIOUS
  <2>2. args[gets[j]] = args[gets[i]] /\ statuses[gets[j]] = "ReadWrite"
    BY <1>8, <2>1
  <2>3. gets[i] \in DOMAIN args /\ gets[j] \in DOMAIN args
    BY <1>6
  <2>4. gets[i] <= gets[j]
    BY <1>1, <2>2, <2>3
  <2>5. op.ins[gets[j]] = op.ins[gets[i]]
    BY <1>1, <2>2, <2>3
  <2>6. gets[j] < gets[i]
    BY <1>2, <1>6, <1>10, <2>5
  <2>7. gets[i] \in Nat /\ gets[j] \in Nat
    BY <1>3, <2>3
  <2> QED BY <2>4, <2>6, <2>7
<1>11. \A t : Reads(e, t) <=> Given(s, t)
  <2>1. ASSUME NEW t, NEW i \in R, reads[i].id = t PROVE Given(s, t)
    BY <1>4, <1>6, <1>8, <2>1
  <2>2. ASSUME NEW t, Given(s, t) PROVE \E i \in R : reads[i].id = t
    <3>1. PICK p \in DOMAIN args : args[p] = t
      BY <1>4, <2>2
    <3>2. PICK i \in R : gets[i] = p
      BY <1>7
    <3> QED BY <1>8, <3>1, <3>2
  <2> QED BY <1>5, <2>1, <2>2 DEF Reads
<1>12. e \in Entries
  <2>1. e \in [reads : UNION {[J -> Read] : J \in SUBSET Nat}, outs : SUBSET Nat, drops : SUBSET Nat]
    <3>1. reads \in UNION {[J -> Read] : J \in SUBSET Nat}
      BY <1>9
    <3>2. e = [reads |-> reads, outs |-> new, drops |-> {}] /\ new \in SUBSET Nat
      BY <1>0, <1>00 DEF Entry
    <3>3. {} \in SUBSET Nat
      OBVIOUS
    <3> QED BY <3>1, <3>2, <3>3
  <2>2. \A i, j \in DOMAIN e.reads :
          j < i => e.reads[j] # [id |-> e.reads[i].id, status |-> "ReadWrite"]
    BY <1>5, <1>10
  <2>3. \A t \in e.outs : ~Reads(e, t) /\ t \notin e.drops
    <3>1. \A t : Given(s, t) => t \in Tensors
      BY <1>1, <1>4
    <3> QED BY <1>00, <1>5, <1>11, <3>1
  <2> QED BY <2>1, <2>2, <2>3 DEF Entries
<1>13. ASSUME NEW t PROVE About(e, t) <=> t \in new \/ Given(s, t)
  BY <1>5, <1>11 DEF About
<1>14. ASSUME NEW t PROVE Ends(e, t) <=> Given(s, t) /\ Holders(t) = {}
  <2>1. Ends(e, t) <=> \E i \in R : reads[i] = [id |-> t, status |-> "ReadWrite"]
    BY <1>5, <1>12, EntryForms DEF Ends
  <2>2. ASSUME NEW i \in R, reads[i] = [id |-> t, status |-> "ReadWrite"]
        PROVE  Given(s, t) /\ Holders(t) = {}
    <3>1. args[gets[i]] = t /\ statuses[gets[i]] = "ReadWrite"
      BY <1>8, <2>2
    <3>2. gets[i] \in DOMAIN args
      BY <1>6
    <3> QED BY <1>1, <1>4, <3>1, <3>2
  <2>3. ASSUME Given(s, t), Holders(t) = {}
        PROVE  \E i \in R : reads[i] = [id |-> t, status |-> "ReadWrite"]
    <3> DEFINE U == {p \in DOMAIN args : args[p] = t}
               uses == [p \in U |-> t]
    <3>1. DOMAIN uses \in SUBSET (1 .. N) /\ DOMAIN uses # {} /\ DOMAIN uses = U
      BY <1>3, <1>4, <2>3
    <3> HIDE DEF uses
    <3>2. PICK p \in U : \A q \in U : q <= p
      BY <3>1, LastForms
    <3>3. p \in DOMAIN args /\ args[p] = t /\ \A q \in DOMAIN args : args[q] = args[p] => q <= p
      BY <3>2
    <3>4. statuses[p] = "ReadWrite"
      BY <1>1, <2>3, <3>3
    <3>5. PICK i \in R : gets[i] = p
      BY <1>7, <3>3
    <3> QED BY <1>5, <3>3, <3>4, <3>5
  <2> QED BY <2>1, <2>2, <2>3
<1> QED BY <1>5, <1>12, <1>13, <1>14

\* A wrapper registers its operation: the outputs are new tensors of the thread,
\* and what was given to the wrapper and is held by nobody is gone after it.
LEMMA RegisterOpKeeps ==
  ASSUME ClientInv, ClientAssumption, AllSound, NEW s \in Threads, RegisterOp(s)
  PROVE  ClientInv'
<1>0. PICK c : c = call[s]
  OBVIOUS
<1>1. CallOK(c) /\ call[s].owed = FALSE
  <2>1. c # Idle /\ ~c.owed
    BY <1>0 DEF RegisterOp
  <2>2. CallOK(c)
    BY <1>0, <2>1 DEF ClientInv, Calls
  <2> QED BY <1>0, <2>1, <2>2 DEF CallOK
<1>2. TypesOK /\ Good(queue, handles) /\ Surviving /\ Exclusive
  BY DEF ClientInv
<1>3. /\ Len(kind) \in Nat /\ Tensors = 1 .. Len(kind)
      /\ \A u \in Tensors : u \in Nat
      /\ \A r \in Threads : \A u : Works(queue[r], u) => u \in Tensors
      /\ \A r \in Threads : \A u : Given(r, u) => u \in Tensors
      /\ handles \in SUBSET Nat /\ queue \in [Threads -> Seq(Entries)]
      /\ handles \subseteq Tensors
  BY <1>2, InvForms DEF TypesOK
<1>4. PICK n \in Nat : n = Len(kind)
  BY <1>3
<1>5. PICK op \in Signatures : op = c.op
  BY <1>1 DEF CallOK
<1>6. /\ op.outs \in Seq(Names)
      /\ DOMAIN op.outs = 1 .. Len(op.outs) /\ Len(op.outs) \in Nat
      /\ DOMAIN op.ins \subseteq op.streams
      /\ DOMAIN op.outs \subseteq op.makes
  BY OpForms DEF Sound
<1>7. PICK outputs : outputs = Outputs(op, c.args)
  OBVIOUS
<1>8. PICK m \in Nat : outputs \in [1 .. m -> DOMAIN op.outs]
  <2> DEFINE J == {i \in DOMAIN op.outs : i \in op.optouts => i \in DOMAIN c.args}
  <2>1. J \in SUBSET (1 .. Len(op.outs))
    BY <1>6
  <2>2. outputs = InOrder(J)
    BY <1>7 DEF Outputs
  <2> HIDE DEF J
  <2>3. InOrder(J) \in [1 .. Cardinality(J) -> J] /\ Cardinality(J) \in Nat
    BY <1>6, <2>1, InOrderForms
  <2>4. InOrder(J) \in [1 .. Cardinality(J) -> DOMAIN op.outs]
    BY <1>6, <2>1, <2>3
  <2> QED BY <2>2, <2>3, <2>4
<1>9. PICK new : new = {n + i : i \in 1 .. m}
  OBVIOUS
<1>10. PICK ts : ts = {c.args[p] : p \in c.op.streams \cap DOMAIN c.args}
  OBVIOUS
<1>11. PICK e : e = Entry(ReadsOf(c), new, {})
  OBVIOUS
<1>12. DOMAIN outputs = 1 .. m /\ \A i \in 1 .. m : outputs[i] \in DOMAIN op.outs /\ outputs[i] \in op.makes
  BY <1>6, <1>8
<1>13. /\ kind' = kind \o [i \in 1 .. m |-> op.outs[outputs[i]]]
       /\ origin' = origin \o [i \in 1 .. m |-> s]
       /\ count' = count \o [i \in 1 .. m |-> 1]
       /\ held' = [held EXCEPT ![s] = @ \cup new]
       /\ Submit(s, e, ts, handles)
       /\ call' = [call EXCEPT ![s] = Idle]
  <2> DEFINE id(i) == Len(kind) + i
             reads == [i \in {j \in DOMAIN c.op.gets : c.op.gets[j] \in DOMAIN c.args} |->
                         [id |-> c.args[c.op.gets[i]], status |-> c.statuses[c.op.gets[i]]]]
             made == {id(i) : i \in {j \in DOMAIN outputs : outputs[j] \in c.op.makes}}
             all == {id(i) : i \in DOMAIN outputs}
  <2>1. /\ kind' = kind \o [i \in DOMAIN outputs |-> c.op.outs[outputs[i]]]
        /\ origin' = origin \o [i \in DOMAIN outputs |-> s]
        /\ count' = count \o [i \in DOMAIN outputs |-> 1]
        /\ held' = [held EXCEPT ![s] = @ \cup all]
        /\ Submit(s, Entry(reads, made, {}), {c.args[p] : p \in c.op.streams \cap DOMAIN c.args}, handles)
        /\ call' = [call EXCEPT ![s] = Idle]
    BY <1>0, <1>5, <1>7 DEF RegisterOp
  <2>2. reads = ReadsOf(c)
    BY DEF ReadsOf
  <2> HIDE DEF reads
  <2>3. {j \in DOMAIN outputs : outputs[j] \in c.op.makes} = 1 .. m
    BY <1>5, <1>12
  <2>4. made = new /\ all = new
    BY <1>4, <1>9, <1>12, <2>3
  <2> HIDE DEF made, all
  <2> QED BY <1>5, <1>10, <1>11, <1>12, <2>1, <2>2, <2>4
<1>14. /\ kind' \in Seq(Names) /\ origin' \in Seq(Threads) /\ count' \in Seq(Int)
       /\ Len(kind') = n + m /\ Len(origin') = n + m /\ Len(count') = n + m
       /\ \A u \in Tensors : kind'[u] = kind[u] /\ count'[u] = count[u]
       /\ \A u \in new : count'[u] = 1
  <2>1. /\ kind \in Seq(Names) /\ origin \in Seq(Threads) /\ count \in Seq(Int)
        /\ Len(origin) = n /\ Len(count) = n
    BY <1>2, <1>4 DEF TypesOK
  <2> DEFINE a == [i \in 1 .. m |-> op.outs[outputs[i]]]
             b == [i \in 1 .. m |-> s]
             d == [i \in 1 .. m |-> 1]
  <2>2. /\ a \in Seq(Names) /\ Len(a) = m
        /\ b \in Seq(Threads) /\ Len(b) = m
        /\ d \in Seq(Int) /\ Len(d) = m
    <3>1. \A i \in 1 .. m : op.outs[outputs[i]] \in Names
      BY <1>6, <1>12, ElementOfSeq
    <3>2. a \in [1 .. m -> Names]
      BY <3>1
    <3>3. b \in [1 .. m -> Threads] /\ d \in [1 .. m -> Int]
      OBVIOUS
    <3> HIDE DEF a, b, d
    <3>4. a \in Seq(Names) /\ b \in Seq(Threads) /\ d \in Seq(Int)
      BY <3>2, <3>3, SeqDef
    <3>5. /\ DOMAIN a = 1 .. Len(a) /\ Len(a) \in Nat
          /\ DOMAIN b = 1 .. Len(b) /\ Len(b) \in Nat
          /\ DOMAIN d = 1 .. Len(d) /\ Len(d) \in Nat
      BY <3>4, LenProperties
    <3>6. DOMAIN a = 1 .. m /\ DOMAIN b = 1 .. m /\ DOMAIN d = 1 .. m
      BY <3>2, <3>3
    <3>7. \A k \in Nat : 1 .. k = 1 .. m => k = m
      OBVIOUS
    <3> QED BY <3>4, <3>5, <3>6, <3>7
  <2>3. \A i \in 1 .. m : d[i] = 1
    OBVIOUS
  <2>4. kind' = kind \o a /\ origin' = origin \o b /\ count' = count \o d
    BY <1>13
  <2> HIDE DEF a, b, d
  <2>5. /\ kind' \in Seq(Names) /\ Len(kind') = n + m
        /\ \A u \in 1 .. n : kind'[u] = kind[u]
    <3>1. /\ kind \o a \in Seq(Names) /\ Len(kind \o a) = Len(kind) + Len(a)
          /\ \A i \in 1 .. Len(kind) + Len(a) :
               (kind \o a)[i] = IF i <= Len(kind) THEN kind[i] ELSE a[i - Len(kind)]
      BY <2>1, <2>2, ConcatProperties
    <3>2. \A u \in 1 .. n : u \in 1 .. n + m /\ u <= n
      OBVIOUS
    <3> QED BY <1>4, <2>2, <2>4, <3>1, <3>2
  <2>6. origin' \in Seq(Threads) /\ Len(origin') = n + m
    <3>1. origin \o b \in Seq(Threads) /\ Len(origin \o b) = Len(origin) + Len(b)
      BY <2>1, <2>2, ConcatProperties
    <3> QED BY <2>1, <2>2, <2>4, <3>1
  <2>7. /\ count' \in Seq(Int) /\ Len(count') = n + m
        /\ \A u \in 1 .. n : count'[u] = count[u]
        /\ \A u \in new : count'[u] = 1
    <3>1. /\ count \o d \in Seq(Int) /\ Len(count \o d) = Len(count) + Len(d)
          /\ \A i \in 1 .. Len(count) + Len(d) :
               (count \o d)[i] = IF i <= Len(count) THEN count[i] ELSE d[i - Len(count)]
      BY <2>1, <2>2, ConcatProperties
    <3>2. \A u \in 1 .. n : u \in 1 .. n + m /\ u <= n
      OBVIOUS
    <3>3. ASSUME NEW u \in new PROVE u \in 1 .. n + m /\ ~(u <= n) /\ u - n \in 1 .. m
      BY <1>9
    <3> QED BY <2>1, <2>2, <2>3, <2>4, <3>1, <3>2, <3>3
  <2> QED BY <1>3, <1>4, <2>5, <2>6, <2>7
<1>15. /\ Tensors' = Tensors \cup new
       /\ \A t \in new : t \notin Tensors /\ t \in Nat
       /\ held' \in [Threads -> SUBSET Tensors']
       /\ call' = [r \in Threads |-> call'[r]]
       /\ Calls' /\ Exclusive' /\ Counted'
       /\ \A t \in new : Alive(t)'
       /\ \A t \in Tensors :
            Alive(t)' <=> Holders(t) # {} \/ \E r \in Threads : r # s /\ Given(r, t)
  <2>1. new = {Len(kind) + i : i \in 1 .. m}
    BY <1>4, <1>9
  <2>2. Creates(s, m, new)
    BY <1>1, <1>4, <1>13, <1>14, <2>1 DEF Creates
  <2> QED BY <2>2, Created
<1>16. /\ e \in Entries
       /\ e.outs = new
       /\ \A t : About(e, t) <=> t \in new \/ Given(s, t)
       /\ \A t : Ends(e, t) <=> Given(s, t) /\ Holders(t) = {}
  <2>1. Registers(s, c, new, e)
    BY <1>0, <1>1, <1>11, <1>15 DEF Registers
  <2> QED BY <2>1, RegisteredForms
<1>17. \A t : Given(s, t) => t \in ts
  <2>1. DOMAIN c.args \subseteq c.op.streams
    BY <1>1, <1>5, <1>6 DEF CallOK
  <2> QED BY <1>0, <1>10, <2>1 DEF Given
<1>18. /\ panicked' = FALSE
       /\ queue' \in [Threads -> Seq(Entries)]
       /\ \A r \in Threads : \A t :
            Works(queue'[r], t) => About(e, t) \/ \E u \in Threads : Works(queue[u], t)
       /\ \A t \in handles' : t \in handles \/ \E r \in Threads : Works(queue[r], t)
       /\ Good(queue', handles')
       /\ \A t \in Nat : Survives(queue', handles', t) <=>
            (Survives(queue, handles, t) \/ t \in e.outs) /\ ~Ends(e, t)
  <2>1. ASSUME NEW t \in Nat, About(e, t)
        PROVE  /\ t \in ts \/ \A r \in Threads : ~Works(queue[r], t)
               /\ t \in e.outs => t \notin handles /\ \A r \in Threads : ~Works(queue[r], t)
               /\ t \notin e.outs => Survives(queue, handles, t)
    <3>1. CASE t \in new
      <4>1. t \notin Tensors
        BY <1>15, <3>1
      <4> QED BY <1>3, <1>16, <3>1, <4>1
    <3>2. CASE t \notin new
      <4>1. Given(s, t) /\ t \in Tensors /\ t \in ts
        BY <1>3, <1>16, <1>17, <2>1, <3>2
      <4>2. Survives(queue, handles, t)
        BY <1>2, <4>1 DEF Surviving, Alive
      <4> QED BY <1>16, <3>2, <4>1, <4>2
    <3> QED BY <3>1, <3>2
  <2> QED BY <1>2, <1>3, <1>13, <1>16, <2>1, SubmitForms
<1>19. TypesOK'
  <2>1. handles' \subseteq Tensors'
    BY <1>3, <1>15, <1>18
  <2>2. \A r \in Threads : \A u \in Nat : Works(queue'[r], u) => u \in Tensors'
    BY <1>3, <1>15, <1>16, <1>18
  <2> QED BY <1>14, <1>15, <1>18, <2>1, <2>2 DEF TypesOK
<1>20. Surviving'
  <2>1. ASSUME NEW u \in Tensors' PROVE Alive(u)' <=> Survives(queue', handles', u)
    <3>1. CASE u \in new
      <4>1. ~Given(s, u)
        BY <1>3, <1>15, <3>1
      <4> QED BY <1>15, <1>16, <1>18, <3>1, <4>1
    <3>2. CASE u \in Tensors
      <4>1. u \notin new /\ u \in Nat
        BY <1>3, <1>15, <3>2
      <4>2. Survives(queue', handles', u) <=> Alive(u) /\ ~(Given(s, u) /\ Holders(u) = {})
        BY <1>2, <1>16, <1>18, <3>2, <4>1 DEF Surviving
      <4>3. Given(s, u) => \A r \in Threads : Given(r, u) => r = s
        BY <1>2, <3>2 DEF Exclusive
      <4> QED BY <1>15, <3>2, <4>2, <4>3 DEF Alive
    <3> QED BY <1>15, <3>1, <3>2
  <2> QED BY <2>1 DEF Surviving
<1> QED BY <1>15, <1>18, <1>19, <1>20 DEF ClientInv

-----------------------------------------------------------------------------
(* The theorems. *)

LEMMA KindNames ==
  ASSUME ClientAssumption, AllSound, NEW k \in Kinds
  PROVE  k \in Names
<1>1. PICK o \in Signatures : k \in Range(o.ins)
  BY DEF Kinds
<1>2. PICK i \in DOMAIN o.ins : k = o.ins[i]
  BY <1>1 DEF Range
<1>3. o.ins \in Seq(Names) /\ i \in 1 .. Len(o.ins)
  BY OpForms
<1> QED BY <1>2, <1>3, ElementOfSeq

LEMMA InitClient ==
  ASSUME ClientAssumption, AllSound, Init
  PROVE  ClientInv
<1>1. PICK s \in Threads :
        \E k \in Kinds :
          /\ kind = <<k>> /\ origin = <<s>> /\ count = <<1>>
          /\ held = [r \in Threads |-> IF r = s THEN {1} ELSE {}]
          /\ call = [r \in Threads |-> Idle]
          /\ queue = [r \in Threads |-> IF r = s THEN <<Entry(<<>>, {1}, {})>> ELSE <<>>]
          /\ handles = {}
          /\ panicked = FALSE
  BY DEF Init
<1>2. PICK k \in Kinds :
        /\ kind = <<k>> /\ origin = <<s>> /\ count = <<1>>
        /\ held = [r \in Threads |-> IF r = s THEN {1} ELSE {}]
        /\ call = [r \in Threads |-> Idle]
        /\ queue = [r \in Threads |-> IF r = s THEN <<Entry(<<>>, {1}, {})>> ELSE <<>>]
        /\ handles = {}
        /\ panicked = FALSE
  BY <1>1
<1>3. k \in Names
  BY KindNames
<1>4. /\ kind \in Seq(Names) /\ origin \in Seq(Threads) /\ count \in Seq(Int)
      /\ Len(kind) = 1 /\ Len(origin) = 1 /\ Len(count) = 1
      /\ Tensors = {1} /\ count[1] = 1
  <2>1. /\ <<k>> \in Seq(Names) /\ Len(<<k>>) = 1 /\ DOMAIN <<k>> = {1}
    BY <1>3
  <2>2. <<s>> \in Seq(Threads) /\ Len(<<s>>) = 1
    OBVIOUS
  <2>3. <<1>> \in Seq(Int) /\ Len(<<1>>) = 1 /\ <<1>>[1] = 1
    OBVIOUS
  <2> QED BY <1>2, <2>1, <2>2, <2>3 DEF Tensors
<1>5. /\ held \in [Threads -> SUBSET {1}]
      /\ \A r \in Threads : held[r] = IF r = s THEN {1} ELSE {}
      /\ \A r \in Threads : call[r] = Idle
      /\ call = [r \in Threads |-> call[r]]
  BY <1>2
<1>6. \A r \in Threads : \A t : ~Given(r, t) /\ ~Owes(r, t)
  <2>1. \A r \in Threads : call[r].args = <<>> /\ call[r].owed = FALSE
    BY <1>5 DEF Idle
  <2>2. DOMAIN <<>> = {}
    OBVIOUS
  <2> QED BY <2>1, <2>2 DEF Given, Owes
<1>7. Holders(1) = {s}
  <2>1. \A r \in Threads : 1 \in held[r] <=> r = s
    BY <1>5
  <2> QED BY <2>1 DEF Holders
<1>8. PICK e : e = Entry(<<>>, {1}, {})
  OBVIOUS
<1>9. /\ e \in Entries
      /\ e.outs = {1}
      /\ \A u : About(e, u) <=> u = 1
      /\ \A u : ~Ends(e, u)
  <2>1. e.reads = <<>> /\ e.outs = {1} /\ e.drops = {} /\ DOMAIN <<>> = {}
    BY <1>8 DEF Entry
  <2>2. e \in [reads : UNION {[J -> Read] : J \in SUBSET Nat}, outs : SUBSET Nat, drops : SUBSET Nat]
    <3>1. <<>> \in [{} -> Read]
      OBVIOUS
    <3> QED BY <1>8, <3>1 DEF Entry
  <2>3. \A u : ~Reads(e, u)
    BY <2>1 DEF Reads
  <2>4. e \in Entries
    BY <2>1, <2>2, <2>3 DEF Entries
  <2>5. Consumed(e) = {}
    BY <2>1 DEF Consumed, Range
  <2> QED BY <2>1, <2>3, <2>4, <2>5 DEF About, Ends
<1>10. PICK q : q = [r \in Threads |-> <<>>]
  OBVIOUS
<1>11. /\ q \in [Threads -> Seq(Entries)]
       /\ \A r \in Threads : q[r] = <<>> /\ DOMAIN q[r] = {}
  BY <1>10
<1>12. /\ \A r \in Threads : \A t : ~Works(q[r], t)
       /\ Good(q, {})
       /\ \A t : ~Survives(q, {}, t)
  <2>1. \A r \in Threads : \A t : ~Works(q[r], t)
    BY <1>11 DEF Works
  <2>2. \A r \in Threads : \A t : InTurn(q[r], {}, t)
    BY <1>11 DEF InTurn
  <2>3. \A t : ~Survives(q, {}, t)
    BY <1>11 DEF Survives, Made
  <2> QED BY <2>1, <2>2, <2>3 DEF Good
<1>13. queue = Queued(q, s, e)
  <2>1. Append(<<>>, e) = <<e>>
    OBVIOUS
  <2> QED BY <1>2, <1>8, <1>10, <2>1 DEF Queued
<1>14. /\ queue \in [Threads -> Seq(Entries)]
       /\ \A r \in Threads : \A t : Works(queue[r], t) => t = 1
       /\ Good(queue, {})
       /\ \A t \in Nat : Survives(queue, {}, t) <=> t = 1
  <2>1. Fits(q, {}, s, e)
    BY <1>9, <1>12 DEF Fits
  <2>2. {} \in SUBSET Nat
    OBVIOUS
  <2>3. /\ Queued(q, s, e) \in [Threads -> Seq(Entries)]
        /\ \A r \in Threads : \A t :
             Works(Queued(q, s, e)[r], t) <=> Works(q[r], t) \/ (r = s /\ About(e, t))
        /\ Good(Queued(q, s, e), {})
        /\ \A t \in Nat : Survives(Queued(q, s, e), {}, t) <=>
             (Survives(q, {}, t) \/ t \in e.outs) /\ ~Ends(e, t)
    BY <1>9, <1>11, <1>12, <2>1, <2>2, Enqueue
  <2> QED BY <1>9, <1>12, <1>13, <2>3
<1>15. TypesOK
  BY <1>2, <1>4, <1>5, <1>14 DEF TypesOK
<1>16. Calls /\ Exclusive
  BY <1>5, <1>6 DEF Calls, Exclusive
<1>17. Counted
  <2>1. Cardinality(Holders(1)) = 1
    BY <1>7, FS_Singleton
  <2>2. Owed(1) = 0
    BY <1>6 DEF Owed
  <2>3. count[1] = Cardinality(Holders(1)) + Owed(1)
    BY <1>4, <2>1, <2>2
  <2> QED BY <1>4, <2>3 DEF Counted
<1>18. Surviving
  <2>1. Alive(1)
    BY <1>7 DEF Alive
  <2> QED BY <1>2, <1>4, <1>14, <2>1 DEF Surviving
<1> QED BY <1>2, <1>14, <1>15, <1>16, <1>17, <1>18 DEF ClientInv

\* Every step of every thread keeps the invariant.
LEMMA StepClient ==
  ASSUME ClientInv, ClientAssumption, AllSound, ~Races, [Next]_vars
  PROVE  ClientInv'
<1>1. CASE Next
  <2>1. PICK s \in Threads :
          \/ CallWrapper(s) \/ DropClone(s) \/ RegisterOp(s) \/ Flush(s)
          \/ \E k \in Kinds : FromData(s, k)
          \/ \E t \in Tensors : IntoData(s, t) \/ DropTensor(s, t)
          \/ \E r \in Threads, t \in Tensors : Send(s, r, t)
    BY <1>1 DEF Next
  <2>2. CASE CallWrapper(s)
    BY <2>2, CallWrapperKeeps
  <2>3. CASE DropClone(s)
    BY <2>3, DropCloneKeeps
  <2>4. CASE RegisterOp(s)
    BY <2>4, RegisterOpKeeps
  <2>5. CASE Flush(s)
    BY <2>5, FlushKeeps
  <2>6. CASE \E k \in Kinds : FromData(s, k)
    <3>1. PICK k \in Kinds : FromData(s, k)
      BY <2>6
    <3>2. k \in Names
      BY KindNames
    <3> QED BY <3>1, <3>2, FromDataKeeps
  <2>7. CASE \E t \in Tensors : IntoData(s, t) \/ DropTensor(s, t)
    BY <2>7, IntoDataKeeps, DropTensorKeeps
  <2>8. CASE \E r \in Threads, t \in Tensors : Send(s, r, t)
    BY <2>8, SendKeeps
  <2> QED BY <2>1, <2>2, <2>3, <2>4, <2>5, <2>6, <2>7, <2>8
<1>2. CASE UNCHANGED vars
  <2>1. /\ UNCHANGED <<kind, origin, count, held, call>>
        /\ UNCHANGED <<queue, handles, panicked>>
    BY <1>2 DEF vars
  <2>2. /\ Calls' /\ Exclusive' /\ Counted'
        /\ Tensors' = Tensors
        /\ \A t : Alive(t)' <=> Alive(t)
    BY <2>1, ClientsKept
  <2>3. /\ (panicked = FALSE)' /\ Good(queue, handles)'
        /\ \A t : Survives(queue, handles, t)' <=> Survives(queue, handles, t)
        /\ \A s \in Threads : \A t : Works(queue[s], t)' <=> Works(queue[s], t)
    BY <2>1, ServerKept
  <2>4. TypesOK /\ Surviving
    BY DEF ClientInv
  <2>5. TypesOK'
    BY <2>1, <2>2, <2>3, <2>4 DEF TypesOK
  <2>6. Surviving'
    BY <2>2, <2>3, <2>4 DEF Surviving
  <2> QED BY <2>2, <2>3, <2>5, <2>6 DEF ClientInv
<1> QED BY <1>1, <1>2

THEOREM ClientInvariant ==
  ASSUME AllSound, ~Races
  PROVE  Spec => []ClientInv
<1>1. Init => ClientInv
  BY ClientAssumption, InitClient
<1>2. ClientInv /\ [Next]_vars => ClientInv'
  BY ClientAssumption, StepClient
<1> QED BY <1>1, <1>2, PTL DEF Spec

LEMMA InvMade ==
  ASSUME ClientInv
  PROVE  ReachableMade
<1>1. ASSUME NEW t \in Reachable
      PROVE  \/ t \in handles
             \/ \E s \in Threads : \E i \in DOMAIN queue[s] : t \in queue[s][i].outs
  <2>1. PICK s \in Threads : t \in held[s]
    BY DEF Reachable
  <2>2. t \in Tensors
    BY <2>1, ClientAssumption, InvForms
  <2>3. Alive(t)
    BY <2>1 DEF Alive, Holders
  <2>4. Survives(queue, handles, t)
    BY <2>2, <2>3 DEF ClientInv, Surviving
  <2> QED BY <2>4 DEF Survives, Made
<1> QED BY <1>1 DEF ReachableMade

LEMMA InvLeaks ==
  ASSUME ClientInv
  PROVE  NothingLeaks
<1>1. ASSUME NEW t \in handles, \A s \in Threads : queue[s] = <<>> /\ call[s] = Idle
      PROVE  t \in Reachable
  <2>1. t \in Tensors
    BY DEF ClientInv, TypesOK
  <2>2. ~Ended(queue, t)
    <3>1. \A s \in Threads : DOMAIN queue[s] = {}
      BY <1>1
    <3> QED BY <3>1 DEF Ended
  <2>3. Alive(t)
    BY <2>1, <2>2 DEF ClientInv, Surviving, Survives
  <2>4. \A s \in Threads : ~Given(s, t)
    BY <1>1, ClientAssumption, InvForms
  <2> QED BY <2>3, <2>4 DEF Alive, Holders, Reachable
<1> QED BY <1>1 DEF NothingLeaks

\* Whatever sound operations the threads mix, however often an operation uses
\* one tensor, and in whatever order the streams are drained, a closure finds
\* the handle of every input when it runs: status() says ReadWrite only at the
\* last use of all, and by then every stream that still had to read the tensor
\* has done so.  (execute() in the operations of ops/ would panic otherwise.)
THEOREM NoMissingHandleHolds ==
  ASSUME AllSound, ~Races
  PROVE  Spec => []NoMissingHandle
<1>1. ClientInv => NoMissingHandle
  BY DEF ClientInv, NoMissingHandle
<1> QED BY <1>1, ClientInvariant, PTL

\* A tensor that some thread can still pass on has a handle, or an operation
\* that makes it is queued.
THEOREM ReachableMadeHolds ==
  ASSUME AllSound, ~Races
  PROVE  Spec => []ReachableMade
<1>1. ClientInv => ReachableMade
  BY InvMade
<1> QED BY <1>1, ClientInvariant, PTL

\* When all was executed and no thread is in a wrapper, a handle is there only
\* for a tensor that a thread holds: drop() and the last uses release the rest.
THEOREM NothingLeaksHolds ==
  ASSUME AllSound, ~Races
  PROVE  Spec => []NothingLeaks
<1>1. ClientInv => NothingLeaks
  BY InvLeaks
<1> QED BY <1>1, ClientInvariant, PTL
=============================================================================
