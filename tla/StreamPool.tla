----------------------------- MODULE StreamPool -----------------------------
(***************************************************************************)
(* What the event streams and the stream scheduler have in common: the     *)
(* streams of a pool (cubecl-runtime, stream/base.rs) and the one an id    *)
(* stands for.                                                             *)
(***************************************************************************)
EXTENDS Integers

CONSTANTS
  Ids,        \* the stream ids of the client's threads
  MaxStreams  \* the number of regular streams

ASSUME StreamPoolAssumption == Ids \subseteq Nat /\ MaxStreams \in Nat \ {0}

Regular == 0 .. MaxStreams - 1
Special == MaxStreams

\* The stream of an id.  Ids that are equal modulo MaxStreams share one.
Index(id) == id % MaxStreams
=============================================================================
