---------------------------- MODULE MCEinoMerge ----------------------------
(* Small instances of EinoMerge for TLC: EinoMerge.cfg, EinoMerge_panics.cfg. *)
EXTENDS EinoMerge

CONSTANTS v1, v2

Stream == [kind |-> "stream", left |-> 0]
Wrapped == [kind |-> "wrapped", left |-> 0]
Array(items) == [kind |-> "array", left |-> items]
Merged(live) == [kind |-> "merged", left |-> live]

Readers == {Stream, Wrapped, Array(<<v1>>), Array(<<v2, v1>>), Merged(1), Merged(2)}
Width(r) == CASE r.kind = "array" -> 1 [] r.kind = "merged" -> r.left [] OTHER -> 1
Total(readers) == FoldLeft(LAMBDA acc, r : acc + Width(r), 0, readers)

(* Up to three readers of one, two or three streams altogether. *)
MCMerges ==
  {m \in [named : BOOLEAN, readers : TupleOf(Readers, 2) \cup TupleOf(Readers, 3)
                                        \cup TupleOf(Readers, 1)] :
     /\ Total(m.readers) <= 3
     /\ m.named \/ Len(m.readers) > 1}

Streams1To2 == {[named |-> FALSE, readers |-> <<Merged(k), Array(<<>>)>>] : k \in 1 .. 2}
=============================================================================
