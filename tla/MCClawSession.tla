--------------------------- MODULE MCClawSession ---------------------------
(* Small instance of ClawSession for TLC: ClawSession.cfg, ClawSession_covers.cfg. *)
EXTENDS ClawSession

Plain(kind) == [kind |-> kind, gap |-> FALSE]
Paragraphs(kind) == [kind |-> kind, gap |-> TRUE]
TwoOpenings == {<<Plain("text"), Plain("use"), Paragraphs("result")>>,
                <<Plain("summary"), Paragraphs("use"), Plain("result"), Plain("text")>>}
ProcSymmetry == Permutations(Procs)
=============================================================================
