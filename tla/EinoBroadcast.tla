--------------------------- MODULE EinoBroadcast ---------------------------
(***************************************************************************)
(* What StreamReader.Copy promises (Go/handwritten_eino/schema/stream.go): *)
(* every copy receives every outcome of the original stream in the order   *)
(* of the original, at its own pace, and the original is closed when the   *)
(* last copy is.                                                           *)
(***************************************************************************)
EXTENDS Naturals, Sequences

CONSTANTS Children,  \* the copies
          Chunks,    \* the outcomes of Recv other than io.EOF
          EOF

VARIABLES log,       \* the outcomes taken from the original so far
          got,       \* the outcomes each copy has delivered
          open,      \* the copies that are not closed
          srcClosed, \* the original was closed
          broken     \* a Recv of the original panicked: no promise any more

vars == <<log, got, open, srcClosed, broken>>

Ended == log # <<>> /\ log[Len(log)] = EOF

Init ==
  /\ log = <<>>
  /\ got = [c \in Children |-> <<>>]
  /\ open = Children
  /\ srcClosed = FALSE
  /\ broken = FALSE

(* The original is asked for one more outcome, and only when some copy has  *)
(* delivered everything before it.                                          *)
Fetch(o) ==
  /\ ~Ended /\ ~srcClosed
  /\ \E c \in open : Len(got[c]) = Len(log)
  /\ log' = Append(log, o)
  /\ UNCHANGED <<got, open, srcClosed, broken>>

(* An open copy delivers its next outcome. *)
Deliver(c) ==
  /\ c \in open
  /\ Len(got[c]) < Len(log)
  /\ got' = [got EXCEPT ![c] = Append(@, log[Len(@) + 1])]
  /\ UNCHANGED <<log, open, srcClosed, broken>>

CloseChild(c) ==
  /\ c \in open
  /\ open' = open \ {c}
  /\ UNCHANGED <<log, got, srcClosed, broken>>

CloseSource ==
  /\ open = {}
  /\ ~srcClosed
  /\ srcClosed' = TRUE
  /\ UNCHANGED <<log, got, open, broken>>

Panic ==
  /\ ~broken
  /\ broken' = TRUE
  /\ UNCHANGED <<log, got, open, srcClosed>>

(* A single panic voids the promise: any step may follow. *)
Broken == broken /\ broken'

Next ==
  \/ \E o \in Chunks \cup {EOF} : Fetch(o)
  \/ \E c \in Children : Deliver(c) \/ CloseChild(c)
  \/ CloseSource
  \/ Panic
  \/ Broken

Spec == Init /\ [][Next]_vars
=============================================================================
