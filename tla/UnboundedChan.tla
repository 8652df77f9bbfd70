--------------------------- MODULE UnboundedChan ---------------------------
(***************************************************************************)
(* UnboundedChan[T] of Go/handwritten_eino/internal/channel.go: an         *)
(* unbounded FIFO guarded by one mutex and one condition variable.         *)
(*                                                                         *)
(* Every method body runs under the mutex, so it is one step; the only     *)
(* place where the mutex is given up is Cond.Wait inside Receive.  A       *)
(* receiver is therefore "idle", "parked" (registered with the condition   *)
(* variable) or "woken" (notified, about to take the mutex again and to    *)
(* re-evaluate the loop condition).                                        *)
(***************************************************************************)
EXTENDS Naturals, Sequences, FiniteSets

CONSTANTS Senders,    \* goroutines that call Send
          Receivers,  \* goroutines that call Receive
          Values,     \* the payloads
          MaxSends    \* bound on the number of Send calls that succeed

ASSUME ChanAssumption ==
  /\ IsFiniteSet(Receivers)
  /\ MaxSends \in Nat

VARIABLES buffer,   \* ch.buffer
          closed,   \* ch.closed
          rstate,   \* where each receiver is in Receive
          panicked, \* senders whose Send hit the "send on closed channel" panic
          sent,     \* history: the values accepted by Send, in mutex order
          received  \* history: the values returned by Receive, in mutex order

chanVars == <<buffer, closed, rstate, panicked, sent, received>>

Parked == {r \in Receivers : rstate[r] = "parked"}
Woken  == {r \in Receivers : rstate[r] = "woken"}

ChanInit ==
  /\ buffer = <<>>
  /\ closed = FALSE
  /\ rstate = [r \in Receivers |-> "idle"]
  /\ panicked = {}
  /\ sent = <<>>
  /\ received = <<>>

(* Cond.Signal: some registered waiter, if there is one, is made runnable. *)
Signal ==
  \/ /\ Parked = {}
     /\ UNCHANGED rstate
  \/ \E r \in Parked : rstate' = [rstate EXCEPT ![r] = "woken"]

(* Mutants of Send: the notification is forgotten; values jump the queue. *)
SendWithoutSignal(s, v) ==
  /\ ~closed
  /\ s \notin panicked
  /\ Len(sent) < MaxSends
  /\ buffer' = Append(buffer, v)
  /\ sent' = Append(sent, v)
  /\ UNCHANGED <<closed, panicked, received, rstate>>

SendPushFront(s, v) ==
  /\ ~closed
  /\ s \notin panicked
  /\ Len(sent) < MaxSends
  /\ buffer' = <<v>> \o buffer
  /\ sent' = Append(sent, v)
  /\ Signal
  /\ UNCHANGED <<closed, panicked, received>>

(* Cond.Broadcast: every registered waiter is made runnable. *)
Broadcast ==
  rstate' = [r \in Receivers |-> IF r \in Parked THEN "woken" ELSE rstate[r]]

(* Send on an open channel: append under the mutex, then notify one waiter. *)
Send(s, v) ==
  /\ ~closed
  /\ s \notin panicked
  /\ Len(sent) < MaxSends
  /\ buffer' = Append(buffer, v)
  /\ sent' = Append(sent, v)
  /\ Signal
  /\ UNCHANGED <<closed, panicked, received>>

(* Send on a closed channel panics in the caller; the channel is untouched. *)
SendPanic(s) ==
  /\ closed
  /\ s \notin panicked
  /\ panicked' = panicked \cup {s}
  /\ UNCHANGED <<buffer, closed, rstate, sent, received>>

(* The loop condition of Receive: the goroutine registers and parks. *)
ReceiveWait(r) ==
  /\ rstate[r] \in {"idle", "woken"}
  /\ buffer = <<>>
  /\ ~closed
  /\ rstate' = [rstate EXCEPT ![r] = "parked"]
  /\ UNCHANGED <<buffer, closed, panicked, sent, received>>

(* Receive leaves its loop with a value: the head of the buffer. *)
ReceiveValue(r) ==
  /\ rstate[r] \in {"idle", "woken"}
  /\ buffer # <<>>
  /\ received' = Append(received, Head(buffer))
  /\ buffer' = Tail(buffer)
  /\ rstate' = [rstate EXCEPT ![r] = "idle"]
  /\ UNCHANGED <<closed, panicked, sent>>

(* Receive leaves its loop because the channel is closed and drained: it  *)
(* returns (zero, false).                                                  *)
ReceiveClosed(r) ==
  /\ rstate[r] \in {"idle", "woken"}
  /\ buffer = <<>>
  /\ closed
  /\ rstate' = [rstate EXCEPT ![r] = "idle"]
  /\ UNCHANGED <<buffer, closed, panicked, sent, received>>

(* Mutant of Close: it notifies a single waiter.                            *)
CloseWithSignal ==
  /\ IF closed THEN UNCHANGED <<closed, rstate>> ELSE closed' = TRUE /\ Signal
  /\ UNCHANGED <<buffer, panicked, sent, received>>

(* Close is idempotent and wakes every waiter. *)
Close ==
  /\ IF closed THEN UNCHANGED <<closed, rstate>>
               ELSE closed' = TRUE /\ Broadcast
  /\ UNCHANGED <<buffer, panicked, sent, received>>

ChanNext ==
  \/ \E s \in Senders, v \in Values : Send(s, v)
  \/ \E s \in Senders : SendPanic(s)
  \/ \E r \in Receivers : ReceiveWait(r)
  \/ \E r \in Receivers : ReceiveValue(r)
  \/ \E r \in Receivers : ReceiveClosed(r)
  \/ Close

(* A goroutine that was notified takes the mutex eventually: the Go mutex   *)
(* is starvation free.  Nothing is assumed of senders, of Close or of a     *)
(* receiver that has not called Receive.                                    *)
WokenStep(r) ==
  /\ rstate[r] = "woken"
  /\ ReceiveWait(r) \/ ReceiveValue(r) \/ ReceiveClosed(r)

ChanFairness == \A r \in Receivers : WF_chanVars(WokenStep(r))

ChanSafetySpec == ChanInit /\ [][ChanNext]_chanVars

ChanSpec == ChanSafetySpec /\ ChanFairness

-----------------------------------------------------------------------------
(* The type of the state. *)
ChanTypeOK ==
  /\ buffer \in Seq(Values)
  /\ closed \in BOOLEAN
  /\ rstate \in [Receivers -> {"idle", "parked", "woken"}]
  /\ panicked \subseteq Senders
  /\ sent \in Seq(Values)
  /\ received \in Seq(Values)

(* Close leaves nobody behind: once closed no receiver is parked, and none  *)
(* parks again (Broadcast in Close, the loop condition in Receive).         *)
NoneParkedAfterClose == closed => Parked = {}

(* No lost wakeup: while receivers are parked in Cond.Wait, each buffered   *)
(* value has a notified receiver on its way to it, although a receiver that *)
(* never parked may take the value first (the loop in Receive); and no      *)
(* receiver is parked, or parks again, once the channel is closed.          *)
NoLostWakeup ==
  /\ Parked # {} => Len(buffer) <= Cardinality(Woken)
  /\ NoneParkedAfterClose

(* Values leave the channel exactly once and in the order in which Send     *)
(* accepted them, whatever the interleaving of the receivers.               *)
FifoExactlyOnce == sent = received \o buffer

(* A receiver blocked in Cond.Wait leaves Receive once the channel is       *)
(* closed (Close broadcasts, and a closed channel never parks).             *)
CloseReleasesReceivers ==
  \A r \in Receivers : closed /\ rstate[r] # "idle" ~> rstate[r] = "idle"
=============================================================================
