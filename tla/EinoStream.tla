----------------------------- MODULE EinoStream -----------------------------
(***************************************************************************)
(* stream[T] of Go/handwritten_eino/schema/stream.go: a Go channel of      *)
(* items with a second channel, closed, by which the receiving side tells  *)
(* the sender that it has gone.                                            *)
(*                                                                         *)
(* One goroutine writes (Send ... Send, Close), one reads, and any of      *)
(* Closers may call closeRecv: the reader's Close and, after               *)
(* SetAutomaticClose, the finalizer of the reader.  Each channel operation *)
(* is one step; send has two selects and so two steps, closeRecv has the   *)
(* CAS of closedFlag and the close.                                        *)
(***************************************************************************)
EXTENDS Naturals, Sequences, FiniteSets

CONSTANTS Items,      \* the stream items: a chunk and its error
          Cap,        \* capacity of the items channel, 0 for unbuffered
          Closers,    \* goroutines that call closeRecv, once each
          AutoClose,  \* SetAutomaticClose was called before the stream was used
          MaxSends    \* bound on the number of items the stream takes

ASSUME StreamAssumption ==
  /\ Cap \in Nat
  /\ MaxSends \in Nat
  /\ AutoClose \in BOOLEAN
  /\ IsFiniteSet(Closers)

VARIABLES items,       \* the buffer of the items channel
          itemsClosed, \* close(s.items) happened
          closed,      \* close(s.closed) happened
          closedFlag,  \* *s.closedFlag
          wpc,         \* the writer: "idle", "enter" (first select), "select"
          item,        \* the item the writer is sending, while not idle
          late,        \* closed when the writer called Send
          sendClosed,  \* the last result of send
          rpc,         \* the reader: "idle", "recv", "eof" once it saw EOF
          cpc,         \* closers: "start", "close", "done", "panic"
          accepted,    \* history: items the channel took
          got          \* history: items Recv returned

writerVars == <<wpc, item, late, sendClosed, accepted>>
readerVars == <<rpc, got>>
closeVars  == <<closed, closedFlag, cpc>>
streamVars == <<items, itemsClosed, writerVars, readerVars, closeVars>>

Init ==
  /\ items = <<>>
  /\ itemsClosed = FALSE
  /\ closed = FALSE
  /\ closedFlag = 0
  /\ wpc = "idle"
  /\ item \in Items
  /\ late = FALSE
  /\ sendClosed = FALSE
  /\ rpc = "idle"
  /\ cpc = [c \in Closers |-> "start"]
  /\ accepted = <<>>
  /\ got = <<>>

-----------------------------------------------------------------------------
(* The writer *)

SendCall(v) ==
  /\ wpc = "idle"
  /\ ~itemsClosed
  /\ wpc' = "enter"
  /\ item' = v
  /\ late' = closed
  /\ UNCHANGED <<items, itemsClosed, sendClosed, accepted, readerVars, closeVars>>

(* Mutant of SendEnter: send without its fast-fail select. *)
SendEnterUnchecked ==
  /\ wpc = "enter"
  /\ wpc' = "select"
  /\ UNCHANGED <<sendClosed, items, itemsClosed, item, late, accepted,
                 readerVars, closeVars>>

(* The first select of send: give up at once if the receiver has gone. *)
SendEnter ==
  /\ wpc = "enter"
  /\ IF closed THEN wpc' = "idle" /\ sendClosed' = TRUE
               ELSE wpc' = "select" /\ UNCHANGED sendClosed
  /\ UNCHANGED <<items, itemsClosed, item, late, accepted,
                 readerVars, closeVars>>

(* The second select, branch <-s.closed. *)
SendSeesClosed ==
  /\ wpc = "select"
  /\ closed
  /\ wpc' = "idle"
  /\ sendClosed' = TRUE
  /\ UNCHANGED <<items, itemsClosed, item, late, accepted,
                 readerVars, closeVars>>

(* The second select, branch s.items <- item, into the buffer ... *)
SendBuffers ==
  /\ wpc = "select"
  /\ Len(items) < Cap
  /\ wpc' = "idle"
  /\ sendClosed' = FALSE
  /\ items' = Append(items, item)
  /\ accepted' = Append(accepted, item)
  /\ UNCHANGED <<itemsClosed, item, late, readerVars, closeVars>>

(* ... or straight to a receiver that waits for an empty channel, the only   *)
(* way when the channel is unbuffered.                                      *)
SendHandsOff ==
  /\ wpc = "select"
  /\ items = <<>>
  /\ rpc = "recv"
  /\ wpc' = "idle"
  /\ rpc' = "idle"
  /\ sendClosed' = FALSE
  /\ accepted' = Append(accepted, item)
  /\ got' = Append(got, item)
  /\ UNCHANGED <<items, itemsClosed, item, late, closeVars>>

CloseSend ==
  /\ wpc = "idle"
  /\ ~itemsClosed
  /\ itemsClosed' = TRUE
  /\ UNCHANGED <<items, writerVars, readerVars, closeVars>>

SendStep == SendEnter \/ SendSeesClosed \/ SendBuffers \/ SendHandsOff

-----------------------------------------------------------------------------
(* The reader *)

RecvCall ==
  /\ rpc = "idle"
  /\ rpc' = "recv"
  /\ UNCHANGED <<items, itemsClosed, got, writerVars, closeVars>>

RecvItem ==
  /\ rpc = "recv"
  /\ items # <<>>
  /\ rpc' = "idle"
  /\ got' = Append(got, Head(items))
  /\ items' = Tail(items)
  /\ UNCHANGED <<itemsClosed, writerVars, closeVars>>

RecvEOF ==
  /\ rpc = "recv"
  /\ items = <<>>
  /\ itemsClosed
  /\ rpc' = "eof"
  /\ UNCHANGED <<items, itemsClosed, got, writerVars, closeVars>>

-----------------------------------------------------------------------------
(* closeRecv *)

(* Mutant of CloseRecvCAS: a plain test in place of compare-and-swap. *)
CloseRecvTest(c) ==
  /\ AutoClose
  /\ cpc[c] = "start"
  /\ cpc' = [cpc EXCEPT ![c] = IF closedFlag = 0 THEN "close" ELSE "done"]
  /\ UNCHANGED <<closedFlag, closed, items, itemsClosed, writerVars, readerVars>>

(* With automaticClose: only the caller that swaps closedFlag goes on. *)
CloseRecvCAS(c) ==
  /\ AutoClose
  /\ cpc[c] = "start"
  /\ IF closedFlag = 0
     THEN closedFlag' = 1 /\ cpc' = [cpc EXCEPT ![c] = "close"]
     ELSE cpc' = [cpc EXCEPT ![c] = "done"] /\ UNCHANGED closedFlag
  /\ UNCHANGED <<closed, items, itemsClosed, writerVars, readerVars>>

(* close(s.closed): closing a closed channel panics. *)
CloseRecvClose(c) ==
  /\ cpc[c] = IF AutoClose THEN "close" ELSE "start"
  /\ closed' = TRUE
  /\ cpc' = [cpc EXCEPT ![c] = IF closed THEN "panic" ELSE "done"]
  /\ UNCHANGED <<closedFlag, items, itemsClosed, writerVars, readerVars>>

-----------------------------------------------------------------------------
Next ==
  \/ Len(accepted) < MaxSends /\ \E v \in Items : SendCall(v)
  \/ SendEnter \/ SendSeesClosed \/ SendBuffers \/ SendHandsOff
  \/ CloseSend
  \/ RecvCall \/ RecvItem \/ RecvEOF
  \/ \E c \in Closers : CloseRecvCAS(c)
  \/ \E c \in Closers : CloseRecvClose(c)

SafetySpec == Init /\ [][Next]_streamVars

(* A running Send, a blocked Recv and a closeRecv that was begun make       *)
(* progress when they can; nobody is obliged to call any of them.           *)
Fairness ==
  /\ WF_streamVars(SendEnter)
  /\ WF_streamVars(SendSeesClosed)
  /\ WF_streamVars(RecvItem \/ RecvEOF)

Spec == SafetySpec /\ Fairness

-----------------------------------------------------------------------------
(* The type of the state. *)
TypeOK ==
  /\ items \in Seq(Items)
  /\ itemsClosed \in BOOLEAN
  /\ closed \in BOOLEAN
  /\ closedFlag \in {0, 1}
  /\ wpc \in {"idle", "enter", "select"}
  /\ item \in Items
  /\ late \in BOOLEAN
  /\ sendClosed \in BOOLEAN
  /\ rpc \in {"idle", "recv", "eof"}
  /\ cpc \in [Closers -> {"start", "close", "done", "panic"}]
  /\ accepted \in Seq(Items)
  /\ got \in Seq(Items)

(* What Recv returned followed by what the channel holds is what it took,   *)
(* and EOF comes only when nothing is left.                                 *)
FifoUntilEOF ==
  /\ accepted = got \o items
  /\ rpc = "eof" => items = <<>> /\ itemsClosed

(* A Send that is called after the receiver has gone never reaches the      *)
(* second select, where Go would pick the buffer as readily as closed: the  *)
(* fast-fail select of send.                                                *)
LateSendRejected == late => wpc # "select"

(* However many goroutines call closeRecv, with automaticClose the closed   *)
(* channel is closed once, and without it the single caller never panics.   *)
NoDoubleClose ==
  AutoClose \/ Cardinality(Closers) = 1 => \A c \in Closers : cpc[c] # "panic"
=============================================================================
