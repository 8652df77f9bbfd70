---------------------------- MODULE EinoForward ----------------------------
(***************************************************************************)
(* toStream of Go/handwritten_eino/schema/stream.go: a goroutine that      *)
(* pulls from a reader r and sends what it gets into a fresh stream, whose *)
(* reading side it hands to the caller.  MergeStreamReaders wraps          *)
(* converted readers and Copy children this way.                           *)
(*                                                                         *)
(* The stream is EinoStream, the goroutine its writer.  The source r is    *)
(* any reader: a recv returns an item (a chunk with or without an error),  *)
(* returns io.EOF, panics, or blocks for ever.                             *)
(***************************************************************************)
EXTENDS EinoStream

CONSTANT PanicErr   \* the item that carries a recovered panic

ASSUME PanicErrAssumption == PanicErr \in Items

VARIABLES fpc,       \* the goroutine: "recv", "send", "panicked",
                     \* "sendPanic", "closeSend", "closeSource", "done"
          pulled,    \* history: the items r.recv returned
          srcEnd,    \* how the source ended: "open", "eof" or "panic"
          srcCloses, \* number of calls of r.close
          inVain     \* history: the items pulled after the receiver had gone

forwardVars == <<fpc, pulled, srcEnd, srcCloses, inVain>>
allVars == <<forwardVars, streamVars>>

ForwardInit ==
  /\ Init
  /\ fpc = "recv"
  /\ pulled = <<>>
  /\ srcEnd = "open"
  /\ srcCloses = 0
  /\ inVain = 0

(* out, err := r.recv() returns something other than EOF; send is called.   *)
PullItem(v) ==
  /\ fpc = "recv"
  /\ SendCall(v)
  /\ fpc' = "send"
  /\ pulled' = Append(pulled, v)
  /\ inVain' = IF closed THEN inVain + 1 ELSE inVain
  /\ UNCHANGED <<srcEnd, srcCloses>>

(* r.recv() returns io.EOF: break. *)
PullEOF ==
  /\ fpc = "recv"
  /\ fpc' = "closeSend"
  /\ srcEnd' = "eof"
  /\ UNCHANGED <<pulled, srcCloses, inVain, streamVars>>

(* r.recv() panics: the deferred function recovers. *)
PullPanic ==
  /\ fpc = "recv"
  /\ fpc' = "panicked"
  /\ srcEnd' = "panic"
  /\ UNCHANGED <<pulled, srcCloses, inVain, streamVars>>

(* Mutant of SendPanic: the recovered panic is swallowed. *)
SendPanicDropped ==
  /\ fpc = "panicked"
  /\ fpc' = "closeSend"
  /\ UNCHANGED <<pulled, srcEnd, srcCloses, inVain, streamVars>>

(* The deferred function sends the panic as an ordinary error item. *)
SendPanic ==
  /\ fpc = "panicked"
  /\ SendCall(PanicErr)
  /\ fpc' = "sendPanic"
  /\ UNCHANGED <<pulled, srcEnd, srcCloses, inVain>>

(* Mutant of SendReturns: what send returned is not looked at. *)
SendReturnsAnyway ==
  /\ fpc \in {"send", "sendPanic"}
  /\ wpc = "idle"
  /\ fpc' = IF fpc = "sendPanic" THEN "closeSend" ELSE "recv"
  /\ UNCHANGED <<pulled, srcEnd, srcCloses, inVain, streamVars>>

(* send returned: stop if the receiver has gone, and after a panic.         *)
SendReturns ==
  /\ fpc \in {"send", "sendPanic"}
  /\ wpc = "idle"
  /\ fpc' = IF fpc = "sendPanic" \/ sendClosed THEN "closeSend" ELSE "recv"
  /\ UNCHANGED <<pulled, srcEnd, srcCloses, inVain, streamVars>>

(* Mutant of FinishSend: the stream is not closed after a panic. *)
FinishSendUnlessPanic ==
  /\ fpc = "closeSend"
  /\ IF srcEnd = "panic" THEN UNCHANGED streamVars ELSE CloseSend
  /\ fpc' = "closeSource"
  /\ UNCHANGED <<pulled, srcEnd, srcCloses, inVain>>

FinishSend ==
  /\ fpc = "closeSend"
  /\ CloseSend
  /\ fpc' = "closeSource"
  /\ UNCHANGED <<pulled, srcEnd, srcCloses, inVain>>

FinishSource ==
  /\ fpc = "closeSource"
  /\ srcCloses' = srcCloses + 1
  /\ fpc' = "done"
  /\ UNCHANGED <<pulled, srcEnd, inVain, streamVars>>

ForwardStep == SendReturns \/ SendPanic \/ FinishSend \/ FinishSource

ForwardNext ==
  \/ /\ Len(pulled) < MaxSends
     /\ \E v \in Items \ {PanicErr} : PullItem(v)
  \/ PullEOF \/ PullPanic
  \/ SendPanic \/ SendReturns \/ FinishSend \/ FinishSource
  \/ /\ \/ SendEnter \/ SendSeesClosed \/ SendBuffers \/ SendHandsOff
        \/ RecvCall \/ RecvItem \/ RecvEOF
        \/ \E c \in Closers : CloseRecvCAS(c)
        \/ \E c \in Closers : CloseRecvClose(c)
     /\ UNCHANGED forwardVars

ForwardSafetySpec == ForwardInit /\ [][ForwardNext]_allVars

(* The goroutine runs whenever it can; r.recv may block for ever, and the   *)
(* consumer may stop reading, but a Recv it began it completes.             *)
ForwardFairness ==
  /\ WF_allVars(ForwardStep)
  /\ WF_allVars(SendStep /\ UNCHANGED forwardVars)
  /\ WF_allVars((RecvItem \/ RecvEOF) /\ UNCHANGED forwardVars)

ForwardSpec == ForwardSafetySpec /\ ForwardFairness

-----------------------------------------------------------------------------

(* The consumer that reads up to EOF without closing has seen every item,   *)
(* and a panic of the source as exactly one error item, the last.           *)
EOFIsComplete ==
  (rpc = "eof" /\ ~closed) =>
     got = pulled \o (IF srcEnd = "panic" THEN <<PanicErr>> ELSE <<>>)

(* The goroutine does not read ahead of its reader by more than the buffer  *)
(* and the item in its hands, and once the receiver has gone, at whatever   *)
(* moment of a send, it takes at most one more item from the source.        *)
StopsWithReceiver ==
  /\ Len(pulled) <= Len(got) + Cap + 1
  /\ inVain <= 1

(* Once the receiver has gone, the goroutine is never left blocked in send: *)
(* it waits for the source, or ends and has closed it.                      *)
NotBlockedInSend == closed ~> srcCloses = 1 \/ fpc = "recv"

(* A receiver blocked in Recv gets the end of a source that ended, or the   *)
(* error of one that panicked.                                              *)
EndReachesReader == (srcEnd # "open" /\ rpc = "recv") ~> (rpc # "recv")

(* Neither the forwarding goroutine nor its receiver is left hanging. *)
NobodyHangs == NotBlockedInSend /\ EndReachesReader
=============================================================================
