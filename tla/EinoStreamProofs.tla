-------------------------- MODULE EinoStreamProofs --------------------------
(***************************************************************************)
(* For every item set, capacity and number of closers: EinoStream is type  *)
(* correct, delivers first-in first-out up to EOF, refuses what is sent    *)
(* after the receiver has gone, and never closes a channel twice.          *)
(*                                                                         *)
(* LateSendRejected needs that closed never becomes false again, so that a *)
(* Send marked late meets closed in its first select (LateIsClosed).       *)
(* NoDoubleClose needs who owns the right to close: CloserOwns.            *)
(*                                                                         *)
(* The same holds of a stream that the goroutine of toStream writes; its   *)
(* reader is told the whole of the source, and nothing is read from the    *)
(* source in vain but one item.  Forwarding says where the goroutine       *)
(* stands towards its stream, NoneDropped that while the receiver is there *)
(* the channel has taken every item pulled, but for the one still in the   *)
(* hands of send, and LastOfAll that send refuses what was pulled after    *)
(* the receiver had gone.                                                  *)
(***************************************************************************)
EXTENDS EinoForward, FiniteSetTheorems, TLAPS

LateIsClosed == late => closed

(* The one writer does not close the channel while it sends.                *)
SendingIsOpen == wpc # "idle" => ~itemsClosed

(* With closedFlag, a closer past the CAS is alone and the channel is open; *)
(* without it, whoever closed the channel is no longer at the start.        *)
CloserOwns ==
  /\ AutoClose =>
       /\ closed => closedFlag = 1
       /\ \A c \in Closers : cpc[c] = "close" => closedFlag = 1 /\ ~closed
       /\ \A c, d \in Closers : cpc[c] = "close" /\ cpc[d] = "close" => c = d
  /\ ~AutoClose =>
       /\ closed => \E c \in Closers : cpc[c] # "start"
       /\ \A c \in Closers : cpc[c] # "close"

StreamInv ==
  /\ TypeOK /\ SendingIsOpen /\ FifoUntilEOF
  /\ LateIsClosed /\ LateSendRejected
  /\ CloserOwns /\ NoDoubleClose

(* A step of the stream whoever takes it: Next without its bound, so that   *)
(* what is proved of it holds in modules that drive the writer themselves.  *)
StreamStep ==
  \/ \E v \in Items : SendCall(v)
  \/ SendEnter \/ SendSeesClosed \/ SendBuffers \/ SendHandsOff
  \/ CloseSend
  \/ RecvCall \/ RecvItem \/ RecvEOF
  \/ \E c \in Closers : CloseRecvCAS(c) \/ CloseRecvClose(c)

(* Sequence facts behind FIFO: appending on the right of a concatenation,   *)
(* appending to it when the right part is empty, and moving the head of the *)
(* right part to the left one.                                              *)
LEMMA ConcatAppend ==
  ASSUME NEW a \in Seq(Items), NEW b \in Seq(Items), NEW e \in Items
  PROVE  Append(a \o b, e) = a \o Append(b, e)
  OBVIOUS

LEMMA ConcatEmpty ==
  ASSUME NEW a \in Seq(Items)
  PROVE  a \o <<>> = a
  OBVIOUS

LEMMA ConcatShift ==
  ASSUME NEW a \in Seq(Items), NEW b \in Seq(Items), b # <<>>
  PROVE  a \o b = Append(a, Head(b)) \o Tail(b)
  OBVIOUS

LEMMA TypeStep == TypeOK /\ [StreamStep]_streamVars => TypeOK'
<1> SUFFICES ASSUME TypeOK, [StreamStep]_streamVars
             PROVE  TypeOK'
  OBVIOUS
<1> USE DEF TypeOK, writerVars, readerVars, closeVars
<1>1. ASSUME NEW v \in Items, SendCall(v)
      PROVE  TypeOK'
  BY <1>1 DEF SendCall
<1>2. CASE SendEnter
  BY <1>2 DEF SendEnter
<1>3. CASE SendSeesClosed
  BY <1>3 DEF SendSeesClosed
<1>4. CASE SendBuffers
  <2>1. items' \in Seq(Items) /\ accepted' \in Seq(Items)
    BY <1>4 DEF SendBuffers
  <2>2. QED
    BY <1>4, <2>1 DEF SendBuffers
<1>5. CASE SendHandsOff
  <2>1. got' \in Seq(Items) /\ accepted' \in Seq(Items)
    BY <1>5 DEF SendHandsOff
  <2>2. QED
    BY <1>5, <2>1 DEF SendHandsOff
<1>6. CASE CloseSend
  BY <1>6 DEF CloseSend
<1>7. CASE RecvCall
  BY <1>7 DEF RecvCall
<1>8. CASE RecvItem
  BY <1>8 DEF RecvItem
<1>9. CASE RecvEOF
  BY <1>9 DEF RecvEOF
<1>10. ASSUME NEW c \in Closers, CloseRecvCAS(c)
       PROVE  TypeOK'
  BY <1>10 DEF CloseRecvCAS
<1>11. ASSUME NEW c \in Closers, CloseRecvClose(c)
       PROVE  TypeOK'
  BY <1>11 DEF CloseRecvClose
<1>12. CASE UNCHANGED streamVars
  BY <1>12 DEF streamVars
<1>13. QED
  BY <1>1, <1>2, <1>3, <1>4, <1>5, <1>6, <1>7, <1>8, <1>9, <1>10, <1>11, <1>12
  DEF StreamStep

LEMMA FifoStep ==
  TypeOK /\ SendingIsOpen /\ FifoUntilEOF /\ [StreamStep]_streamVars
    => SendingIsOpen' /\ FifoUntilEOF'
<1> SUFFICES ASSUME TypeOK, SendingIsOpen, FifoUntilEOF, [StreamStep]_streamVars
             PROVE  SendingIsOpen' /\ FifoUntilEOF'
  OBVIOUS
<1> USE DEF TypeOK, SendingIsOpen, FifoUntilEOF, writerVars, readerVars, closeVars
<1>1. ASSUME NEW v \in Items, SendCall(v)
      PROVE  SendingIsOpen' /\ FifoUntilEOF'
  <2>1. ~itemsClosed' /\ UNCHANGED <<items, itemsClosed, accepted, got, rpc>>
    BY <1>1 DEF SendCall
  <2>2. SendingIsOpen'
    BY <2>1
  <2>3. FifoUntilEOF'
    BY <2>1
  <2>4. QED
    BY <2>2, <2>3
<1>2. CASE SendEnter \/ SendSeesClosed
  <2>1. wpc # "idle" /\ UNCHANGED <<items, itemsClosed, accepted, got, rpc>>
    BY <1>2 DEF SendEnter, SendSeesClosed
  <2>2. QED
    BY <2>1
<1>3. CASE SendBuffers
  <2>1. accepted' = got' \o items'
    BY <1>3, ConcatAppend DEF SendBuffers
  <2>2. QED
    BY <1>3, <2>1 DEF SendBuffers
<1>4. CASE SendHandsOff
  <2>1. accepted = got
    BY <1>4, ConcatEmpty DEF SendHandsOff
  <2>2. got' \in Seq(Items) /\ got' = accepted'
    BY <1>4, <2>1 DEF SendHandsOff
  <2>3. QED
    BY <1>4, <2>2, ConcatEmpty DEF SendHandsOff
<1>5. CASE CloseSend \/ RecvCall
  <2>1. SendingIsOpen'
    BY <1>5 DEF CloseSend, RecvCall
  <2>2. UNCHANGED <<items, accepted, got>> /\ (rpc' = "eof" => rpc = "eof")
    BY <1>5 DEF CloseSend, RecvCall
  <2>3. itemsClosed => itemsClosed'
    BY <1>5 DEF CloseSend, RecvCall
  <2>4. QED
    BY <2>1, <2>2, <2>3
<1>6. CASE RecvItem
  <2>1. UNCHANGED <<itemsClosed, wpc, accepted>> /\ rpc' = "idle"
    BY <1>6 DEF RecvItem
  <2>2. got \o items = Append(got, Head(items)) \o Tail(items)
    BY <1>6, ConcatShift DEF RecvItem
  <2>3. accepted' = got' \o items'
    BY <1>6, <2>1, <2>2 DEF RecvItem
  <2>4. QED
    BY <2>1, <2>3
<1>7. CASE RecvEOF
  BY <1>7 DEF RecvEOF
<1>8. CASE \E c \in Closers : CloseRecvCAS(c) \/ CloseRecvClose(c)
  <2>1. UNCHANGED <<items, itemsClosed, wpc, accepted, got, rpc>>
    BY <1>8 DEF CloseRecvCAS, CloseRecvClose
  <2>2. QED
    BY <2>1
<1>9. CASE UNCHANGED streamVars
  BY <1>9 DEF streamVars
<1>10. QED
  BY <1>1, <1>2, <1>3, <1>4, <1>5, <1>6, <1>7, <1>8, <1>9 DEF StreamStep

LEMMA LateStep ==
  TypeOK /\ LateIsClosed /\ LateSendRejected /\ [StreamStep]_streamVars
    => LateIsClosed' /\ LateSendRejected'
<1> SUFFICES ASSUME TypeOK, LateIsClosed, LateSendRejected, [StreamStep]_streamVars
             PROVE  LateIsClosed' /\ LateSendRejected'
  OBVIOUS
<1> USE DEF TypeOK, LateIsClosed, LateSendRejected, writerVars, readerVars, closeVars
<1>1. CASE \E v \in Items : SendCall(v)
  BY <1>1 DEF SendCall
<1>2. CASE SendStep
  BY <1>2 DEF SendStep, SendEnter, SendSeesClosed, SendBuffers, SendHandsOff
<1>3. CASE CloseSend \/ RecvCall \/ RecvItem \/ RecvEOF
  BY <1>3 DEF CloseSend, RecvCall, RecvItem, RecvEOF
<1>4. CASE \E c \in Closers : CloseRecvCAS(c) \/ CloseRecvClose(c)
  BY <1>4 DEF CloseRecvCAS, CloseRecvClose
<1>5. CASE UNCHANGED streamVars
  BY <1>5 DEF streamVars
<1>6. QED
  BY <1>1, <1>2, <1>3, <1>4, <1>5 DEF StreamStep, SendStep

(* Only the closers touch what the ownership of the close depends on.       *)
LEMMA OwnsStep ==
  TypeOK /\ CloserOwns /\ NoDoubleClose /\ [StreamStep]_streamVars
    => CloserOwns' /\ NoDoubleClose'
<1> SUFFICES ASSUME TypeOK, CloserOwns, NoDoubleClose, [StreamStep]_streamVars
             PROVE  CloserOwns' /\ NoDoubleClose'
  OBVIOUS
<1>1. CASE UNCHANGED closeVars
  BY <1>1 DEF closeVars, CloserOwns, NoDoubleClose
<1>2. ASSUME NEW c \in Closers, CloseRecvCAS(c)
      PROVE  CloserOwns' /\ NoDoubleClose'
  <2>1. AutoClose
    BY <1>2 DEF CloseRecvCAS
  <2>2. CloserOwns'
    BY <1>2, <2>1 DEF CloseRecvCAS, CloserOwns, TypeOK
  <2>3. NoDoubleClose'
    BY <1>2, <2>1 DEF CloseRecvCAS, NoDoubleClose, TypeOK
  <2>4. QED
    BY <2>2, <2>3
<1>3. ASSUME NEW c \in Closers, CloseRecvClose(c)
      PROVE  CloserOwns' /\ NoDoubleClose'
  <2>1. cpc' = [cpc EXCEPT ![c] = IF closed THEN "panic" ELSE "done"] /\ closed'
    BY <1>3 DEF CloseRecvClose
  <2>2. closedFlag' = closedFlag
    BY <1>3 DEF CloseRecvClose
  <2>3. CASE AutoClose
    <3>1. cpc[c] = "close" /\ ~closed /\ closedFlag = 1
      BY <1>3, <2>3 DEF CloseRecvClose, CloserOwns
    <3>2. \A d \in Closers : cpc'[d] # "close"
      BY <2>1, <2>3, <3>1 DEF CloserOwns, TypeOK
    <3>3. \A d \in Closers : cpc'[d] = "panic" => cpc[d] = "panic"
      BY <2>1, <3>1 DEF TypeOK
    <3>4. CloserOwns'
      BY <2>1, <2>2, <2>3, <3>1, <3>2 DEF CloserOwns
    <3>5. NoDoubleClose'
      BY <2>3, <3>3 DEF NoDoubleClose
    <3>6. QED
      BY <3>4, <3>5
  <2>4. CASE ~AutoClose
    <3>1. cpc[c] = "start"
      BY <1>3, <2>4 DEF CloseRecvClose
    <3>2. cpc'[c] # "start" /\ \A d \in Closers : cpc'[d] # "close"
      BY <2>1, <2>4 DEF CloserOwns, TypeOK
    <3>3. CloserOwns'
      BY <2>4, <3>2 DEF CloserOwns
    <3>4. ASSUME Cardinality(Closers) = 1
          PROVE  \A d \in Closers : cpc'[d] # "panic"
      <4>1. PICK x : Closers = {x}
        BY <3>4, StreamAssumption, FS_Singleton DEF StreamAssumption
      <4>2. ~closed
        BY <2>4, <3>1, <4>1 DEF CloserOwns
      <4>3. QED
        BY <2>1, <4>1, <4>2 DEF TypeOK
    <3>5. NoDoubleClose'
      BY <2>4, <3>4 DEF NoDoubleClose
    <3>6. QED
      BY <3>3, <3>5
  <2>5. QED
    BY <2>3, <2>4
<1>4. QED
  <2>1. \/ UNCHANGED closeVars
        \/ \E c \in Closers : CloseRecvCAS(c)
        \/ \E c \in Closers : CloseRecvClose(c)
    BY DEF StreamStep, streamVars, SendCall, SendEnter, SendSeesClosed, SendBuffers,
           SendHandsOff, CloseSend, RecvCall, RecvItem, RecvEOF
  <2>2. QED
    BY <1>1, <1>2, <1>3, <2>1

LEMMA InitInv == Init => StreamInv
<1>1. ASSUME Init
      PROVE  FifoUntilEOF
  BY <1>1, ConcatEmpty DEF Init, FifoUntilEOF
<1>2. ASSUME Init
      PROVE  TypeOK
  <2>1. items \in Seq(Items) /\ accepted \in Seq(Items) /\ got \in Seq(Items)
    BY <1>2 DEF Init
  <2>2. cpc \in [Closers -> {"start", "close", "done", "panic"}]
    BY <1>2 DEF Init
  <2>3. QED
    BY <1>2, <2>1, <2>2 DEF Init, TypeOK
<1>3. ASSUME Init
      PROVE  CloserOwns /\ NoDoubleClose
  <2>1. \A c \in Closers : cpc[c] = "start"
    BY <1>3 DEF Init
  <2>2. QED
    BY <1>3, <2>1 DEF Init, CloserOwns, NoDoubleClose
<1>4. ASSUME Init
      PROVE  SendingIsOpen /\ LateIsClosed /\ LateSendRejected
  BY <1>4 DEF Init, SendingIsOpen, LateIsClosed, LateSendRejected
<1>5. QED
  BY <1>1, <1>2, <1>3, <1>4 DEF StreamInv

LEMMA StepInv == StreamInv /\ [StreamStep]_streamVars => StreamInv'
  BY TypeStep, FifoStep, LateStep, OwnsStep DEF StreamInv

LEMMA Inductive == SafetySpec => []StreamInv
<1>1. [Next]_streamVars => [StreamStep]_streamVars
  BY DEF Next, StreamStep
<1>2. QED
  BY InitInv, StepInv, <1>1, PTL DEF SafetySpec

(* The state of a stream keeps its types (stream.go, stream[T]).            *)
THEOREM StreamTypeCorrect == SafetySpec => []TypeOK
  BY Inductive, PTL DEF StreamInv

(* recv returns what send put into the channel, in that order, and EOF only *)
(* when closeSend was called and nothing is left.                           *)
THEOREM StreamFifo == SafetySpec => []FifoUntilEOF
  BY Inductive, PTL DEF StreamInv

(* A Send called after the receiver has gone is refused by the fast-fail    *)
(* select of send, for every capacity and number of closers.                *)
THEOREM LateSendsRejected == SafetySpec => []LateSendRejected
  BY Inductive, PTL DEF StreamInv

(* closeRecv never closes s.closed twice: with automaticClose whoever calls *)
(* it, and without it as long as there is one caller.                       *)
THEOREM ClosedOnce == SafetySpec => []NoDoubleClose
  BY Inductive, PTL DEF StreamInv

-----------------------------------------------------------------------------
(* The goroutine of toStream as the writer (EinoForward)                    *)

ForwardTypeOK ==
  /\ fpc \in {"recv", "send", "panicked", "sendPanic", "closeSend", "closeSource", "done"}
  /\ pulled \in Seq(Items)
  /\ srcEnd \in {"open", "eof", "panic"}
  /\ srcCloses \in Nat
  /\ inVain \in Nat

(* The goroutine sends only in send and sendPanic, closes the stream once   *)
(* and before the source.                                                   *)
Forwarding ==
  /\ wpc # "idle" => fpc \in {"send", "sendPanic"}
  /\ fpc \in {"recv", "send"} => srcEnd = "open"
  /\ fpc \in {"panicked", "sendPanic"} => srcEnd = "panic"
  /\ itemsClosed <=> fpc \in {"closeSource", "done"}
  /\ srcCloses = IF fpc = "done" THEN 1 ELSE 0
  /\ sendClosed => closed

(* The items given to send, and the one of them it still holds. *)
Offered ==
  IF srcEnd = "panic" /\ fpc # "panicked" THEN Append(pulled, PanicErr) ELSE pulled
Held == IF wpc = "idle" THEN accepted ELSE Append(accepted, item)

NoneDropped == ~closed => Held = Offered

(* How far the goroutine may be ahead of what the channel took, and what it *)
(* does with an item it pulled in vain: send refuses it.                    *)
ReadAhead ==
  /\ Len(items) <= Cap
  /\ Len(pulled) <= Len(accepted) + 1
  /\ fpc = "recv" \/ (fpc = "send" /\ wpc = "idle" /\ ~sendClosed) =>
       Len(pulled) <= Len(accepted)
LastOfAll ==
  \/ inVain = 0
  \/ /\ inVain = 1 /\ closed
     /\ fpc \in {"send", "closeSend", "closeSource", "done"}
     /\ fpc = "send" => wpc = "enter" \/ (wpc = "idle" /\ sendClosed)

ForwardInv ==
  StreamInv /\ ForwardTypeOK /\ Forwarding /\ NoneDropped /\ ReadAhead /\ LastOfAll

LEMMA ForwardIsStream == [ForwardNext]_allVars => [StreamStep]_streamVars
  BY PanicErrAssumption
  DEF ForwardNext, allVars, StreamStep, PullItem, PullEOF, PullPanic, SendPanic,
      SendReturns, FinishSend, FinishSource

LEMMA ForwardTypeStep ==
  TypeOK /\ ForwardTypeOK /\ [ForwardNext]_allVars => ForwardTypeOK'
<1> SUFFICES ASSUME TypeOK, ForwardTypeOK, [ForwardNext]_allVars
             PROVE  ForwardTypeOK'
  OBVIOUS
<1> USE DEF ForwardTypeOK
<1>1. ASSUME NEW v \in Items, PullItem(v)
      PROVE  ForwardTypeOK'
  BY <1>1 DEF PullItem
<1>2. CASE PullEOF \/ PullPanic \/ SendPanic \/ SendReturns
  BY <1>2 DEF PullEOF, PullPanic, SendPanic, SendReturns
<1>3. CASE FinishSend \/ FinishSource
  BY <1>3 DEF FinishSend, FinishSource
<1>4. CASE UNCHANGED forwardVars
  BY <1>4 DEF forwardVars
<1>5. QED
  BY <1>1, <1>2, <1>3, <1>4 DEF ForwardNext, allVars, forwardVars

LEMMA ForwardStepInv == ForwardInv /\ [ForwardNext]_allVars => Forwarding' /\ NoneDropped'
<1> SUFFICES ASSUME ForwardInv, [ForwardNext]_allVars
             PROVE  Forwarding' /\ NoneDropped'
  OBVIOUS
<1> USE DEF ForwardInv, StreamInv, ForwardTypeOK, TypeOK
<1>1. ASSUME NEW v \in Items, PullItem(v)
      PROVE  Forwarding' /\ NoneDropped'
  <2>1. /\ wpc = "idle" /\ wpc' = "enter" /\ item' = v /\ fpc = "recv" /\ fpc' = "send"
        /\ pulled' = Append(pulled, v)
        /\ UNCHANGED <<srcEnd, srcCloses, itemsClosed, sendClosed, closed, accepted>>
    BY <1>1 DEF PullItem, SendCall, closeVars
  <2>2. Forwarding'
    BY <2>1 DEF Forwarding
  <2>3. Held' = Append(Held, v) /\ Offered' = Append(Offered, v)
    BY <2>1 DEF Forwarding, Held, Offered
  <2>4. QED
    BY <2>1, <2>2, <2>3 DEF NoneDropped
<1>2. CASE PullEOF \/ PullPanic
  <2>1. /\ fpc = "recv" /\ UNCHANGED <<pulled, srcCloses, streamVars>>
        /\ \/ fpc' = "closeSend" /\ srcEnd' = "eof"
           \/ fpc' = "panicked" /\ srcEnd' = "panic"
    BY <1>2 DEF PullEOF, PullPanic
  <2>2. Forwarding'
    BY <2>1 DEF Forwarding, streamVars, writerVars, closeVars
  <2>3. Held' = Held /\ Offered' = Offered /\ closed' = closed
    BY <2>1 DEF Forwarding, streamVars, writerVars, closeVars, Held, Offered
  <2>4. QED
    BY <2>2, <2>3 DEF NoneDropped
<1>3. CASE SendPanic
  <2>1. /\ wpc = "idle" /\ wpc' = "enter" /\ item' = PanicErr
        /\ fpc = "panicked" /\ fpc' = "sendPanic"
        /\ UNCHANGED <<pulled, srcEnd, srcCloses, itemsClosed, sendClosed, closed, accepted>>
    BY <1>3 DEF SendPanic, SendCall, closeVars
  <2>2. Forwarding'
    BY <2>1 DEF Forwarding
  <2>3. Held' = Append(Held, PanicErr) /\ Offered' = Append(Offered, PanicErr)
    BY <2>1 DEF Forwarding, Held, Offered
  <2>4. QED
    BY <2>1, <2>2, <2>3 DEF NoneDropped
<1>4. CASE SendReturns \/ FinishSource
  <2>1. UNCHANGED <<pulled, srcEnd, streamVars>> /\ fpc # "panicked" /\ fpc' # "panicked"
    BY <1>4 DEF SendReturns, FinishSource
  <2>2. Forwarding'
    BY <1>4, <2>1 DEF SendReturns, FinishSource, Forwarding, streamVars, writerVars, closeVars
  <2>3. Held' = Held /\ Offered' = Offered /\ closed' = closed
    BY <2>1 DEF streamVars, writerVars, closeVars, Held, Offered
  <2>4. QED
    BY <2>2, <2>3 DEF NoneDropped
<1>5. CASE FinishSend
  <2>1. /\ fpc = "closeSend" /\ fpc' = "closeSource" /\ wpc = "idle" /\ itemsClosed'
        /\ UNCHANGED <<pulled, srcEnd, srcCloses, wpc, item, sendClosed, accepted, closed>>
    BY <1>5 DEF FinishSend, CloseSend, writerVars, closeVars
  <2>2. Forwarding'
    BY <2>1 DEF Forwarding
  <2>3. Held' = Held /\ Offered' = Offered
    BY <2>1 DEF Held, Offered
  <2>4. QED
    BY <2>1, <2>2, <2>3 DEF NoneDropped
<1>6. CASE (SendEnter \/ SendSeesClosed) /\ UNCHANGED forwardVars
  <2>1. /\ wpc # "idle" /\ UNCHANGED <<item, accepted, itemsClosed, closed>>
        /\ UNCHANGED <<fpc, pulled, srcEnd, srcCloses>>
        /\ \/ closed /\ sendClosed'
           \/ ~closed /\ wpc' # "idle" /\ sendClosed' = sendClosed
    BY <1>6 DEF SendEnter, SendSeesClosed, forwardVars, closeVars
  <2>2. Forwarding'
    BY <2>1 DEF Forwarding
  <2>3. ~closed => Held' = Held /\ Offered' = Offered
    BY <2>1 DEF Held, Offered
  <2>4. QED
    BY <2>1, <2>2, <2>3 DEF NoneDropped
<1>7. CASE (SendBuffers \/ SendHandsOff) /\ UNCHANGED forwardVars
  <2>1. /\ wpc = "select" /\ wpc' = "idle" /\ accepted' = Append(accepted, item)
        /\ ~sendClosed' /\ UNCHANGED <<itemsClosed, closed, fpc, pulled, srcEnd, srcCloses>>
    BY <1>7 DEF SendBuffers, SendHandsOff, forwardVars, closeVars
  <2>2. Forwarding'
    BY <2>1 DEF Forwarding
  <2>3. Held' = Held /\ Offered' = Offered
    BY <2>1 DEF Held, Offered
  <2>4. QED
    BY <2>1, <2>2, <2>3 DEF NoneDropped
<1>8. CASE /\ \/ RecvCall \/ RecvItem \/ RecvEOF \/ UNCHANGED streamVars
              \/ \E c \in Closers : CloseRecvCAS(c) \/ CloseRecvClose(c)
           /\ UNCHANGED forwardVars
  <2>1. /\ UNCHANGED <<wpc, item, sendClosed, accepted, itemsClosed>>
        /\ UNCHANGED <<fpc, pulled, srcEnd, srcCloses>>
        /\ closed => closed'
    BY <1>8 DEF RecvCall, RecvItem, RecvEOF, CloseRecvCAS, CloseRecvClose,
                streamVars, writerVars, closeVars, forwardVars
  <2>2. Forwarding'
    BY <2>1 DEF Forwarding
  <2>3. Held' = Held /\ Offered' = Offered
    BY <2>1 DEF Held, Offered
  <2>4. QED
    BY <2>1, <2>2, <2>3 DEF NoneDropped
<1>9. QED
  BY <1>1, <1>2, <1>3, <1>4, <1>5, <1>6, <1>7, <1>8 DEF ForwardNext, allVars

LEMMA ForwardAheadStep == ForwardInv /\ [ForwardNext]_allVars => ReadAhead' /\ LastOfAll'
<1> SUFFICES ASSUME ForwardInv, [ForwardNext]_allVars
             PROVE  ReadAhead' /\ LastOfAll'
  OBVIOUS
<1>1. /\ Len(items) \in Nat /\ Len(pulled) \in Nat /\ Len(accepted) \in Nat /\ inVain \in Nat
      /\ Cap \in Nat /\ items \in Seq(Items) /\ pulled \in Seq(Items) /\ accepted \in Seq(Items)
  BY StreamAssumption DEF StreamAssumption, ForwardInv, StreamInv, ForwardTypeOK, TypeOK
<1>2. /\ ReadAhead /\ LastOfAll /\ Forwarding
      /\ fpc \in {"recv", "send", "panicked", "sendPanic", "closeSend", "closeSource", "done"}
      /\ wpc \in {"idle", "enter", "select"} /\ sendClosed \in BOOLEAN /\ item \in Items
  BY DEF ForwardInv, StreamInv, ForwardTypeOK, TypeOK
<1>3. ASSUME NEW v \in Items, PullItem(v)
      PROVE  ReadAhead' /\ LastOfAll'
  <2>1. /\ wpc = "idle" /\ wpc' = "enter" /\ fpc = "recv" /\ fpc' = "send"
        /\ pulled' = Append(pulled, v) /\ inVain' = IF closed THEN inVain + 1 ELSE inVain
        /\ UNCHANGED <<items, sendClosed, closed, accepted>>
    BY <1>3 DEF PullItem, SendCall, closeVars
  <2>2. Len(pulled') = Len(pulled) + 1
    BY <1>1, <2>1
  <2>3. inVain = 0
    BY <1>2, <2>1 DEF LastOfAll
  <2>4. ReadAhead'
    BY <1>1, <1>2, <2>1, <2>2 DEF ReadAhead
  <2>5. LastOfAll'
    BY <2>1, <2>3 DEF LastOfAll
  <2>6. QED
    BY <2>4, <2>5
<1>4. CASE PullEOF \/ PullPanic \/ SendReturns \/ FinishSource
  <2>1. /\ UNCHANGED <<items, pulled, accepted, wpc, sendClosed, closed, inVain>>
        /\ \/ fpc = "recv" /\ fpc' \in {"closeSend", "panicked"}
           \/ fpc \in {"send", "sendPanic"} /\ wpc = "idle" /\ fpc' = "closeSend"
           \/ fpc = "send" /\ wpc = "idle" /\ ~sendClosed /\ fpc' = "recv"
           \/ fpc = "closeSource" /\ fpc' = "done"
    BY <1>2, <1>4 DEF PullEOF, PullPanic, SendReturns, FinishSource, streamVars, writerVars, closeVars
  <2>2. ReadAhead'
    BY <1>1, <1>2, <2>1 DEF ReadAhead
  <2>3. LastOfAll'
    BY <1>2, <2>1 DEF LastOfAll
  <2>4. QED
    BY <2>2, <2>3
<1>5. CASE SendPanic \/ FinishSend
  <2>1. /\ UNCHANGED <<items, pulled, accepted, sendClosed, closed, inVain>>
        /\ \/ fpc = "panicked" /\ fpc' = "sendPanic"
           \/ fpc = "closeSend" /\ fpc' = "closeSource"
    BY <1>5 DEF SendPanic, SendCall, FinishSend, CloseSend, writerVars, closeVars
  <2>2. ReadAhead'
    BY <1>1, <1>2, <2>1 DEF ReadAhead
  <2>3. LastOfAll'
    BY <1>2, <2>1 DEF LastOfAll
  <2>4. QED
    BY <2>2, <2>3
<1>6. CASE (SendEnter \/ SendSeesClosed) /\ UNCHANGED forwardVars
  <2>1. /\ UNCHANGED <<items, accepted, closed, pulled, fpc, inVain>>
        /\ \/ wpc' = "idle" /\ sendClosed'
           \/ wpc' = "select" /\ ~closed
    BY <1>6 DEF SendEnter, SendSeesClosed, forwardVars, closeVars
  <2>2. ReadAhead'
    BY <1>1, <1>2, <2>1 DEF ReadAhead
  <2>3. LastOfAll'
    BY <1>2, <2>1 DEF LastOfAll
  <2>4. QED
    BY <2>2, <2>3
<1>7. CASE (SendBuffers \/ SendHandsOff) /\ UNCHANGED forwardVars
  <2>1. /\ wpc = "select" /\ wpc' = "idle" /\ accepted' = Append(accepted, item)
        /\ items' = items \/ (Len(items) < Cap /\ items' = Append(items, item))
        /\ UNCHANGED <<closed, fpc, pulled, inVain>>
    BY <1>7 DEF SendBuffers, SendHandsOff, forwardVars, closeVars
  <2>2. /\ Len(accepted') = Len(accepted) + 1
        /\ items' = items \/ Len(items') = Len(items) + 1
    BY <1>1, <1>2, <2>1
  <2>3. ReadAhead'
    BY <1>1, <1>2, <2>1, <2>2 DEF ReadAhead
  <2>4. LastOfAll'
    BY <1>2, <2>1 DEF LastOfAll, Forwarding
  <2>5. QED
    BY <2>3, <2>4
<1>8. CASE /\ \/ RecvCall \/ RecvItem \/ RecvEOF \/ UNCHANGED streamVars
              \/ \E c \in Closers : CloseRecvCAS(c) \/ CloseRecvClose(c)
           /\ UNCHANGED forwardVars
  <2>1. /\ UNCHANGED <<wpc, sendClosed, accepted, pulled, fpc, inVain>>
        /\ closed => closed'
        /\ items' = items \/ (items # <<>> /\ items' = Tail(items))
    BY <1>8 DEF RecvCall, RecvItem, RecvEOF, CloseRecvCAS, CloseRecvClose,
                streamVars, writerVars, closeVars, forwardVars
  <2>2. items' = items \/ Len(items') = Len(items) - 1
    BY <1>1, <2>1
  <2>3. ReadAhead'
    BY <1>1, <1>2, <2>1, <2>2 DEF ReadAhead
  <2>4. LastOfAll'
    BY <1>2, <2>1 DEF LastOfAll
  <2>5. QED
    BY <2>3, <2>4
<1>9. QED
  BY <1>3, <1>4, <1>5, <1>6, <1>7, <1>8 DEF ForwardNext, allVars

LEMMA ForwardInductive == ForwardSafetySpec => []ForwardInv
<1>1. ForwardInit => ForwardInv
  <2>1. ForwardInit => StreamInv
    BY InitInv DEF ForwardInit
  <2>2. ForwardInit => ForwardTypeOK /\ Forwarding /\ NoneDropped
    BY DEF ForwardInit, Init, ForwardTypeOK, Forwarding, NoneDropped, Held, Offered
  <2>3. ForwardInit => ReadAhead /\ LastOfAll
    BY StreamAssumption DEF ForwardInit, Init, ReadAhead, LastOfAll, StreamAssumption
  <2>4. QED
    BY <2>1, <2>2, <2>3 DEF ForwardInv
<1>2. ForwardInv /\ [ForwardNext]_allVars => ForwardInv'
  BY ForwardIsStream, StepInv, ForwardTypeStep, ForwardStepInv, ForwardAheadStep DEF ForwardInv, StreamInv
<1>3. QED
  BY <1>1, <1>2, PTL DEF ForwardSafetySpec

-----------------------------------------------------------------------------

(* Written by the goroutine of toStream, whose deferred functions send and  *)
(* close once more than a plain writer, the stream keeps what it promises:  *)
(* first-in first-out up to EOF, no late item, closed is closed once.       *)
THEOREM ForwardedStreamSafe ==
  ForwardSafetySpec => [](FifoUntilEOF /\ LateSendRejected /\ NoDoubleClose)
  BY ForwardInductive, PTL DEF ForwardInv, StreamInv

LEMMA ForwardInvComplete == ForwardInv => EOFIsComplete
<1> SUFFICES ASSUME ForwardInv, rpc = "eof", ~closed
             PROVE  got = pulled \o (IF srcEnd = "panic" THEN <<PanicErr>> ELSE <<>>)
  BY DEF EOFIsComplete
<1>1. items = <<>> /\ itemsClosed /\ accepted = got \o items /\ got \in Seq(Items)
  BY DEF ForwardInv, StreamInv, TypeOK, FifoUntilEOF
<1>2. accepted = got
  BY <1>1, ConcatEmpty
<1>3. wpc = "idle" /\ fpc # "panicked"
  BY <1>1 DEF ForwardInv, Forwarding
<1>4. got = IF srcEnd = "panic" THEN Append(pulled, PanicErr) ELSE pulled
  BY <1>2, <1>3 DEF ForwardInv, NoneDropped, Held, Offered
<1>5. pulled \in Seq(Items) /\ PanicErr \in Items
  BY PanicErrAssumption DEF ForwardInv, ForwardTypeOK
<1>6. Append(pulled, PanicErr) = pulled \o <<PanicErr>> /\ pulled \o <<>> = pulled
  BY <1>5
<1>7. QED
  BY <1>4, <1>6

(* The receiver that reads up to EOF without closing has got every item the *)
(* source gave, in order, and a panic of the source as one last error item. *)
THEOREM EOFTellsAll == ForwardSafetySpec => []EOFIsComplete
  BY ForwardInductive, ForwardInvComplete, PTL

(* The goroutine of toStream reads ahead of its reader by no more than the  *)
(* buffer and one item, and takes at most one item from the source after    *)
(* the receiver has gone, for every capacity and number of closers.         *)
THEOREM ForwarderStops == ForwardSafetySpec => []StopsWithReceiver
<1>1. ForwardInv => StopsWithReceiver
  <2> SUFFICES ASSUME ForwardInv PROVE StopsWithReceiver
    OBVIOUS
  <2>1. /\ Len(items) \in Nat /\ Len(got) \in Nat /\ Len(pulled) \in Nat /\ Cap \in Nat
        /\ Len(accepted) = Len(got) + Len(items)
    BY StreamAssumption
    DEF StreamAssumption, ForwardInv, StreamInv, ForwardTypeOK, TypeOK, FifoUntilEOF
  <2>2. Len(items) <= Cap /\ Len(pulled) <= Len(accepted) + 1 /\ inVain \in {0, 1}
    BY DEF ForwardInv, ReadAhead, LastOfAll
  <2>3. QED
    BY <2>1, <2>2 DEF StopsWithReceiver
<1>2. QED
  BY ForwardInductive, <1>1, PTL
=============================================================================
