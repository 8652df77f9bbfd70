--------------------------- MODULE FfPlayerProofs ---------------------------
(***************************************************************************)
(* The player for any file, any sizes of the queues, any number of events  *)
(* and loops: at most one stale frame is shown per flush, and the end is   *)
(* found only when everything is taken to be shown.                        *)
(*                                                                         *)
(* First one pipeline (Pipe): whatever carries the current serial was read *)
(* after the last flush, and behind a null packet comes nothing but null   *)
(* packets.  The lemmas on it say what each operation of FfDecoder keeps.  *)
(* Then the threads around the pipelines.                                  *)
(***************************************************************************)
EXTENDS FfPlayer, SequenceTheorems, TLAPS

Packets == [null : BOOLEAN, seek : Nat, serial : Nat]
Frames == [seek : Nat, serial : Nat]
Codecs == [held : Seq(Packets), draining : BOOLEAN]
Pushing == {"push", "parkedFrm", "woken"}
DecoderSteps == {"top", "get", "parkedPkt", "send", "ended"} \cup Pushing
Serials == Nat \cup {-1}

PacketQueues == [pkts : Seq(Packets), serial : Nat \ {0}, abort : BOOLEAN]
Decoders == [pc : DecoderSteps, serial : Serials, finished : Serials,
             pkt : Packets, frame : Frames, codec : Codecs]
FrameQueues == [frames : Seq(Frames), shown : {0, 1}, waiting : BOOLEAN]

ReadSteps == {"loop", "flush", "sought", "toggle", "load", "unpause", "pause", "step",
              "queues", "check", "count", "atEnd", "read", "put", "ended"}
CloseSteps == {"abort", "signal", "joinDecoder", "detach"}
OpenSteps == {"open", "track", "start"}
MainSteps == {"idle", "show", "toggle", "store", "clearStep", "setStep", "join", "closed"}
             \cup CloseSteps \cup OpenSteps

Readers == [pc : ReadSteps, todo : Seq(Streams), pkt : Packets, pos : Nat, eof : BOOLEAN]
Mains == [pc : MainSteps, todo : Seq(Streams), next : MainSteps, value : BOOLEAN]

-----------------------------------------------------------------------------
(* The invariants of one pipeline: q is its packet queue, d its decoder, f  *)
(* its frame queue, and n the number of the seek its last flush was for.    *)

Items(seq) == {seq[i] : i \in 1 .. Len(seq)}

(* Whatever carries the current serial was read after the last flush.       *)
FreshPackets(q, n) ==
  \A x \in Items(q.pkts) : x.serial = q.serial /\ (x.null \/ x.seek >= n)

FreshDecoder(q, d, n) ==
  /\ d.serial <= q.serial
  /\ d.serial = q.serial =>
       /\ d.pkt.null \/ d.pkt.seek >= n
       /\ \A x \in Items(d.codec.held) : x.seek >= n
  /\ d.frame.serial <= q.serial
  /\ d.frame.serial = q.serial => d.frame.seek >= n

FreshFrames(q, f, n) ==
  \A x \in Items(f.frames) : x.serial <= q.serial /\ (x.serial = q.serial => x.seek >= n)

(* Behind a null packet come only null packets; what the decoder has told   *)
(* about the end it has told of its own serial.                             *)
NullsLeft(q) == \A x \in Items(q.pkts) : x.null

SawNull(q, d) ==
  /\ d.serial = q.serial
  /\ d.codec.draining \/ d.finished = q.serial \/ (d.pc = "send" /\ d.pkt.null)

Draining(q, d) ==
  /\ d.finished \in {0, d.serial}
  /\ d.pc # "send" => d.pkt.null
  /\ \A i, j \in 1 .. Len(q.pkts) : i < j /\ q.pkts[i].null => q.pkts[j].null
  /\ SawNull(q, d) => NullsLeft(q) /\ d.pkt.null
  /\ d.finished = q.serial => d.codec.held = <<>> /\ d.pc \notin Pushing

Pipe(q, d, f, n) ==
  /\ q \in PacketQueues /\ d \in Decoders /\ f \in FrameQueues /\ n \in Nat
  /\ f.shown = 1 => f.frames # <<>>
  /\ FreshPackets(q, n) /\ FreshDecoder(q, d, n) /\ FreshFrames(q, f, n)
  /\ Draining(q, d)

(* A null packet of the current serial is somewhere in the pipeline.        *)
HasNull(q, d) == SawNull(q, d) \/ \E x \in Items(q.pkts) : x.null

(* No more frame comes out of it, unless a packet is put into it.           *)
NothingComes(q, d) ==
  /\ NullsLeft(q)
  /\ d.pkt.null
  /\ d.pc \notin Pushing
  /\ d.serial = q.serial => d.codec.held = <<>>

-----------------------------------------------------------------------------
(* The invariants of the player *)

CoreTypes ==
  /\ pq \in [Streams -> PacketQueues]
  /\ dec \in [Streams -> Decoders]
  /\ fq \in [Streams -> FrameQueues]
  /\ rd \in Readers
  /\ seek \in [req : BOOLEAN, pos : Nat]
  /\ mt \in Mains
  /\ track \in [Streams -> {0, 1, 2}]
  /\ audio \in {"idle", "read", "took", "play", "closed"}
  /\ seeks \in Nat
  /\ flushed \in [Streams -> Nat]
  /\ stale \in [Streams -> Nat]
  /\ skipped \subseteq Streams

Pipes == \A s \in Streams : Pipe(pq[s], dec[s], fq[s], flushed[s])

(* Where read_thread and the main thread are says what they hold.           *)
ReadShape ==
  /\ rd.pc \in {"flush", "check", "count", "put"} => rd.todo # <<>>
  /\ rd.pc = "atEnd" => rd.todo = <<>>
  /\ rd.pc = "put" /\ rd.pkt.null => rd.pos = Len(File)
  /\ rd.pc = "put" /\ ~rd.pkt.null => rd.pkt.seek = seeks
  /\ \A s \in Streams : flushed[s] <= seeks

MainShape ==
  /\ mt.pc \in CloseSteps => mt.next \in {"open", "closed"}
  /\ mt.pc \in CloseSteps /\ mt.next = "open" => mt.todo = <<"audio">>
  /\ mt.pc \in CloseSteps \ {"abort"} => mt.todo # <<>>
  /\ mt.pc \in OpenSteps => mt.todo = <<"audio">> /\ mt.next = "open"
  /\ mt.pc = "join" => mt.next = "closed"
  /\ mt.pc \in {"toggle", "store"} => mt.next \in {"idle", "clearStep", "setStep"}
  /\ mt.pc \in {"signal", "joinDecoder"} => pq[Closing].abort
  /\ mt.pc = "start" => track[Closing] # 0

(* The stream is closed, or nearly so: its decoder is gone, its queue empty.*)
Closed(s) == track[s] = 0 \/ (mt.pc \in {"detach"} \cup OpenSteps /\ Closing = s)

ClosedEmpty ==
  \A s \in Streams : Closed(s) =>
    /\ pq[s].abort /\ pq[s].pkts = <<>>
    /\ dec[s].pc = "ended" /\ dec[s].serial < pq[s].serial

(* Whoever holds on to a frame of a queue finds it there, and it is current *)
(* unless a flush came in between: then no older one was shown since.       *)
OneStale ==
  /\ StaleAtMostOnce
  /\ audio # "closed" => "audio" \in Streams
  /\ audio \in {"took", "play"} => fq["audio"].shown = 1
  /\ audio = "play" =>
       Head(fq["audio"].frames).serial = pq["audio"].serial \/ stale["audio"] = 0
  /\ mt.pc = "show" =>
       /\ "video" \in Streams /\ Remaining("video") > 0
       /\ Peek("video").serial = pq["video"].serial \/ stale["video"] = 0

(* A null packet is under way only at the end of the file, or while the     *)
(* queue is about to be flushed for a seek.                                 *)
AtFileEnd ==
  \A s \in Streams : HasNull(pq[s], dec[s]) =>
    \/ rd.pc = "flush" /\ s \in Items(rd.todo)
    \/ rd.pos = Len(File) /\ (rd.pc = "put" => rd.pkt.null)

(* What the check for the end has found so far stays true.                  *)
EndChecked ==
  rd.pc \in {"check", "count", "atEnd"} =>
    /\ \A s \in (Streams \ skipped) \ Items(rd.todo) :
         rd.pos = Len(File) /\ NothingComes(pq[s], dec[s]) /\ Remaining(s) = 0
    /\ rd.pc = "count" =>
         rd.pos = Len(File) /\ NothingComes(pq[Head(rd.todo)], dec[Head(rd.todo)])

IInv ==
  /\ CoreTypes /\ Pipes /\ ReadShape /\ MainShape /\ ClosedEmpty
  /\ OneStale /\ AtFileEnd /\ EndChecked

(* A stream in which the end was found stays complete until a packet comes, *)
(* and the only frame of it that is not shown yet is in the callback's      *)
(* hands.                                                                   *)
Complete(s) == NothingComes(pq[s], dec[s]) /\ Remaining(s) = 0
Losses(s) == {0} \cup (IF s = "audio" /\ audio # "took" THEN {1} ELSE {})
EndFound == \A s \in Streams : lost[s] # -1 => Complete(s) /\ lost[s] \in Losses(s)

TypeOK ==
  /\ CoreTypes
  /\ last \in [Streams -> {1, 2}]
  /\ lost \in [Streams -> Nat \cup {-1}]

Inv == IInv /\ TypeOK /\ EndFound

-----------------------------------------------------------------------------
(* Sequences *)

LEMMA TailItems ==
  ASSUME NEW S, NEW seq \in Seq(S), seq # <<>>
  PROVE  /\ Head(seq) = seq[1] /\ seq[1] \in S /\ seq[1] \in Items(seq)
         /\ Tail(seq) \in Seq(S) /\ Len(seq) \in Nat \ {0} /\ Len(Tail(seq)) = Len(seq) - 1
         /\ \A i \in 1 .. Len(Tail(seq)) : Tail(seq)[i] = seq[i + 1]
         /\ Items(Tail(seq)) \subseteq Items(seq)
         /\ Items(seq) = Items(Tail(seq)) \cup {seq[1]}
  <1>1. /\ Head(seq) = seq[1] /\ seq[1] \in S /\ Tail(seq) \in Seq(S)
        /\ Len(seq) \in Nat \ {0} /\ Len(Tail(seq)) = Len(seq) - 1
        /\ \A i \in 1 .. Len(Tail(seq)) : Tail(seq)[i] = seq[i + 1]
    BY HeadTailProperties, EmptySeq, LenProperties
  <1>2. \A i \in 1 .. Len(seq) : i = 1 \/ (i - 1 \in 1 .. Len(Tail(seq)) /\ Tail(seq)[i - 1] = seq[i])
    BY <1>1
  <1>3. \A i \in 1 .. Len(Tail(seq)) : i + 1 \in 1 .. Len(seq)
    BY <1>1
  <1>4. QED
    BY <1>1, <1>2, <1>3 DEF Items

LEMMA MoreItems ==
  ASSUME NEW S, NEW seq \in Seq(S), seq # <<>>
  PROVE  Len(seq) > 1 <=> Tail(seq) # <<>>
  <1> DEFINE rest == Tail(seq)
  <1>1. rest \in Seq(S) /\ Len(rest) = Len(seq) - 1 /\ Len(seq) \in Nat
    BY TailItems
  <1> HIDE DEF rest
  <1>2. Len(rest) = 0 <=> rest = <<>>
    BY <1>1, EmptySeq
  <1>3. Len(seq) > 1 <=> rest # <<>>
    BY <1>1, <1>2
  <1>4. QED
    BY <1>3 DEF rest

LEMMA AppendItems ==
  ASSUME NEW S, NEW seq \in Seq(S), NEW x \in S
  PROVE  /\ Append(seq, x) \in Seq(S) /\ Append(seq, x) # <<>>
         /\ Len(seq) \in Nat /\ Len(Append(seq, x)) = Len(seq) + 1
         /\ \A i \in 1 .. Len(seq) : Append(seq, x)[i] = seq[i]
         /\ Append(seq, x)[Len(seq) + 1] = x
         /\ Items(Append(seq, x)) = Items(seq) \cup {x}
  <1>1. /\ Append(seq, x) \in Seq(S) /\ Append(seq, x) # <<>>
        /\ Len(seq) \in Nat /\ Len(Append(seq, x)) = Len(seq) + 1
        /\ \A i \in 1 .. Len(seq) : Append(seq, x)[i] = seq[i]
        /\ Append(seq, x)[Len(seq) + 1] = x
    BY AppendProperties, LenProperties
  <1>2. 1 .. Len(Append(seq, x)) = (1 .. Len(seq)) \cup {Len(seq) + 1}
    BY <1>1
  <1>3. QED
    BY <1>1, <1>2 DEF Items

LEMMA NoItems == Items(<<>>) = {}
  BY DEF Items

-----------------------------------------------------------------------------
(* What the operations on one pipeline keep. *)

(* An operation makes nothing come out that would not have come, and makes  *)
(* up no null packet.                                                       *)
Quiet(q, d, q1, d1) ==
  /\ HasNull(q1, d1) => HasNull(q, d)
  /\ NothingComes(q, d) => NothingComes(q1, d1)

\* A decoder that waits, is woken, ends, is started, or drops a frame early.
LEMMA StepPipe ==
  ASSUME NEW q, NEW d, NEW f, NEW n, Pipe(q, d, f, n), NEW d1,
         \/ d.pc = "parkedPkt" /\ d1 = [d EXCEPT !.pc = "get"]
         \/ d.pc = "parkedFrm" /\ d1 = [d EXCEPT !.pc = "woken"]
         \/ d.pc \in {"push", "woken"} /\ d1 = [d EXCEPT !.pc = "parkedFrm"]
         \/ d.pc = "get" /\ d1 = [d EXCEPT !.pc = "parkedPkt"]
         \/ d.pc = "top" /\ d1 = [d EXCEPT !.pc = "get"]
         \/ d.pc # "send" /\ d1 = [d EXCEPT !.pc = "ended"]
         \/ d.pc = "ended" /\ d1 = [d EXCEPT !.pc = "top"]
         \/ d.pc \in Pushing /\ d1 = [d EXCEPT !.pc = "top", !.frame = NoFrame]
  PROVE  Pipe(q, d1, f, n) /\ Quiet(q, d, q, d1)
  <1>0. d \in Decoders /\ NoFrame \in Frames
    BY DEF Pipe, NoFrame, Frames
  <1>1. /\ d1 \in Decoders /\ d1.serial = d.serial /\ d1.finished = d.finished /\ d1.pkt = d.pkt
        /\ d1.codec = d.codec /\ d1.frame \in {d.frame, NoFrame}
        /\ d1.pc # "send" /\ d.pc # "send" /\ (d1.pc \in Pushing => d.pc \in Pushing)
    BY <1>0 DEF Decoders, DecoderSteps, Pushing
  <1>2. SawNull(q, d1) <=> SawNull(q, d)
    BY <1>1 DEF SawNull
  <1>3. NoFrame.serial = 0 /\ q.serial \in Nat \ {0}
    BY DEF NoFrame, Pipe, PacketQueues
  <1>4. FreshDecoder(q, d1, n)
    BY <1>1, <1>3 DEF Pipe, FreshDecoder
  <1>5. Draining(q, d1)
    BY <1>1, <1>2 DEF Pipe, Draining
  <1>6. QED
    BY <1>1, <1>2, <1>4, <1>5 DEF Pipe, Quiet, HasNull, NothingComes

LEMMA GoPipe ==
  ASSUME NEW q, NEW d, NEW f, NEW n, Pipe(q, d, f, n), NEW l,
         \/ d.pc = "top" /\ l = "get"
         \/ d.pc = "get" /\ l = "parkedPkt"
         \/ d.pc \in {"push", "woken"} /\ l = "parkedFrm"
         \/ d.pc # "send" /\ l = "ended"
         \/ d.pc = "ended" /\ l = "top"
  PROVE  Pipe(q, [d EXCEPT !.pc = l], f, n) /\ Quiet(q, d, q, [d EXCEPT !.pc = l])
  <1> DEFINE d1 == [d EXCEPT !.pc = l]
  <1>1. d1 = [d EXCEPT !.pc = l]
    OBVIOUS
  <1> HIDE DEF d1
  <1>2. Pipe(q, d1, f, n) /\ Quiet(q, d, q, d1)
    BY <1>1, StepPipe
  <1>3. QED
    BY <1>1, <1>2

\* avcodec_receive_frame, at the end and before.
LEMMA FinishPipe ==
  ASSUME NEW q, NEW d, NEW f, NEW n, Pipe(q, d, f, n), NEW d1,
         d.pc = "top", d.serial = q.serial, Drained(d.codec),
         d1 = [d EXCEPT !.finished = d.serial, !.codec = EmptyCodec]
  PROVE  Pipe(q, d1, f, n) /\ Quiet(q, d, q, d1)
  <1>1. d \in Decoders /\ EmptyCodec \in Codecs /\ EmptyCodec.held = <<>>
        /\ d.codec.draining /\ ~EmptyCodec.draining
    BY DEF Pipe, EmptyCodec, Codecs, Drained
  <1>2. /\ d1 \in Decoders /\ d1.serial = d.serial /\ d1.finished = d.serial /\ d1.pkt = d.pkt
        /\ d1.codec = EmptyCodec /\ d1.frame = d.frame /\ d1.pc = "top"
    BY <1>1 DEF Decoders
  <1>3. SawNull(q, d) /\ NullsLeft(q) /\ d.pkt.null
    BY <1>1 DEF SawNull, Pipe, Draining
  <1>4. FreshDecoder(q, d1, n)
    BY <1>1, <1>2, NoItems DEF Pipe, FreshDecoder
  <1>5. Draining(q, d1)
    BY <1>1, <1>2, <1>3 DEF Pipe, Draining, Pushing
  <1>6. QED
    BY <1>1, <1>2, <1>3, <1>4, <1>5 DEF Pipe, Quiet, HasNull, NothingComes, Pushing

LEMMA FramePipe ==
  ASSUME NEW q, NEW d, NEW f, NEW n, Pipe(q, d, f, n), NEW d1,
         d.pc = "top", d.serial = q.serial, FrameReady(d.codec),
         d1 = [d EXCEPT !.frame = [seek |-> Head(d.codec.held).seek, serial |-> d.serial],
                        !.codec.held = Tail(@), !.pc = "push"]
  PROVE  Pipe(q, d1, f, n) /\ Quiet(q, d, q, d1)
  <1>1. d \in Decoders /\ d.codec \in Codecs /\ q.serial \in Nat
    BY DEF Pipe, Decoders, PacketQueues
  <1>2. d.codec.held \in Seq(Packets) /\ d.codec.held # <<>>
    BY <1>1 DEF Codecs, FrameReady
  <1>3. /\ Head(d.codec.held) \in Packets /\ Head(d.codec.held) \in Items(d.codec.held)
        /\ Tail(d.codec.held) \in Seq(Packets)
        /\ Items(Tail(d.codec.held)) \subseteq Items(d.codec.held)
    BY <1>2, TailItems
  <1>4. [d.codec EXCEPT !.held = Tail(@)] \in Codecs
    BY <1>1, <1>3 DEF Codecs
  <1>5. [seek |-> Head(d.codec.held).seek, serial |-> d.serial] \in Frames
    BY <1>1, <1>3 DEF Frames, Packets
  <1>6. /\ d1 \in Decoders /\ d1.serial = d.serial /\ d1.finished = d.finished /\ d1.pkt = d.pkt
        /\ d1.codec.held = Tail(d.codec.held) /\ d1.codec.draining = d.codec.draining
        /\ d1.frame.seek = Head(d.codec.held).seek /\ d1.frame.serial = d.serial
        /\ d1.pc = "push"
    BY <1>1, <1>4, <1>5 DEF Decoders, DecoderSteps, Pushing, Codecs
  <1>7. SawNull(q, d1) <=> SawNull(q, d)
    BY <1>6 DEF SawNull
  <1>8. FreshDecoder(q, d1, n)
    BY <1>3, <1>6 DEF Pipe, FreshDecoder
  <1>9. d.finished # q.serial
    BY <1>2 DEF Pipe, Draining
  <1>10. Draining(q, d1)
    BY <1>6, <1>7, <1>9 DEF Pipe, Draining
  <1>11. QED
    BY <1>2, <1>6, <1>7, <1>8, <1>10 DEF Pipe, Quiet, HasNull, NothingComes

\* packet_queue_get, and the reset of the codec by a packet with a new serial.
LEMMA GetPipe ==
  ASSUME NEW q, NEW d, NEW f, NEW n, Pipe(q, d, f, n), NEW q1, NEW d1,
         d.pc = "get", q.pkts # <<>>, q1 = [q EXCEPT !.pkts = Tail(@)],
         LET got == [d EXCEPT !.pc = "send", !.pkt = Head(q.pkts), !.serial = Head(q.pkts).serial]
         IN  d1 = IF got.serial = d.serial THEN got
                  ELSE [got EXCEPT !.finished = 0, !.codec = EmptyCodec]
  PROVE  Pipe(q1, d1, f, n) /\ Quiet(q, d, q1, d1)
  <1> DEFINE p == Head(q.pkts)
  <1>1. /\ d \in Decoders /\ q \in PacketQueues /\ q.pkts \in Seq(Packets)
        /\ q.serial \in Nat \ {0} /\ d.finished \in {0, d.serial}
    BY DEF Pipe, PacketQueues, Draining
  <1>2. /\ p \in Packets /\ p \in Items(q.pkts) /\ p = q.pkts[1]
        /\ Tail(q.pkts) \in Seq(Packets) /\ Items(Tail(q.pkts)) \subseteq Items(q.pkts)
        /\ Len(q.pkts) \in Nat /\ Len(Tail(q.pkts)) = Len(q.pkts) - 1
        /\ \A i \in 1 .. Len(Tail(q.pkts)) : Tail(q.pkts)[i] = q.pkts[i + 1]
    BY <1>1, TailItems
  <1>3. p.serial = q.serial /\ (p.null \/ p.seek >= n)
    BY <1>2 DEF Pipe, FreshPackets
  <1> HIDE DEF p
  <1>4. q1 \in PacketQueues /\ q1.serial = q.serial /\ q1.pkts = Tail(q.pkts)
    BY <1>1, <1>2 DEF PacketQueues
  <1>5. EmptyCodec \in Codecs /\ EmptyCodec.held = <<>> /\ ~EmptyCodec.draining
    BY DEF EmptyCodec, Codecs
  <1>6. /\ d1 \in Decoders /\ d1.serial = q.serial /\ d1.pkt = p /\ d1.frame = d.frame
        /\ d1.pc = "send"
        /\ d.serial = q.serial => d1.finished = d.finished /\ d1.codec = d.codec
        /\ d.serial # q.serial => d1.finished = 0 /\ d1.codec = EmptyCodec
    BY <1>1, <1>2, <1>3, <1>5 DEF Decoders, DecoderSteps, Serials, p
  <1>7. FreshPackets(q1, n)
    BY <1>2, <1>4 DEF Pipe, FreshPackets
  <1>8. FreshDecoder(q1, d1, n)
    BY <1>1, <1>3, <1>4, <1>5, <1>6, NoItems DEF Pipe, FreshDecoder
  <1>9. FreshFrames(q1, f, n)
    BY <1>4 DEF Pipe, FreshFrames
  <1>10. p.null => NullsLeft(q1)
    <2>1. SUFFICES ASSUME p.null, NEW i \in 1 .. Len(Tail(q.pkts)) PROVE q.pkts[i + 1].null
      BY <1>2, <1>4 DEF NullsLeft, Items
    <2>2. 1 \in 1 .. Len(q.pkts) /\ i + 1 \in 1 .. Len(q.pkts) /\ 1 < i + 1
      BY <1>2
    <2>3. QED
      BY <2>1, <2>2, <1>2 DEF Pipe, Draining
  <1>11. SawNull(q1, d1) => SawNull(q, d) \/ p.null
    BY <1>1, <1>4, <1>5, <1>6 DEF SawNull
  <1>12. SawNull(q, d) \/ NullsLeft(q) => p.null
    BY <1>2 DEF Pipe, Draining, NullsLeft
  <1>13. \A i, j \in 1 .. Len(q1.pkts) : i < j /\ q1.pkts[i].null => q1.pkts[j].null
    <2>1. TAKE i, j \in 1 .. Len(q1.pkts)
    <2>2. i + 1 \in 1 .. Len(q.pkts) /\ j + 1 \in 1 .. Len(q.pkts) /\ (i < j => i + 1 < j + 1)
      BY <1>2, <1>4
    <2>3. QED
      BY <2>2, <1>2, <1>4 DEF Pipe, Draining
  <1>14. Draining(q1, d1)
    <2>1. d1.finished \in {0, d1.serial}
      BY <1>1, <1>6
    <2>2. d1.finished = q1.serial => d1.codec.held = <<>> /\ d1.pc \notin Pushing
      BY <1>1, <1>4, <1>6 DEF Pipe, Draining, Pushing
    <2>3. SawNull(q1, d1) => NullsLeft(q1) /\ d1.pkt.null
      BY <1>6, <1>10, <1>11, <1>12
    <2>4. QED
      BY <2>1, <2>2, <2>3, <1>6, <1>13 DEF Draining
  <1>15. Quiet(q, d, q1, d1)
    <2>1. HasNull(q1, d1) => HasNull(q, d)
      BY <1>2, <1>4, <1>11 DEF HasNull
    <2>2. NothingComes(q, d) => NothingComes(q1, d1)
      BY <1>2, <1>4, <1>5, <1>6, <1>12 DEF NothingComes, NullsLeft, Pushing
    <2>3. QED
      BY <2>1, <2>2 DEF Quiet
  <1>16. QED
    BY <1>4, <1>6, <1>7, <1>8, <1>9, <1>14, <1>15 DEF Pipe

\* avcodec_send_packet, and the packet that a flush has made obsolete.
LEMMA ObsoletePipe ==
  ASSUME NEW q, NEW d, NEW f, NEW n, Pipe(q, d, f, n), NEW d1,
         d.pc = "send", q.serial # d.serial, d1 = [d EXCEPT !.pc = "get", !.pkt = Null]
  PROVE  Pipe(q, d1, f, n) /\ Quiet(q, d, q, d1)
  <1>1. d \in Decoders /\ Null \in Packets /\ Null.null
    BY DEF Pipe, Null, Packets
  <1>2. /\ d1 \in Decoders /\ d1.serial = d.serial /\ d1.finished = d.finished /\ d1.pkt = Null
        /\ d1.codec = d.codec /\ d1.frame = d.frame /\ d1.pc = "get"
    BY <1>1 DEF Decoders, DecoderSteps
  <1>3. ~SawNull(q, d1)
    BY <1>2 DEF SawNull
  <1>4. FreshDecoder(q, d1, n)
    BY <1>1, <1>2 DEF Pipe, FreshDecoder
  <1>5. Draining(q, d1)
    BY <1>1, <1>2, <1>3 DEF Pipe, Draining, Pushing
  <1>6. QED
    BY <1>1, <1>2, <1>3, <1>4, <1>5 DEF Pipe, Quiet, HasNull, NothingComes, Pushing

LEMMA SendPipe ==
  ASSUME NEW q, NEW d, NEW f, NEW n, Pipe(q, d, f, n), NEW d1,
         d.pc = "send", q.serial = d.serial,
         d1 = [d EXCEPT !.pc = "top", !.pkt = Null,
                        !.codec.held = IF d.pkt.null THEN @ ELSE Append(@, d.pkt),
                        !.codec.draining = d.pkt.null]
  PROVE  Pipe(q, d1, f, n) /\ Quiet(q, d, q, d1)
  <1> DEFINE h == IF d.pkt.null THEN d.codec.held ELSE Append(d.codec.held, d.pkt)
  <1>1. /\ d \in Decoders /\ Null \in Packets /\ Null.null /\ d.pkt \in Packets
        /\ d.codec \in Codecs /\ d.codec.held \in Seq(Packets) /\ d.pkt.null \in BOOLEAN
    BY DEF Pipe, Null, Packets, Decoders, Codecs
  <1>2. h \in Seq(Packets) /\ Items(h) \subseteq Items(d.codec.held) \cup {d.pkt}
        /\ (d.pkt.null => h = d.codec.held)
    BY <1>1, AppendItems
  <1>3. /\ d.pkt.null \/ d.pkt.seek >= n
        /\ \A x \in Items(d.codec.held) : x.seek >= n
    BY DEF Pipe, FreshDecoder
  <1>4. \A x \in Items(h) : x.seek >= n
    BY <1>2, <1>3
  <1>5. d1 = [d EXCEPT !.pc = "top", !.pkt = Null, !.codec.held = h, !.codec.draining = d.pkt.null]
    OBVIOUS
  <1> HIDE DEF h
  <1>6. /\ [d.codec EXCEPT !.held = h, !.draining = d.pkt.null] \in Codecs
        /\ [d.codec EXCEPT !.held = h, !.draining = d.pkt.null].held = h
        /\ [d.codec EXCEPT !.held = h, !.draining = d.pkt.null].draining = d.pkt.null
    BY <1>1, <1>2 DEF Codecs
  <1>7. /\ d1 \in Decoders /\ d1.serial = d.serial /\ d1.finished = d.finished /\ d1.pkt = Null
        /\ d1.codec.held = h /\ d1.codec.draining = d.pkt.null /\ d1.frame = d.frame
        /\ d1.pc = "top"
    BY <1>1, <1>5, <1>6 DEF Decoders, DecoderSteps, Codecs
  <1>8. SawNull(q, d1) => SawNull(q, d)
    BY <1>7 DEF SawNull
  <1>9. FreshDecoder(q, d1, n)
    BY <1>1, <1>4, <1>7 DEF Pipe, FreshDecoder
  <1>10. d.finished = q.serial => d.pkt.null /\ d.codec.held = <<>>
    BY DEF Pipe, Draining, SawNull
  <1>11. Draining(q, d1)
    BY <1>1, <1>2, <1>7, <1>8, <1>10 DEF Pipe, Draining, Pushing
  <1>12. QED
    BY <1>1, <1>2, <1>7, <1>8, <1>9, <1>11 DEF Pipe, Quiet, HasNull, NothingComes, Pushing

\* frame_queue_push, and frame_queue_next on the other side.
LEMMA PushPipe ==
  ASSUME NEW q, NEW d, NEW f, NEW n, Pipe(q, d, f, n), NEW d1, NEW f1,
         d.pc \in Pushing, d1 = [d EXCEPT !.pc = "top", !.frame = NoFrame],
         f1 = [f EXCEPT !.frames = Append(@, d.frame), !.waiting = FALSE]
  PROVE  Pipe(q, d1, f1, n) /\ Quiet(q, d, q, d1)
  <1>1. Pipe(q, d1, f, n) /\ Quiet(q, d, q, d1)
    BY StepPipe
  <1>2. f \in FrameQueues /\ f.frames \in Seq(Frames) /\ d.frame \in Frames
    BY DEF Pipe, FrameQueues, Decoders
  <1>3. /\ Append(f.frames, d.frame) \in Seq(Frames) /\ Append(f.frames, d.frame) # <<>>
        /\ Items(Append(f.frames, d.frame)) = Items(f.frames) \cup {d.frame}
    BY <1>2, AppendItems
  <1>4. f1 \in FrameQueues /\ f1.frames = Append(f.frames, d.frame)
    BY <1>2, <1>3 DEF FrameQueues
  <1>5. FreshFrames(q, f1, n)
    BY <1>3, <1>4 DEF Pipe, FreshFrames, FreshDecoder
  <1>6. QED
    BY <1>1, <1>3, <1>4, <1>5 DEF Pipe

FrameTaken(f) == IF f.shown = 0 THEN [f EXCEPT !.shown = 1] ELSE [f EXCEPT !.frames = Tail(@)]

LEMMA NextPipe ==
  ASSUME NEW q, NEW d, NEW f, NEW n, Pipe(q, d, f, n), Len(f.frames) - f.shown > 0
  PROVE  /\ Pipe(q, d, FrameTaken(f), n)
         /\ FrameTaken(f).shown = 1
         /\ Head(FrameTaken(f).frames) = f.frames[1 + f.shown]
  <1> DEFINE f1 == FrameTaken(f)
  <1>0. f1 = IF f.shown = 0 THEN [f EXCEPT !.shown = 1] ELSE [f EXCEPT !.frames = Tail(@)]
    BY DEF FrameTaken
  <1> HIDE DEF f1
  <1>1. f \in FrameQueues /\ f.frames \in Seq(Frames) /\ Len(f.frames) \in Nat /\ f.shown \in {0, 1}
    BY LenProperties DEF Pipe, FrameQueues
  <1>2. Len(f.frames) >= 1 /\ f.frames # <<>> /\ (f.shown = 1 => Len(f.frames) >= 2)
    BY <1>1
  <1>3. /\ Tail(f.frames) \in Seq(Frames) /\ Len(Tail(f.frames)) = Len(f.frames) - 1
        /\ Head(f.frames) = f.frames[1]
        /\ \A i \in 1 .. Len(Tail(f.frames)) : Tail(f.frames)[i] = f.frames[i + 1]
        /\ Items(Tail(f.frames)) \subseteq Items(f.frames)
    BY <1>1, <1>2, TailItems
  <1>4. CASE f.shown = 0
    <2>1. f1 \in FrameQueues /\ f1.frames = f.frames /\ f1.shown = 1
      BY <1>0, <1>1, <1>4 DEF FrameQueues
    <2>2. QED
      BY <1>1, <1>2, <1>3, <1>4, <2>1 DEF Pipe, FreshFrames, f1
  <1>5. CASE f.shown = 1
    <2>0. f1 = [f EXCEPT !.frames = Tail(f.frames)]
      BY <1>0, <1>5
    <2>1. f1 \in FrameQueues /\ f1.frames = Tail(f.frames) /\ f1.shown = 1
      BY <1>1, <1>3, <1>5, <2>0 DEF FrameQueues
    <2>2. 1 \in 1 .. Len(Tail(f.frames)) /\ Tail(f.frames) # <<>>
      <3>1. Len(f.frames) > 1
        BY <1>1, <1>2, <1>5
      <3>2. Tail(f.frames) # <<>>
        BY <1>1, <1>2, <3>1, MoreItems
      <3>3. QED
        BY <1>1, <1>3, <3>1, <3>2
    <2>3. Head(Tail(f.frames)) = f.frames[2]
      BY <1>3, <2>2, TailItems
    <2>4. Pipe(q, d, f1, n)
      BY <1>3, <2>1, <2>2 DEF Pipe, FreshFrames
    <2>5. QED
      BY <1>1, <1>3, <1>5, <2>1, <2>3, <2>4 DEF f1
  <1>6. QED
    BY <1>1, <1>4, <1>5

\* frame_queue_peek_readable waits, and is woken.
LEMMA WaitPipe ==
  ASSUME NEW q, NEW d, NEW f, NEW n, Pipe(q, d, f, n), NEW b \in BOOLEAN
  PROVE  Pipe(q, d, [f EXCEPT !.waiting = b], n)
  BY DEF Pipe, FrameQueues, FreshFrames

\* packet_queue_flush, for any later seek, packet_queue_start of an empty queue and
\* packet_queue_abort.
LEMMA FlushPipe ==
  ASSUME NEW q, NEW d, NEW f, NEW n, Pipe(q, d, f, n), NEW m \in Nat, NEW q1,
         \/ q1 = Flushed(q)
         \/ q.pkts = <<>> /\ q1 = Started(q)
  PROVE  /\ Pipe(q1, d, f, m) /\ ~HasNull(q1, d) /\ Quiet(q, d, q1, d)
         /\ q1.serial = q.serial + 1 /\ q1.pkts = <<>>
  <1>0. /\ q \in PacketQueues /\ d \in Decoders /\ f \in FrameQueues
        /\ f.frames \in Seq(Frames) /\ d.frame \in Frames
    BY DEF Pipe, Decoders, FrameQueues
  <1>1. /\ q \in PacketQueues /\ d \in Decoders /\ f \in FrameQueues
        /\ q.serial \in Nat \ {0} /\ d.serial \in Serials /\ d.frame.serial \in Nat
        /\ \A x \in Items(f.frames) : x.serial \in Nat
    <2>1. \A i \in 1 .. Len(f.frames) : f.frames[i] \in Frames
      BY <1>0, ElementOfSeq
    <2>2. QED
      BY <1>0, <2>1 DEF PacketQueues, Decoders, Frames, Items
  <1>2. q1 \in PacketQueues /\ q1.serial = q.serial + 1 /\ q1.pkts = <<>>
    <2>1. <<>> \in Seq(Packets) /\ q.serial + 1 \in Nat \ {0}
      BY <1>1
    <2> DEFINE k == q.serial + 1
    <2>5. k \in Nat \ {0} /\ k = q.serial + 1
      BY <2>1
    <2>6. Flushed(q) = [q EXCEPT !.pkts = <<>>, !.serial = k]
      BY DEF Flushed
    <2>7. Started(q) = [q EXCEPT !.abort = FALSE, !.serial = k]
      BY DEF Started
    <2> HIDE DEF k
    <2>2. CASE q1 = Flushed(q)
      BY <1>1, <2>1, <2>2, <2>5, <2>6 DEF PacketQueues
    <2>3. CASE q.pkts = <<>> /\ q1 = Started(q)
      BY <1>1, <2>3, <2>5, <2>7 DEF PacketQueues
    <2>4. QED
      BY <2>2, <2>3
  <1>3. /\ d.serial < q1.serial /\ d.frame.serial < q1.serial
        /\ \A x \in Items(f.frames) : x.serial < q1.serial
    BY <1>1, <1>2 DEF Pipe, FreshDecoder, FreshFrames, Serials
  <1>4. ~HasNull(q1, d) /\ ~SawNull(q1, d) /\ d.finished # q1.serial
    BY <1>1, <1>2, <1>3, NoItems DEF Pipe, Draining, HasNull, SawNull, Serials
  <1>5. FreshPackets(q1, m) /\ FreshFrames(q1, f, m)
    BY <1>1, <1>2, <1>3, NoItems DEF FreshPackets, FreshFrames
  <1>6. FreshDecoder(q1, d, m)
    BY <1>1, <1>2, <1>3 DEF FreshDecoder, Serials
  <1>7. Draining(q1, d)
    BY <1>2, <1>4, EmptySeq DEF Pipe, Draining
  <1>8. Quiet(q, d, q1, d)
    BY <1>1, <1>2, <1>3, <1>4, NoItems DEF Quiet, NothingComes, NullsLeft, Serials
  <1>9. QED
    BY <1>2, <1>4, <1>5, <1>6, <1>7, <1>8 DEF Pipe

LEMMA AbortPipe ==
  ASSUME NEW q, NEW d, NEW f, NEW n, Pipe(q, d, f, n)
  PROVE  /\ Pipe([q EXCEPT !.abort = TRUE], d, f, n)
         /\ Quiet(q, d, [q EXCEPT !.abort = TRUE], d)
  BY DEF Pipe, PacketQueues, FreshPackets, FreshDecoder, FreshFrames, Draining, SawNull,
         NullsLeft, Quiet, HasNull, NothingComes

\* packet_queue_put.
LEMMA PutPipe ==
  ASSUME NEW q, NEW d, NEW f, NEW n, Pipe(q, d, f, n), NEW p \in Packets, NEW q1,
         p.null \/ p.seek >= n, HasNull(q, d) => p.null,
         q1 = [q EXCEPT !.pkts = Append(@, [p EXCEPT !.serial = q.serial])]
  PROVE  /\ Pipe(q1, d, f, n)
         /\ HasNull(q1, d) => p.null
         /\ p.null /\ NothingComes(q, d) => NothingComes(q1, d)
  <1> DEFINE x == [p EXCEPT !.serial = q.serial]
  <1>1. q \in PacketQueues /\ q.pkts \in Seq(Packets) /\ q.serial \in Nat
    BY DEF Pipe, PacketQueues
  <1>2. x \in Packets /\ x.serial = q.serial /\ x.null = p.null /\ x.seek = p.seek
    BY <1>1 DEF Packets
  <1>3. q1 = [q EXCEPT !.pkts = Append(q.pkts, x)]
    OBVIOUS
  <1> HIDE DEF x
  <1>4. /\ Append(q.pkts, x) \in Seq(Packets)
        /\ Len(q.pkts) \in Nat /\ Len(Append(q.pkts, x)) = Len(q.pkts) + 1
        /\ \A i \in 1 .. Len(q.pkts) : Append(q.pkts, x)[i] = q.pkts[i]
        /\ Append(q.pkts, x)[Len(q.pkts) + 1] = x
        /\ Items(Append(q.pkts, x)) = Items(q.pkts) \cup {x}
    BY <1>1, <1>2, AppendItems
  <1>5. q1 \in PacketQueues /\ q1.serial = q.serial /\ q1.pkts = Append(q.pkts, x)
    BY <1>1, <1>3, <1>4 DEF PacketQueues
  <1>6. FreshPackets(q1, n)
    BY <1>2, <1>4, <1>5 DEF Pipe, FreshPackets
  <1>7. SawNull(q1, d) <=> SawNull(q, d)
    BY <1>5 DEF SawNull
  <1>8. SawNull(q, d) => p.null
    BY DEF HasNull
  <1>9. \A i, j \in 1 .. Len(q1.pkts) : i < j /\ q1.pkts[i].null => q1.pkts[j].null
    <2>1. SUFFICES ASSUME NEW i \in 1 .. Len(q.pkts) + 1, NEW j \in 1 .. Len(q.pkts) + 1,
                          i < j, q1.pkts[i].null
                   PROVE  q1.pkts[j].null
      BY <1>4, <1>5
    <2>2. i \in 1 .. Len(q.pkts) /\ q.pkts[i].null
      BY <1>4, <1>5, <2>1
    <2>3. CASE j \in 1 .. Len(q.pkts)
      BY <1>4, <1>5, <2>1, <2>2, <2>3 DEF Pipe, Draining
    <2>4. CASE j = Len(q.pkts) + 1
      <3>1. HasNull(q, d)
        BY <2>2 DEF HasNull, Items
      <3>2. QED
        BY <1>2, <1>4, <1>5, <2>4, <3>1
    <2>5. QED
      BY <1>4, <2>1, <2>3, <2>4
  <1>10. Draining(q1, d)
    BY <1>2, <1>4, <1>5, <1>7, <1>8, <1>9 DEF Pipe, Draining, NullsLeft
  <1>11. HasNull(q1, d) => p.null
    BY <1>2, <1>4, <1>5, <1>7 DEF HasNull
  <1>12. p.null /\ NothingComes(q, d) => NothingComes(q1, d)
    BY <1>2, <1>4, <1>5 DEF NothingComes, NullsLeft
  <1>13. QED
    BY <1>5, <1>6, <1>10, <1>11, <1>12 DEF Pipe, FreshDecoder, FreshFrames

\* decoder_init for the track that is opened.
LEMMA NewPipe ==
  ASSUME NEW q, NEW d, NEW f, NEW n, Pipe(q, d, f, n), NEW d1,
         d1 = [NewDecoder EXCEPT !.pc = "ended"]
  PROVE  Pipe(q, d1, f, n) /\ Quiet(q, d, q, d1) /\ d1.pc = "ended" /\ d1.serial < q.serial
  <1>1. q.serial \in Nat \ {0}
    BY DEF Pipe, PacketQueues
  <1>2. /\ d1.pc = "ended" /\ d1.serial = -1 /\ d1.finished = 0 /\ d1.pkt = Null
        /\ d1.frame = NoFrame /\ d1.codec = EmptyCodec
    BY DEF NewDecoder
  <1>3. Null \in Packets /\ Null.null /\ NoFrame \in Frames /\ NoFrame.serial = 0
        /\ EmptyCodec \in Codecs /\ EmptyCodec.held = <<>>
    BY DEF Null, Packets, NoFrame, Frames, EmptyCodec, Codecs
  <1>4. d1 \in Decoders
    BY <1>3 DEF Decoders, DecoderSteps, Serials, NewDecoder
  <1>5. ~SawNull(q, d1)
    BY <1>1, <1>2 DEF SawNull
  <1>6. FreshDecoder(q, d1, n)
    BY <1>1, <1>2, <1>3 DEF FreshDecoder
  <1>7. Draining(q, d1)
    BY <1>1, <1>2, <1>3, <1>5 DEF Pipe, Draining, Pushing
  <1>8. QED
    BY <1>1, <1>2, <1>3, <1>4, <1>5, <1>6, <1>7
       DEF Pipe, Quiet, HasNull, NothingComes, Pushing

-----------------------------------------------------------------------------
(* The pipelines of all streams. *)

\* The streams in the order in which the code goes over them.
LEMMA TupleItems ==
  ASSUME NEW a, NEW b
  PROVE  /\ Items(<<a>>) = {a} /\ <<a>> # <<>>
         /\ Items(<<a>> \o <<b>>) = {a, b} /\ <<a>> \o <<b>> # <<>>
         /\ <<>> \o <<b>> = <<b>> /\ <<a>> \o <<>> = <<a>> /\ <<>> \o <<>> = <<>>
  <1>1. <<a>> \in Seq({a, b}) /\ <<b>> \in Seq({a, b}) /\ Len(<<a>>) = 1 /\ Len(<<b>>) = 1
    OBVIOUS
  <1>2. /\ <<>> \o <<b>> = <<b>> /\ <<a>> \o <<>> = <<a>> /\ <<>> \o <<>> = <<>>
    BY <1>1, ConcatEmptySeq, EmptySeq
  <1>3. /\ Len(<<a>> \o <<b>>) = 2 /\ (<<a>> \o <<b>>)[1] = a /\ (<<a>> \o <<b>>)[2] = b
        /\ <<a>> \o <<b>> \in Seq({a, b})
    BY <1>1, ConcatProperties
  <1>4. Items(<<a>>) = {a}
    <2>1. 1 .. Len(<<a>>) = {1} /\ <<a>>[1] = a
      BY <1>1
    <2>2. QED
      BY <2>1 DEF Items
  <1>5. Items(<<a>> \o <<b>>) = {a, b}
    <2>1. 1 .. Len(<<a>> \o <<b>>) = {1, 2}
      BY <1>3
    <2>2. QED
      BY <2>1, <1>3 DEF Items
  <1>6. <<a>> # <<>> /\ <<a>> \o <<b>> # <<>>
    <2>1. Len(<<>>) = 0
      OBVIOUS
    <2>2. QED
      BY <2>1, <1>1, <1>3
  <1>7. QED
    BY <1>2, <1>4, <1>5, <1>6

LEMMA FirstThenItems ==
  ASSUME NEW a, NEW b, NEW S
  PROVE  /\ FirstThen(a, b, S) \in Seq(S \cap {a, b}) /\ Items(FirstThen(a, b, S)) = S \cap {a, b}
         /\ S \cap {a, b} # {} => FirstThen(a, b, S) # <<>>
  <1>1. CASE a \in S /\ b \in S
    <2>1. FirstThen(a, b, S) = <<a>> \o <<b>> /\ S \cap {a, b} = {a, b}
      BY <1>1 DEF FirstThen
    <2>2. <<a>> \in Seq({a, b}) /\ <<b>> \in Seq({a, b})
      OBVIOUS
    <2>3. <<a>> \o <<b>> \in Seq({a, b})
      BY <2>2, ConcatProperties
    <2>4. QED
      BY <2>1, <2>3, TupleItems
  <1>2. CASE a \in S /\ b \notin S
    <2>1. FirstThen(a, b, S) = <<a>> /\ S \cap {a, b} = {a}
      BY <1>2, TupleItems DEF FirstThen
    <2>2. QED
      BY <2>1, TupleItems
  <1>3. CASE a \notin S /\ b \in S
    <2>1. FirstThen(a, b, S) = <<b>> /\ S \cap {a, b} = {b}
      BY <1>3, TupleItems DEF FirstThen
    <2>2. QED
      BY <2>1, TupleItems
  <1>4. CASE a \notin S /\ b \notin S
    <2>1. FirstThen(a, b, S) = <<>> /\ S \cap {a, b} = {}
      BY <1>4, TupleItems DEF FirstThen
    <2>2. QED
      BY <2>1, NoItems, EmptySeq
  <1>5. QED
    BY <1>1, <1>2, <1>3, <1>4

LEMMA OrderItems ==
  ASSUME NEW S, S \subseteq Streams
  PROVE  /\ AudioFirst(S) \in Seq(Streams) /\ VideoFirst(S) \in Seq(Streams)
         /\ Items(AudioFirst(S)) = S /\ Items(VideoFirst(S)) = S
         /\ S # {} => AudioFirst(S) # <<>> /\ VideoFirst(S) # <<>>
  <1>1. S \cap {"audio", "video"} = S /\ S \cap {"video", "audio"} = S
    BY DecoderAssumption
  <1>2. /\ AudioFirst(S) \in Seq(S) /\ VideoFirst(S) \in Seq(S)
        /\ Items(AudioFirst(S)) = S /\ Items(VideoFirst(S)) = S
        /\ S # {} => AudioFirst(S) # <<>> /\ VideoFirst(S) # <<>>
    BY <1>1, FirstThenItems DEF AudioFirst, VideoFirst
  <1>3. QED
    BY <1>2, SeqMonotonic

-----------------------------------------------------------------------------
(* read_thread between its operations on the pipelines. *)

ReaderOnly == UNCHANGED <<pq, dec, fq, flushed, stale, mt, track, audio>>

\* Nobody else depends on where read_thread is.
LEMMA ReaderSteps ==
  ASSUME IInv, ReaderOnly, rd' \in Readers, seek' \in [req : BOOLEAN, pos : Nat],
         seeks' \in Nat, skipped' \subseteq Streams,
         ReadShape', AtFileEnd', EndChecked'
  PROVE  IInv'
  <1>1. CoreTypes'
    BY DEF IInv, CoreTypes, ReaderOnly
  <1>2. Pipes'
    BY DEF IInv, Pipes, ReaderOnly
  <1>3. MainShape' /\ ClosedEmpty'
    BY DEF IInv, MainShape, ClosedEmpty, Closed, Closing, ReaderOnly
  <1>4. OneStale'
    BY DEF IInv, OneStale, StaleAtMostOnce, Remaining, Peek, ReaderOnly
  <1>5. QED
    BY <1>1, <1>2, <1>3, <1>4 DEF IInv

\* A step that neither moves in the file nor begins to put, to flush or to check.
LEMMA ReaderGoesOn ==
  ASSUME IInv, ReaderOnly, rd' \in Readers, seek' \in [req : BOOLEAN, pos : Nat],
         seeks' = seeks, skipped' \subseteq Streams,
         rd.pc # "flush", rd'.pos = rd.pos,
         rd'.pc \notin {"flush", "check", "count", "atEnd", "put"}
  PROVE  IInv'
  <1>1. ReadShape' /\ EndChecked'
    BY DEF IInv, ReadShape, EndChecked, ReaderOnly
  <1>2. AtFileEnd'
    BY DEF IInv, AtFileEnd, ReaderOnly
  <1>3. seeks' \in Nat
    BY DEF IInv, CoreTypes
  <1>4. QED
    BY <1>1, <1>2, <1>3, ReaderSteps

LEMMA ReaderTypes ==
  ASSUME IInv
  PROVE  /\ rd \in Readers /\ rd.pc \in ReadSteps /\ rd.todo \in Seq(Streams) /\ rd.pos \in Nat
         /\ rd.pkt \in Packets /\ seeks \in Nat /\ skipped \subseteq Streams
         /\ seek \in [req : BOOLEAN, pos : Nat] /\ seek.pos \in Nat
         /\ File \in Seq([stream : Streams, track : {1, 2}]) /\ Len(File) \in Nat
         /\ \A p \in SeekTargets : p \in Nat
  <1>1. rd \in Readers /\ seek \in [req : BOOLEAN, pos : Nat]
    BY DEF IInv, CoreTypes
  <1>2. File \in Seq([stream : Streams, track : {1, 2}]) /\ Len(File) \in Nat
    BY PlayerAssumption, LenProperties
  <1>3. QED
    BY <1>1, <1>2, PlayerAssumption DEF IInv, CoreTypes, Readers

LEMMA GotoKeeps ==
  ASSUME IInv, NEW l \in ReadSteps, ReadGoto(l)
  PROVE  /\ rd' \in Readers /\ rd'.pc = l /\ rd'.todo = rd.todo /\ rd'.pkt = rd.pkt
         /\ rd'.pos = rd.pos /\ rd'.eof = rd.eof
  BY ReaderTypes DEF ReadGoto, Readers

LEMMA SeekToKeeps ==
  ASSUME IInv, NEW p \in Nat, SeekTo(p)
  PROVE  seek' \in [req : BOOLEAN, pos : Nat]
  BY ReaderTypes DEF SeekTo

LEMMA ReaderGoesStep ==
  ASSUME IInv, ReadSought \/ ReadToggle \/ ReadToggleLoad \/ ReadToggleStore \/ ReadStep
               \/ ReadAtEnd \/ ReadError \/ ReadRetry
  PROVE  IInv'
  <1>1. ReaderOnly
    BY DEF ReadSought, ReadToggle, ReadToggleLoad, ReadToggleStore, ReadStep, ReadAtEnd,
           ReadError, ReadRetry, pipeVars, histVars, mainVars, playVars, ReaderOnly
  <1>2. seeks' = seeks /\ skipped' = skipped /\ rd.pc # "flush"
    BY DEF ReadSought, ReadToggle, ReadToggleLoad, ReadToggleStore, ReadStep, ReadAtEnd,
           ReadError, ReadRetry, histVars
  <1> DEFINE Goes == {"toggle", "queues", "load", "step", "unpause", "pause", "read", "loop", "ended"}
  <1>3. Goes \subseteq ReadSteps
    BY DEF ReadSteps
  <1>4. CASE ReadSought
    <2>1. seek' \in [req : BOOLEAN, pos : Nat]
      BY <1>4, ReaderTypes DEF ReadSought
    <2>2. /\ rd' = [rd EXCEPT !.eof = FALSE, !.pc = rd'.pc] /\ rd'.pc \in {"toggle", "queues"}
      BY <1>4, ReaderTypes DEF ReadSought, Readers
    <2>3. rd' \in Readers /\ rd'.pos = rd.pos
      BY <2>2, ReaderTypes DEF Readers, ReadSteps
    <2>4. QED
      BY <1>1, <1>2, <2>1, <2>2, <2>3, ReaderTypes, ReaderGoesOn
  <1>5. CASE ~ReadSought
    <2>1. \E l \in Goes : ReadGoto(l)
      BY <1>5 DEF ReadToggle, ReadToggleLoad, ReadToggleStore, ReadStep, ReadAtEnd, ReadError,
             ReadRetry
    <2>2. rd' \in Readers /\ rd'.pos = rd.pos /\ rd'.pc \in Goes
      BY <1>3, <2>1, GotoKeeps
    <2>3. seek' = seek \/ SeekTo(0)
      BY <1>5 DEF ReadToggle, ReadToggleLoad, ReadToggleStore, ReadStep, ReadAtEnd, ReadError,
             ReadRetry
    <2>4. seek' \in [req : BOOLEAN, pos : Nat]
      BY <2>3, SeekToKeeps, ReaderTypes
    <2>5. QED
      BY <1>1, <1>2, <2>2, <2>4, ReaderTypes, ReaderGoesOn
  <1>6. QED
    BY <1>4, <1>5

\* The head of the loop: a seek that succeeds leaves every queue to be flushed.
LEMMA ReadLoopStep ==
  ASSUME IInv, ReadLoop
  PROVE  IInv'
  <1>1. ReaderOnly /\ skipped' = skipped /\ seek' = seek /\ rd.pc = "loop"
    BY DEF ReadLoop, ReaderOnly, pipeVars, mainVars, playVars
  <1>2. CASE seeks' = seeks /\ \E l \in {"ended", "queues", "sought"} : ReadGoto(l)
    <2>1. rd' \in Readers /\ rd'.pos = rd.pos /\ rd'.pc \in {"ended", "queues", "sought"}
      BY <1>2, GotoKeeps DEF ReadSteps
    <2>2. QED
      BY <1>1, <1>2, <2>1, ReaderTypes, ReaderGoesOn
  <1>3. CASE /\ rd' = [rd EXCEPT !.pc = "flush", !.pos = seek.pos, !.todo = InOrder]
             /\ seeks' = seeks + 1
    <2>1. InOrder \in Seq(Streams) /\ Items(InOrder) = Streams /\ InOrder # <<>>
      BY OrderItems, DecoderAssumption DEF InOrder
    <2>2. rd' \in Readers /\ rd'.pc = "flush" /\ rd'.todo = InOrder
      BY <1>3, <2>1, ReaderTypes DEF Readers, ReadSteps
    <2>3. seeks' \in Nat /\ \A s \in Streams : flushed[s] <= seeks'
      BY <1>3, ReaderTypes DEF IInv, ReadShape, CoreTypes
    <2>4. ReadShape' /\ EndChecked'
      BY <1>1, <2>1, <2>2, <2>3 DEF ReadShape, EndChecked, ReaderOnly
    <2>5. AtFileEnd'
      BY <2>1, <2>2 DEF AtFileEnd
    <2>6. QED
      BY <1>1, <2>2, <2>3, <2>4, <2>5, ReaderTypes, ReaderSteps
  <1>4. QED
    BY <1>2, <1>3 DEF ReadLoop

\* av_read_frame: a packet is in hand only in front of the end of the file, where no
\* null packet is under way, and null packets only at the end.
LEMMA ReadPacketStep ==
  ASSUME IInv, ReadPacket
  PROVE  IInv'
  <1>1. /\ ReaderOnly /\ skipped' = skipped /\ seek' = seek /\ seeks' = seeks
        /\ rd.pc = "read" /\ rd.pos < Len(File)
    BY DEF ReadPacket, ReaderOnly, pipeVars, mainVars, playVars, histVars
  <1> DEFINE f == File[rd.pos + 1]
  <1>2. f.stream \in Streams
    <2>1. rd.pos + 1 \in 1 .. Len(File)
      BY <1>1, ReaderTypes
    <2>2. f \in [stream : Streams, track : {1, 2}]
      BY <2>1, ReaderTypes, ElementOfSeq
    <2>3. QED
      BY <2>2
  <1>3. Data(seeks) \in Packets /\ ~Data(seeks).null /\ Data(seeks).seek = seeks
    BY ReaderTypes DEF Data, Packets
  <1>4. \/ rd' = [rd EXCEPT !.pos = @ + 1, !.eof = FALSE, !.pc = "put", !.pkt = Data(seeks),
                            !.todo = <<f.stream>>]
        \/ rd' = [rd EXCEPT !.pos = @ + 1, !.eof = FALSE, !.pc = "loop"]
    BY DEF ReadPacket
  <1> HIDE DEF f
  <1>5. /\ rd' \in Readers /\ rd'.pc \in {"put", "loop"}
        /\ rd'.pc = "put" => rd'.todo # <<>> /\ rd'.pkt = Data(seeks)
    <2>1. <<f.stream>> \in Seq(Streams) /\ <<f.stream>> # <<>> /\ rd.pos + 1 \in Nat
      BY <1>2, ReaderTypes, TupleItems
    <2>2. CASE rd' = [rd EXCEPT !.pos = @ + 1, !.eof = FALSE, !.pc = "put",
                                !.pkt = Data(seeks), !.todo = <<f.stream>>]
      BY <1>3, <2>1, <2>2, ReaderTypes DEF Readers, ReadSteps
    <2>3. CASE rd' = [rd EXCEPT !.pos = @ + 1, !.eof = FALSE, !.pc = "loop"]
      BY <2>1, <2>3, ReaderTypes DEF Readers, ReadSteps
    <2>4. QED
      BY <1>4, <2>2, <2>3
  <1>6. ReadShape' /\ EndChecked'
    BY <1>1, <1>3, <1>5 DEF IInv, ReadShape, EndChecked, ReaderOnly
  <1>7. \A s \in Streams : ~HasNull(pq[s], dec[s])
    BY <1>1, ReaderTypes DEF IInv, AtFileEnd
  <1>8. AtFileEnd'
    BY <1>1, <1>7 DEF AtFileEnd, ReaderOnly
  <1>9. QED
    BY <1>1, <1>5, <1>6, <1>8, ReaderTypes, ReaderSteps

LEMMA ReadEndStep ==
  ASSUME IInv, ReadEnd
  PROVE  IInv'
  <1>1. /\ ReaderOnly /\ skipped' = skipped /\ seek' = seek /\ seeks' = seeks
        /\ rd.pc = "read" /\ rd.pos = Len(File)
    BY DEF ReadEnd, ReaderOnly, pipeVars, mainVars, playVars, histVars
  <1>2. Null \in Packets /\ Null.null
    BY DEF Null, Packets
  <1>3. VideoFirst(Streams) \in Seq(Streams) /\ VideoFirst(Streams) # <<>>
    BY OrderItems, DecoderAssumption
  <1>4. \/ rd' = [rd EXCEPT !.pc = "loop"]
        \/ rd' = [rd EXCEPT !.pkt = Null, !.pc = "put", !.todo = VideoFirst(Streams)]
    BY DEF ReadEnd
  <1>5. /\ rd' \in Readers /\ rd'.pc \in {"put", "loop"} /\ rd'.pos = rd.pos
        /\ rd'.pc = "put" => rd'.todo # <<>> /\ rd'.pkt = Null
    BY <1>2, <1>3, <1>4, ReaderTypes DEF Readers, ReadSteps
  <1>6. ReadShape' /\ EndChecked'
    BY <1>1, <1>2, <1>5 DEF IInv, ReadShape, EndChecked, ReaderOnly
  <1>7. AtFileEnd'
    BY <1>1, <1>2, <1>5 DEF AtFileEnd, ReaderOnly
  <1>8. QED
    BY <1>1, <1>5, <1>6, <1>7, ReaderTypes, ReaderSteps

\* The check for the end: a stream that has passed is drained.
LEMMA DrainedMeans ==
  ASSUME IInv, NEW s \in Streams, dec[s].finished = pq[s].serial, rd.pc \notin {"flush", "put"}
  PROVE  rd.pos = Len(File) /\ NothingComes(pq[s], dec[s])
  <1>1. Pipe(pq[s], dec[s], fq[s], flushed[s])
    BY DEF IInv, Pipes
  <1>2. dec[s].serial = pq[s].serial
    BY <1>1 DEF Pipe, Draining, PacketQueues
  <1>3. SawNull(pq[s], dec[s])
    BY <1>2 DEF SawNull
  <1>4. rd.pos = Len(File)
    BY <1>3 DEF IInv, AtFileEnd, HasNull
  <1>5. QED
    BY <1>1, <1>3, <1>4 DEF Pipe, Draining, NothingComes

LEMMA ReadQueuesStep ==
  ASSUME IInv, ReadQueues
  PROVE  IInv'
  <1>1. /\ ReaderOnly /\ skipped' = {} /\ seek' = seek /\ seeks' = seeks /\ rd.pc = "queues"
    BY DEF ReadQueues, ReaderOnly, pipeVars, mainVars, playVars
  <1>2. CASE \E l \in {"loop", "read"} : ReadGoto(l)
    <2>1. rd' \in Readers /\ rd'.pos = rd.pos /\ rd'.pc \in {"loop", "read"}
      BY <1>2, GotoKeeps DEF ReadSteps
    <2>2. QED
      BY <1>1, <2>1, ReaderTypes, ReaderGoesOn
  <1>3. CASE rd' = [rd EXCEPT !.pc = "check", !.todo = InOrder]
    <2>1. InOrder \in Seq(Streams) /\ Items(InOrder) = Streams /\ InOrder # <<>>
      BY OrderItems, DecoderAssumption DEF InOrder
    <2>2. rd' \in Readers /\ rd'.pc = "check" /\ rd'.todo = InOrder /\ rd'.pos = rd.pos
      BY <1>3, <2>1, ReaderTypes DEF Readers, ReadSteps
    <2>3. ReadShape' /\ EndChecked'
      BY <1>1, <2>1, <2>2 DEF IInv, ReadShape, EndChecked, ReaderOnly
    <2>4. AtFileEnd'
      BY <1>1, <2>1, <2>2 DEF IInv, AtFileEnd, ReaderOnly
    <2>5. QED
      BY <1>1, <2>2, <2>3, <2>4, ReaderTypes, ReaderSteps
  <1>4. QED
    BY <1>2, <1>3 DEF ReadQueues, ReadGoto

\* What it means to go on with the next stream: the one in front was passed over, or has
\* been found drained and empty.
LEMMA CheckNextStep ==
  ASSUME IInv, ReaderOnly, seek' = seek, seeks' = seeks,
         rd.pc \in {"check", "count"}, CheckNext,
         NEW s, s = Head(rd.todo),
         \/ skipped' = skipped \cup {s}
         \/ /\ skipped' = skipped
            /\ rd.pos = Len(File) /\ NothingComes(pq[s], dec[s]) /\ Remaining(s) = 0
  PROVE  IInv'
  <1>1. /\ rd.todo \in Seq(Streams) /\ rd.todo # <<>> /\ Tail(rd.todo) \in Seq(Streams)
        /\ s \in Streams /\ Items(rd.todo) = Items(Tail(rd.todo)) \cup {s}
        /\ Len(rd.todo) \in Nat \ {0} /\ Len(Tail(rd.todo)) = Len(rd.todo) - 1
    BY ReaderTypes, TailItems DEF IInv, ReadShape
  <1>2. Len(rd.todo) > 1 <=> Tail(rd.todo) # <<>>
    BY <1>1, MoreItems
  <1>3. /\ rd' = [rd EXCEPT !.todo = Tail(rd.todo), !.pc = rd'.pc]
        /\ rd'.pc = IF Len(rd.todo) > 1 THEN "check" ELSE "atEnd"
    BY ReaderTypes DEF CheckNext, Readers
  <1>4. /\ rd' \in Readers /\ rd'.pos = rd.pos /\ rd'.todo = Tail(rd.todo)
    BY <1>1, <1>3, ReaderTypes DEF Readers, ReadSteps
  <1>5. ReadShape'
    BY <1>2, <1>3, <1>4 DEF IInv, ReadShape, ReaderOnly
  <1>6. AtFileEnd'
    BY <1>3, <1>4 DEF IInv, AtFileEnd, ReaderOnly
  <1>7. EndChecked'
    <2>1. SUFFICES ASSUME NEW t \in Streams, t \notin skipped', t \notin Items(rd'.todo)
                   PROVE  rd.pos = Len(File) /\ NothingComes(pq[t], dec[t]) /\ Remaining(t) = 0
      BY <1>3, <1>4 DEF EndChecked, Remaining, ReaderOnly
    <2>2. CASE t = s
      BY <2>1, <2>2
    <2>3. CASE t # s
      BY <1>1, <1>4, <2>1, <2>3 DEF IInv, EndChecked
    <2>4. QED
      BY <2>2, <2>3
  <1>8. skipped' \subseteq Streams
    BY <1>1, ReaderTypes
  <1>9. QED
    BY <1>4, <1>5, <1>6, <1>7, <1>8, ReaderTypes, ReaderSteps

LEMMA CheckFailsStep ==
  ASSUME IInv, ReaderOnly, seek' = seek, seeks' = seeks, skipped' = skipped,
         rd.pc \in {"check", "count"}, CheckFails
  PROVE  IInv'
  <1>1. rd' \in Readers /\ rd'.pos = rd.pos /\ rd'.pc = "read"
    <2>1. <<>> \in Seq(Streams)
      OBVIOUS
    <2>2. QED
      BY <2>1, ReaderTypes DEF CheckFails, Readers, ReadSteps
  <1>2. QED
    BY <1>1, ReaderTypes, ReaderGoesOn

LEMMA ReadCheckStep ==
  ASSUME IInv, ReadCheck
  PROVE  IInv'
  <1> DEFINE s == Head(rd.todo)
  <1>1. /\ ReaderOnly /\ seek' = seek /\ seeks' = seeks /\ rd.pc = "check"
    BY DEF ReadCheck, ReaderOnly, pipeVars, mainVars, playVars
  <1>2. s \in Streams
    BY <1>1, ReaderTypes, TailItems DEF IInv, ReadShape
  <1>3. CASE track[s] = 0
    <2>1. CheckNext /\ skipped' = skipped \cup {s}
      BY <1>3 DEF ReadCheck
    <2>2. QED
      BY <1>1, <2>1, CheckNextStep
  <1>4. CASE track[s] # 0 /\ dec[s].finished = pq[s].serial
    <2>1. ReadGoto("count") /\ skipped' = skipped
      BY <1>4 DEF ReadCheck, CheckHolds
    <2>2. /\ rd' \in Readers /\ rd'.pc = "count" /\ rd'.todo = rd.todo /\ rd'.pos = rd.pos
      BY <2>1, GotoKeeps DEF ReadSteps
    <2>3. rd.pos = Len(File) /\ NothingComes(pq[s], dec[s])
      BY <1>1, <1>2, <1>4, DrainedMeans
    <2>4. ReadShape'
      BY <1>1, <2>2 DEF IInv, ReadShape, ReaderOnly
    <2>5. AtFileEnd' /\ EndChecked'
      BY <1>1, <2>1, <2>2, <2>3 DEF IInv, AtFileEnd, EndChecked, Remaining, ReaderOnly
    <2>6. QED
      BY <1>1, <2>1, <2>2, <2>4, <2>5, ReaderTypes, ReaderSteps
  <1>5. CASE track[s] # 0 /\ dec[s].finished # pq[s].serial
    <2>1. CheckFails /\ skipped' = skipped
      BY <1>5 DEF ReadCheck, CheckHolds
    <2>2. QED
      BY <1>1, <2>1, CheckFailsStep
  <1>6. QED
    BY <1>3, <1>4, <1>5

LEMMA ReadCountStep ==
  ASSUME IInv, ReadCount
  PROVE  IInv'
  <1> DEFINE s == Head(rd.todo)
  <1>1. /\ ReaderOnly /\ seek' = seek /\ seeks' = seeks /\ skipped' = skipped /\ rd.pc = "count"
    BY DEF ReadCount, ReaderOnly, pipeVars, mainVars, playVars, histVars
  <1>2. rd.pos = Len(File) /\ NothingComes(pq[s], dec[s])
    BY <1>1 DEF IInv, EndChecked
  <1>3. CASE Remaining(s) = 0 /\ CheckNext
    BY <1>1, <1>2, <1>3, CheckNextStep
  <1>4. CASE CheckFails
    BY <1>1, <1>4, CheckFailsStep
  <1>5. QED
    BY <1>3, <1>4 DEF ReadCount, CheckHolds

-----------------------------------------------------------------------------
(* One pipeline moves. *)

Moves(s, q, d, f, n) ==
  /\ pq' = [pq EXCEPT ![s] = q] /\ dec' = [dec EXCEPT ![s] = d]
  /\ fq' = [fq EXCEPT ![s] = f] /\ flushed' = [flushed EXCEPT ![s] = n]

\* What an operation does not mention it leaves where it is.
LEMMA Stands ==
  ASSUME IInv, NEW s \in Streams
  PROVE  /\ pq = [pq EXCEPT ![s] = pq[s]] /\ dec = [dec EXCEPT ![s] = dec[s]]
         /\ fq = [fq EXCEPT ![s] = fq[s]] /\ flushed = [flushed EXCEPT ![s] = flushed[s]]
         /\ pq[s] \in PacketQueues /\ dec[s] \in Decoders /\ fq[s] \in FrameQueues
         /\ flushed[s] \in Nat /\ seeks \in Nat /\ stale[s] \in Nat
         /\ Pipe(pq[s], dec[s], fq[s], flushed[s])
  BY DEF IInv, CoreTypes, Pipes

LEMMA MovePipes ==
  ASSUME IInv, NEW s \in Streams, NEW q, NEW d, NEW f, NEW n,
         Moves(s, q, d, f, n), Pipe(q, d, f, n)
  PROVE  /\ pq' \in [Streams -> PacketQueues] /\ dec' \in [Streams -> Decoders]
         /\ fq' \in [Streams -> FrameQueues] /\ flushed' \in [Streams -> Nat]
         /\ Pipes'
         /\ pq'[s] = q /\ dec'[s] = d /\ fq'[s] = f /\ flushed'[s] = n
         /\ \A t \in Streams \ {s} : /\ pq'[t] = pq[t] /\ dec'[t] = dec[t]
                                     /\ fq'[t] = fq[t] /\ flushed'[t] = flushed[t]
  <1>1. q \in PacketQueues /\ d \in Decoders /\ f \in FrameQueues /\ n \in Nat
    BY DEF Pipe
  <1>2. /\ pq \in [Streams -> PacketQueues] /\ dec \in [Streams -> Decoders]
        /\ fq \in [Streams -> FrameQueues] /\ flushed \in [Streams -> Nat]
    BY DEF IInv, CoreTypes
  <1>3. /\ pq' \in [Streams -> PacketQueues] /\ dec' \in [Streams -> Decoders]
        /\ fq' \in [Streams -> FrameQueues] /\ flushed' \in [Streams -> Nat]
        /\ pq'[s] = q /\ dec'[s] = d /\ fq'[s] = f /\ flushed'[s] = n
        /\ \A t \in Streams \ {s} : /\ pq'[t] = pq[t] /\ dec'[t] = dec[t]
                                    /\ fq'[t] = fq[t] /\ flushed'[t] = flushed[t]
    BY <1>1, <1>2 DEF Moves
  <1>4. Pipes'
    BY <1>3 DEF IInv, Pipes
  <1>5. QED
    BY <1>3, <1>4

\* While read_thread stands still, a quiet operation does not disturb what it knows.
LEMMA ReaderStands ==
  ASSUME IInv, NEW s \in Streams, NEW q, NEW d, NEW f, NEW n,
         Moves(s, q, d, f, n), Pipe(q, d, f, n), n \in {flushed[s], seeks},
         rd' = rd, seeks' = seeks, skipped' = skipped,
         Quiet(pq[s], dec[s], q, d),
         NothingComes(pq[s], dec[s]) /\ Remaining(s) = 0 => Len(f.frames) - f.shown = 0
  PROVE  ReadShape' /\ AtFileEnd' /\ EndChecked'
  <1>1. /\ pq'[s] = q /\ dec'[s] = d /\ fq'[s] = f /\ flushed'[s] = n
        /\ \A t \in Streams \ {s} : /\ pq'[t] = pq[t] /\ dec'[t] = dec[t]
                                    /\ fq'[t] = fq[t] /\ flushed'[t] = flushed[t]
    BY MovePipes
  <1>2. ReadShape'
    BY <1>1, Stands DEF IInv, ReadShape
  <1>3. \A t \in Streams :
          /\ HasNull(pq'[t], dec'[t]) => HasNull(pq[t], dec[t])
          /\ NothingComes(pq[t], dec[t]) => NothingComes(pq'[t], dec'[t])
          /\ NothingComes(pq[t], dec[t]) /\ Remaining(t) = 0
               => Len(fq'[t].frames) - fq'[t].shown = 0
    BY <1>1 DEF Quiet, Remaining
  <1>4. AtFileEnd'
    BY <1>3 DEF IInv, AtFileEnd
  <1>5. rd.pc = "count" => Head(rd.todo) \in Streams
    BY ReaderTypes, TailItems DEF IInv, ReadShape
  <1>6. EndChecked'
    BY <1>3, <1>5 DEF IInv, EndChecked, Remaining
  <1>7. QED
    BY <1>2, <1>4, <1>6

\* What a reader of the frame queue holds on to stays there.
FramesStand(f, f1) ==
  /\ f1.shown = f.shown
  /\ f.frames # <<>> => Head(f1.frames) = Head(f.frames)
  /\ Len(f.frames) - f.shown > 0 =>
       /\ Len(f1.frames) - f1.shown > 0
       /\ f1.frames[1 + f1.shown] = f.frames[1 + f.shown]

\* While the main thread and the callback stand still, an operation does not disturb
\* what they know, if a closed stream stays closed and a new serial begins with a flush.
LEMMA MainStands ==
  ASSUME IInv, NEW s \in Streams, NEW q, NEW d, NEW f, NEW n,
         Moves(s, q, d, f, n), Pipe(q, d, f, n),
         UNCHANGED <<mt, track, audio>>,
         pq[s].abort => q.abort,
         Closed(s) => q.pkts = <<>> /\ d.pc = "ended" /\ d.serial < q.serial,
         FramesStand(fq[s], f),
         \/ stale' = stale /\ q.serial = pq[s].serial
         \/ stale' = [stale EXCEPT ![s] = 0]
  PROVE  MainShape' /\ ClosedEmpty' /\ OneStale' /\ stale' \in [Streams -> Nat]
  <1>1. /\ pq'[s] = q /\ dec'[s] = d /\ fq'[s] = f
        /\ \A t \in Streams \ {s} : pq'[t] = pq[t] /\ dec'[t] = dec[t] /\ fq'[t] = fq[t]
    BY MovePipes
  <1>2. mt.pc \in {"signal", "joinDecoder"} => Closing \in Streams
    BY TailItems DEF IInv, MainShape, CoreTypes, Mains, Closing, CloseSteps
  <1>3. MainShape'
    BY <1>1, <1>2 DEF IInv, MainShape, Closing
  <1>4. ClosedEmpty'
    BY <1>1 DEF IInv, ClosedEmpty, Closed, Closing
  <1>5. /\ stale' \in [Streams -> Nat] /\ stale'[s] \in {0, stale[s]}
        /\ q.serial = pq[s].serial \/ stale'[s] = 0
        /\ \A t \in Streams \ {s} : stale'[t] = stale[t]
    BY DEF IInv, CoreTypes
  <1>6. StaleAtMostOnce'
    BY <1>5, Stands DEF IInv, OneStale, StaleAtMostOnce
  <1>7. \A t \in Streams :
          /\ FramesStand(fq[t], fq'[t])
          /\ pq'[t].serial = pq[t].serial \/ stale'[t] = 0
          /\ stale[t] = 0 => stale'[t] = 0
    BY <1>1, <1>5 DEF FramesStand
  <1>8. \A t \in Streams : fq[t].shown = 1 => fq[t].frames # <<>>
    BY DEF IInv, Pipes, Pipe
  <1>9. audio \in {"took", "play"} => "audio" \in Streams
    BY DEF IInv, OneStale
  <1>10. OneStale'
    BY <1>6, <1>7, <1>8, <1>9 DEF IInv, OneStale, FramesStand, Remaining, Peek
  <1>11. QED
    BY <1>3, <1>4, <1>5, <1>10

\* All in all.
LEMMA AllStands ==
  ASSUME IInv, NEW s \in Streams, NEW q, NEW d, NEW f, NEW n,
         Moves(s, q, d, f, n), Pipe(q, d, f, n),
         rd' \in Readers, seek' \in [req : BOOLEAN, pos : Nat], seeks' \in Nat,
         skipped' \subseteq Streams, mt' \in Mains, track' \in [Streams -> {0, 1, 2}],
         audio' \in {"idle", "read", "took", "play", "closed"}, stale' \in [Streams -> Nat],
         ReadShape', AtFileEnd', EndChecked', MainShape', ClosedEmpty', OneStale'
  PROVE  IInv'
  <1>1. CoreTypes' /\ Pipes'
    BY MovePipes DEF CoreTypes
  <1>2. QED
    BY <1>1 DEF IInv

LEMMA FramesStandStill ==
  ASSUME NEW f, NEW b
  PROVE  FramesStand(f, f) /\ FramesStand(f, [f EXCEPT !.waiting = b])
  BY DEF FramesStand

\* A seek flushes one queue after the other; what was under way in it is obsolete.
LEMMA ReadFlushStep ==
  ASSUME IInv, ReadFlush
  PROVE  IInv'
  <1> DEFINE s == Head(rd.todo)
  <1>1. /\ rd.pc = "flush" /\ UNCHANGED <<dec, fq, seek, seeks, skipped, mt, track, audio>>
        /\ rd' = [rd EXCEPT !.todo = Tail(rd.todo), !.pc = rd'.pc]
        /\ rd'.pc = IF Len(rd.todo) > 1 THEN "flush" ELSE "sought"
    BY ReaderTypes DEF ReadFlush, Readers, mainVars, playVars
  <1>2. /\ s \in Streams /\ Tail(rd.todo) \in Seq(Streams)
        /\ Items(rd.todo) = Items(Tail(rd.todo)) \cup {s}
        /\ Len(rd.todo) > 1 <=> Tail(rd.todo) # <<>>
    BY <1>1, ReaderTypes, TailItems, MoreItems DEF IInv, ReadShape
  <1>3. /\ rd' \in Readers /\ rd'.pos = rd.pos /\ rd'.todo = Tail(rd.todo)
    BY <1>1, <1>2, ReaderTypes DEF Readers, ReadSteps
  <1>4. \A t \in Items(rd'.todo) : rd'.pc = "flush"
    BY <1>1, <1>2, <1>3, NoItems
  <1>5. ASSUME ~HasNull(pq'[s], dec'[s]),
               \A t \in Streams \ {s} : pq'[t] = pq[t],
               \A t \in Streams : flushed'[t] <= seeks
        PROVE  ReadShape' /\ AtFileEnd' /\ EndChecked'
    <2>1. ReadShape'
      BY <1>1, <1>2, <1>3, <1>5 DEF ReadShape
    <2>2. EndChecked'
      BY <1>1 DEF EndChecked
    <2>3. AtFileEnd'
      <3>1. SUFFICES ASSUME NEW t \in Streams, HasNull(pq'[t], dec'[t])
                     PROVE  t \in Items(rd'.todo) \/ rd.pos = Len(File)
        BY <1>1, <1>3, <1>4 DEF AtFileEnd
      <3>2. t # s /\ HasNull(pq[t], dec[t])
        BY <1>1, <1>5, <3>1
      <3>3. QED
        BY <1>2, <1>3, <3>2 DEF IInv, AtFileEnd
    <2>4. QED
      BY <2>1, <2>2, <2>3
  <1>6. CASE track[s] = 0
    <2>1. ReaderOnly
      BY <1>1, <1>6 DEF ReadFlush, ReaderOnly
    <2>2. pq[s].pkts = <<>> /\ dec[s].serial # pq[s].serial
      BY <1>2, <1>6, Stands DEF IInv, ClosedEmpty, Closed, Decoders, PacketQueues, Serials
    <2>3. ~HasNull(pq[s], dec[s])
      BY <2>2, NoItems DEF HasNull, SawNull
    <2>4. ReadShape' /\ AtFileEnd' /\ EndChecked'
      BY <1>1, <1>5, <2>1, <2>3 DEF ReaderOnly, IInv, ReadShape
    <2>5. QED
      BY <1>1, <1>3, <2>1, <2>4, ReaderTypes, ReaderSteps
  <1>7. CASE track[s] # 0
    <2> DEFINE q == Flushed(pq[s])
    <2>1. /\ pq' = [pq EXCEPT ![s] = q] /\ flushed' = [flushed EXCEPT ![s] = seeks]
          /\ stale' = [stale EXCEPT ![s] = 0]
      BY <1>7 DEF ReadFlush
    <2>2. Moves(s, q, dec[s], fq[s], seeks)
      BY <1>1, <1>2, <2>1, Stands DEF Moves
    <2>3. /\ Pipe(q, dec[s], fq[s], seeks) /\ ~HasNull(q, dec[s])
          /\ q.serial = pq[s].serial + 1 /\ q.pkts = <<>> /\ q.abort = pq[s].abort
      <3>1. /\ Pipe(q, dec[s], fq[s], seeks) /\ ~HasNull(q, dec[s])
            /\ q.serial = pq[s].serial + 1 /\ q.pkts = <<>>
        BY <1>2, Stands, FlushPipe
      <3>2. q.abort = pq[s].abort
        BY <1>2, Stands DEF Flushed, PacketQueues
      <3>3. QED
        BY <3>1, <3>2
    <2> HIDE DEF q
    <2>4. /\ pq'[s] = q /\ dec'[s] = dec[s]
          /\ \A t \in Streams \ {s} : pq'[t] = pq[t]
          /\ \A t \in Streams : flushed'[t] <= seeks
      <3>1. \A t \in Streams : flushed[t] <= seeks
        BY DEF IInv, ReadShape
      <3>2. /\ pq'[s] = q /\ dec'[s] = dec[s] /\ flushed'[s] = seeks
            /\ \A t \in Streams \ {s} : pq'[t] = pq[t] /\ flushed'[t] = flushed[t]
        BY <1>2, <2>2, <2>3, MovePipes
      <3>3. seeks \in Nat
        BY ReaderTypes
      <3>4. \A t \in Streams : flushed'[t] <= seeks
        BY <3>1, <3>2, <3>3
      <3>5. QED
        BY <3>2, <3>4
    <2>5. ReadShape' /\ AtFileEnd' /\ EndChecked'
      BY <1>5, <2>3, <2>4
    <2>6. Closed(s) => dec[s].pc = "ended" /\ dec[s].serial < q.serial
      BY <1>2, <2>3, Stands DEF IInv, ClosedEmpty, Decoders, Serials, PacketQueues
    <2>7. MainShape' /\ ClosedEmpty' /\ OneStale' /\ stale' \in [Streams -> Nat]
      BY <1>1, <1>2, <2>1, <2>2, <2>3, <2>6, FramesStandStill, MainStands
    <2>8. QED
      BY <1>1, <1>2, <1>3, <2>2, <2>3, <2>5, <2>7, ReaderTypes, AllStands DEF IInv, CoreTypes
  <1>8. QED
    BY <1>6, <1>7

\* packet_queue_put, with the signal for a decoder that waits.
LEMMA ReadPutStep ==
  ASSUME IInv, ReadPut
  PROVE  IInv'
  <1> DEFINE s == Head(rd.todo)
             p == rd.pkt
  <1>1. /\ rd.pc = "put"
        /\ UNCHANGED <<fq, seek, seeks, skipped, mt, track, audio, flushed, stale>>
        /\ rd' = IF Len(rd.todo) > 1 THEN [rd EXCEPT !.todo = Tail(@)]
                 ELSE [rd EXCEPT !.pc = "loop", !.todo = <<>>, !.pkt = Null, !.eof = p.null]
    BY DEF ReadPut, mainVars, playVars, histVars
  <1>2. /\ s \in Streams /\ Tail(rd.todo) \in Seq(Streams)
        /\ Len(rd.todo) > 1 <=> Tail(rd.todo) # <<>>
        /\ <<>> \in Seq(Streams) /\ p \in Packets /\ p.null \in BOOLEAN
        /\ Null \in Packets
    <2>1. p \in Packets /\ p.null \in BOOLEAN /\ Null \in Packets
      BY ReaderTypes DEF Packets, Null
    <2>2. rd.todo \in Seq(Streams) /\ rd.todo # <<>> /\ <<>> \in Seq(Streams)
      BY <1>1, ReaderTypes DEF IInv, ReadShape
    <2>3. /\ s \in Streams /\ Tail(rd.todo) \in Seq(Streams)
          /\ Len(rd.todo) > 1 <=> Tail(rd.todo) # <<>>
      BY <2>2, TailItems, MoreItems
    <2>4. QED
      BY <2>1, <2>2, <2>3
  <1>3. /\ rd' \in Readers /\ rd'.pos = rd.pos
        /\ \/ rd'.pc = "put" /\ rd'.todo # <<>> /\ rd'.pkt = p
           \/ rd'.pc = "loop"
    <2>1. CASE Len(rd.todo) > 1
      BY <1>1, <1>2, <2>1, ReaderTypes DEF Readers
    <2>2. CASE ~(Len(rd.todo) > 1)
      BY <1>1, <1>2, <2>2, ReaderTypes DEF Readers, ReadSteps
    <2>3. QED
      BY <2>1, <2>2
  <1>4. ReadShape'
    BY <1>1, <1>3 DEF IInv, ReadShape
  <1>5. EndChecked'
    BY <1>3 DEF EndChecked
  <1>6. \A t \in Streams : HasNull(pq[t], dec[t]) => p.null /\ rd.pos = Len(File)
    BY <1>1 DEF IInv, AtFileEnd
  <1>7. p.null => rd.pos = Len(File)
    BY <1>1 DEF IInv, ReadShape
  <1>8. ASSUME HasNull(pq'[s], dec'[s]) => p.null,
               \A t \in Streams \ {s} : pq'[t] = pq[t] /\ dec'[t] = dec[t]
        PROVE  AtFileEnd'
    <2>1. \A t \in Streams : HasNull(pq'[t], dec'[t]) => p.null /\ rd.pos = Len(File)
      BY <1>6, <1>7, <1>8
    <2>2. QED
      BY <1>3, <2>1 DEF AtFileEnd
  <1>9. CASE UNCHANGED <<pq, dec>>
    <2>1. ReaderOnly
      BY <1>1, <1>9 DEF ReaderOnly
    <2>2. AtFileEnd'
      BY <1>2, <1>6, <1>8, <1>9
    <2>3. QED
      BY <1>1, <1>3, <1>4, <1>5, <2>1, <2>2, ReaderTypes, ReaderSteps
  <1>10. CASE ~pq[s].abort /\ pq' = Queued(s, p) /\ dec' = SignalPackets(s)
    <2> DEFINE q == [pq[s] EXCEPT !.pkts = Append(@, [p EXCEPT !.serial = pq[s].serial])]
               d == IF dec[s].pc = "parkedPkt" THEN [dec[s] EXCEPT !.pc = "get"] ELSE dec[s]
    <2>1. Moves(s, q, d, fq[s], flushed[s])
      BY <1>1, <1>2, <1>10, Stands DEF Moves, Queued, SignalPackets
    <2>3. q.serial = pq[s].serial /\ q.abort = pq[s].abort
      BY <1>2, Stands DEF PacketQueues
    <2>9. q = [pq[s] EXCEPT !.pkts = Append(@, [p EXCEPT !.serial = pq[s].serial])]
      OBVIOUS
    <2> HIDE DEF q, p, s
    <2>2. /\ Pipe(q, dec[s], fq[s], flushed[s])
          /\ HasNull(q, dec[s]) => p.null
      <3>1. p.null \/ p.seek >= flushed[s]
        BY <1>1, <1>2, Stands DEF IInv, ReadShape, p
      <3>2. HasNull(pq[s], dec[s]) => p.null
        BY <1>2, <1>6
      <3>3. Pipe(pq[s], dec[s], fq[s], flushed[s])
        BY <1>2, Stands
      <3>4. p \in Packets
        BY <1>2
      <3>5. QED
        BY <2>9, <3>1, <3>2, <3>3, <3>4, PutPipe
    <2>4. /\ Pipe(q, d, fq[s], flushed[s])
          /\ HasNull(q, d) => p.null
      <3>1. CASE dec[s].pc = "parkedPkt"
        <4>1. d = [dec[s] EXCEPT !.pc = "get"]
          BY <3>1
        <4>2. Pipe(q, d, fq[s], flushed[s]) /\ Quiet(q, dec[s], q, d)
          BY <2>2, <3>1, <4>1, StepPipe
        <4>3. QED
          BY <2>2, <4>2 DEF Quiet
      <3>2. CASE dec[s].pc # "parkedPkt"
        BY <2>2, <3>2
      <3>3. QED
        BY <3>1, <3>2
    <2> HIDE DEF d
    <2>5. AtFileEnd'
      <3>1. pq'[s] = q /\ dec'[s] = d /\ \A t \in Streams \ {s} : pq'[t] = pq[t] /\ dec'[t] = dec[t]
        BY <1>2, <2>1, <2>4, MovePipes
      <3>2. QED
        BY <1>8, <2>4, <3>1
    <2>6. ~Closed(s)
      BY <1>2, <1>10 DEF IInv, ClosedEmpty
    <2>7. MainShape' /\ ClosedEmpty' /\ OneStale' /\ stale' \in [Streams -> Nat]
      BY <1>1, <1>2, <1>10, <2>1, <2>3, <2>4, <2>6, FramesStandStill, MainStands
    <2>8. QED
      BY <1>1, <1>2, <1>3, <1>4, <1>5, <2>1, <2>4, <2>5, <2>7, ReaderTypes, AllStands
         DEF IInv, CoreTypes
  <1>11. QED
    BY <1>9, <1>10 DEF ReadPut, PacketQueuePut

LEMMA ReadThreadStep ==
  ASSUME IInv, ReadThread \/ ReadError \/ ReadRetry
  PROVE  IInv'
  BY ReadLoopStep, ReadFlushStep, ReaderGoesStep, ReadQueuesStep, ReadCheckStep, ReadCountStep,
     ReadPacketStep, ReadEndStep, ReadPutStep DEF ReadThread

-----------------------------------------------------------------------------
(* The decoder threads. *)

LEMMA DecoderMoves ==
  ASSUME IInv, NEW s \in Streams, NEW q, NEW d, NEW f,
         Moves(s, q, d, f, flushed[s]), Pipe(q, d, f, flushed[s]),
         UNCHANGED <<rd, seek, seeks, skipped, mt, track, audio, stale>>,
         Quiet(pq[s], dec[s], q, d),
         dec[s].pc # "ended", q.abort = pq[s].abort, q.serial = pq[s].serial,
         FramesStand(fq[s], f), f = fq[s] \/ dec[s].pc \in Pushing
  PROVE  IInv'
  <1>1. ~Closed(s)
    BY DEF IInv, ClosedEmpty
  <1>2. NothingComes(pq[s], dec[s]) /\ Remaining(s) = 0 => Len(f.frames) - f.shown = 0
    BY DEF NothingComes, Remaining
  <1>3. ReadShape' /\ AtFileEnd' /\ EndChecked'
    BY <1>2, Stands, ReaderStands
  <1>4. MainShape' /\ ClosedEmpty' /\ OneStale' /\ stale' \in [Streams -> Nat]
    BY <1>1, Stands, MainStands
  <1>5. QED
    BY <1>3, <1>4, ReaderTypes, AllStands DEF IInv, CoreTypes

\* Steps that touch the decoder only.
LEMMA DecoderAlone ==
  ASSUME IInv, NEW s \in Streams, NEW d,
         dec' = [dec EXCEPT ![s] = d], UNCHANGED <<pq, fq, flushed>>,
         UNCHANGED <<rd, seek, seeks, skipped, mt, track, audio, stale>>,
         Pipe(pq[s], d, fq[s], flushed[s]), Quiet(pq[s], dec[s], pq[s], d),
         dec[s].pc # "ended"
  PROVE  IInv'
  <1>1. Moves(s, pq[s], d, fq[s], flushed[s])
    BY Stands DEF Moves
  <1>2. QED
    BY <1>1, FramesStandStill, DecoderMoves

LEMMA DecodeStep ==
  ASSUME IInv, NEW s \in Streams, Decode(s)
  PROVE  IInv'
  <1> DEFINE d == dec[s]
             q == pq[s]
             f == fq[s]
             n == flushed[s]
  <1>1. UNCHANGED <<rd, seek, seeks, skipped, mt, track, audio, stale, flushed>>
    BY DEF Decode, readVars, mainVars, histVars, playVars
  <1>2. Pipe(q, d, f, n) /\ d \in Decoders /\ q \in PacketQueues /\ f \in FrameQueues
    BY Stands
  <1>3. CASE DecodeReceive(s)
    <2>1. d.pc = "top" /\ UNCHANGED <<pq, fq>>
      BY <1>3 DEF DecodeReceive
    <2>2. CASE \E l \in {"get", "ended"} : dec' = [dec EXCEPT ![s].pc = l]
      <3>1. PICK l \in {"get", "ended"} : dec' = [dec EXCEPT ![s] = [d EXCEPT !.pc = l]]
        BY <2>2
      <3>2. Pipe(q, [d EXCEPT !.pc = l], f, n) /\ Quiet(q, d, q, [d EXCEPT !.pc = l])
        BY <1>2, <2>1, <3>1, GoPipe
      <3>3. QED
        BY <1>1, <2>1, <3>1, <3>2, DecoderAlone
    <2>3. CASE /\ q.serial = d.serial /\ Drained(d.codec)
               /\ dec' = [dec EXCEPT ![s].finished = d.serial, ![s].codec = EmptyCodec]
      <3> DEFINE d1 == [d EXCEPT !.finished = d.serial, !.codec = EmptyCodec]
      <3>1. dec' = [dec EXCEPT ![s] = d1]
        BY <2>3
      <3>3. d1 = [d EXCEPT !.finished = d.serial, !.codec = EmptyCodec]
        OBVIOUS
      <3> HIDE DEF d1, d, q, f, n
      <3>2. Pipe(q, d1, f, n) /\ Quiet(q, d, q, d1)
        BY <1>2, <2>1, <2>3, <3>3, FinishPipe
      <3> USE DEF d, q, f, n
      <3>4. QED
        BY <1>1, <2>1, <3>1, <3>2, DecoderAlone
    <2>4. CASE /\ q.serial = d.serial /\ FrameReady(d.codec)
               /\ dec' = [dec EXCEPT
                     ![s].frame = [seek |-> Head(d.codec.held).seek, serial |-> d.serial],
                     ![s].codec.held = Tail(@), ![s].pc = "push"]
      <3> DEFINE d1 == [d EXCEPT
                     !.frame = [seek |-> Head(d.codec.held).seek, serial |-> d.serial],
                     !.codec.held = Tail(@), !.pc = "push"]
      <3>1. dec' = [dec EXCEPT ![s] = d1]
        BY <2>4
      <3>3. d1 = [d EXCEPT
                     !.frame = [seek |-> Head(d.codec.held).seek, serial |-> d.serial],
                     !.codec.held = Tail(@), !.pc = "push"]
        OBVIOUS
      <3> HIDE DEF d1, d, q, f, n
      <3>2. Pipe(q, d1, f, n) /\ Quiet(q, d, q, d1)
        BY <1>2, <2>1, <2>4, <3>3, FramePipe
      <3> USE DEF d, q, f, n
      <3>4. QED
        BY <1>1, <2>1, <3>1, <3>2, DecoderAlone
    <2>5. QED
      BY <1>3, <2>2, <2>3, <2>4 DEF DecodeReceive, Ends
  <1>4. CASE DecodeGet(s)
    <2>1. d.pc = "get" /\ UNCHANGED fq
      BY <1>4 DEF DecodeGet
    <2>2. CASE UNCHANGED pq /\ \E l \in {"parkedPkt", "ended"} : dec' = [dec EXCEPT ![s].pc = l]
      <3>1. PICK l \in {"parkedPkt", "ended"} : dec' = [dec EXCEPT ![s] = [d EXCEPT !.pc = l]]
        BY <2>2
      <3>2. Pipe(q, [d EXCEPT !.pc = l], f, n) /\ Quiet(q, d, q, [d EXCEPT !.pc = l])
        BY <1>2, <2>1, <3>1, GoPipe
      <3>3. QED
        BY <1>1, <2>1, <2>2, <3>1, <3>2, DecoderAlone
    <2> DEFINE got == [d EXCEPT !.pc = "send", !.pkt = Head(q.pkts), !.serial = Head(q.pkts).serial]
               q1 == [q EXCEPT !.pkts = Tail(@)]
               d1 == IF got.serial = d.serial THEN got
                     ELSE [got EXCEPT !.finished = 0, !.codec = EmptyCodec]
    <2>3. CASE q.pkts # <<>> /\ pq' = [pq EXCEPT ![s].pkts = Tail(@)] /\ dec' = [dec EXCEPT ![s] = d1]
      <3>1. Moves(s, q1, d1, f, n)
        BY <1>1, <2>1, <2>3, Stands DEF Moves
      <3>2. q1.abort = q.abort /\ q1.serial = q.serial
        BY <1>2 DEF PacketQueues
      <3>4. /\ q1 = [q EXCEPT !.pkts = Tail(@)]
            /\ d1 = IF got.serial = d.serial THEN got
                    ELSE [got EXCEPT !.finished = 0, !.codec = EmptyCodec]
        OBVIOUS
      <3> HIDE DEF q1, d1, d, q, f, n
      <3>3. Pipe(q1, d1, f, n) /\ Quiet(q, d, q1, d1)
        BY <1>2, <2>1, <2>3, <3>4, GetPipe
      <3> USE DEF d, q, f, n
      <3>5. QED
        BY <1>1, <2>1, <3>1, <3>2, <3>3, FramesStandStill, DecoderMoves
    <2>4. QED
      BY <1>4, <2>2, <2>3 DEF DecodeGet, Ends
  <1>5. CASE DecodeSend(s)
    <2>1. d.pc = "send" /\ UNCHANGED <<pq, fq>>
      BY <1>5 DEF DecodeSend
    <2>2. CASE q.serial # d.serial
      <3> DEFINE d1 == [d EXCEPT !.pc = "get", !.pkt = Null]
      <3>1. dec' = [dec EXCEPT ![s] = d1]
        BY <1>5, <2>2 DEF DecodeSend
      <3>2. Pipe(q, d1, f, n) /\ Quiet(q, d, q, d1)
        BY <1>2, <2>1, <2>2, ObsoletePipe
      <3>3. QED
        BY <1>1, <2>1, <3>1, <3>2, DecoderAlone
    <2>3. CASE q.serial = d.serial
      <3> DEFINE d1 == [d EXCEPT !.pc = "top", !.pkt = Null,
                          !.codec.held = IF d.pkt.null THEN @ ELSE Append(@, d.pkt),
                          !.codec.draining = d.pkt.null]
      <3>1. dec' = [dec EXCEPT ![s] = d1]
        BY <1>5, <2>3 DEF DecodeSend
      <3>3. d1 = [d EXCEPT !.pc = "top", !.pkt = Null,
                          !.codec.held = IF d.pkt.null THEN @ ELSE Append(@, d.pkt),
                          !.codec.draining = d.pkt.null]
        OBVIOUS
      <3> HIDE DEF d1, d, q, f, n
      <3>2. Pipe(q, d1, f, n) /\ Quiet(q, d, q, d1)
        BY <1>2, <2>1, <2>3, <3>3, SendPipe
      <3> USE DEF d, q, f, n
      <3>4. QED
        BY <1>1, <2>1, <3>1, <3>2, DecoderAlone
    <2>4. QED
      BY <2>2, <2>3
  <1>6. CASE DecodePush(s)
    <2>1. d.pc \in {"push", "woken"} /\ UNCHANGED pq
      BY <1>6 DEF DecodePush
    <2>2. CASE UNCHANGED fq /\ \E l \in {"parkedFrm", "ended"} : dec' = [dec EXCEPT ![s].pc = l]
      <3>1. PICK l \in {"parkedFrm", "ended"} : dec' = [dec EXCEPT ![s] = [d EXCEPT !.pc = l]]
        BY <2>2
      <3>2. Pipe(q, [d EXCEPT !.pc = l], f, n) /\ Quiet(q, d, q, [d EXCEPT !.pc = l])
        BY <1>2, <2>1, <3>1, GoPipe
      <3>3. QED
        BY <1>1, <2>1, <2>2, <3>1, <3>2, DecoderAlone
    <2> DEFINE d1 == [d EXCEPT !.pc = "top", !.frame = NoFrame]
               f1 == [f EXCEPT !.frames = Append(@, d.frame), !.waiting = FALSE]
    <2>3. CASE /\ fq' = [fq EXCEPT ![s].frames = Append(@, d.frame), ![s].waiting = FALSE]
               /\ dec' = [dec EXCEPT ![s].pc = "top", ![s].frame = NoFrame]
      <3>1. Moves(s, q, d1, f1, n)
        BY <1>1, <2>1, <2>3, Stands DEF Moves
      <3>2. Pipe(q, d1, f1, n) /\ Quiet(q, d, q, d1)
        <4>1. /\ d1 = [d EXCEPT !.pc = "top", !.frame = NoFrame]
              /\ f1 = [f EXCEPT !.frames = Append(@, d.frame), !.waiting = FALSE]
              /\ d.pc \in Pushing
          BY <2>1 DEF Pushing
        <4> HIDE DEF d1, f1
        <4>2. QED
          BY <1>2, <4>1, PushPipe
      <3>3. FramesStand(f, f1)
        <4>1. /\ f.frames \in Seq(Frames) /\ d.frame \in Frames /\ f.shown \in {0, 1}
              /\ f1.frames = Append(f.frames, d.frame) /\ f1.shown = f.shown
          BY <1>2 DEF FrameQueues, Decoders
        <4>2. /\ Len(f1.frames) = Len(f.frames) + 1 /\ Len(f.frames) \in Nat
              /\ f1.frames \in Seq(Frames) /\ f1.frames # <<>>
              /\ \A i \in 1 .. Len(f.frames) : f1.frames[i] = f.frames[i]
          BY <4>1, AppendItems
        <4>3. Head(f1.frames) = f1.frames[1]
          BY <4>2, TailItems
        <4>4. f.frames # <<>> => Head(f.frames) = f.frames[1] /\ Len(f.frames) \in Nat \ {0}
          BY <4>1, TailItems
        <4> HIDE DEF f1
        <4>5. f.frames # <<>> => Head(f1.frames) = Head(f.frames)
          BY <4>2, <4>3, <4>4
        <4>6. Len(f.frames) - f.shown > 0 => 1 + f.shown \in 1 .. Len(f.frames)
          BY <4>1, <4>2
        <4>7. QED
          BY <4>1, <4>2, <4>5, <4>6 DEF FramesStand
      <3> HIDE DEF d1, f1
      <3>4. QED
        BY <1>1, <2>1, <3>1, <3>2, <3>3, DecoderMoves DEF Pushing
    <2>4. QED
      BY <1>6, <2>2, <2>3 DEF DecodePush, Ends
  <1>7. QED
    BY <1>3, <1>4, <1>5, <1>6 DEF Decode

\* get_video_frame drops a frame that is late before it is queued.
LEMMA EarlyDropStep ==
  ASSUME IInv, EarlyDrop
  PROVE  IInv'
  <1> DEFINE d == dec["video"]
             d1 == [d EXCEPT !.pc = "top", !.frame = NoFrame]
  <1>1. /\ "video" \in Streams /\ d.pc = "push" /\ dec' = [dec EXCEPT !["video"] = d1]
        /\ UNCHANGED <<pq, fq, flushed>>
        /\ UNCHANGED <<rd, seek, seeks, skipped, mt, track, audio, stale>>
    BY DEF EarlyDrop, readVars, mainVars, histVars, playVars
  <1>2. /\ Pipe(pq["video"], d1, fq["video"], flushed["video"])
        /\ Quiet(pq["video"], d, pq["video"], d1)
    <2>1. d1 = [d EXCEPT !.pc = "top", !.frame = NoFrame] /\ d.pc \in Pushing
      BY <1>1 DEF Pushing
    <2>2. Pipe(pq["video"], d, fq["video"], flushed["video"])
      BY <1>1, Stands
    <2> HIDE DEF d1, d
    <2>3. QED
      BY <2>1, <2>2, StepPipe
  <1>3. QED
    BY <1>1, <1>2, DecoderAlone

-----------------------------------------------------------------------------
(* The main thread and the callback. *)

\* They leave the pipelines alone ...
LEMMA PipesStand ==
  ASSUME IInv, UNCHANGED <<pq, dec, fq, flushed, seeks, skipped>>,
         rd' \in Readers, rd'.pc = rd.pc, rd'.todo = rd.todo, rd'.pos = rd.pos, rd'.pkt = rd.pkt,
         seek' \in [req : BOOLEAN, pos : Nat], mt' \in Mains, track' \in [Streams -> {0, 1, 2}],
         audio' \in {"idle", "read", "took", "play", "closed"}, stale' \in [Streams -> Nat],
         MainShape', ClosedEmpty', OneStale'
  PROVE  IInv'
  <1>1. CoreTypes' /\ Pipes'
    BY DEF IInv, CoreTypes, Pipes
  <1>2. ReadShape' /\ AtFileEnd' /\ EndChecked'
    BY DEF IInv, ReadShape, AtFileEnd, EndChecked, Remaining
  <1>3. QED
    BY <1>1, <1>2 DEF IInv

\* ... or move one of them, quietly.
LEMMA StreamMoves ==
  ASSUME IInv, NEW s \in Streams, NEW q, NEW d, NEW f, NEW n,
         Moves(s, q, d, f, n), Pipe(q, d, f, n), n \in {flushed[s], seeks},
         UNCHANGED <<rd, seek, seeks, skipped>>,
         Quiet(pq[s], dec[s], q, d),
         NothingComes(pq[s], dec[s]) /\ Remaining(s) = 0 => Len(f.frames) - f.shown = 0,
         mt' \in Mains, track' \in [Streams -> {0, 1, 2}],
         audio' \in {"idle", "read", "took", "play", "closed"}, stale' \in [Streams -> Nat],
         MainShape', ClosedEmpty', OneStale'
  PROVE  IInv'
  <1>1. ReadShape' /\ AtFileEnd' /\ EndChecked'
    BY ReaderStands
  <1>2. QED
    BY <1>1, ReaderTypes, AllStands

LEMMA MainTypes ==
  ASSUME IInv
  PROVE  /\ mt \in Mains /\ mt.pc \in MainSteps /\ mt.next \in MainSteps
         /\ mt.todo \in Seq(Streams) /\ mt.value \in BOOLEAN
         /\ track \in [Streams -> {0, 1, 2}] /\ stale \in [Streams -> Nat]
         /\ audio \in {"idle", "read", "took", "play", "closed"}
         /\ mt.todo # <<>> => Closing \in Streams /\ Tail(mt.todo) \in Seq(Streams)
  <1>1. mt \in Mains
    BY DEF IInv, CoreTypes
  <1>2. mt.todo \in Seq(Streams)
    BY <1>1 DEF Mains
  <1>3. mt.todo # <<>> => Closing \in Streams /\ Tail(mt.todo) \in Seq(Streams)
    BY <1>2, TailItems DEF Closing
  <1>4. QED
    BY <1>1, <1>3 DEF IInv, CoreTypes, Mains

\* Outside of a close and an open nothing more is closed than before.
LEMMA MainAside ==
  ASSUME IInv, UNCHANGED <<pq, dec, fq, rd, track, audio, seeks, flushed, stale, skipped>>,
         seek' \in [req : BOOLEAN, pos : Nat], mt' \in Mains,
         mt'.pc \notin {"signal", "joinDecoder", "detach"} \cup OpenSteps, MainShape',
         mt'.pc = "show" => /\ "video" \in Streams /\ Remaining("video") > 0
                            /\ Peek("video").serial = pq["video"].serial
  PROVE  IInv'
  <1>1. ClosedEmpty'
    BY DEF IInv, ClosedEmpty, Closed
  <1>2. OneStale'
    BY DEF IInv, OneStale, StaleAtMostOnce, Remaining, Peek
  <1>3. QED
    BY <1>1, <1>2, ReaderTypes, MainTypes, PipesStand

\* A picture is picked only if it is current.
LEMMA RefreshPickStep ==
  ASSUME IInv, RefreshPick
  PROVE  IInv'
  <1>1. /\ UNCHANGED <<pq, dec, fq, rd, seek, track, audio, seeks, flushed, stale, skipped>>
        /\ mt' = [mt EXCEPT !.pc = "show"]
        /\ "video" \in Streams /\ Remaining("video") > 0
        /\ Peek("video").serial = pq["video"].serial
    BY DEF RefreshPick, VideoRemains, pipeVars, readVars, histVars, playVars
  <1>2. mt' \in Mains /\ mt'.pc = "show"
    BY <1>1, MainTypes DEF Mains, MainSteps
  <1>3. MainShape'
    BY <1>2 DEF MainShape, CloseSteps, OpenSteps
  <1>4. QED
    BY <1>1, <1>2, <1>3, ReaderTypes, MainAside DEF OpenSteps

\* The toggles, the keys and the beginning of the end.
LEMMA EventStep ==
  ASSUME IInv, \/ ToggleLoad \/ ToggleStore \/ SetStep \/ KeyPause \/ KeyStep \/ Quit
               \/ JoinReader
               \/ \E p \in SeekTargets : KeySeek(p)
               \/ \E s \in Switchable : KeySwitch(s)
  PROVE  IInv'
  <1>1. UNCHANGED <<pq, dec, fq, rd, track, audio, seeks, flushed, stale, skipped>>
    BY DEF ToggleLoad, ToggleStore, SetStep, KeyPause, KeyStep, Quit, JoinReader, KeySeek,
           KeySwitch, pipeVars, readVars, histVars, playVars
  <1>2. seek' \in [req : BOOLEAN, pos : Nat]
    <2>1. seek' = seek \/ \E p \in SeekTargets : SeekTo(p)
      BY DEF ToggleLoad, ToggleStore, SetStep, KeyPause, KeyStep, Quit, JoinReader, KeySeek,
             KeySwitch, readVars
    <2>2. QED
      BY <2>1, ReaderTypes, SeekToKeeps
  <1>3. ASSUME mt' \in Mains, mt'.pc \in MainSteps \ (CloseSteps \cup OpenSteps \cup {"show", "join"}),
               mt'.pc \in {"toggle", "store"} => mt'.next \in {"idle", "clearStep", "setStep"}
        PROVE  IInv'
    <2>1. MainShape' /\ mt'.pc \notin {"signal", "joinDecoder", "detach", "show"} \cup OpenSteps
      BY <1>3 DEF MainShape, CloseSteps, OpenSteps
    <2>2. QED
      BY <1>1, <1>2, <1>3, <2>1, MainAside
  <1>4. CASE ToggleLoad
    <2>1. mt' = [mt EXCEPT !.pc = "store", !.value = ~paused] /\ mt.pc = "toggle"
      BY <1>4 DEF ToggleLoad
    <2>2. (~paused) \in BOOLEAN
      OBVIOUS
    <2>3. mt' \in Mains /\ mt'.pc = "store" /\ mt'.next = mt.next
      BY <2>1, <2>2, MainTypes DEF Mains, MainSteps
    <2>4. QED
      BY <1>3, <2>1, <2>3 DEF IInv, MainShape, MainSteps, CloseSteps, OpenSteps
  <1>5. CASE ToggleStore
    <2>1. mt' = [mt EXCEPT !.pc = mt.next, !.value = FALSE] /\ mt.pc = "store"
      BY <1>5 DEF ToggleStore
    <2>2. mt' \in Mains /\ mt'.pc = mt.next
      BY <2>1, MainTypes DEF Mains
    <2>3. QED
      BY <1>3, <2>1, <2>2 DEF IInv, MainShape, MainSteps, CloseSteps, OpenSteps
  <1>6. CASE SetStep
    <2>1. mt' = [mt EXCEPT !.pc = "idle", !.next = "idle"]
      BY <1>6 DEF SetStep
    <2>2. mt' \in Mains /\ mt'.pc = "idle"
      BY <2>1, MainTypes DEF Mains, MainSteps
    <2>3. QED
      BY <1>3, <2>2 DEF MainSteps, CloseSteps, OpenSteps
  <1>7. CASE KeyPause
    <2>1. mt' = [mt EXCEPT !.pc = "toggle", !.next = "clearStep"]
      BY <1>7 DEF KeyPause
    <2>2. mt' \in Mains /\ mt'.pc = "toggle" /\ mt'.next = "clearStep"
      BY <2>1, MainTypes DEF Mains, MainSteps
    <2>3. QED
      BY <1>3, <2>2 DEF MainSteps, CloseSteps, OpenSteps
  <1>8. CASE KeyStep
    <2>1. \/ mt' = [mt EXCEPT !.pc = "toggle", !.next = "setStep"]
          \/ mt' = [mt EXCEPT !.pc = "setStep"]
      BY <1>8 DEF KeyStep
    <2>2. /\ mt' \in Mains
          /\ mt'.pc = "setStep" \/ (mt'.pc = "toggle" /\ mt'.next = "setStep")
      BY <2>1, MainTypes DEF Mains, MainSteps
    <2>3. QED
      BY <1>3, <2>2 DEF MainSteps, CloseSteps, OpenSteps
  <1>9. CASE \E p \in SeekTargets : KeySeek(p)
    <2>1. mt' = mt /\ mt.pc = "idle"
      BY <1>9 DEF KeySeek, Event
    <2>2. QED
      BY <1>3, <2>1, MainTypes DEF MainSteps, CloseSteps, OpenSteps
  <1>10. CASE Quit
    <2>1. mt' = [mt EXCEPT !.pc = "join", !.next = "closed"]
      BY <1>10 DEF Quit
    <2>2. mt' \in Mains /\ mt'.pc = "join" /\ mt'.next = "closed"
      BY <2>1, MainTypes DEF Mains, MainSteps
    <2>3. MainShape'
      BY <2>2 DEF MainShape, CloseSteps, OpenSteps
    <2>4. QED
      BY <1>1, <1>2, <2>2, <2>3, MainAside DEF OpenSteps
  <1>11. CASE JoinReader
    <2> DEFINE open == {s \in Streams : track[s] # 0}
    <2>1. mt' = [mt EXCEPT !.pc = "abort", !.todo = AudioFirst(open)] /\ mt.pc = "join"
      BY <1>11 DEF JoinReader
    <2>2. AudioFirst(open) \in Seq(Streams)
      BY OrderItems
    <2>3. mt' \in Mains /\ mt'.pc = "abort" /\ mt'.next = mt.next
      BY <2>1, <2>2, MainTypes DEF Mains, MainSteps, CloseSteps
    <2>4. mt'.next = "closed"
      BY <2>1, <2>3 DEF IInv, MainShape
    <2>5. MainShape'
      BY <2>3, <2>4 DEF MainShape, CloseSteps, OpenSteps
    <2>6. QED
      BY <1>1, <1>2, <2>3, <2>5, MainAside DEF OpenSteps
  <1>12. CASE \E s \in Switchable : KeySwitch(s)
    <2>1. PICK s \in Switchable : KeySwitch(s)
      BY <1>12
    <2>2. s = "audio" /\ "audio" \in Streams
      BY PlayerAssumption
    <2>3. /\ mt' = [mt EXCEPT !.pc = mt'.pc, !.todo = <<"audio">>, !.next = "open"]
          /\ mt'.pc = IF track["audio"] = 0 THEN "open" ELSE "abort"
      BY <2>1, <2>2, MainTypes DEF KeySwitch, Mains
    <2>4. <<"audio">> \in Seq(Streams)
      BY <2>2
    <2>5. /\ mt' \in Mains /\ mt'.pc \in {"abort", "open"} /\ mt'.next = "open"
          /\ mt'.todo = <<"audio">>
      BY <2>3, <2>4, MainTypes DEF Mains, MainSteps, CloseSteps, OpenSteps
    <2>6. MainShape'
      BY <2>5 DEF MainShape, CloseSteps, OpenSteps
    <2>7. CASE mt'.pc = "abort"
      BY <1>1, <1>2, <2>5, <2>6, <2>7, MainAside DEF OpenSteps
    <2>8. CASE mt'.pc = "open"
      <3>1. track["audio"] = 0 /\ mt'.pc \notin {"show", "signal", "joinDecoder", "detach"}
        BY <2>3, <2>8
      <3>2. \A t \in Streams : Closed(t)' => Closed(t)
        BY <1>1, <2>5, <3>1, TupleItems DEF Closed, Closing
      <3>3. ClosedEmpty'
        BY <1>1, <3>2 DEF IInv, ClosedEmpty
      <3>4. OneStale'
        BY <1>1, <3>1 DEF IInv, OneStale, StaleAtMostOnce
      <3>5. QED
        BY <1>1, <1>2, <2>5, <2>6, <3>3, <3>4, ReaderTypes, MainTypes, PipesStand
    <2>9. QED
      BY <2>5, <2>7, <2>8
  <1>13. QED
    BY <1>4, <1>5, <1>6, <1>7, <1>8, <1>9, <1>10, <1>11, <1>12

\* A signal that finds the decoder waiting, or not.
LEMMA SignalPipe ==
  ASSUME NEW q, NEW d, NEW f, NEW n, Pipe(q, d, f, n), NEW d1,
         \/ d1 = d
         \/ d.pc = "parkedPkt" /\ d1 = [d EXCEPT !.pc = "get"]
         \/ d.pc = "parkedFrm" /\ d1 = [d EXCEPT !.pc = "woken"]
  PROVE  Pipe(q, d1, f, n) /\ Quiet(q, d, q, d1) /\ (d.pc = "ended" => d1 = d)
  <1>1. CASE d1 = d
    BY <1>1 DEF Quiet
  <1>2. CASE d1 # d
    BY <1>2, StepPipe
  <1>3. QED
    BY <1>1, <1>2

\* stream_component_close: packet_queue_abort ...
LEMMA ClosePacketsStep ==
  ASSUME IInv, ClosePackets
  PROVE  IInv'
  <1> DEFINE s == Closing
  <1>1. /\ mt.pc = "abort"
        /\ UNCHANGED <<fq, rd, seek, track, audio, seeks, flushed, stale, skipped>>
    BY DEF ClosePackets, readVars, histVars, playVars
  <1>2. CASE mt.todo = <<>>
    <2>1. MainGoto(mt.next) /\ UNCHANGED <<pq, dec>>
      BY <1>2 DEF ClosePackets
    <2>2. mt.next = "closed"
      <3>1. <<"audio">> # <<>>
        BY TupleItems
      <3>2. QED
        BY <1>1, <1>2, <3>1 DEF IInv, MainShape, CloseSteps
    <2>3. mt' \in Mains /\ mt'.pc = "closed"
      BY <2>1, <2>2, MainTypes DEF MainGoto, Mains
    <2>4. MainShape'
      BY <2>3 DEF MainShape, CloseSteps, OpenSteps
    <2>5. QED
      BY <1>1, <2>1, <2>3, <2>4, ReaderTypes, MainAside DEF OpenSteps
  <1>3. CASE mt.todo # <<>>
    <2> DEFINE q == [pq[s] EXCEPT !.abort = TRUE]
               d == IF dec[s].pc = "parkedPkt" THEN [dec[s] EXCEPT !.pc = "get"] ELSE dec[s]
    <2>1. /\ s \in Streams /\ mt' = [mt EXCEPT !.pc = "signal"]
          /\ pq' = [pq EXCEPT ![s] = q] /\ dec' = SignalPackets(s)
      BY <1>3, MainTypes DEF ClosePackets, MainGoto, PacketQueueAbort
    <2>2. Moves(s, q, d, fq[s], flushed[s])
      BY <1>1, <2>1, Stands DEF Moves, SignalPackets
    <2>3. q.abort = TRUE /\ q.serial = pq[s].serial /\ q.pkts = pq[s].pkts
      BY <2>1, Stands DEF PacketQueues
    <2>4. Pipe(q, dec[s], fq[s], flushed[s]) /\ Quiet(pq[s], dec[s], q, dec[s])
      BY <2>1, Stands, AbortPipe
    <2>8. d = dec[s] \/ (dec[s].pc = "parkedPkt" /\ d = [dec[s] EXCEPT !.pc = "get"])
      OBVIOUS
    <2> HIDE DEF q, d, s
    <2>5. /\ Pipe(q, d, fq[s], flushed[s]) /\ Quiet(q, dec[s], q, d)
          /\ dec[s].pc = "ended" => d = dec[s]
      BY <2>4, <2>8, SignalPipe
    <2>6. Quiet(pq[s], dec[s], q, d)
      BY <2>4, <2>5 DEF Quiet
    <2>7. /\ pq'[s] = q /\ dec'[s] = d
          /\ \A t \in Streams \ {s} : pq'[t] = pq[t] /\ dec'[t] = dec[t]
      BY <2>1, <2>2, <2>5, MovePipes
    <2>9. mt' \in Mains /\ mt'.pc = "signal" /\ mt'.next = mt.next /\ mt'.todo = mt.todo
      BY <2>1, MainTypes DEF Mains, MainSteps, CloseSteps
    <2>10. MainShape'
      BY <1>1, <1>3, <2>3, <2>7, <2>9 DEF IInv, MainShape, CloseSteps, OpenSteps, Closing, s
    <2>11. ClosedEmpty'
      BY <1>1, <2>1, <2>3, <2>5, <2>7, <2>9 DEF IInv, ClosedEmpty, Closed, OpenSteps
    <2>12. OneStale'
      <3>1. \A t \in Streams : pq'[t].serial = pq[t].serial
        BY <2>3, <2>7
      <3>2. QED
        BY <1>1, <2>9, <3>1 DEF IInv, OneStale, StaleAtMostOnce
    <2>13. NothingComes(pq[s], dec[s]) /\ Remaining(s) = 0 => Len(fq[s].frames) - fq[s].shown = 0
      BY DEF Remaining
    <2>14. QED
      BY <1>1, <2>1, <2>2, <2>5, <2>6, <2>9, <2>10, <2>11, <2>12, <2>13, MainTypes, StreamMoves
  <1>4. QED
    BY <1>2, <1>3

\* ... frame_queue_signal ...
LEMMA CloseFramesStep ==
  ASSUME IInv, CloseFrames
  PROVE  IInv'
  <1> DEFINE s == Closing
  <1>1. /\ mt.pc = "signal" /\ mt.todo # <<>>
        /\ mt' = [mt EXCEPT !.pc = "joinDecoder"] /\ SignalFrames(s)
        /\ UNCHANGED <<pq, rd, seek, track, audio, seeks, flushed, stale, skipped>>
    BY DEF CloseFrames, MainGoto, readVars, histVars, playVars, IInv, MainShape, CloseSteps
  <1>2. s \in Streams
    BY <1>1, MainTypes
  <1> HIDE DEF s
  <1>3. \E d, f : /\ Moves(s, pq[s], d, f, flushed[s])
                  /\ d = dec[s] \/ (dec[s].pc = "parkedFrm" /\ d = [dec[s] EXCEPT !.pc = "woken"])
                  /\ f \in {fq[s], [fq[s] EXCEPT !.waiting = FALSE]}
    <2>1. CASE dec[s].pc = "parkedFrm" /\ dec' = [dec EXCEPT ![s].pc = "woken"] /\ UNCHANGED fq
      <3>1. Moves(s, pq[s], [dec[s] EXCEPT !.pc = "woken"], fq[s], flushed[s])
        BY <1>1, <1>2, <2>1, Stands DEF Moves
      <3>2. QED
        BY <2>1, <3>1
    <2>2. CASE fq' = [fq EXCEPT ![s].waiting = FALSE] /\ UNCHANGED dec
      <3>1. Moves(s, pq[s], dec[s], [fq[s] EXCEPT !.waiting = FALSE], flushed[s])
        BY <1>1, <1>2, <2>2, Stands DEF Moves
      <3>2. QED
        BY <3>1
    <2>3. CASE UNCHANGED <<dec, fq>>
      <3>1. Moves(s, pq[s], dec[s], fq[s], flushed[s])
        BY <1>1, <1>2, <2>3, Stands DEF Moves
      <3>2. QED
        BY <3>1
    <2>4. QED
      BY <1>1, <2>1, <2>2, <2>3 DEF SignalFrames
  <1>4. PICK d, f : /\ Moves(s, pq[s], d, f, flushed[s])
                    /\ d = dec[s] \/ (dec[s].pc = "parkedFrm" /\ d = [dec[s] EXCEPT !.pc = "woken"])
                    /\ f \in {fq[s], [fq[s] EXCEPT !.waiting = FALSE]}
    BY <1>3
  <1>5. Pipe(pq[s], dec[s], f, flushed[s]) /\ FramesStand(fq[s], f) /\ Len(f.frames) - f.shown = Remaining(s)
    <2>1. f.frames = fq[s].frames /\ f.shown = fq[s].shown
      BY <1>2, <1>4, Stands DEF FrameQueues
    <2>2. Pipe(pq[s], dec[s], f, flushed[s])
      <3>1. Pipe(pq[s], dec[s], fq[s], flushed[s])
        BY <1>2, Stands
      <3>2. Pipe(pq[s], dec[s], [fq[s] EXCEPT !.waiting = FALSE], flushed[s])
        BY <3>1, WaitPipe
      <3>3. QED
        BY <1>4, <3>1, <3>2
    <2>3. FramesStand(fq[s], f)
      BY <2>1 DEF FramesStand
    <2>4. QED
      BY <2>1, <2>2, <2>3 DEF Remaining
  <1>6. /\ Pipe(pq[s], d, f, flushed[s]) /\ Quiet(pq[s], dec[s], pq[s], d)
        /\ dec[s].pc = "ended" => d = dec[s]
    BY <1>4, <1>5, SignalPipe
  <1>7. /\ pq' = pq /\ dec'[s] = d /\ fq'[s] = f
        /\ \A t \in Streams \ {s} : dec'[t] = dec[t] /\ fq'[t] = fq[t]
    BY <1>1, <1>2, <1>4, <1>6, MovePipes
  <1>8. mt' \in Mains /\ mt'.pc = "joinDecoder" /\ mt'.next = mt.next /\ mt'.todo = mt.todo
    BY <1>1, MainTypes DEF Mains, MainSteps, CloseSteps
  <1>9. MainShape'
    BY <1>1, <1>7, <1>8 DEF IInv, MainShape, CloseSteps, OpenSteps, Closing
  <1>10. ClosedEmpty'
    BY <1>1, <1>6, <1>7, <1>8 DEF IInv, ClosedEmpty, Closed, OpenSteps
  <1>11. OneStale'
    <2>1. \A t \in Streams : FramesStand(fq[t], fq'[t])
      BY <1>5, <1>7, FramesStandStill
    <2>2. \A t \in Streams : fq[t].shown = 1 => fq[t].frames # <<>>
      BY DEF IInv, Pipes, Pipe
    <2>3. audio \in {"took", "play"} => "audio" \in Streams
      BY DEF IInv, OneStale
    <2>4. QED
      BY <1>1, <1>8, <2>1, <2>2, <2>3 DEF IInv, OneStale, StaleAtMostOnce, FramesStand
  <1>12. QED
    BY <1>1, <1>2, <1>4, <1>5, <1>6, <1>8, <1>9, <1>10, <1>11, MainTypes, StreamMoves

\* ... the join of the decoder, the flush ...
LEMMA JoinDecoderStep ==
  ASSUME IInv, JoinDecoder
  PROVE  IInv'
  <1> DEFINE s == Closing
             q == Flushed(pq[s])
  <1>1. /\ mt.pc = "joinDecoder" /\ mt.todo # <<>> /\ pq[s].abort
        /\ mt' = [mt EXCEPT !.pc = "detach"] /\ dec[s].pc = "ended"
        /\ pq' = [pq EXCEPT ![s] = q] /\ flushed' = [flushed EXCEPT ![s] = seeks]
        /\ stale' = [stale EXCEPT ![s] = 0]
        /\ UNCHANGED <<dec, fq, rd, seek, track, audio, seeks, skipped>>
    BY DEF JoinDecoder, MainGoto, readVars, histVars, playVars, IInv, MainShape, CloseSteps
  <1>2. s \in Streams
    BY <1>1, MainTypes
  <1>3. Moves(s, q, dec[s], fq[s], seeks)
    BY <1>1, <1>2, Stands DEF Moves
  <1>4. /\ Pipe(q, dec[s], fq[s], seeks) /\ Quiet(pq[s], dec[s], q, dec[s])
        /\ q.serial = pq[s].serial + 1 /\ q.pkts = <<>>
    BY <1>2, Stands, FlushPipe
  <1>5. q.abort /\ dec[s].serial < q.serial
    <2>1. q.abort = pq[s].abort
      BY <1>2, Stands DEF Flushed, PacketQueues
    <2>2. dec[s].serial <= pq[s].serial
      BY <1>2, Stands DEF Pipe, FreshDecoder
    <2>3. QED
      BY <1>1, <1>2, <1>4, <2>1, <2>2, Stands DEF Decoders, Serials, PacketQueues
  <1> HIDE DEF q, s
  <1>6. /\ pq'[s] = q /\ \A t \in Streams \ {s} : pq'[t] = pq[t]
    BY <1>2, <1>3, <1>4, MovePipes
  <1>7. mt' \in Mains /\ mt'.pc = "detach" /\ mt'.next = mt.next /\ mt'.todo = mt.todo
    BY <1>1, MainTypes DEF Mains, MainSteps, CloseSteps
  <1>8. MainShape'
    BY <1>1, <1>7 DEF IInv, MainShape, CloseSteps, OpenSteps
  <1>9. ClosedEmpty'
    BY <1>1, <1>2, <1>4, <1>5, <1>6, <1>7 DEF IInv, ClosedEmpty, Closed, OpenSteps, Closing, s
  <1>10. stale' \in [Streams -> Nat] /\ stale'[s] = 0 /\ \A t \in Streams \ {s} : stale'[t] = stale[t]
    BY <1>1, <1>2, MainTypes
  <1>11. OneStale'
    <2>1. StaleAtMostOnce'
      BY <1>10 DEF IInv, OneStale, StaleAtMostOnce
    <2>2. \A t \in Streams : stale'[t] = 0 \/ (pq'[t] = pq[t] /\ stale'[t] = stale[t])
      BY <1>6, <1>10
    <2>3. QED
      BY <1>1, <1>7, <2>1, <2>2 DEF IInv, OneStale
  <1>12. NothingComes(pq[s], dec[s]) /\ Remaining(s) = 0 => Len(fq[s].frames) - fq[s].shown = 0
    BY DEF Remaining
  <1>13. QED
    BY <1>1, <1>2, <1>3, <1>4, <1>7, <1>8, <1>9, <1>10, <1>11, <1>12, MainTypes, StreamMoves

\* ... and the stream is closed.
LEMMA DetachStep ==
  ASSUME IInv, Detach
  PROVE  IInv'
  <1> DEFINE s == Closing
  <1>1. /\ mt.pc = "detach" /\ mt.todo # <<>>
        /\ audio' = IF s = "audio" THEN "closed" ELSE audio
        /\ track' = [track EXCEPT ![s] = 0]
        /\ mt' = IF mt.next = "open" THEN [mt EXCEPT !.pc = "open"]
                 ELSE [mt EXCEPT !.pc = "abort", !.todo = Tail(@)]
        /\ UNCHANGED <<pq, dec, fq, rd, seek, seeks, flushed, stale, skipped>>
    BY DEF Detach, pipeVars, readVars, histVars, IInv, MainShape, CloseSteps
  <1>2. s \in Streams /\ Tail(mt.todo) \in Seq(Streams)
    BY <1>1, MainTypes
  <1>3. track' \in [Streams -> {0, 1, 2}] /\ \A t \in Streams \ {s} : track'[t] = track[t]
    BY <1>1, <1>2, MainTypes
  <1>4. audio' \in {"idle", "read", "took", "play", "closed"}
    BY <1>1, MainTypes
  <1>5. /\ mt' \in Mains /\ mt'.next = mt.next
        /\ \/ mt.next = "open" /\ mt'.pc = "open" /\ mt'.todo = mt.todo
           \/ mt.next # "open" /\ mt'.pc = "abort"
    BY <1>1, <1>2, MainTypes DEF Mains, MainSteps, CloseSteps, OpenSteps
  <1>6. MainShape'
    BY <1>1, <1>5 DEF IInv, MainShape, CloseSteps, OpenSteps
  <1>7. ClosedEmpty'
    <2>1. \A t \in Streams : Closed(t)' => Closed(t)
      BY <1>1, <1>3, <1>5 DEF Closed, Closing, OpenSteps
    <2>2. QED
      BY <1>1, <2>1 DEF IInv, ClosedEmpty
  <1>8. OneStale'
    BY <1>1, <1>5 DEF IInv, OneStale, StaleAtMostOnce
  <1>9. QED
    BY <1>1, <1>3, <1>4, <1>5, <1>6, <1>7, <1>8, ReaderTypes, MainTypes, PipesStand

\* stream_component_open: eof is cleared, the track set, the decoder initialised ...
LEMMA OpenClearsEofStep ==
  ASSUME IInv, OpenClearsEof
  PROVE  IInv'
  <1>1. /\ mt.pc = "open" /\ mt' = [mt EXCEPT !.pc = "track"]
        /\ rd' = [rd EXCEPT !.eof = FALSE]
        /\ UNCHANGED <<pq, dec, fq, track, audio, seek, seeks, flushed, stale, skipped>>
    BY DEF OpenClearsEof, MainGoto, pipeVars, histVars, playVars
  <1>2. /\ rd' \in Readers /\ rd'.pc = rd.pc /\ rd'.todo = rd.todo /\ rd'.pos = rd.pos
        /\ rd'.pkt = rd.pkt
    BY <1>1, ReaderTypes DEF Readers
  <1>3. mt' \in Mains /\ mt'.pc = "track" /\ mt'.next = mt.next /\ mt'.todo = mt.todo
    BY <1>1, MainTypes DEF Mains, MainSteps, OpenSteps
  <1>4. MainShape'
    BY <1>1, <1>3 DEF IInv, MainShape, CloseSteps, OpenSteps
  <1>5. ClosedEmpty'
    BY <1>1, <1>3 DEF IInv, ClosedEmpty, Closed, Closing, OpenSteps
  <1>6. OneStale'
    BY <1>1, <1>3 DEF IInv, OneStale, StaleAtMostOnce
  <1>7. QED
    BY <1>1, <1>2, <1>3, <1>4, <1>5, <1>6, ReaderTypes, MainTypes, PipesStand

\* ... unless the open fails; then the stream stays closed ...
LEMMA OpenFailsStep ==
  ASSUME IInv, OpenFails
  PROVE  IInv'
  <1>1. /\ mt' = [mt EXCEPT !.pc = "idle", !.todo = <<>>, !.next = "idle"]
        /\ UNCHANGED <<pq, dec, fq, rd, track, audio, seek, seeks, flushed, stale, skipped>>
    BY DEF OpenFails, pipeVars, readVars, histVars, playVars
  <1>2. mt' \in Mains /\ mt'.pc = "idle"
    <2>1. <<>> \in Seq(Streams)
      OBVIOUS
    <2>2. QED
      BY <1>1, <2>1, MainTypes DEF Mains, MainSteps
  <1>3. MainShape'
    BY <1>2 DEF MainShape, CloseSteps, OpenSteps
  <1>4. QED
    BY <1>1, <1>2, <1>3, ReaderTypes, MainAside DEF OpenSteps

LEMMA OpenTrackStep ==
  ASSUME IInv, last \in [Streams -> {1, 2}], OpenTrack
  PROVE  IInv'
  <1> DEFINE s == Closing
             d == [NewDecoder EXCEPT !.pc = "ended"]
  <1>1. /\ mt.pc = "track" /\ mt.todo = <<"audio">> /\ mt.next = "open"
        /\ mt' = [mt EXCEPT !.pc = "start"]
        /\ track' = [track EXCEPT ![s] = last[s]]
        /\ dec' = [dec EXCEPT ![s] = d]
        /\ UNCHANGED <<pq, fq, rd, seek, audio, seeks, flushed, stale, skipped>>
    BY DEF OpenTrack, MainGoto, readVars, histVars, playVars, IInv, MainShape, OpenSteps
  <1>2. s \in Streams
    BY <1>1, MainTypes, TupleItems
  <1>3. Moves(s, pq[s], d, fq[s], flushed[s])
    BY <1>1, <1>2, Stands DEF Moves
  <1>4. /\ Pipe(pq[s], d, fq[s], flushed[s]) /\ Quiet(pq[s], dec[s], pq[s], d)
        /\ d.pc = "ended" /\ d.serial < pq[s].serial
    BY <1>2, Stands, NewPipe
  <1> HIDE DEF d, s
  <1>5. dec'[s] = d /\ \A t \in Streams \ {s} : dec'[t] = dec[t]
    BY <1>2, <1>3, <1>4, MovePipes
  <1>6. /\ track' \in [Streams -> {0, 1, 2}] /\ track'[s] # 0
        /\ \A t \in Streams \ {s} : track'[t] = track[t]
    BY <1>1, <1>2, MainTypes
  <1>7. mt' \in Mains /\ mt'.pc = "start" /\ mt'.next = mt.next /\ mt'.todo = mt.todo
    BY <1>1, MainTypes DEF Mains, MainSteps, OpenSteps
  <1>8. MainShape'
    BY <1>1, <1>6, <1>7 DEF MainShape, CloseSteps, OpenSteps, Closing, s
  <1>9. ClosedEmpty'
    BY <1>1, <1>4, <1>5, <1>6, <1>7 DEF IInv, ClosedEmpty, Closed, OpenSteps, Closing, s
  <1>10. OneStale'
    BY <1>1, <1>7 DEF IInv, OneStale, StaleAtMostOnce
  <1>11. NothingComes(pq[s], dec[s]) /\ Remaining(s) = 0 => Len(fq[s].frames) - fq[s].shown = 0
    BY DEF Remaining
  <1>12. QED
    BY <1>1, <1>2, <1>3, <1>4, <1>6, <1>7, <1>8, <1>9, <1>10, <1>11, MainTypes, StreamMoves

\* ... and decoder_start opens the queue under a new serial.
LEMMA DecoderStartStep ==
  ASSUME IInv, DecoderStart
  PROVE  IInv'
  <1> DEFINE s == Closing
             q == Started(pq[s])
             d == [dec[s] EXCEPT !.pc = "top"]
  <1>1. /\ mt.pc = "start" /\ mt.todo = <<"audio">> /\ track[s] # 0
        /\ mt' = [mt EXCEPT !.pc = "idle", !.todo = <<>>, !.next = "idle"]
        /\ audio' = "idle" /\ pq' = [pq EXCEPT ![s] = q] /\ dec' = [dec EXCEPT ![s] = d]
        /\ UNCHANGED <<fq, rd, seek, track, seeks, flushed, stale, skipped>>
    BY DEF DecoderStart, readVars, histVars, IInv, MainShape, OpenSteps
  <1>2. s \in Streams /\ s = "audio"
    BY <1>1, MainTypes, TupleItems DEF Closing
  <1>3. pq[s].pkts = <<>> /\ dec[s].pc = "ended"
    BY <1>1, <1>2 DEF IInv, ClosedEmpty, Closed, OpenSteps
  <1>4. Moves(s, q, d, fq[s], flushed[s])
    BY <1>1, <1>2, Stands DEF Moves
  <1>5. Pipe(q, dec[s], fq[s], flushed[s]) /\ Quiet(pq[s], dec[s], q, dec[s])
    BY <1>2, <1>3, Stands, FlushPipe
  <1>6. d = [dec[s] EXCEPT !.pc = "top"]
    OBVIOUS
  <1> HIDE DEF d, s, q
  <1>7. Pipe(q, d, fq[s], flushed[s]) /\ Quiet(q, dec[s], q, d)
    <2>1. Pipe(q, dec[s], fq[s], flushed[s])
      BY <1>5
    <2>2. dec[s].pc = "ended" /\ d = [dec[s] EXCEPT !.pc = "top"]
      BY <1>3, <1>6
    <2>3. QED
      BY <2>1, <2>2, GoPipe
  <1>8. Quiet(pq[s], dec[s], q, d)
    BY <1>5, <1>7 DEF Quiet
  <1>9. \A t \in Streams \ {s} : pq'[t] = pq[t] /\ dec'[t] = dec[t]
    BY <1>2, <1>4, <1>7, MovePipes
  <1>10. mt' \in Mains /\ mt'.pc = "idle"
    <2>1. <<>> \in Seq(Streams)
      OBVIOUS
    <2>2. QED
      BY <1>1, <2>1, MainTypes DEF Mains, MainSteps
  <1>11. MainShape'
    BY <1>10 DEF MainShape, CloseSteps, OpenSteps
  <1>12. ClosedEmpty'
    BY <1>1, <1>9, <1>10 DEF IInv, ClosedEmpty, Closed, OpenSteps
  <1>13. OneStale'
    <2>1. StaleAtMostOnce'
      BY <1>1 DEF IInv, OneStale, StaleAtMostOnce
    <2>2. "audio" \in Streams
      BY <1>2
    <2>3. QED
      BY <1>1, <1>10, <2>1, <2>2 DEF OneStale
  <1>14. NothingComes(pq[s], dec[s]) /\ Remaining(s) = 0 => Len(fq[s].frames) - fq[s].shown = 0
    BY DEF Remaining
  <1>15. QED
    BY <1>1, <1>2, <1>4, <1>7, <1>8, <1>10, <1>11, <1>12, <1>13, <1>14, MainTypes, StreamMoves

\* frame_queue_next, with the signal for a decoder that waits for a slot.
LEMMA NextMoves ==
  ASSUME IInv, NEW s \in Streams, Remaining(s) > 0,
         fq' = NextFrame(s), dec' = SignalSlot(s), UNCHANGED <<pq, flushed>>
  PROVE  \E d, f :
           /\ Moves(s, pq[s], d, f, flushed[s])
           /\ Pipe(pq[s], d, f, flushed[s]) /\ Quiet(pq[s], dec[s], pq[s], d)
           /\ dec[s].pc = "ended" => d = dec[s]
           /\ f.shown = 1 /\ Head(f.frames) = Peek(s)
  <1> DEFINE d == IF dec[s].pc = "parkedFrm" /\ fq[s].shown = 1
                  THEN [dec[s] EXCEPT !.pc = "woken"] ELSE dec[s]
             f == FrameTaken(fq[s])
  <1>1. Moves(s, pq[s], d, f, flushed[s])
    <2>1. fq' = [fq EXCEPT ![s] = f]
      BY DEF NextFrame, FrameTaken
    <2>2. dec' = [dec EXCEPT ![s] = d]
      BY Stands DEF SignalSlot
    <2> HIDE DEF d, f
    <2>3. QED
      BY <2>1, <2>2, Stands DEF Moves
  <1>2. d = dec[s] \/ (dec[s].pc = "parkedFrm" /\ d = [dec[s] EXCEPT !.pc = "woken"])
    OBVIOUS
  <1>4. Len(fq[s].frames) - fq[s].shown > 0 /\ Pipe(pq[s], dec[s], fq[s], flushed[s])
    BY Stands DEF Remaining
  <1>5. /\ Pipe(pq[s], dec[s], f, flushed[s]) /\ f.shown = 1
        /\ Head(f.frames) = fq[s].frames[1 + fq[s].shown]
    BY <1>4, NextPipe
  <1> HIDE DEF d, f
  <1>6. /\ Pipe(pq[s], d, f, flushed[s]) /\ Quiet(pq[s], dec[s], pq[s], d)
        /\ dec[s].pc = "ended" => d = dec[s]
    BY <1>2, <1>5, SignalPipe
  <1>7. QED
    BY <1>1, <1>5, <1>6 DEF Peek

\* video_refresh takes a picture, whatever it does with it.
LEMMA RefreshMoves ==
  ASSUME IInv, "video" \in Streams, Remaining("video") > 0,
         fq' = NextFrame("video"), dec' = SignalSlot("video"),
         UNCHANGED <<pq, flushed, rd, seek, seeks, skipped, track, audio>>,
         mt' \in Mains, MainShape',
         mt'.pc \notin {"show", "signal", "joinDecoder", "detach"} \cup OpenSteps,
         stale' \in [Streams -> Nat], StaleAtMostOnce',
         \A t \in Streams \ {"video"} : stale'[t] = stale[t]
  PROVE  IInv'
  <1> DEFINE s == "video"
  <1>1. PICK d, f :
           /\ Moves(s, pq[s], d, f, flushed[s])
           /\ Pipe(pq[s], d, f, flushed[s]) /\ Quiet(pq[s], dec[s], pq[s], d)
           /\ dec[s].pc = "ended" => d = dec[s]
           /\ f.shown = 1 /\ Head(f.frames) = Peek(s)
    BY NextMoves
  <1>2. /\ dec'[s] = d
        /\ \A t \in Streams \ {s} : dec'[t] = dec[t] /\ fq'[t] = fq[t]
    BY <1>1, MovePipes
  <1>3. ClosedEmpty'
    BY <1>1, <1>2 DEF IInv, ClosedEmpty, Closed
  <1>4. OneStale'
    <2>1. audio \in {"took", "play"} => fq'["audio"] = fq["audio"] /\ stale'["audio"] = stale["audio"]
      BY <1>2 DEF IInv, OneStale
    <2>2. QED
      BY <2>1 DEF IInv, OneStale
  <1>5. NothingComes(pq[s], dec[s]) /\ Remaining(s) = 0 => Len(f.frames) - f.shown = 0
    OBVIOUS
  <1>6. QED
    BY <1>1, <1>3, <1>4, <1>5, MainTypes, StreamMoves

\* What is shown is current, or the first from before the last flush.
LEMMA ShownStale ==
  ASSUME IInv, NEW s \in Streams, NEW x \in Items(fq[s].frames),
         x.serial = pq[s].serial \/ stale[s] = 0, stale' = Stale(s, x)
  PROVE  /\ stale' \in [Streams -> Nat] /\ StaleAtMostOnce'
         /\ \A t \in Streams \ {s} : stale'[t] = stale[t]
  <1>1. CASE x.serial = pq[s].serial
    <2>1. x.seek >= flushed[s]
      BY <1>1, Stands DEF Pipe, FreshFrames
    <2>2. stale' = stale
      BY <2>1 DEF Stale
    <2>3. QED
      BY <2>2, MainTypes DEF IInv, OneStale, StaleAtMostOnce
  <1>2. CASE stale[s] = 0
    <2>1. stale' = stale \/ stale' = [stale EXCEPT ![s] = 1]
      BY <1>2, MainTypes DEF Stale
    <2>2. QED
      BY <2>1, MainTypes DEF IInv, OneStale, StaleAtMostOnce
  <1>3. QED
    BY <1>1, <1>2

LEMMA RefreshStep ==
  ASSUME IInv, RefreshDrop \/ RefreshLate \/ RefreshShow
  PROVE  IInv'
  <1>1. /\ fq' = NextFrame("video") /\ dec' = SignalSlot("video")
        /\ UNCHANGED <<pq, flushed, rd, seek, seeks, skipped, track, audio>>
    BY DEF RefreshDrop, RefreshLate, RefreshShow, readVars, mainVars, histVars, playVars
  <1>2. "video" \in Streams /\ Remaining("video") > 0
    BY DEF RefreshDrop, RefreshLate, RefreshShow, VideoRemains, IInv, OneStale
  <1>3. /\ mt' \in Mains /\ mt'.pc \in {"idle", "toggle"}
        /\ mt'.pc = "toggle" => mt'.next = "idle"
    <2>1. \/ mt' = mt /\ mt.pc = "idle"
          \/ mt' = [mt EXCEPT !.pc = "idle"]
          \/ mt' = [mt EXCEPT !.pc = "toggle", !.next = "idle"]
          \/ mt' = [mt EXCEPT !.pc = "idle", !.next = "idle"]
      BY DEF RefreshDrop, RefreshLate, RefreshShow, mainVars
    <2>2. QED
      BY <2>1, MainTypes DEF Mains, MainSteps
  <1>4. MainShape' /\ mt'.pc \notin {"show", "signal", "joinDecoder", "detach"} \cup OpenSteps
    BY <1>3 DEF MainShape, CloseSteps, OpenSteps
  <1>5. /\ stale' \in [Streams -> Nat] /\ StaleAtMostOnce'
        /\ \A t \in Streams \ {"video"} : stale'[t] = stale[t]
    <2>1. CASE stale' = stale
      BY <2>1, MainTypes DEF IInv, OneStale, StaleAtMostOnce
    <2>2. CASE mt.pc = "show" /\ stale' = Stale("video", Peek("video"))
      <3>1. Peek("video").serial = pq["video"].serial \/ stale["video"] = 0
        BY <2>2 DEF IInv, OneStale
      <3>2. Peek("video") \in Items(fq["video"].frames)
        <4>1. /\ Len(fq["video"].frames) \in Nat /\ fq["video"].shown \in {0, 1}
          BY <1>2, Stands, LenProperties DEF FrameQueues
        <4>2. 1 + fq["video"].shown \in 1 .. Len(fq["video"].frames)
          BY <1>2, <4>1 DEF Remaining
        <4>3. QED
          BY <4>2 DEF Peek, Items
      <3>3. QED
        BY <1>2, <2>2, <3>1, <3>2, ShownStale
    <2>3. QED
      BY <2>1, <2>2 DEF RefreshDrop, RefreshLate, RefreshShow, histVars
  <1>6. QED
    BY <1>1, <1>2, <1>3, <1>4, <1>5, RefreshMoves

\* sdl_audio_callback between its operations on the queue.
LEMMA CallbackAside ==
  ASSUME IInv, UNCHANGED <<pq, dec, fq, flushed, rd, seek, seeks, skipped, mt, track>>,
         audio' \in {"idle", "read", "took", "play", "closed"}, stale' \in [Streams -> Nat],
         StaleAtMostOnce', \A t \in Streams \ {"audio"} : stale'[t] = stale[t],
         audio # "closed",
         audio' \in {"took", "play"} => fq["audio"].shown = 1,
         audio' = "play" => Head(fq["audio"].frames).serial = pq["audio"].serial
  PROVE  IInv'
  <1>1. MainShape' /\ ClosedEmpty'
    BY DEF IInv, MainShape, ClosedEmpty, Closed, Closing
  <1>2. mt.pc = "show" => Remaining("video")' > 0 /\ Peek("video")' = Peek("video")
                          /\ stale'["video"] = stale["video"]
    BY DEF IInv, OneStale, Remaining, Peek
  <1>3. OneStale'
    BY <1>2 DEF IInv, OneStale
  <1>4. QED
    BY <1>1, <1>3, ReaderTypes, MainTypes, PipesStand

LEMMA CallbackStep ==
  ASSUME IInv, Callback
  PROVE  IInv'
  <1>1. UNCHANGED <<pq, flushed, rd, seek, seeks, skipped, mt, track>> /\ audio # "closed"
    BY DEF Callback, CallbackStart, CallbackRead, CallbackTook, CallbackPlay, pipeVars, readVars,
           mainVars, histVars
  <1>2. "audio" \in Streams
    BY <1>1 DEF IInv, OneStale
  <1>3. stale' = stale => StaleAtMostOnce' /\ stale' \in [Streams -> Nat]
    BY MainTypes DEF IInv, OneStale, StaleAtMostOnce
  <1>4. CASE CallbackStart
    <2>1. audio' = "read" /\ UNCHANGED <<dec, fq, stale>>
      BY <1>4 DEF CallbackStart, pipeVars, histVars
    <2>2. QED
      BY <1>1, <1>3, <2>1, CallbackAside
  <1>5. CASE CallbackTook
    <2>1. /\ audio = "took" /\ audio' \in {"play", "read"} /\ UNCHANGED <<dec, fq, stale>>
          /\ audio' = "play" => Head(fq["audio"].frames).serial = pq["audio"].serial
      BY <1>5 DEF CallbackTook, pipeVars, histVars
    <2>2. fq["audio"].shown = 1
      BY <2>1 DEF IInv, OneStale
    <2>3. QED
      BY <1>1, <1>3, <2>1, <2>2, CallbackAside
  <1>6. CASE CallbackPlay
    <2> DEFINE x == Head(fq["audio"].frames)
    <2>1. audio = "play" /\ audio' = "idle" /\ UNCHANGED <<dec, fq>> /\ stale' = Stale("audio", x)
      BY <1>6 DEF CallbackPlay, pipeVars
    <2>2. fq["audio"].shown = 1 /\ (x.serial = pq["audio"].serial \/ stale["audio"] = 0)
      BY <2>1 DEF IInv, OneStale
    <2>3. x \in Items(fq["audio"].frames)
      <3>1. fq["audio"].frames \in Seq(Frames) /\ fq["audio"].frames # <<>>
        BY <1>2, <2>2, Stands DEF Pipe, FrameQueues
      <3>2. QED
        BY <3>1, TailItems
    <2> HIDE DEF x
    <2>4. /\ stale' \in [Streams -> Nat] /\ StaleAtMostOnce'
          /\ \A t \in Streams \ {"audio"} : stale'[t] = stale[t]
      BY <1>2, <2>1, <2>2, <2>3, ShownStale
    <2>5. QED
      BY <1>1, <2>1, <2>4, CallbackAside
  <1>7. CASE CallbackRead
    <2>0. audio = "read" /\ stale' = stale
      BY <1>7 DEF CallbackRead, histVars
    <2>1. CASE audio' = "idle" /\ UNCHANGED <<fq, dec>>
      BY <1>1, <1>3, <2>0, <2>1, CallbackAside
    <2> DEFINE s == "audio"
    <2>2. CASE fq' = [fq EXCEPT ![s].waiting = TRUE] /\ UNCHANGED <<audio, dec>>
      <3> DEFINE f == [fq[s] EXCEPT !.waiting = TRUE]
      <3>1. Moves(s, pq[s], dec[s], f, flushed[s])
        BY <1>1, <1>2, <2>2, Stands DEF Moves
      <3>2. Pipe(pq[s], dec[s], f, flushed[s])
        BY <1>2, Stands, WaitPipe
      <3>3. FramesStand(fq[s], f) /\ f.frames = fq[s].frames /\ f.shown = fq[s].shown
        BY <1>2, Stands, FramesStandStill DEF FrameQueues
      <3> HIDE DEF f
      <3>4. Closed(s) => pq[s].pkts = <<>> /\ dec[s].pc = "ended" /\ dec[s].serial < pq[s].serial
        BY <1>2 DEF IInv, ClosedEmpty
      <3>5. MainShape' /\ ClosedEmpty' /\ OneStale'
        BY <1>1, <1>2, <2>0, <2>2, <3>1, <3>2, <3>3, <3>4, MainStands
      <3>6. QED
        BY <1>1, <1>2, <1>3, <2>0, <2>2, <3>1, <3>2, <3>3, <3>5, MainTypes, StreamMoves
           DEF Quiet, Remaining
    <2>3. CASE /\ Remaining(s) # 0
               /\ fq' = NextFrame(s) /\ dec' = SignalSlot(s) /\ audio' = "took"
      <3>1. Remaining(s) > 0
        <4>1. /\ Len(fq[s].frames) \in Nat /\ fq[s].shown \in {0, 1}
              /\ fq[s].shown = 1 => Len(fq[s].frames) \in Nat \ {0}
          BY <1>2, Stands, LenProperties, EmptySeq DEF Pipe, FrameQueues
        <4>2. QED
          BY <2>3, <4>1 DEF Remaining
      <3>2. PICK d, f :
              /\ Moves(s, pq[s], d, f, flushed[s])
              /\ Pipe(pq[s], d, f, flushed[s]) /\ Quiet(pq[s], dec[s], pq[s], d)
              /\ dec[s].pc = "ended" => d = dec[s]
              /\ f.shown = 1 /\ Head(f.frames) = Peek(s)
        BY <1>1, <1>2, <2>3, <3>1, NextMoves
      <3>3. /\ dec'[s] = d /\ fq'[s] = f
            /\ \A t \in Streams \ {s} : dec'[t] = dec[t] /\ fq'[t] = fq[t]
        BY <1>2, <3>2, MovePipes
      <3>4. ClosedEmpty' /\ MainShape'
        BY <1>1, <3>2, <3>3 DEF IInv, ClosedEmpty, Closed, Closing, MainShape
      <3>5. OneStale'
        <4>1. mt.pc = "show" => fq'["video"] = fq["video"]
          BY <3>3 DEF IInv, OneStale
        <4>2. QED
          BY <1>1, <1>2, <2>0, <2>3, <3>2, <3>3, <4>1
             DEF IInv, OneStale, StaleAtMostOnce, Remaining, Peek
      <3>6. QED
        BY <1>1, <1>2, <1>3, <2>0, <2>3, <3>1, <3>2, <3>4, <3>5, MainTypes, StreamMoves
    <2>4. QED
      BY <1>7, <2>1, <2>2, <2>3 DEF CallbackRead
  <1>8. QED
    BY <1>4, <1>5, <1>6, <1>7 DEF Callback

-----------------------------------------------------------------------------
(* The player. *)

\* Before the first packet.
LEMMA InitIInv ==
  ASSUME Init
  PROVE  IInv
  <1>1. /\ Null \in Packets /\ Null.null /\ NoFrame \in Frames /\ NoFrame.serial = 0
        /\ EmptyCodec \in Codecs /\ EmptyCodec.held = <<>> /\ ~EmptyCodec.draining
    BY DEF Null, Packets, NoFrame, Frames, EmptyCodec, Codecs
  <1>2. /\ NewDecoder \in Decoders /\ NewDecoder.pc = "top" /\ NewDecoder.serial = -1
        /\ NewDecoder.finished = 0 /\ NewDecoder.pkt = Null /\ NewDecoder.frame = NoFrame
        /\ NewDecoder.codec = EmptyCodec
    BY <1>1 DEF NewDecoder, Decoders, DecoderSteps, Serials
  <1> DEFINE q == [pkts |-> <<>>, serial |-> 1, abort |-> FALSE]
             f == [frames |-> <<>>, shown |-> 0, waiting |-> FALSE]
  <1>3. /\ q \in PacketQueues /\ q.pkts = <<>> /\ q.serial = 1 /\ q.abort = FALSE
        /\ f \in FrameQueues /\ f.frames = <<>> /\ f.shown = 0
    BY DEF PacketQueues, FrameQueues
  <1>4. /\ pq \in [Streams -> PacketQueues] /\ dec \in [Streams -> Decoders]
        /\ fq \in [Streams -> FrameQueues]
        /\ track \in [Streams -> {0, 1, 2}] /\ flushed \in [Streams -> Nat]
        /\ stale \in [Streams -> Nat]
        /\ \A s \in Streams : /\ pq[s] = q /\ dec[s] = NewDecoder /\ fq[s] = f
                              /\ track[s] = 1 /\ flushed[s] = 0 /\ stale[s] = 0
    BY <1>2, <1>3 DEF Init
  <1> HIDE DEF q, f
  <1>5. /\ rd \in Readers /\ rd.pc = "loop"
    BY <1>1 DEF Init, Readers, ReadSteps
  <1>6. mt \in Mains /\ mt.pc = "idle"
    BY DEF Init, Mains, MainSteps
  <1>7. CoreTypes
    BY <1>4, <1>5, <1>6 DEF Init, CoreTypes
  <1>8. ~SawNull(q, NewDecoder) /\ ~HasNull(q, NewDecoder)
    BY <1>2, <1>3, NoItems DEF SawNull, HasNull
  <1>9. Pipe(q, NewDecoder, f, 0)
    <2>1. FreshPackets(q, 0) /\ FreshFrames(q, f, 0)
      BY <1>3, NoItems DEF FreshPackets, FreshFrames
    <2>2. FreshDecoder(q, NewDecoder, 0)
      BY <1>1, <1>2, <1>3 DEF FreshDecoder
    <2>3. Draining(q, NewDecoder)
      BY <1>1, <1>2, <1>3, <1>8, EmptySeq DEF Draining
    <2>4. QED
      BY <1>2, <1>3, <2>1, <2>2, <2>3 DEF Pipe
  <1>10. Pipes
    BY <1>4, <1>9 DEF Pipes
  <1>11. ReadShape /\ EndChecked
    BY <1>4, <1>5 DEF Init, ReadShape, EndChecked
  <1>12. AtFileEnd
    BY <1>4, <1>8 DEF AtFileEnd
  <1>13. MainShape /\ ClosedEmpty
    BY <1>4, <1>6 DEF MainShape, ClosedEmpty, Closed, CloseSteps, OpenSteps
  <1>14. OneStale
    BY <1>4, <1>6 DEF Init, OneStale, StaleAtMostOnce
  <1>15. QED
    BY <1>7, <1>10, <1>11, <1>12, <1>13, <1>14 DEF IInv

LEMMA NextIInv ==
  ASSUME IInv, last \in [Streams -> {1, 2}], [Next]_vars
  PROVE  IInv'
  <1>1. CASE ReadThread \/ ReadError \/ ReadRetry
    BY <1>1, ReadThreadStep
  <1>2. CASE \E s \in Streams : Decode(s)
    BY <1>2, DecodeStep
  <1>3. CASE EarlyDrop
    BY <1>3, EarlyDropStep
  <1>4. CASE RefreshDrop \/ RefreshLate \/ RefreshShow
    BY <1>4, RefreshStep
  <1>5. CASE RefreshPick
    BY <1>5, RefreshPickStep
  <1>6. CASE \/ ToggleLoad \/ ToggleStore \/ SetStep \/ KeyPause \/ KeyStep \/ Quit
             \/ JoinReader
             \/ \E p \in SeekTargets : KeySeek(p)
             \/ \E s \in Switchable : KeySwitch(s)
    BY <1>6, EventStep
  <1>7. CASE \/ ClosePackets \/ CloseFrames \/ JoinDecoder \/ Detach \/ OpenFails
             \/ OpenClearsEof \/ OpenTrack \/ DecoderStart
    BY <1>7, ClosePacketsStep, CloseFramesStep, JoinDecoderStep, DetachStep, OpenFailsStep, OpenClearsEofStep,
       OpenTrackStep, DecoderStartStep
  <1>8. CASE Callback
    BY <1>8, CallbackStep
  <1>9. CASE UNCHANGED vars
    <2>1. /\ UNCHANGED <<pq, dec, fq, flushed, rd, seek, seeks, skipped, mt, track, audio, stale>>
      BY <1>9 DEF vars, pipeVars, readVars, mainVars, histVars, playVars
    <2>2. MainShape' /\ ClosedEmpty' /\ OneStale'
      BY <2>1 DEF IInv, MainShape, ClosedEmpty, Closed, Closing, OneStale, StaleAtMostOnce,
                  Remaining, Peek
    <2>3. QED
      BY <2>1, <2>2, ReaderTypes, MainTypes, PipesStand
  <1>10. QED
    BY <1>1, <1>2, <1>3, <1>4, <1>5, <1>6, <1>7, <1>8, <1>9 DEF Next, Toggles, Closes


-----------------------------------------------------------------------------
(* What the check for the end has found stays so, whoever runs. *)

LEMMA PipeTypes ==
  ASSUME IInv
  PROVE  /\ pq \in [Streams -> PacketQueues] /\ dec \in [Streams -> Decoders]
         /\ fq \in [Streams -> FrameQueues]
  BY DEF IInv, CoreTypes

\* A step that leaves the pipeline of s alone.
LEMMA CompleteAlone ==
  ASSUME NEW s \in Streams, Complete(s), pq'[s] = pq[s], dec'[s] = dec[s], fq'[s] = fq[s]
  PROVE  Complete(s)'
  BY DEF Complete, Remaining

\* A decoder that is woken, that ends, or that finds nothing to do.
LEMMA CompleteGoes ==
  ASSUME NEW s \in Streams, IInv, Complete(s), pq'[s] = pq[s], fq'[s] = fq[s],
         NEW l \in DecoderSteps \ Pushing, dec'[s] = [dec[s] EXCEPT !.pc = l]
  PROVE  Complete(s)'
  <1>1. /\ dec'[s].pc = l /\ dec'[s].pkt = dec[s].pkt /\ dec'[s].serial = dec[s].serial
        /\ dec'[s].codec = dec[s].codec
    BY Stands DEF Decoders
  <1>2. QED
    BY <1>1 DEF Complete, Remaining, NothingComes, NullsLeft

LEMMA SignalledIs ==
  ASSUME IInv, NEW s \in Streams, NEW t \in Streams, dec' = SignalPackets(t)
  PROVE  /\ dec'[s] = dec[s] \/ (dec[s].pc = "parkedPkt" /\ dec'[s] = [dec[s] EXCEPT !.pc = "get"])
         /\ NothingComes(pq[s], dec[s]) => NothingComes(pq[s], dec'[s])
  <1>1. dec'[s] = dec[s] \/ (dec[s].pc = "parkedPkt" /\ dec'[s] = [dec[s] EXCEPT !.pc = "get"])
    BY Stands DEF SignalPackets
  <1>2. dec[s] \in Decoders
    BY Stands
  <1>3. QED
    BY <1>1, <1>2 DEF NothingComes, Decoders, Pushing

\* A put of a null packet, a flush, an abort.
LEMMA CompleteQueue ==
  ASSUME NEW s \in Streams, IInv, Complete(s), fq'[s] = fq[s], NEW q, pq'[s] = q,
         NothingComes(pq[s], dec'[s]), Pipe(pq[s], dec[s], fq[s], flushed[s]),
         dec'[s].serial = dec[s].serial,
         \/ q = pq[s]
         \/ q = Flushed(pq[s])
         \/ q = Started(pq[s])
         \/ q = [pq[s] EXCEPT !.abort = TRUE]
         \/ \E p \in Packets : p.null /\ q = [pq[s] EXCEPT !.pkts =
                                    Append(@, [p EXCEPT !.serial = pq[s].serial])]
  PROVE  Complete(s)'
  <1> DEFINE q0 == pq[s]
             d == dec'[s]
  <1>0. NothingComes(q0, d) /\ q0 \in PacketQueues /\ d.serial = dec[s].serial
        /\ d.serial <= q0.serial /\ dec[s].serial \in Serials
    BY Stands DEF Pipe, FreshDecoder, Decoders
  <1> HIDE DEF q0, d
  <1>1. NothingComes(q, d)
    <2>1. CASE q = q0
      BY <1>0, <2>1
    <2>2. CASE q = Flushed(q0)
      <3>1. q.pkts = <<>> /\ q.serial = q0.serial + 1
        BY <1>0, <2>2 DEF Flushed, PacketQueues
      <3>2. q.serial # d.serial
        BY <1>0, <3>1 DEF PacketQueues, Serials
      <3>3. QED
        BY <1>0, <3>1, <3>2, NoItems DEF NothingComes, NullsLeft
    <2>3. CASE q = Started(q0)
      <3>1. q.pkts = q0.pkts /\ q.serial = q0.serial + 1
        BY <1>0, <2>3 DEF Started, PacketQueues
      <3>2. q.serial # d.serial
        BY <1>0, <3>1 DEF PacketQueues, Serials
      <3>3. QED
        BY <1>0, <3>1, <3>2 DEF NothingComes, NullsLeft
    <2>4. CASE q = [q0 EXCEPT !.abort = TRUE]
      <3>1. q.pkts = q0.pkts /\ q.serial = q0.serial
        BY <1>0, <2>4 DEF PacketQueues
      <3>2. QED
        BY <1>0, <3>1 DEF NothingComes, NullsLeft
    <2>5. CASE \E p \in Packets : p.null /\ q = [q0 EXCEPT !.pkts =
                                      Append(@, [p EXCEPT !.serial = q0.serial])]
      <3>1. PICK p \in Packets : p.null /\ q = [q0 EXCEPT !.pkts =
                                      Append(@, [p EXCEPT !.serial = q0.serial])]
        BY <2>5
      <3> DEFINE x == [p EXCEPT !.serial = q0.serial]
      <3>2. x \in Packets /\ x.null
        BY <1>0, <3>1 DEF Packets, PacketQueues
      <3>3. q.pkts = Append(q0.pkts, x) /\ q.serial = q0.serial /\ q0.pkts \in Seq(Packets)
        BY <1>0, <3>1 DEF PacketQueues
      <3> HIDE DEF x
      <3>4. Items(q.pkts) = Items(q0.pkts) \cup {x}
        BY <3>2, <3>3, AppendItems
      <3>5. QED
        BY <1>0, <3>2, <3>3, <3>4 DEF NothingComes, NullsLeft
    <2>6. QED
      BY <2>1, <2>2, <2>3, <2>4, <2>5 DEF q0
  <1>2. QED
    BY <1>1 DEF Complete, Remaining, d

\* The decoder thread finds nothing to push.
LEMMA CompleteDecode ==
  ASSUME IInv, NEW s \in Streams, Complete(s), NEW t \in Streams, Decode(t)
  PROVE  Complete(s)'
  <1>1. CASE t # s
    <2>1. pq'[s] = pq[s] /\ dec'[s] = dec[s] /\ fq'[s] = fq[s]
      BY <1>1, Stands, PipeTypes DEF Decode, DecodeReceive, DecodeGet, DecodeSend, DecodePush, Ends
    <2>2. QED
      BY <2>1, CompleteAlone
  <1>2. CASE t = s
    <2> DEFINE d == dec[s]
               q == pq[s]
    <2>1. /\ NothingComes(q, d) /\ d \in Decoders /\ d.codec \in Codecs /\ q \in PacketQueues
          /\ q.pkts \in Seq(Packets) /\ FreshPackets(q, flushed[s]) /\ Remaining(s) = 0
      BY Stands DEF Complete, Pipe, Decoders, PacketQueues
    <2>2. CASE DecodeReceive(s)
      <3>1. UNCHANGED <<pq, fq>>
        BY <2>2 DEF DecodeReceive
      <3>2. CASE \E l \in {"get", "ended"} : dec' = [dec EXCEPT ![s].pc = l]
        <4>1. PICK l \in {"get", "ended"} : dec'[s] = [d EXCEPT !.pc = l]
          BY <3>2, Stands, PipeTypes
        <4>2. QED
          BY <3>1, <4>1, CompleteGoes DEF DecoderSteps, Pushing
      <3>3. CASE dec' = [dec EXCEPT ![s].finished = d.serial, ![s].codec = EmptyCodec]
        <4>1. /\ dec'[s].pc = d.pc /\ dec'[s].pkt = d.pkt /\ dec'[s].codec.held = <<>>
          BY <2>1, <3>3, Stands, PipeTypes DEF Decoders, EmptyCodec
        <4>2. QED
          BY <2>1, <3>1, <4>1 DEF Complete, NothingComes, NullsLeft, Remaining
      <3>4. CASE q.serial = d.serial /\ FrameReady(d.codec)
        <4>1. d.codec.held = <<>>
          BY <2>1, <3>4 DEF NothingComes
        <4>2. QED
          BY <3>4, <4>1, EmptySeq DEF FrameReady
      <3>5. QED
        BY <2>2, <3>2, <3>3, <3>4 DEF DecodeReceive, Ends
    <2>3. CASE DecodeGet(s)
      <3>1. fq' = fq
        BY <2>3 DEF DecodeGet
      <3>2. CASE pq' = pq /\ \E l \in {"parkedPkt", "ended"} : dec' = [dec EXCEPT ![s].pc = l]
        <4>1. PICK l \in {"parkedPkt", "ended"} : dec'[s] = [d EXCEPT !.pc = l]
          BY <3>2, Stands, PipeTypes
        <4>2. QED
          BY <3>1, <3>2, <4>1, CompleteGoes DEF DecoderSteps, Pushing
      <3>3. CASE q.pkts # <<>> /\ ~q.abort
        <4> DEFINE h == Head(q.pkts)
                   got == [d EXCEPT !.pc = "send", !.pkt = h, !.serial = h.serial]
        <4>1. /\ h \in Items(q.pkts) /\ Items(Tail(q.pkts)) \subseteq Items(q.pkts)
              /\ h \in Packets
          BY <2>1, <3>3, TailItems
        <4>2. h.null /\ h.serial = q.serial
          BY <2>1, <4>1 DEF NothingComes, NullsLeft, FreshPackets
        <4> HIDE DEF h
        <4>3. /\ got.pc = "send" /\ got.pkt = h /\ got.serial = h.serial /\ got.codec = d.codec
              /\ [got EXCEPT !.finished = 0, !.codec = EmptyCodec].pc = "send"
              /\ [got EXCEPT !.finished = 0, !.codec = EmptyCodec].pkt = h
              /\ [got EXCEPT !.finished = 0, !.codec = EmptyCodec].codec = EmptyCodec
          BY <2>1 DEF Decoders
        <4>4. dec'[s] = IF got.serial = d.serial THEN got
                        ELSE [got EXCEPT !.finished = 0, !.codec = EmptyCodec]
          BY <2>3, <3>3, Stands, PipeTypes DEF DecodeGet, h
        <4>5. pq'[s].pkts = Tail(q.pkts)
          <5>1. pq' = [pq EXCEPT ![s] = [pq[s] EXCEPT !.pkts = Tail(@)]]
            BY <2>3, <3>3 DEF DecodeGet
          <5>2. pq'[s] = [pq[s] EXCEPT !.pkts = Tail(@)]
            BY <5>1, PipeTypes
          <5>3. QED
            BY <2>1, <5>2 DEF PacketQueues
        <4> HIDE DEF got
        <4>6. dec'[s].pc = "send" /\ dec'[s].pkt = h /\ dec'[s].codec.held = <<>>
          BY <2>1, <4>2, <4>3, <4>4 DEF NothingComes, EmptyCodec
        <4>7. QED
          BY <2>1, <3>1, <4>1, <4>2, <4>5, <4>6
             DEF Complete, NothingComes, NullsLeft, Remaining, Pushing
      <3>4. QED
        BY <2>3, <3>2, <3>3 DEF DecodeGet, Ends
    <2>4. CASE DecodeSend(s)
      <3>1. UNCHANGED <<pq, fq>>
        BY <2>4 DEF DecodeSend
      <3>2. /\ dec'[s].pc \in {"get", "top"} /\ dec'[s].pkt = Null
            /\ dec'[s].serial = d.serial
            /\ dec'[s].codec.held = d.codec.held
        <4>1. d.pkt.null
          BY <2>1 DEF NothingComes
        <4>2. CASE q.serial # d.serial
          <5>1. dec'[s] = [d EXCEPT !.pc = "get", !.pkt = Null]
            BY <2>4, <4>2, Stands, PipeTypes DEF DecodeSend
          <5>2. QED
            BY <2>1, <5>1 DEF Decoders
        <4>3. CASE q.serial = d.serial
          <5> DEFINE c == [d.codec EXCEPT !.held = IF d.pkt.null THEN @ ELSE Append(@, d.pkt),
                                          !.draining = d.pkt.null]
          <5>1. dec'[s] = [d EXCEPT !.pc = "top", !.pkt = Null, !.codec = c]
            BY <2>4, <4>3, Stands, PipeTypes DEF DecodeSend
          <5>2. c.held = d.codec.held
            BY <2>1, <4>1 DEF Codecs
          <5> HIDE DEF c
          <5>3. QED
            BY <2>1, <5>1, <5>2 DEF Decoders
        <4>4. QED
          BY <4>2, <4>3
      <3>3. QED
        BY <2>1, <3>1, <3>2 DEF Complete, NothingComes, NullsLeft, Remaining, Pushing, Null
    <2>5. ~DecodePush(s)
      BY <2>1 DEF DecodePush, NothingComes, Pushing
    <2>6. QED
      BY <1>2, <2>2, <2>3, <2>4, <2>5 DEF Decode
  <1>3. QED
    BY <1>1, <1>2

\* Nobody takes a frame from a queue that has none.
LEMMA CompleteTaken ==
  ASSUME IInv, NEW s \in Streams, Complete(s), NEW t \in Streams, Remaining(t) # 0,
         pq' = pq, fq' = NextFrame(t), dec' = SignalSlot(t)
  PROVE  Complete(s)'
  <1>1. t # s
    BY DEF Complete
  <1>2. pq'[s] = pq[s] /\ dec'[s] = dec[s] /\ fq'[s] = fq[s]
    BY <1>1, Stands DEF NextFrame, SignalSlot
  <1>3. QED
    BY <1>2, CompleteAlone

LEMMA CompleteRead ==
  ASSUME IInv, NEW s \in Streams, Complete(s), ReadThread \/ ReadError \/ ReadRetry
  PROVE  Complete(s)' \/ (lost' = [lost EXCEPT ![s] = -1])
  <1>1. CASE UNCHANGED pipeVars
    BY <1>1, CompleteAlone DEF pipeVars
  <1>2. CASE ReadFlush
    <2> DEFINE t == Head(rd.todo)
    <2>1. t \in Streams
      BY <1>2, ReaderTypes, TailItems DEF ReadFlush, IInv, ReadShape
    <2>2. /\ dec' = dec /\ fq' = fq
          /\ pq' = pq \/ pq' = [pq EXCEPT ![t] = Flushed(pq[t])]
      BY <1>2 DEF ReadFlush
    <2> HIDE DEF t
    <2>3. pq'[s] = pq[s] \/ pq'[s] = Flushed(pq[s])
      BY <2>1, <2>2, Stands, PipeTypes
    <2>4. QED
      BY <2>2, <2>3, Stands, CompleteQueue DEF Complete
  <1>3. CASE ReadPut
    <2> DEFINE t == Head(rd.todo)
               p == rd.pkt
    <2>1. t \in Streams /\ p \in Packets
      BY <1>3, ReaderTypes, TailItems DEF ReadPut, IInv, ReadShape
    <2>2. /\ fq' = fq
          /\ UNCHANGED <<pq, dec>> \/ (pq' = Queued(t, p) /\ dec' = SignalPackets(t))
          /\ lost' = IF p.null THEN lost ELSE [lost EXCEPT ![t] = -1]
      BY <1>3 DEF ReadPut, PacketQueuePut
    <2> HIDE DEF t, p
    <2>3. CASE UNCHANGED <<pq, dec>>
      BY <2>2, <2>3, CompleteAlone
    <2>4. CASE pq' = Queued(t, p) /\ dec' = SignalPackets(t) /\ t # s
      <3>1. pq'[s] = pq[s] /\ dec'[s] = dec[s]
        BY <2>1, <2>4, Stands DEF Queued, SignalPackets
      <3>2. QED
        BY <2>2, <3>1, CompleteAlone
    <2>5. CASE pq' = Queued(t, p) /\ dec' = SignalPackets(t) /\ t = s /\ p.null
      <3>1. pq'[s] = [pq[s] EXCEPT !.pkts = Append(@, [p EXCEPT !.serial = pq[s].serial])]
        BY <2>5, Stands, PipeTypes DEF Queued
      <3>2. NothingComes(pq[s], dec'[s]) /\ dec'[s].serial = dec[s].serial
        BY <2>1, <2>5, SignalledIs, Stands DEF Complete, Decoders
      <3>3. QED
        BY <2>1, <2>2, <2>5, <3>1, <3>2, Stands, CompleteQueue
    <2>6. QED
      BY <2>2, <2>3, <2>4, <2>5
  <1>4. QED
    BY <1>1, <1>2, <1>3
       DEF ReadThread, ReadLoop, ReadSought, ReadToggle, ReadToggleLoad, ReadToggleStore, ReadStep,
           ReadQueues, ReadCheck, ReadCount, ReadAtEnd, ReadPacket, ReadEnd, ReadError, ReadRetry

LEMMA CompleteCloses ==
  ASSUME IInv, NEW s \in Streams, Complete(s), Closes
  PROVE  Complete(s)'
  <1> DEFINE t == Closing
  <1>1. CASE UNCHANGED pipeVars
    BY <1>1, CompleteAlone DEF pipeVars
  <1>2. CASE /\ t \in Streams /\ fq' = fq /\ dec' = SignalPackets(t)
             /\ pq' = [pq EXCEPT ![t].abort = TRUE]
    <2>1. pq'[s] = pq[s] \/ pq'[s] = [pq[s] EXCEPT !.abort = TRUE]
      BY <1>2, Stands, PipeTypes
    <2>2. NothingComes(pq[s], dec'[s]) /\ dec'[s].serial = dec[s].serial
      BY <1>2, SignalledIs, Stands DEF Complete, Decoders
    <2>3. QED
      BY <1>2, <2>1, <2>2, Stands, CompleteQueue
  <1>3. CASE /\ t \in Streams /\ pq' = pq /\ SignalFrames(t)
    <2>1. dec'[s] = dec[s]
      BY <1>3, Stands, PipeTypes DEF SignalFrames, Complete, NothingComes, Pushing
    <2>2. fq'[s].frames = fq[s].frames /\ fq'[s].shown = fq[s].shown
      BY <1>3, Stands, PipeTypes DEF SignalFrames, FrameQueues
    <2>3. QED
      BY <1>3, <2>1, <2>2 DEF Complete, Remaining
  <1>4. CASE /\ t \in Streams /\ fq' = fq /\ dec' = dec
             /\ pq' = [pq EXCEPT ![t] = Flushed(pq[t])]
    <2>1. pq'[s] = pq[s] \/ pq'[s] = Flushed(pq[s])
      BY <1>4, Stands
    <2>2. QED
      BY <1>4, <2>1, Stands, CompleteQueue DEF Complete
  <1>5. CASE /\ t \in Streams /\ fq' = fq /\ pq' = pq
             /\ dec' = [dec EXCEPT ![t] = [NewDecoder EXCEPT !.pc = "ended"]]
    <2>1. dec'[s] = dec[s] \/ dec'[s] = [NewDecoder EXCEPT !.pc = "ended"]
      BY <1>5, Stands
    <2>2. QED
      BY <1>5, <2>1
         DEF Complete, Remaining, NothingComes, NewDecoder, EmptyCodec, Null, Pushing
  <1>6. CASE /\ t \in Streams /\ fq' = fq
             /\ pq' = [pq EXCEPT ![t] = Started(pq[t])] /\ dec' = [dec EXCEPT ![t].pc = "top"]
    <2>1. pq'[s] = pq[s] \/ pq'[s] = Started(pq[s])
      BY <1>6, Stands
    <2>2. dec'[s] = dec[s] \/ dec'[s] = [dec[s] EXCEPT !.pc = "top"]
      BY <1>6, Stands
    <2>3. NothingComes(pq[s], dec'[s]) /\ dec'[s].serial = dec[s].serial
      BY <2>2, Stands DEF Complete, NothingComes, Pushing, Decoders
    <2>4. QED
      BY <1>6, <2>1, <2>3, Stands, CompleteQueue
  <1>7. mt.pc \in OpenSteps => t \in Streams
    BY MainTypes, EmptySeq DEF IInv, MainShape
  <1>8. mt.pc \in CloseSteps \ {"abort"} => t \in Streams
    BY MainTypes DEF IInv, MainShape
  <1> HIDE DEF t
  <1>9. CASE ClosePackets
    <2>1. mt.todo # <<>> => t \in Streams
      BY MainTypes DEF t
    <2>2. QED
      BY <1>1, <1>2, <1>9, <2>1 DEF ClosePackets, PacketQueueAbort, pipeVars, t
  <1>10. CASE CloseFrames
    BY <1>3, <1>8, <1>10 DEF CloseFrames, CloseSteps, t
  <1>11. CASE JoinDecoder
    BY <1>4, <1>8, <1>11 DEF JoinDecoder, CloseSteps, t
  <1>12. CASE OpenTrack
    BY <1>5, <1>7, <1>12 DEF OpenTrack, OpenSteps, t
  <1>13. CASE DecoderStart
    BY <1>6, <1>7, <1>13 DEF DecoderStart, OpenSteps, t
  <1>14. QED
    BY <1>1, <1>9, <1>10, <1>11, <1>12, <1>13
       DEF Closes, JoinReader, Detach, OpenFails, OpenClearsEof

LEMMA CompleteStays ==
  ASSUME IInv, NEW s \in Streams, Complete(s), [Next]_vars
  PROVE  Complete(s)' \/ (lost' = [lost EXCEPT ![s] = -1])
  <1>1. CASE UNCHANGED pipeVars
    BY <1>1, CompleteAlone DEF pipeVars
  <1>2. CASE ReadThread \/ ReadError \/ ReadRetry
    BY <1>2, CompleteRead
  <1>3. CASE \E t \in Streams : Decode(t)
    BY <1>3, CompleteDecode
  <1>4. CASE EarlyDrop
    <2>1. s # "video"
      BY <1>4 DEF EarlyDrop, Complete, NothingComes, Pushing
    <2>2. pq' = pq /\ fq' = fq /\ dec'[s] = dec[s]
      BY <1>4, <2>1, Stands, PipeTypes DEF EarlyDrop
    <2>3. QED
      BY <2>2, CompleteAlone
  <1>5. CASE RefreshDrop \/ RefreshLate \/ RefreshShow
    <2>1. "video" \in Streams /\ Remaining("video") > 0
      BY <1>5 DEF RefreshDrop, RefreshLate, RefreshShow, VideoRemains, IInv, OneStale
    <2>2. pq' = pq /\ fq' = NextFrame("video") /\ dec' = SignalSlot("video")
      BY <1>5 DEF RefreshDrop, RefreshLate, RefreshShow
    <2>3. QED
      BY <2>1, <2>2, CompleteTaken
  <1>6. CASE Closes
    BY <1>6, CompleteCloses
  <1>7. CASE CallbackRead
    <2>1. "audio" \in Streams
      BY <1>7 DEF CallbackRead, IInv, OneStale
    <2>2. CASE fq' = NextFrame("audio") /\ dec' = SignalSlot("audio") /\ Remaining("audio") # 0
      BY <1>7, <2>1, <2>2, CompleteTaken DEF CallbackRead
    <2>3. CASE fq' = [fq EXCEPT !["audio"].waiting = TRUE] /\ dec' = dec
      <3>1. fq'[s].frames = fq[s].frames /\ fq'[s].shown = fq[s].shown
        BY <2>3, Stands DEF FrameQueues
      <3>2. QED
        BY <1>7, <2>3, <3>1 DEF CallbackRead, Complete, Remaining
    <2>4. QED
      BY <1>1, <1>7, <2>2, <2>3 DEF CallbackRead, pipeVars
  <1>8. QED
    BY <1>1, <1>2, <1>3, <1>4, <1>5, <1>6, <1>7
       DEF Next, Toggles, ToggleLoad, ToggleStore, SetStep, RefreshPick, KeyPause, KeyStep,
           KeySeek, KeySwitch, Quit, Callback, CallbackStart, CallbackTook, CallbackPlay, vars

\* What becomes of the losses of each stream.
LEMMA LostStep ==
  ASSUME Inv, [Next]_vars, NEW s \in Streams
  PROVE  \/ lost'[s] = -1
         \/ lost'[s] = lost[s] /\ (lost[s] # -1 /\ audio' = "took" => s # "audio" \/ audio = "took")
         \/ rd.pc = "atEnd" /\ s \notin skipped /\ lost'[s] = 0 /\ UNCHANGED pipeVars
         \/ s = "audio" /\ audio = "took" /\ audio' # "took" /\ lost[s] = 0 /\ lost'[s] = 1
  <1>1. lost \in [Streams -> Nat \cup {-1}]
    BY DEF Inv, TypeOK
  <1>2. CASE lost' = lost /\ (audio' = "took" => audio = "took")
    BY <1>2
  <1>3. CASE ReadAtEnd
    <2>1. /\ lost'[s] = IF s \in skipped THEN lost[s] ELSE 0
          /\ rd.pc = "atEnd" /\ UNCHANGED pipeVars /\ audio' = audio
      BY <1>3 DEF ReadAtEnd, playVars
    <2>2. QED
      BY <2>1
  <1>4. CASE ReadPut
    BY <1>1, <1>4 DEF ReadPut, playVars
  <1>5. CASE RefreshDrop
    <2>1. Remaining("video") > 0 /\ audio' = audio /\ lost' = Discarded("video")
      BY <1>5 DEF RefreshDrop, VideoRemains, playVars
    <2>2. "video" \in Streams /\ lost["video"] = -1
      BY <1>5, <2>1 DEF Inv, EndFound, Complete, RefreshDrop, VideoRemains
    <2>3. QED
      BY <2>1, <2>2 DEF Discarded
  <1>6. CASE CallbackTook
    <2>1. audio = "took" /\ "audio" \in Streams
      BY <1>6 DEF CallbackTook, Inv, IInv, OneStale
    <2>2. lost["audio"] \in {-1, 0}
      BY <2>1 DEF Inv, EndFound, Losses
    <2>3. /\ audio' \in {"play", "read"}
          /\ lost' = lost \/ lost' = Discarded("audio")
      BY <1>6 DEF CallbackTook
    <2>4. QED
      BY <1>1, <2>1, <2>2, <2>3 DEF Discarded
  <1>7. CASE CallbackRead
    <2>1. lost' = lost /\ audio = "read" /\ "audio" \in Streams
      BY <1>7 DEF CallbackRead, histVars, Inv, IInv, OneStale
    <2>2. audio' = "took" => Remaining("audio") # 0
      BY <1>7, <2>1 DEF CallbackRead
    <2>3. audio' = "took" => lost["audio"] = -1
      BY <2>1, <2>2 DEF Inv, EndFound, Complete
    <2>4. QED
      BY <2>1, <2>3
  <1>8. CASE ReadThread \/ ReadError \/ ReadRetry
    BY <1>2, <1>3, <1>4, <1>8
       DEF ReadThread, ReadLoop, ReadFlush, ReadSought, ReadToggle, ReadToggleLoad,
           ReadToggleStore, ReadStep, ReadQueues, ReadCheck, ReadCount, ReadPacket, ReadEnd,
           ReadError, ReadRetry, histVars, playVars
  <1>9. CASE Callback
    BY <1>2, <1>6, <1>7, <1>9 DEF Callback, CallbackStart, CallbackPlay, histVars
  <1>10. CASE Closes
    BY <1>2, <1>10
       DEF Closes, JoinReader, ClosePackets, CloseFrames, JoinDecoder, Detach, OpenFails,
           OpenClearsEof, OpenTrack, DecoderStart, histVars, playVars
  <1>11. CASE \E t \in Streams : Decode(t)
    BY <1>2, <1>11 DEF Decode, histVars, playVars
  <1>12. QED
    BY <1>2, <1>5, <1>8, <1>9, <1>10, <1>11
       DEF Next, EarlyDrop, RefreshPick, RefreshLate, RefreshShow, Toggles, ToggleLoad,
           ToggleStore, SetStep, KeyPause, KeyStep, KeySeek, KeySwitch, Quit, histVars, playVars,
           vars

\* lost stays a function of the streams.
LEMMA LostMap ==
  ASSUME [Next]_vars, lost \in [Streams -> Nat \cup {-1}]
  PROVE  \E S : lost' \in [Streams -> S]
  <1>1. \/ lost' = lost
        \/ lost' = [s \in Streams |-> IF s \in skipped THEN lost[s] ELSE 0]
        \/ \E s : lost' = [lost EXCEPT ![s] = -1]
        \/ \E s : lost' = [lost EXCEPT ![s] = @ + 1]
    <2>1. CASE ReadThread \/ ReadError \/ ReadRetry
      BY <2>1
         DEF ReadThread, ReadLoop, ReadFlush, ReadSought, ReadToggle, ReadToggleLoad,
             ReadToggleStore, ReadStep, ReadQueues, ReadCheck, ReadCount, ReadAtEnd, ReadPacket,
             ReadEnd, ReadPut, ReadError, ReadRetry, histVars
    <2>2. CASE Callback
      BY <2>2 DEF Callback, CallbackStart, CallbackRead, CallbackTook, CallbackPlay, histVars,
                  Discarded
    <2>3. CASE Closes
      BY <2>3
         DEF Closes, JoinReader, ClosePackets, CloseFrames, JoinDecoder, Detach, OpenFails,
             OpenClearsEof, OpenTrack, DecoderStart, histVars
    <2>4. CASE \E t \in Streams : Decode(t)
      BY <2>4 DEF Decode, histVars
    <2>5. QED
      BY <2>1, <2>2, <2>3, <2>4
         DEF Next, EarlyDrop, RefreshDrop, RefreshPick, RefreshLate, RefreshShow, Toggles,
             ToggleLoad, ToggleStore, SetStep, KeyPause, KeyStep, KeySeek, KeySwitch, Quit,
             histVars, vars, Discarded
  <1>2. \E f : lost' = [s \in Streams |-> f[s]]
    <2>1. lost' = [s \in Streams |-> lost'[s]]
      BY <1>1
    <2>2. QED
      BY <2>1
  <1> DEFINE S == {lost'[s] : s \in Streams}
  <1>3. lost' \in [Streams -> S]
    BY <1>2
  <1>4. QED
    BY <1>3

LEMMA LastStep ==
  ASSUME last \in [Streams -> {1, 2}], [Next]_vars
  PROVE  last' \in [Streams -> {1, 2}]
  <1>1. CASE last' = last
    BY <1>1
  <1>2. CASE \E s \in Switchable : KeySwitch(s)
    <2>1. PICK s \in Switchable : last' = [last EXCEPT ![s] = 3 - last[s]]
      BY <1>2 DEF KeySwitch
    <2>2. s \in Streams /\ 3 - last[s] \in {1, 2}
      BY PlayerAssumption
    <2>3. QED
      BY <2>1, <2>2
  <1>3. CASE ReadThread \/ ReadError \/ ReadRetry
    BY <1>1, <1>3
       DEF ReadThread, ReadLoop, ReadFlush, ReadSought, ReadToggle, ReadToggleLoad,
           ReadToggleStore, ReadStep, ReadQueues, ReadCheck, ReadCount, ReadAtEnd, ReadPacket,
           ReadEnd, ReadPut, ReadError, ReadRetry, mainVars
  <1>4. CASE Callback
    BY <1>1, <1>4 DEF Callback, CallbackStart, CallbackRead, CallbackTook, CallbackPlay, mainVars
  <1>5. CASE Closes
    BY <1>1, <1>5
       DEF Closes, JoinReader, ClosePackets, CloseFrames, JoinDecoder, Detach, OpenFails,
           OpenClearsEof, OpenTrack, DecoderStart
  <1>6. CASE \E t \in Streams : Decode(t)
    BY <1>1, <1>6 DEF Decode, mainVars
  <1>7. QED
    BY <1>1, <1>2, <1>3, <1>4, <1>5, <1>6
       DEF Next, EarlyDrop, RefreshDrop, RefreshPick, RefreshLate, RefreshShow, Toggles,
           ToggleLoad, ToggleStore, SetStep, KeyPause, KeyStep, KeySeek, Quit, mainVars, vars

\* The end that is found, and what was found before.
LEMMA NextInv ==
  ASSUME Inv, [Next]_vars
  PROVE  Inv'
  <1>1. IInv'
    BY NextIInv DEF Inv, TypeOK
  <1>2. last' \in [Streams -> {1, 2}]
    BY LastStep DEF Inv, TypeOK
  <1>3. \A s \in Streams : /\ lost'[s] \in Nat \cup {-1}
                           /\ lost'[s] # -1 => Complete(s)' /\ lost'[s] \in Losses(s)'
    <2> SUFFICES ASSUME NEW s \in Streams
                 PROVE  /\ lost'[s] \in Nat \cup {-1}
                        /\ lost'[s] # -1 => Complete(s)' /\ lost'[s] \in Losses(s)'
      OBVIOUS
    <2>0. /\ lost \in [Streams -> Nat \cup {-1}]
          /\ lost[s] # -1 => Complete(s) /\ lost[s] \in Losses(s)
      BY DEF Inv, TypeOK, EndFound
    <2>1. lost[s] # -1 => Complete(s)' \/ lost'[s] = -1
      BY <2>0, CompleteStays DEF Inv
    <2>2. CASE lost'[s] = -1
      BY <2>2
    <2>3. CASE /\ lost'[s] = lost[s] /\ lost[s] # -1
               /\ audio' = "took" => s # "audio" \/ audio = "took"
      BY <2>0, <2>1, <2>3 DEF Losses
    <2>4. CASE rd.pc = "atEnd" /\ s \notin skipped /\ lost'[s] = 0 /\ UNCHANGED pipeVars
      <3>1. Items(rd.todo) = {}
        BY <2>4, NoItems DEF Inv, IInv, ReadShape
      <3>2. Complete(s)
        BY <2>4, <3>1 DEF Inv, IInv, EndChecked, Complete
      <3>3. QED
        BY <2>4, <3>2, CompleteAlone DEF pipeVars, Losses
    <2>5. CASE s = "audio" /\ audio = "took" /\ audio' # "took" /\ lost[s] = 0 /\ lost'[s] = 1
      BY <2>1, <2>5 DEF Losses
    <2>6. QED
      BY <2>2, <2>3, <2>4, <2>5, LostStep
  <1>4. lost' \in [Streams -> Nat \cup {-1}]
    <2>1. \E S : lost' \in [Streams -> S]
      BY LostMap DEF Inv, TypeOK
    <2>2. QED
      BY <1>3, <2>1
  <1>5. QED
    BY <1>1, <1>2, <1>3, <1>4 DEF Inv, IInv, TypeOK, EndFound

LEMMA InitInv ==
  ASSUME Init
  PROVE  Inv
  <1>1. /\ last \in [Streams -> {1, 2}] /\ lost \in [Streams -> Nat \cup {-1}]
        /\ \A s \in Streams : lost[s] = -1
    BY DEF Init
  <1>2. QED
    BY <1>1, InitIInv DEF Inv, IInv, TypeOK, EndFound

\* The invariant says what the check for the end concludes.
LEMMA InvEnd ==
  ASSUME Inv
  PROVE  EndIsComplete
  <1>1. ASSUME rd.pc = "atEnd", skipped # Streams
        PROVE  rd.pos = Len(File) /\ \A s \in Streams \ skipped : NothingLeft(s)
    <2>1. Items(rd.todo) = {}
      BY <1>1, NoItems DEF Inv, IInv, ReadShape
    <2>2. \A s \in Streams \ skipped :
            rd.pos = Len(File) /\ NothingComes(pq[s], dec[s]) /\ Remaining(s) = 0
      BY <1>1, <2>1 DEF Inv, IInv, EndChecked
    <2>3. PICK s \in Streams : s \notin skipped
      BY <1>1, ReaderTypes DEF Inv
    <2>4. \A t \in Streams \ skipped : NothingLeft(t)
      BY <2>2 DEF NothingLeft, NothingComes, NullsLeft, Items, Pushing
    <2>5. QED
      BY <2>2, <2>3, <2>4
  <1>2. \A s \in Streams : lost[s] <= (IF s = "audio" THEN 1 ELSE 0)
    BY DEF Inv, TypeOK, EndFound, Losses
  <1>3. QED
    BY <1>1, <1>2 DEF EndIsComplete

\* Every variable of the player stays what it is meant to be, at every interleaving of
\* the threads: the threads' program counters, the queues, the decoders.
THEOREM PlayerTypes == Spec => []TypeOK
  <1>1. Init => Inv
    BY InitInv
  <1>2. Inv /\ [Next]_vars => Inv'
    BY NextInv
  <1>3. Inv => TypeOK
    BY DEF Inv
  <1>4. QED
    BY <1>1, <1>2, <1>3, PTL DEF Spec, SafetySpec

\* After a seek has flushed a packet queue at most one picture, and one audio frame, from
\* before it is shown: although video_refresh and audio_decode_frame compare the serial of
\* a frame without a lock and show the frame later, and whatever else happens in between.
THEOREM StaleOnce == Spec => []StaleAtMostOnce
  <1>1. Init => Inv
    BY InitInv
  <1>2. Inv /\ [Next]_vars => Inv'
    BY NextInv
  <1>3. Inv => StaleAtMostOnce
    BY DEF Inv, IInv, OneStale
  <1>4. QED
    BY <1>1, <1>2, <1>3, PTL DEF Spec, SafetySpec

\* When read_thread finds the end, to exit or to loop, the file is read and everything of
\* it is taken to be shown, although the check for the end reads the decoder and the frame
\* queue of each stream one after the other and without a lock; and from then on, whatever
\* is flushed, no picture is lost, and of the sound at most the one frame that
\* audio_decode_frame has taken and not yet compared.
THEOREM EndComplete == Spec => []EndIsComplete
  <1>1. Init => Inv
    BY InitInv
  <1>2. Inv /\ [Next]_vars => Inv'
    BY NextInv
  <1>3. Inv => EndIsComplete
    BY InvEnd
  <1>4. QED
    BY <1>1, <1>2, <1>3, PTL DEF Spec, SafetySpec
=============================================================================
