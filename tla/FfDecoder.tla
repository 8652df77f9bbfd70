------------------------------ MODULE FfDecoder ------------------------------
(***************************************************************************)
(* The pipeline of one elementary stream in C/ffplay.c: the PacketQueue,   *)
(* the Decoder with its thread (audio_thread, video_thread) and the        *)
(* FrameQueue, for every stream of the player.                             *)
(*                                                                         *)
(* Each queue has a mutex and a condition variable: a critical section is  *)
(* a step, and a thread in SDL_CondWait is "parked" until the other side   *)
(* signals.  The serial of a packet queue grows with every flush and start *)
(* and is read without the mutex by everybody else.                        *)
(*                                                                         *)
(* A packet is the null packet that drains the decoder or carries seek,    *)
(* the number of the seek after which it was read (history); a frame       *)
(* carries the seek of its packet and the serial the decoder gave it.  The *)
(* codec of libavcodec is external: it keeps the last frame back until it  *)
(* is drained or gets another packet.                                      *)
(***************************************************************************)
EXTENDS Integers, Sequences, FiniteSets

CONSTANTS Streams,    \* "audio" and "video", as far as the file has them
          FrameSlots  \* max_size of the frame queues, 9 and 3 in the code

ASSUME DecoderAssumption ==
  /\ Streams \subseteq {"audio", "video"}
  /\ Streams # {}  \* read_thread fails on a file without either
  /\ FrameSlots \in Nat \ {0, 1}  \* keep_last occupies one of them

VARIABLES pq,   \* packet queues: pkts, serial, abort
          dec,  \* decoders: pc of the thread, serial (pkt_serial), finished,
                \* pkt and frame in its hands, codec: what libavcodec holds
          fq    \* frame queues: frames from rindex on, shown (rindex_shown),
                \* waiting: a reader waits in frame_queue_peek_readable

pipeVars == <<pq, dec, fq>>

Null == [null |-> TRUE, seek |-> 0, serial |-> 0]
Data(n) == [null |-> FALSE, seek |-> n, serial |-> 0]
NoFrame == [seek |-> 0, serial |-> 0]

EmptyCodec == [held |-> <<>>, draining |-> FALSE]

(* decoder_init, and the thread decoder_start creates.                      *)
NewDecoder == [pc |-> "top", serial |-> -1, finished |-> 0, pkt |-> Null,
               frame |-> NoFrame, codec |-> EmptyCodec]

-----------------------------------------------------------------------------
(* The packet queue *)

(* SDL_CondSignal(q->cond): only the decoder thread waits there.            *)
SignalPackets(s) ==
  IF dec[s].pc = "parkedPkt" THEN [dec EXCEPT ![s].pc = "get"] ELSE dec

Queued(s, pkt) ==
  [pq EXCEPT ![s].pkts = Append(@, [pkt EXCEPT !.serial = pq[s].serial])]

PacketQueuePut(s, pkt) ==
  IF pq[s].abort
  THEN UNCHANGED <<pq, dec>>
  ELSE /\ pq' = Queued(s, pkt)
       /\ dec' = SignalPackets(s)

(* packet_queue_flush *)
Flushed(q) == [q EXCEPT !.pkts = <<>>, !.serial = @ + 1]

(* packet_queue_start *)
Started(q) == [q EXCEPT !.abort = FALSE, !.serial = @ + 1]

PacketQueueAbort(s) ==
  /\ pq' = [pq EXCEPT ![s].abort = TRUE]
  /\ dec' = SignalPackets(s)

-----------------------------------------------------------------------------
(* The frame queue *)

Remaining(s) == Len(fq[s].frames) - fq[s].shown

(* frame_queue_peek *)
Peek(s) == fq[s].frames[1 + fq[s].shown]

(* frame_queue_next with keep_last: the first call removes nothing.         *)
NextFrame(s) ==
  IF fq[s].shown = 0 THEN [fq EXCEPT ![s].shown = 1]
                     ELSE [fq EXCEPT ![s].frames = Tail(@)]

(* The signal of frame_queue_next for a decoder that waits for a slot; the  *)
(* first call gives none, it frees no slot.                                 *)
SignalSlot(s) ==
  IF dec[s].pc = "parkedFrm" /\ fq[s].shown = 1
  THEN [dec EXCEPT ![s].pc = "woken"] ELSE dec

(* frame_queue_signal: one thread that waits on the queue goes on.          *)
SignalFrames(s) ==
  \/ /\ dec[s].pc = "parkedFrm"
     /\ dec' = [dec EXCEPT ![s].pc = "woken"] /\ UNCHANGED fq
  \/ /\ fq[s].waiting
     /\ fq' = [fq EXCEPT ![s].waiting = FALSE] /\ UNCHANGED dec
  \/ /\ dec[s].pc # "parkedFrm" /\ ~fq[s].waiting
     /\ UNCHANGED <<dec, fq>>

-----------------------------------------------------------------------------
(* The decoder thread *)

Ends(s) == dec' = [dec EXCEPT ![s].pc = "ended"]

(* avcodec_receive_frame *)
FrameReady(c) == Len(c.held) > 1 \/ (c.draining /\ c.held # <<>>)
Drained(c) == c.draining /\ c.held = <<>>

(* The head of decoder_decode_frame: while the packets it had are current,  *)
(* take what the codec has.                                                 *)
DecodeReceive(s) ==
  LET d == dec[s]
  IN  /\ d.pc = "top"
      /\ IF pq[s].serial # d.serial
         THEN dec' = [dec EXCEPT ![s].pc = "get"]
         ELSE IF pq[s].abort THEN Ends(s)
         ELSE IF Drained(d.codec)
         THEN dec' = [dec EXCEPT ![s].finished = d.serial, ![s].codec = EmptyCodec]
         ELSE IF FrameReady(d.codec)
         THEN dec' = [dec EXCEPT
                        ![s].frame = [seek |-> Head(d.codec.held).seek, serial |-> d.serial],
                        ![s].codec.held = Tail(@), ![s].pc = "push"]
         ELSE dec' = [dec EXCEPT ![s].pc = "get"]
      /\ UNCHANGED <<pq, fq>>

(* packet_queue_get; a packet with a new serial resets the codec.           *)
DecodeGet(s) ==
  /\ dec[s].pc = "get"
  /\ IF pq[s].abort THEN Ends(s) /\ UNCHANGED pq
     ELSE IF pq[s].pkts = <<>>
     THEN dec' = [dec EXCEPT ![s].pc = "parkedPkt"] /\ UNCHANGED pq
     ELSE /\ pq' = [pq EXCEPT ![s].pkts = Tail(@)]
          /\ LET got == [dec[s] EXCEPT !.pc = "send", !.pkt = Head(pq[s].pkts),
                                       !.serial = Head(pq[s].pkts).serial]
             IN  dec' = [dec EXCEPT ![s] =
                           IF got.serial = dec[s].serial THEN got
                           ELSE [got EXCEPT !.finished = 0, !.codec = EmptyCodec]]
  /\ UNCHANGED fq

(* avcodec_send_packet, unless a flush has made the packet obsolete.        *)
DecodeSend(s) ==
  LET d == dec[s]
  IN  /\ d.pc = "send"
      /\ dec' = [dec EXCEPT ![s] =
           IF pq[s].serial # d.serial THEN [d EXCEPT !.pc = "get", !.pkt = Null]
           ELSE [d EXCEPT !.pc = "top", !.pkt = Null,
                          !.codec.held = IF d.pkt.null THEN @ ELSE Append(@, d.pkt),
                          !.codec.draining = d.pkt.null]]
      /\ UNCHANGED <<pq, fq>>

(* frame_queue_peek_writable and frame_queue_push, of queue_picture and     *)
(* audio_thread.  Nobody else adds frames, so the slot stays free.          *)
DecodePush(s) ==
  /\ dec[s].pc \in {"push", "woken"}
  /\ IF pq[s].abort THEN Ends(s) /\ UNCHANGED fq
     ELSE IF Len(fq[s].frames) >= FrameSlots
     THEN dec' = [dec EXCEPT ![s].pc = "parkedFrm"] /\ UNCHANGED fq
     ELSE /\ fq' = [fq EXCEPT ![s].frames = Append(@, dec[s].frame),
                              ![s].waiting = FALSE]
          /\ dec' = [dec EXCEPT ![s].pc = "top", ![s].frame = NoFrame]
  /\ UNCHANGED pq

=============================================================================
