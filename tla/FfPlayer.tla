------------------------------- MODULE FfPlayer -------------------------------
(***************************************************************************)
(* The threads of C/ffplay.c around the pipelines of FfDecoder: read_thread *)
(* fills the packet queues, seeks and detects the end; the main thread     *)
(* shows pictures (video_refresh), takes the user's events, switches audio *)
(* tracks and closes the player; SDL's audio callback plays samples.       *)
(*                                                                         *)
(* The state begins when read_thread has opened the streams.  The flags in *)
(* VideoState are shared without a lock: every access that another thread  *)
(* can tell apart is a step.  Waits with a timeout (continue_read_thread)  *)
(* always end, so they are no steps.  When a picture is due, whether it is *)
(* late and whether the user acts is left open.  Attached pictures,        *)
(* subtitles, decoders that fail once they run, a want of memory and the   *)
(* switch of the video track are left out.                                 *)
(***************************************************************************)
EXTENDS FfDecoder

CONSTANTS File,        \* the packets of the file, each with its stream and track
          MinPackets,  \* MIN_FRAMES
          MaxPackets,  \* stands for MAX_QUEUE_SIZE
          Loops,       \* the option loop
          Autoexit,    \* the option autoexit
          MaxEvents,   \* bound on the user's events other than quit and on the
                       \* read errors that are tried again
          SeekTargets, \* positions of the file the user may seek to
          Switchable   \* streams whose track the user may switch

ASSUME PlayerAssumption ==
  /\ File \in Seq([stream : Streams, track : {1, 2}])
  /\ MinPackets \in Nat /\ MaxPackets \in Nat /\ MaxEvents \in Nat
  /\ Loops \in Nat /\ Autoexit \in BOOLEAN
  /\ SeekTargets \subseteq 0 .. Len(File)
  /\ Switchable \subseteq Streams \cap {"audio"}

VARIABLES track,     \* the open track of each stream, 0 for audio_stream = -1
          last,      \* last_audio_stream: the track opened, or tried, last
          rd,        \* read_thread: pc, todo (what is left of a loop over the
                     \* streams), pkt, pos in the file,
                     \* eof, which stream_component_open clears too
          seek,      \* req (seek_req), pos (seek_pos)
          loop,      \* loop
          paused, step, abortRequest,
          quitEvent, \* an FF_QUIT_EVENT is in the event queue
          mt,        \* main thread: pc, todo, next: what follows a close,
                     \* value: what a toggle is about to store
          audio,     \* the callback: "idle", "read", "took", "play", "closed"
          vidclk,    \* vidclk.serial
          seeks,     \* history: successful seeks
          flushed,   \* history: seeks at the last flush of each packet queue
          stale,     \* history: frames from before that flush shown since then
          skipped,   \* history: streams the end check found closed
          lost,      \* history: frames of a stream thrown away since the end check
                     \* found it complete, -1 once another packet is queued
          events     \* history: events so far

readVars  == <<rd, seek, loop, step, paused, quitEvent>>
mainVars  == <<mt, track, last, abortRequest, events>>
histVars  == <<seeks, flushed, stale, skipped, lost>>
playVars  == <<audio, vidclk>>
vars == <<pipeVars, readVars, mainVars, histVars, playVars>>

(* The order in which the code goes over the streams that are in S.         *)
FirstThen(a, b, S) == (IF a \in S THEN <<a>> ELSE <<>>) \o (IF b \in S THEN <<b>> ELSE <<>>)
AudioFirst(S) == FirstThen("audio", "video", S)
VideoFirst(S) == FirstThen("video", "audio", S)
InOrder == AudioFirst(Streams)

Init ==
  /\ pq = [s \in Streams |-> [pkts |-> <<>>, serial |-> 1, abort |-> FALSE]]
  /\ dec = [s \in Streams |-> NewDecoder]
  /\ fq = [s \in Streams |-> [frames |-> <<>>, shown |-> 0, waiting |-> FALSE]]
  /\ track = [s \in Streams |-> 1]
  /\ last = [s \in Streams |-> 1]
  /\ rd = [pc |-> "loop", todo |-> <<>>, pkt |-> Null, pos |-> 0, eof |-> FALSE]
  /\ seek = [req |-> FALSE, pos |-> 0]
  /\ loop = Loops
  /\ paused = FALSE /\ step = FALSE
  /\ abortRequest = FALSE /\ quitEvent = FALSE
  /\ mt = [pc |-> "idle", todo |-> <<>>, next |-> "idle", value |-> FALSE]
  /\ audio = IF "audio" \in Streams THEN "idle" ELSE "closed"
  /\ vidclk = -1
  /\ seeks = 0
  /\ flushed = [s \in Streams |-> 0]
  /\ stale = [s \in Streams |-> 0]
  /\ skipped = {}
  /\ lost = [s \in Streams |-> -1]
  /\ events = 0

-----------------------------------------------------------------------------
(* read_thread *)

ReadGoto(l) == rd' = [rd EXCEPT !.pc = l]

(* The head of the loop: leave, or carry out a seek (which may fail) ...    *)
ReadLoop ==
  /\ rd.pc = "loop"
  /\ IF abortRequest THEN ReadGoto("ended") /\ UNCHANGED seeks
     ELSE IF ~seek.req THEN ReadGoto("queues") /\ UNCHANGED seeks
     ELSE \/ ReadGoto("sought") /\ UNCHANGED seeks
          \/ /\ rd' = [rd EXCEPT !.pc = "flush", !.pos = seek.pos, !.todo = InOrder]
             /\ seeks' = seeks + 1
  /\ UNCHANGED <<pipeVars, seek, loop, step, paused, quitEvent, mainVars,
                 flushed, stale, skipped, lost, playVars>>

(* ... flush the queue of each open stream ...                              *)
ReadFlush ==
  /\ rd.pc = "flush"
  /\ rd' = [rd EXCEPT !.todo = Tail(@), !.pc = IF Len(rd.todo) > 1 THEN @ ELSE "sought"]
  /\ LET s == Head(rd.todo)
     IN  IF track[s] = 0 THEN UNCHANGED <<pq, flushed, stale>>
         ELSE /\ pq' = [pq EXCEPT ![s] = Flushed(@)]
              /\ flushed' = [flushed EXCEPT ![s] = seeks]
              /\ stale' = [stale EXCEPT ![s] = 0]
  /\ UNCHANGED <<dec, fq, seek, loop, step, paused, quitEvent, mainVars,
                 seeks, skipped, lost, playVars>>

(* ... and, if the player is paused, let it show one frame.                 *)
ReadSought ==
  /\ rd.pc = "sought"
  /\ seek' = [seek EXCEPT !.req = FALSE]
  /\ rd' = [rd EXCEPT !.eof = FALSE, !.pc = IF paused THEN "toggle" ELSE "queues"]
  /\ UNCHANGED <<pipeVars, loop, step, paused, quitEvent, mainVars, histVars, playVars>>

(* step_to_next_frame tests paused, stream_toggle_pause reads it again and  *)
(* writes it back negated; the main thread may do the same in between.      *)
ReadToggle ==
  /\ rd.pc = "toggle"
  /\ ReadGoto(IF paused THEN "load" ELSE "step")
  /\ UNCHANGED <<pipeVars, seek, loop, step, paused, quitEvent, mainVars, histVars, playVars>>

ReadToggleLoad ==
  /\ rd.pc = "load"
  /\ ReadGoto(IF paused THEN "unpause" ELSE "pause")
  /\ UNCHANGED <<pipeVars, seek, loop, step, paused, quitEvent, mainVars, histVars, playVars>>

ReadToggleStore ==
  /\ rd.pc \in {"unpause", "pause"}
  /\ paused' = (rd.pc = "pause")
  /\ ReadGoto("step")
  /\ UNCHANGED <<pipeVars, seek, loop, step, quitEvent, mainVars, histVars, playVars>>

ReadStep ==
  /\ rd.pc = "step"
  /\ step' = TRUE
  /\ ReadGoto("queues")
  /\ UNCHANGED <<pipeVars, seek, loop, paused, quitEvent, mainVars, histVars, playVars>>

(* stream_has_enough_packets, without the duration of what is queued *)
HasEnough(s) == track[s] = 0 \/ pq[s].abort \/ Len(pq[s].pkts) > MinPackets

TotalPackets == LET n(s) == IF s \in Streams THEN Len(pq[s].pkts) ELSE 0
                IN  n("audio") + n("video")

QueuesFull == TotalPackets > MaxPackets \/ \A s \in Streams : HasEnough(s)

ReadQueues ==
  /\ rd.pc = "queues"
  /\ rd' = IF QueuesFull THEN [rd EXCEPT !.pc = "loop"]
           ELSE IF paused THEN [rd EXCEPT !.pc = "read"]
           ELSE [rd EXCEPT !.pc = "check", !.todo = InOrder]
  /\ skipped' = {}
  /\ UNCHANGED <<pipeVars, seek, loop, step, paused, quitEvent, mainVars,
                 seeks, flushed, stale, lost, playVars>>

(* Mutant of CheckHolds: the frames are counted before finished is read. *)
CheckHoldsSwapped(s, what) ==
  IF what = "remaining" THEN dec[s].finished = pq[s].serial ELSE Remaining(s) = 0

(* The check for the end looks at each open stream twice: has its decoder   *)
(* drained, and is every frame taken.                                       *)
CheckHolds(s, what) ==
  IF what = "finished" THEN dec[s].finished = pq[s].serial ELSE Remaining(s) = 0

CheckNext ==
  rd' = [rd EXCEPT !.todo = Tail(@), !.pc = IF Len(rd.todo) > 1 THEN "check" ELSE "atEnd"]
CheckFails == rd' = [rd EXCEPT !.pc = "read", !.todo = <<>>]

(* audio_st NULL: nothing to wait for.                                      *)
ReadCheck ==
  /\ rd.pc = "check"
  /\ LET s == Head(rd.todo)
     IN  IF track[s] = 0 THEN CheckNext /\ skipped' = skipped \cup {s}
         ELSE /\ IF CheckHolds(s, "finished") THEN ReadGoto("count") ELSE CheckFails
              /\ UNCHANGED skipped
  /\ UNCHANGED <<pipeVars, seek, loop, step, paused, quitEvent, mainVars,
                 seeks, flushed, stale, lost, playVars>>

ReadCount ==
  /\ rd.pc = "count"
  /\ IF CheckHolds(Head(rd.todo), "remaining") THEN CheckNext ELSE CheckFails
  /\ UNCHANGED <<pipeVars, seek, loop, step, paused, quitEvent, mainVars, histVars, playVars>>

(* stream_seek: a request is ignored while another one is pending.          *)
SeekTo(p) == seek' = IF seek.req THEN seek ELSE [req |-> TRUE, pos |-> p]

ReadAtEnd ==
  /\ rd.pc = "atEnd"
  /\ IF loop # 1
     THEN /\ loop' = IF loop = 0 THEN 0 ELSE loop - 1
          /\ SeekTo(0) /\ ReadGoto("read") /\ UNCHANGED quitEvent
     ELSE /\ quitEvent' = (quitEvent \/ Autoexit)
          /\ ReadGoto(IF Autoexit THEN "ended" ELSE "read")
          /\ UNCHANGED <<loop, seek>>
  /\ lost' = [s \in Streams |-> IF s \in skipped THEN lost[s] ELSE 0]
  /\ UNCHANGED <<pipeVars, step, paused, mainVars, seeks, flushed, stale, skipped, playVars>>

(* av_read_frame: a packet, for its stream if that track is open (the test  *)
(* comes before the put); at the end a null packet for every open stream,   *)
(* once, and then eof is set; an error of the input ends the thread, any    *)
(* other error is tried again.                                              *)
ReadPacket ==
  /\ rd.pc = "read"
  /\ rd.pos < Len(File)
  /\ LET f == File[rd.pos + 1]
         next == [rd EXCEPT !.pos = @ + 1, !.eof = FALSE]
     IN  rd' = IF track[f.stream] = f.track
               THEN [next EXCEPT !.pc = "put", !.pkt = Data(seeks), !.todo = <<f.stream>>]
               ELSE [next EXCEPT !.pc = "loop"]
  /\ UNCHANGED <<pipeVars, seek, loop, step, paused, quitEvent, mainVars, histVars, playVars>>

ReadEnd ==
  /\ rd.pc = "read"
  /\ rd.pos = Len(File)
  /\ rd' = IF rd.eof THEN [rd EXCEPT !.pc = "loop"]
           ELSE [rd EXCEPT !.pkt = Null, !.pc = "put",
                           !.todo = VideoFirst(Streams)]
  /\ UNCHANGED <<pipeVars, seek, loop, step, paused, quitEvent, mainVars, histVars, playVars>>

ReadError ==
  /\ rd.pc = "read"
  /\ ReadGoto("ended")
  /\ quitEvent' = (quitEvent \/ Autoexit)
  /\ UNCHANGED <<pipeVars, seek, loop, step, paused, mainVars, histVars, playVars>>

ReadRetry ==
  /\ rd.pc = "read"
  /\ events < MaxEvents /\ events' = events + 1
  /\ ReadGoto("loop")
  /\ UNCHANGED <<pipeVars, seek, loop, step, paused, quitEvent, mt, track, last,
                 abortRequest, histVars, playVars>>

ReadPut ==
  /\ rd.pc = "put"
  /\ rd' = IF Len(rd.todo) > 1 THEN [rd EXCEPT !.todo = Tail(@)]
           ELSE [rd EXCEPT !.pc = "loop", !.todo = <<>>, !.pkt = Null,
                           !.eof = rd.pkt.null]
  /\ LET s == Head(rd.todo)
     IN  IF rd.pkt.null /\ track[s] = 0 THEN UNCHANGED <<pq, dec>>
         ELSE PacketQueuePut(s, rd.pkt)
  /\ lost' = IF rd.pkt.null THEN lost ELSE [lost EXCEPT ![Head(rd.todo)] = -1]
  /\ UNCHANGED <<fq, seek, loop, step, paused, quitEvent, mainVars,
                 seeks, flushed, stale, skipped, playVars>>

ReadThread ==
  \/ ReadLoop \/ ReadFlush \/ ReadSought \/ ReadToggle \/ ReadToggleLoad \/ ReadToggleStore
  \/ ReadStep
  \/ ReadQueues \/ ReadCheck \/ ReadCount \/ ReadAtEnd \/ ReadPacket \/ ReadEnd \/ ReadPut

-----------------------------------------------------------------------------
(* video_refresh, on the main thread.  It is called while the player is not *)
(* paused, and also then when the window has to be drawn again.             *)

VideoRemains == "video" \in Streams /\ Remaining("video") > 0

(* A frame of s is thrown away for its serial.                              *)
Discarded(s) == IF lost[s] = -1 THEN lost ELSE [lost EXCEPT ![s] = @ + 1]

(* A picture from before the last flush is thrown away ...                  *)
RefreshDrop ==
  /\ mt.pc = "idle" /\ VideoRemains
  /\ Peek("video").serial # pq["video"].serial
  /\ fq' = NextFrame("video") /\ dec' = SignalSlot("video")
  /\ lost' = Discarded("video")
  /\ UNCHANGED <<pq, readVars, mainVars, seeks, flushed, stale, skipped, playVars>>

(* Mutant of RefreshPick: a picture is shown whatever its serial. *)
RefreshPickAny ==
  /\ mt.pc = "idle" /\ VideoRemains
  /\ ~paused
  /\ mt' = [mt EXCEPT !.pc = "show"]
  /\ UNCHANGED <<pipeVars, readVars, track, last, abortRequest, events, histVars, playVars>>

(* ... a current one is picked when it is due ...                           *)
RefreshPick ==
  /\ mt.pc = "idle" /\ VideoRemains
  /\ Peek("video").serial = pq["video"].serial
  /\ ~paused
  /\ mt' = [mt EXCEPT !.pc = "show"]
  /\ UNCHANGED <<pipeVars, readVars, track, last, abortRequest, events, histVars, playVars>>

(* ... dropped if it is late and the next one is there ...                  *)
RefreshLate ==
  /\ mt.pc = "show"
  /\ Remaining("video") > 1 /\ ~step
  /\ vidclk' = Peek("video").serial
  /\ fq' = NextFrame("video") /\ dec' = SignalSlot("video")
  /\ mt' = [mt EXCEPT !.pc = "idle"]
  /\ UNCHANGED <<pq, readVars, track, last, abortRequest, events, histVars, audio>>

Stale(s, f) == IF f.seek >= flushed[s] THEN stale ELSE [stale EXCEPT ![s] = @ + 1]

(* ... and shown.  After a step the player is paused again.                 *)
RefreshShow ==
  /\ mt.pc = "show"
  /\ vidclk' = Peek("video").serial
  /\ fq' = NextFrame("video") /\ dec' = SignalSlot("video")
  /\ stale' = Stale("video", Peek("video"))
  /\ mt' = [mt EXCEPT !.pc = IF step /\ ~paused THEN "toggle" ELSE "idle", !.next = "idle"]
  /\ UNCHANGED <<pq, readVars, track, last, abortRequest, events, seeks, flushed, skipped, lost,
                 audio>>

(* get_video_frame may drop a frame that is late before it is queued.       *)
EarlyDrop ==
  /\ "video" \in Streams
  /\ LET d == dec["video"]
     IN  d.pc = "push" /\ d.serial = vidclk /\ pq["video"].pkts # <<>>
  /\ dec' = [dec EXCEPT !["video"].pc = "top", !["video"].frame = NoFrame]
  /\ UNCHANGED <<pq, fq, readVars, mainVars, histVars, playVars>>

(* stream_toggle_pause: read paused, then write it.  What follows: after    *)
(* the key p step is cleared, after the key s it is set.                    *)
ToggleLoad ==
  /\ mt.pc = "toggle"
  /\ mt' = [mt EXCEPT !.pc = "store", !.value = ~paused]
  /\ UNCHANGED <<pipeVars, readVars, track, last, abortRequest, events, histVars, playVars>>

ToggleStore ==
  /\ mt.pc = "store"
  /\ paused' = mt.value
  /\ mt' = [mt EXCEPT !.pc = mt.next, !.value = FALSE]
  /\ UNCHANGED <<pipeVars, rd, seek, loop, step, quitEvent, track, last,
                 abortRequest, events, histVars, playVars>>

SetStep ==
  /\ mt.pc \in {"clearStep", "setStep"}
  /\ step' = (mt.pc = "setStep")
  /\ mt' = [mt EXCEPT !.pc = "idle", !.next = "idle"]
  /\ UNCHANGED <<pipeVars, rd, seek, loop, paused, quitEvent, track, last,
                 abortRequest, events, histVars, playVars>>

-----------------------------------------------------------------------------
(* event_loop *)

Event == mt.pc = "idle" /\ events < MaxEvents /\ events' = events + 1

KeyPause ==
  /\ Event
  /\ mt' = [mt EXCEPT !.pc = "toggle", !.next = "clearStep"]
  /\ UNCHANGED <<pipeVars, readVars, track, last, abortRequest, histVars, playVars>>

KeyStep ==
  /\ Event
  /\ mt' = IF paused THEN [mt EXCEPT !.pc = "toggle", !.next = "setStep"]
                     ELSE [mt EXCEPT !.pc = "setStep"]
  /\ UNCHANGED <<pipeVars, readVars, track, last, abortRequest, histVars, playVars>>

KeySeek(p) ==
  /\ Event
  /\ SeekTo(p)
  /\ UNCHANGED <<pipeVars, rd, loop, step, paused, quitEvent, mt, track, last,
                 abortRequest, histVars, playVars>>

(* stream_cycle_channel: close the track, if one is open, and open the one  *)
(* after the last.                                                          *)
KeySwitch(s) ==
  /\ Event
  /\ \E i \in 1 .. Len(File) : File[i] = [stream |-> s, track |-> 3 - last[s]]
  /\ last' = [last EXCEPT ![s] = 3 - @]
  /\ mt' = [mt EXCEPT !.pc = IF track[s] = 0 THEN "open" ELSE "abort", !.todo = <<s>>,
                      !.next = "open"]
  /\ UNCHANGED <<pipeVars, readVars, track, abortRequest, histVars, playVars>>

(* do_exit and stream_close: on the user's request or an FF_QUIT_EVENT.     *)
Quit ==
  /\ IF quitEvent THEN mt.pc = "idle" /\ UNCHANGED events ELSE Event
  /\ abortRequest' = TRUE
  /\ mt' = [mt EXCEPT !.pc = "join", !.next = "closed"]
  /\ UNCHANGED <<pipeVars, readVars, track, last, histVars, playVars>>

JoinReader ==
  /\ mt.pc = "join"
  /\ rd.pc = "ended"
  /\ mt' = [mt EXCEPT !.pc = "abort", !.todo = AudioFirst({s \in Streams : track[s] # 0})]
  /\ UNCHANGED <<pipeVars, readVars, track, last, abortRequest, events, histVars, playVars>>

-----------------------------------------------------------------------------
(* stream_component_close, for the stream in front of mt.todo *)

MainGoto(l) == mt' = [mt EXCEPT !.pc = l]
Closing == Head(mt.todo)

ClosePackets ==
  /\ mt.pc = "abort"
  /\ IF mt.todo = <<>> THEN MainGoto(mt.next) /\ UNCHANGED <<pq, dec>>
     ELSE MainGoto("signal") /\ PacketQueueAbort(Closing)
  /\ UNCHANGED <<fq, readVars, track, last, abortRequest, events, histVars, playVars>>

(* Mutant of CloseFrames: nobody who waits on the frame queue is woken. *)
CloseFramesSilent ==
  /\ mt.pc = "signal"
  /\ MainGoto("joinDecoder")
  /\ UNCHANGED <<pipeVars, readVars, track, last, abortRequest, events, histVars, playVars>>

CloseFrames ==
  /\ mt.pc = "signal"
  /\ SignalFrames(Closing)
  /\ MainGoto("joinDecoder")
  /\ UNCHANGED <<pq, readVars, track, last, abortRequest, events, histVars, playVars>>

(* SDL_WaitThread and the flush after it.                                   *)
JoinDecoder ==
  /\ mt.pc = "joinDecoder"
  /\ dec[Closing].pc = "ended"
  /\ pq' = [pq EXCEPT ![Closing] = Flushed(@)]
  /\ flushed' = [flushed EXCEPT ![Closing] = seeks]
  /\ stale' = [stale EXCEPT ![Closing] = 0]
  /\ MainGoto("detach")
  /\ UNCHANGED <<dec, fq, readVars, track, last, abortRequest, events, seeks, skipped, lost,
                 playVars>>

(* SDL_CloseAudioDevice waits for the callback; then audio_st is NULL and   *)
(* audio_stream -1.                                                         *)
Detach ==
  /\ mt.pc = "detach"
  /\ Closing = "audio" => audio = "idle"
  /\ audio' = IF Closing = "audio" THEN "closed" ELSE audio
  /\ track' = [track EXCEPT ![Closing] = 0]
  /\ mt' = IF mt.next = "open" THEN [mt EXCEPT !.pc = "open"]
           ELSE [mt EXCEPT !.pc = "abort", !.todo = Tail(@)]
  /\ UNCHANGED <<pipeVars, readVars, last, abortRequest, events, histVars, vidclk>>

(* stream_component_open fails without a decoder for the track, and, behind *)
(* the next step, without a filter or an audio device: the stream stays     *)
(* closed.                                                                  *)
OpenFails ==
  /\ mt.pc \in {"open", "track"}
  /\ mt' = [mt EXCEPT !.pc = "idle", !.todo = <<>>, !.next = "idle"]
  /\ UNCHANGED <<pipeVars, readVars, track, last, abortRequest, events, histVars, playVars>>

(* Else it clears read_thread's eof ...                                     *)
OpenClearsEof ==
  /\ mt.pc = "open"
  /\ rd' = [rd EXCEPT !.eof = FALSE]
  /\ MainGoto("track")
  /\ UNCHANGED <<pipeVars, seek, loop, step, paused, quitEvent, track, last,
                 abortRequest, events, histVars, playVars>>

(* ... the new track is set and its decoder initialised (the thread is not  *)
(* there yet) ...                                                           *)
OpenTrack ==
  /\ mt.pc = "track"
  /\ track' = [track EXCEPT ![Closing] = last[Closing]]
  /\ dec' = [dec EXCEPT ![Closing] = [NewDecoder EXCEPT !.pc = "ended"]]
  /\ MainGoto("start")
  /\ UNCHANGED <<pq, fq, readVars, last, abortRequest, events, histVars, playVars>>

(* ... decoder_start starts its queue and its thread, and the audio device  *)
(* is unpaused.                                                             *)
DecoderStart ==
  /\ mt.pc = "start"
  /\ pq' = [pq EXCEPT ![Closing] = Started(@)]
  /\ dec' = [dec EXCEPT ![Closing].pc = "top"]
  /\ audio' = "idle"
  /\ mt' = [mt EXCEPT !.pc = "idle", !.todo = <<>>, !.next = "idle"]
  /\ UNCHANGED <<fq, readVars, track, last, abortRequest, events, histVars, vidclk>>

-----------------------------------------------------------------------------
(* sdl_audio_callback *)

(* SDL calls it until the device is being closed; paused gives silence.     *)
CallbackStart ==
  /\ audio = "idle" /\ ~paused
  /\ ~(mt.pc = "detach" /\ Closing = "audio")
  /\ audio' = "read"
  /\ UNCHANGED <<pipeVars, readVars, mainVars, histVars, vidclk>>

(* frame_queue_peek_readable and frame_queue_next.                          *)
CallbackRead ==
  /\ audio = "read" /\ ~fq["audio"].waiting
  /\ IF pq["audio"].abort THEN audio' = "idle" /\ UNCHANGED <<fq, dec>>
     ELSE IF Remaining("audio") = 0
     THEN fq' = [fq EXCEPT !["audio"].waiting = TRUE] /\ UNCHANGED <<audio, dec>>
     ELSE /\ fq' = NextFrame("audio") /\ dec' = SignalSlot("audio")
          /\ audio' = "took"
  /\ UNCHANGED <<pq, readVars, mainVars, histVars, vidclk>>

(* The frame taken, kept at the front of the queue, is played if its serial *)
(* is current.                                                              *)
CallbackTook ==
  /\ audio = "took"
  /\ LET f == Head(fq["audio"].frames)
     IN  IF f.serial = pq["audio"].serial THEN audio' = "play" /\ UNCHANGED lost
         ELSE audio' = "read" /\ lost' = Discarded("audio")
  /\ UNCHANGED <<pipeVars, readVars, mainVars, seeks, flushed, stale, skipped, vidclk>>

CallbackPlay ==
  /\ audio = "play"
  /\ audio' = "idle"
  /\ stale' = Stale("audio", Head(fq["audio"].frames))
  /\ UNCHANGED <<pipeVars, readVars, mainVars, seeks, flushed, skipped, lost, vidclk>>

Callback == CallbackStart \/ CallbackRead \/ CallbackTook \/ CallbackPlay

-----------------------------------------------------------------------------
Decode(s) ==
  /\ DecodeReceive(s) \/ DecodeGet(s) \/ DecodeSend(s) \/ DecodePush(s)
  /\ UNCHANGED <<readVars, mainVars, histVars, playVars>>

Closes == JoinReader \/ ClosePackets \/ CloseFrames \/ JoinDecoder \/ Detach
          \/ OpenFails \/ OpenClearsEof \/ OpenTrack \/ DecoderStart

Toggles == ToggleLoad \/ ToggleStore \/ SetStep

Next ==
  \/ ReadThread \/ ReadError \/ ReadRetry
  \/ \E s \in Streams : Decode(s)
  \/ EarlyDrop
  \/ RefreshDrop \/ RefreshPick \/ RefreshLate \/ RefreshShow
  \/ Toggles
  \/ KeyPause \/ KeyStep
  \/ \E p \in SeekTargets : KeySeek(p)
  \/ \E s \in Switchable : KeySwitch(s)
  \/ Quit \/ Closes
  \/ Callback

SafetySpec == Init /\ [][Next]_vars

(* Every thread runs; while the player is not paused pictures become due    *)
(* and the callback is called; an FF_QUIT_EVENT is handled.  Nobody has to  *)
(* press a key.                                                             *)
Fairness ==
  /\ WF_vars(ReadThread)
  /\ \A s \in Streams : WF_vars(Decode(s))
  /\ WF_vars(~paused /\ RefreshDrop) /\ WF_vars(RefreshPick)
  /\ WF_vars(RefreshLate \/ RefreshShow)
  /\ WF_vars(Toggles) /\ WF_vars(Closes)
  /\ WF_vars(quitEvent /\ Quit)
  /\ WF_vars(Callback)

Spec == SafetySpec /\ Fairness

-----------------------------------------------------------------------------

(* After a seek has flushed a packet queue at most one more picture, and    *)
(* one more audio frame, from before the seek is shown: the one whose       *)
(* serial was compared just before the flush (video_refresh and             *)
(* audio_decode_frame compare a serial without a lock).                     *)
StaleAtMostOnce == \A s \in Streams : stale[s] <= 1

(* Nothing of stream s that was read since the last flush is left for the   *)
(* screen or the callback to take.                                          *)
NothingLeft(s) ==
  /\ Remaining(s) = 0
  /\ \A i \in 1 .. Len(pq[s].pkts) : pq[s].pkts[i].null
  /\ dec[s].pkt.null
  /\ dec[s].pc \notin {"push", "parkedFrm", "woken"}
  /\ dec[s].serial = pq[s].serial => dec[s].codec.held = <<>>

(* When read_thread finds the end, to quit or to start over, the file was   *)
(* read to its end and everything read has been taken to be shown, as far   *)
(* as the streams were open when it looked at them.  What is taken is       *)
(* shown, and not lost to the flush that follows (for the seek to the       *)
(* start, or when the stream is closed), with one exemption:                *)
(* audio_decode_frame takes a frame off the queue before it compares the    *)
(* serial, so that the check may pass, and the flush come, in between.  No  *)
(* picture and at most that one frame is lost.                              *)
EndIsComplete ==
  /\ rd.pc = "atEnd" /\ skipped # Streams =>
       /\ rd.pos = Len(File)
       /\ \A s \in Streams \ skipped : NothingLeft(s)
  /\ \A s \in Streams : lost[s] <= (IF s = "audio" THEN 1 ELSE 0)

(* A player that is left alone from some moment on settles: once a quit has *)
(* begun every thread ends (whoever waits on a queue is woken) and it is    *)
(* closed; a seek is carried out as long as read_thread lives; and else it  *)
(* is paused, or it has played to the end and exits, unless the audio track *)
(* was switched: stream_cycle_channel closes the old track first, and a     *)
(* check for the end in between passes over the stream that is closed.      *)
PlayerSettles ==
  <>[](/\ abortRequest => mt.pc = "closed"
       /\ seek.req => rd.pc = "ended"
       /\ mt.pc = "closed" \/ paused \/ \E s \in Streams : track[s] # 1)
=============================================================================
