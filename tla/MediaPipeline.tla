--------------------------- MODULE MediaPipeline ---------------------------
(***************************************************************************)
(* From the callbacks of the emulator threads (libretro.rs) to the WebRTC  *)
(* tracks: the latest-frame store (frame.rs), the frame dispatcher         *)
(* (core.rs), the audio bus (audio.rs) and the tasks around the two        *)
(* GStreamer pipelines (gstreamer_backend.rs).                             *)
(*                                                                         *)
(* Pictures may be skipped but are counted; sound is sent chunk by chunk   *)
(* over a broadcast channel whose slow receiver loses the oldest chunks.   *)
(* Store, bus and callback context outlive the emulators, of which two     *)
(* exist at once when a start overlaps a stop.                             *)
(*                                                                         *)
(* A picture is its sequence, the format it is labelled with, the one its  *)
(* bytes are in and its pitch.  Sound is counted in samples, and a chunk   *)
(* is its sequence, who cut it and its rate.  GStreamer is external: a     *)
(* buffer pushed into it comes out as a packet later, or is dropped by its *)
(* leaky queue, or the push fails; no time stamp is u64::MAX.              *)
(***************************************************************************)
EXTENDS Integers, Sequences, FiniteSets

CONSTANTS Emulator,    \* emulator threads, numbered in the order they are wired
          RawFormat,   \* retro_pixel_format each core draws in and announces
          Hardware,    \* cores that ask for a GL context and render into it
          Pitch,       \* of each core's rows, in bytes per pixel of their width
          RateOf,      \* sample rate each core reports
          Duration,    \* length of a chunk at a rate
          Chunk,       \* CHUNK_FRAMES
          Batch,       \* sizes of audio batches
          Capacity,    \* of the broadcast channel
          RtpCapacity, \* of the channels between appsink and track
          Wide,        \* u64 arithmetic wraps here
          MaxFrames,   \* bound: pictures published
          MaxSamples   \* bound: samples pushed

\* The rates the bus may hold; 0 stands for the one it is created with.
Rates == {0} \cup {RateOf[e] : e \in Emulator}

\* sanitize_sample_rate keeps rates low enough for a chunk to last nanoseconds.
ASSUME PipelineAssumption ==
    /\ Emulator \subseteq Nat
    /\ RawFormat \in [Emulator -> 0..2]
    /\ Hardware \subseteq Emulator
    /\ Pitch \in [Emulator -> Nat]
    /\ \A rate \in Rates : Duration[rate] \in Nat \ {0, 1}
    /\ Chunk \in Nat \ {0} /\ Capacity \in Nat \ {0} /\ RtpCapacity \in Nat \ {0}
    /\ Batch \subseteq Nat \ {0}
    /\ MaxFrames \in Nat /\ MaxSamples \in Nat /\ Wide \in Nat \ {0}

VARIABLES emulators,  \* where each emulator thread is, what it holds
          context,    \* the callback context: wired, pixel format, GL context
          store,      \* LatestFrameStore
          dispatcher, \* the dispatcher thread
          watch,      \* the watch channel: version and value
          video,      \* feed_video_appsrc
          bus,        \* AudioBus: the pending samples, sequence and rate
          channel,    \* the broadcast channel as its one receiver sees it
          audio,      \* feed_audio_appsrc
          rtp,        \* per medium: what is in GStreamer, and the way out
          status,     \* MediaRuntimeStatus
          stage,      \* starting, serving, stopping
          emits,      \* which half of the pipeline this behaviour runs: the two share
                      \* the callback context only
          overlapped  \* history: two emulators were wired at once

vars == <<emulators, context, store, dispatcher, watch, video, bus, channel,
          audio, rtp, status, stage, emits, overlapped>>

pictures == <<store, dispatcher, watch, video>>
sounds == <<bus, channel, audio>>
-----------------------------------------------------------------------------
(* Data. *)

None == -1
Medium == {"video", "audio"}
Format == {"Xrgb8888", "Rgb565", "Xrgb1555"}

\* Mutant: the numbers of the wire format are taken for those of the libretro ABI.
from_libretro_as_u8(raw) ==
  CASE raw = 0 -> "Xrgb8888" [] raw = 1 -> "Rgb565" [] raw = 2 -> "Xrgb1555"

from_libretro(raw) ==
  CASE raw = 0 -> "Xrgb1555" [] raw = 1 -> "Xrgb8888" [] raw = 2 -> "Rgb565"

as_u8(format) ==
  CASE format = "Xrgb8888" -> 0 [] format = "Rgb565" -> 1 [] format = "Xrgb1555" -> 2

\* The GStreamer format the caps announce for a byte of the frame header.
build_video_caps(byte) ==
  CASE byte = 0 -> "BGRx" [] byte = 1 -> "RGB16" [] byte = 2 -> "xRGB1555"

\* What libretro calls these three (external).
Drawn(raw) == CASE raw = 0 -> "xRGB1555" [] raw = 1 -> "BGRx" [] raw = 2 -> "RGB16"

BytesPerPixel(format) == IF format \in {"BGRx", "RGBx"} THEN 4 ELSE 2

\* repack_video_payload cuts a row of width pixels of the announced format from
\* every pitch; what the rows hold it cannot tell.
repack_video_payload(caps, pitch) == BytesPerPixel(caps) <= pitch

\* told: its core announced the format it drew the picture in.
NoFrame == [sequence |-> None, byte |-> 0, drawn |-> "BGRx", told |-> FALSE, pitch |-> 4,
            pushed |-> FALSE]

FrameOK(f) ==
  /\ f.sequence \in -1..MaxFrames /\ f.byte \in 0..2 /\ f.pitch \in Nat
  /\ f.drawn \in {"BGRx", "RGB16", "xRGB1555", "RGBx"}
  /\ f.told \in BOOLEAN /\ f.pushed \in BOOLEAN

Sequences(packets) == {packets[i].sequence : i \in DOMAIN packets}

Positions(packets, k) == {i \in DOMAIN packets : packets[i].sequence = k}

Init ==
  /\ emulators = [e \in Emulator |-> [at |-> "out", told |-> FALSE, byte |-> 0, rate |-> None,
                                     packets |-> <<>>]]
  /\ context = [wired |-> FALSE, format |-> "Xrgb8888", hw_context |-> FALSE]
  /\ store = [next_sequence |-> 0, latest |-> NoFrame]
  /\ dispatcher = [at |-> "loop", last_sequence |-> None, frame |-> NoFrame]
  /\ watch = [version |-> 0, value |-> NoFrame]
  /\ video = [at |-> "unborn", seen |-> 0, last_sequence |-> None, frames |-> <<>>]
  /\ bus = [pending |-> 0, next_sequence |-> 0, rate |-> 0, pushed |-> 0]
  /\ channel = [unread |-> <<>>, lagged |-> FALSE, missed |-> {}]
  /\ audio = [at |-> "unborn", base_sequence |-> None, packets |-> <<>>]
  /\ rtp = [m \in Medium |-> [inside |-> FALSE, queue |-> 0, open |-> FALSE, refused |-> 0]]
  /\ status = [pipeline_state |-> "starting", dropped_video_frames |-> 0]
  /\ stage = "starting"
  /\ emits \in Medium
  /\ overlapped = FALSE
-----------------------------------------------------------------------------
(* An emulator thread's life, as far as the pipeline sees it.              *)

Emu(e, at) == emulators[e].at = at
Goes(e, at) == emulators' = [emulators EXCEPT ![e].at = at]
Wired(e) == emulators[e].at \notin {"out", "gone"}

wire(e) ==
  /\ Emu(e, "out") /\ \A x \in Emulator : x < e => ~Emu(x, "out")
  /\ Goes(e, "wired")
  /\ context' = [context EXCEPT !.wired = TRUE, !.format = "Xrgb8888"]
  /\ overlapped' = (overlapped \/ \E x \in Emulator \ {e} : Wired(x))
  /\ UNCHANGED <<pictures, sounds, rtp, status, stage, emits>>

\* SET_PIXEL_FORMAT, which a core calls while its game is loaded.
set_pixel_format(e) ==
  /\ Emu(e, "wired")
  /\ emulators' = [emulators EXCEPT ![e].at = "loaded", ![e].told = TRUE]
  /\ context' = [context EXCEPT !.format = from_libretro(RawFormat[e])]
  /\ UNCHANGED <<pictures, sounds, rtp, status, stage, emits, overlapped>>

\* A core may leave the format at libretro's default, 0RGB1555, and not call.
keep_default_format(e) ==
  /\ Emu(e, "wired") /\ RawFormat[e] = 0
  /\ Goes(e, "loaded")
  /\ UNCHANGED <<context, pictures, sounds, rtp, status, stage, emits, overlapped>>

\* SET_HW_RENDER, once a GL context could be made.
set_hw_render(e) ==
  /\ e \in Hardware /\ emulators[e].at \in {"wired", "loaded"} /\ ~context.hw_context
  /\ context' = [context EXCEPT !.hw_context = TRUE]
  /\ UNCHANGED <<emulators, pictures, sounds, rtp, status, stage, emits, overlapped>>

set_sample_rate_hz(e) ==
  /\ Emu(e, "loaded")
  /\ Goes(e, "running")
  /\ bus' = IF emits = "audio" THEN [bus EXCEPT !.rate = RateOf[e]] ELSE bus
  /\ UNCHANGED <<context, pictures, channel, audio, rtp, status, stage, emits, overlapped>>

\* After retro_deinit, or after a game that does not load.
clear_callback_context(e) ==
  /\ emulators[e].at \in {"wired", "loaded", "running"}
  /\ Goes(e, "gone")
  /\ context' = [wired |-> FALSE, format |-> "Xrgb8888", hw_context |-> FALSE]
  /\ UNCHANGED <<pictures, sounds, rtp, status, stage, emits, overlapped>>
-----------------------------------------------------------------------------
(* Pictures.                                                               *)

\* One more picture fits below MaxFrames.
RoomForAPicture ==
  store.next_sequence + Cardinality({x \in Emulator : Emu(x, "drawing")}) < MaxFrames

\* A core that renders by GL on this thread.
Renders(e) == e \in Hardware /\ context.hw_context

\* video_refresh_callback copies what it needs and lets the context go.  A core
\* that renders by GL passes it the sentinel, on which it returns.
video_refresh(e) ==
  /\ emits = "video" /\ Emu(e, "running") /\ context.wired /\ ~Renders(e)
  /\ RoomForAPicture
  /\ emulators' = [emulators EXCEPT ![e].at = "drawing", ![e].byte = as_u8(context.format)]
  /\ UNCHANGED <<context, pictures, sounds, rtp, status, stage, emits, overlapped>>

\* store after a picture is published in it.
Published(picture) ==
  [next_sequence |-> store.next_sequence + 1,
   latest |-> [picture EXCEPT !.sequence = store.next_sequence]]

publish(e) ==
  /\ Emu(e, "drawing")
  /\ Goes(e, "running")
  /\ store' = Published([NoFrame EXCEPT !.byte = emulators[e].byte, !.drawn = Drawn(RawFormat[e]),
                                        !.told = emulators[e].told, !.pitch = Pitch[e]])
  /\ UNCHANGED <<context, dispatcher, watch, video, sounds, rtp, status, stage, emits, overlapped>>

\* read_hw_framebuffer after retro_run, under the context's lock: GL_RGBA bytes,
\* labelled Xrgb8888.  On a thread without a GL context the viewport is empty.
read_hw_framebuffer(e) ==
  /\ emits = "video" /\ Emu(e, "running") /\ context.wired /\ Renders(e)
  /\ RoomForAPicture
  /\ store' = Published([NoFrame EXCEPT !.byte = as_u8("Xrgb8888"), !.drawn = "RGBx"])
  /\ UNCHANGED <<emulators, context, dispatcher, watch, video, sounds, rtp, status, stage, emits, overlapped>>

\* Mutant: the picture right after the last one is not taken for new.
NewerByTwo(last) == store.latest.sequence > last + 1

\* A picture newer than the last one dispatched.
Newer(last) == store.latest.sequence > last

\* The head of the dispatcher's loop and of wait_for_next.
dispatcher_loop ==
  /\ emits = "video" /\ dispatcher.at = "loop"
  /\ dispatcher' = IF stage = "stopping" THEN [dispatcher EXCEPT !.at = "ended"]
                   ELSE IF Newer(dispatcher.last_sequence)
                   THEN [dispatcher EXCEPT !.at = "sending", !.frame = store.latest]
                   ELSE [dispatcher EXCEPT !.at = "waiting"]
  /\ UNCHANGED <<emulators, context, store, watch, video, sounds, rtp, status, stage, emits, overlapped>>

\* wait_timeout returns, notified or after 50 ms, and looks once more.
wait_for_next_returns ==
  /\ dispatcher.at = "waiting"
  /\ dispatcher' = IF Newer(dispatcher.last_sequence)
                   THEN [dispatcher EXCEPT !.at = "sending", !.frame = store.latest]
                   ELSE [dispatcher EXCEPT !.at = "loop"]
  /\ UNCHANGED <<emulators, context, store, watch, video, sounds, rtp, status, stage, emits, overlapped>>

dispatch ==
  /\ dispatcher.at = "sending"
  /\ dispatcher' = [at |-> "loop", last_sequence |-> dispatcher.frame.sequence, frame |-> NoFrame]
  /\ watch' = [version |-> watch.version + 1, value |-> dispatcher.frame]
  /\ UNCHANGED <<emulators, context, store, video, sounds, rtp, status, stage, emits, overlapped>>

\* changed() marks the version it saw; borrow() later reads the value of then.
video_changed ==
  /\ video.at = "changed" /\ watch.version > video.seen
  /\ video' = [video EXCEPT !.at = "borrow", !.seen = watch.version]
  /\ UNCHANGED <<emulators, context, store, dispatcher, watch, sounds, rtp, status, stage, emits, overlapped>>

\* The dispatcher is gone and nothing is left to see: end of stream.
video_closed ==
  /\ video.at = "changed" /\ watch.version = video.seen /\ dispatcher.at = "ended"
  /\ video' = [video EXCEPT !.at = "ended"]
  /\ UNCHANGED <<emulators, context, store, dispatcher, watch, sounds, rtp, status, stage, emits, overlapped>>

\* A buffer in GStreamer, with whatever is there.
Inside(m) == [rtp EXCEPT ![m].inside = TRUE]

\* Mutant: the picture after the last one is counted as dropped too.
SkippedOne(sequence) ==
  IF video.last_sequence = None \/ sequence <= video.last_sequence THEN 0
  ELSE sequence - video.last_sequence

Skipped(sequence) ==
  IF video.last_sequence = None \/ sequence <= video.last_sequence THEN 0
  ELSE sequence - (video.last_sequence + 1)

\* feed_video_appsrc for one picture; pushing it may fail, which ends the task.
feed_video(fails) ==
  /\ video.at = "borrow"
  /\ LET f == watch.value
         packs == repack_video_payload(build_video_caps(f.byte), f.pitch)
     IN
     /\ video' = [video EXCEPT !.at = IF fails THEN "ended" ELSE "changed",
                               !.last_sequence = f.sequence,
                               !.frames = Append(@, [f EXCEPT !.pushed = packs])]
     /\ fails => packs
     /\ status' = [pipeline_state |-> IF fails THEN "error" ELSE status.pipeline_state,
                   dropped_video_frames |-> status.dropped_video_frames + Skipped(f.sequence)]
     /\ rtp' = IF packs /\ ~fails THEN Inside("video") ELSE rtp
  /\ UNCHANGED <<emulators, context, store, dispatcher, watch, sounds, stage, emits, overlapped>>
-----------------------------------------------------------------------------
(* Sound.                                                                  *)

\* The whole chunks in pending, numbered from next on.
Cut(pending, next, e) ==
  [i \in 1..(pending \div Chunk) |->
     [sequence |-> next + i - 1, by |-> e, rate |-> 0, pts |-> 0]]

Rest(pending) == pending % Chunk

\* push_interleaved_stereo_i16 under the bus's lock.
push_samples(e, n) ==
  /\ emits = "audio" /\ Emu(e, "running") /\ context.wired
  /\ bus.pushed + n <= MaxSamples
  /\ LET pending == bus.pending + n
         packets == Cut(pending, bus.next_sequence, e)
     IN
     /\ bus' = [bus EXCEPT !.pending = Rest(pending), !.pushed = @ + n,
                           !.next_sequence = @ + Len(packets)]
     /\ emulators' = IF packets = <<>> THEN emulators
                     ELSE [emulators EXCEPT ![e].at = "cut", ![e].packets = packets]
  /\ UNCHANGED <<context, pictures, channel, audio, rtp, status, stage, emits, overlapped>>

\* After the unlock the rate is read once for all packets.
read_rate(e) ==
  /\ Emu(e, "cut")
  /\ emulators' = [emulators EXCEPT ![e].at = "sending", ![e].rate = bus.rate]
  /\ UNCHANGED <<context, pictures, sounds, rtp, status, stage, emits, overlapped>>

\* Mutant: the channel grows past its capacity.
SentUnbounded(packet) ==
  IF audio.at # "recv"
  THEN [channel EXCEPT !.missed = @ \cup {packet.sequence}]
  ELSE [channel EXCEPT !.unread = Append(@, packet)]

\* One send: with nobody subscribed the packet is gone, with a full channel
\* the oldest one is.
Sent(packet) ==
  IF audio.at # "recv"
  THEN [channel EXCEPT !.missed = @ \cup {packet.sequence}]
  ELSE LET unread == Append(channel.unread, packet) IN
       IF Len(unread) <= Capacity THEN [channel EXCEPT !.unread = unread]
       ELSE [unread |-> Tail(unread), lagged |-> TRUE,
             missed |-> channel.missed \cup {Head(unread).sequence}]

\* Mutant: the packets of one push are sent newest first.
send_last(e) ==
  /\ Emu(e, "sending")
  /\ LET packets == emulators[e].packets IN
     /\ channel' = Sent([packets[Len(packets)] EXCEPT !.rate = emulators[e].rate])
     /\ emulators' = [emulators EXCEPT ![e] =
          IF Len(packets) = 1 THEN [@ EXCEPT !.at = "running", !.packets = <<>>, !.rate = None]
          ELSE [@ EXCEPT !.packets = SubSeq(@, 1, Len(@) - 1)]]
  /\ UNCHANGED <<context, pictures, bus, audio, rtp, status, stage, emits, overlapped>>

send(e) ==
  /\ Emu(e, "sending")
  /\ LET packets == emulators[e].packets IN
     /\ channel' = Sent([Head(packets) EXCEPT !.rate = emulators[e].rate])
     /\ emulators' = [emulators EXCEPT ![e] =
          IF Len(packets) = 1 THEN [@ EXCEPT !.at = "running", !.packets = <<>>, !.rate = None]
          ELSE [@ EXCEPT !.packets = Tail(packets)]]
  /\ UNCHANGED <<context, pictures, bus, audio, rtp, status, stage, emits, overlapped>>

\* recv() reports a lag once and goes on with the oldest packet left.
audio_lagged ==
  /\ audio.at = "recv" /\ channel.lagged
  /\ channel' = [channel EXCEPT !.lagged = FALSE]
  /\ UNCHANGED <<emulators, context, pictures, bus, audio, rtp, status, stage, emits, overlapped>>

\* The sequence-anchored time stamp, wrapping and saturating as u64 does.
Pts(base, packet) ==
  LET offset == (packet.sequence - base) % Wide
      pts == offset * Duration[packet.rate]
  IN IF pts < Wide THEN pts ELSE Wide - 1

\* ClockTime::from_nseconds takes any time stamp but u64::MAX (external).
Stampable(pts) == pts # Wide - 1

\* The feeder's task is over, and with it the receiver and the packets lost.
AudioEnds(lost) ==
  channel' = [unread |-> <<>>, lagged |-> FALSE, missed |-> channel.missed \cup Sequences(lost)]

\* feed_audio_appsrc for one packet; pushing it may fail, which ends the task.
feed_audio(fails) ==
  /\ audio.at = "recv" /\ ~channel.lagged /\ channel.unread # <<>>
  /\ LET packet == Head(channel.unread)
         base == IF audio.base_sequence = None THEN packet.sequence ELSE audio.base_sequence
     IN /\ Stampable(Pts(base, packet))
        /\ audio' = [at |-> IF fails THEN "ended" ELSE "recv", base_sequence |-> base,
                     packets |-> Append(audio.packets, [packet EXCEPT !.pts = Pts(base, packet)])]
  /\ IF fails THEN AudioEnds(Tail(channel.unread))
     ELSE channel' = [channel EXCEPT !.unread = Tail(@)]
  /\ status' = [status EXCEPT !.pipeline_state = IF fails THEN "error" ELSE @]
  /\ rtp' = IF fails THEN rtp ELSE Inside("audio")
  /\ UNCHANGED <<emulators, context, pictures, bus, stage, emits, overlapped>>

\* A packet cut before the first one fed wraps, saturates and panics: the task is
\* gone, and no line after it is run.
feed_audio_panics ==
  /\ audio.at = "recv" /\ ~channel.lagged /\ channel.unread # <<>>
  /\ audio.base_sequence # None /\ ~Stampable(Pts(audio.base_sequence, Head(channel.unread)))
  /\ audio' = [audio EXCEPT !.at = "ended"]
  /\ AudioEnds(channel.unread)
  /\ UNCHANGED <<emulators, context, pictures, bus, rtp, status, stage, emits, overlapped>>
-----------------------------------------------------------------------------
(* Start, the way out of GStreamer, and the end.                           *)

\* SharedGstreamerMedia::start; receivers see what is sent from here on, and
\* the watch channel's last value.
start ==
  /\ stage = "starting"
  /\ stage' = "serving"
  /\ status' = [status EXCEPT !.pipeline_state = "playing"]
  /\ video' = [video EXCEPT !.at = "changed"]
  /\ audio' = [audio EXCEPT !.at = "recv"]
  /\ rtp' = [m \in Medium |-> [rtp[m] EXCEPT !.open = TRUE]]
  /\ UNCHANGED <<emulators, context, store, dispatcher, watch, bus, channel, emits, overlapped>>

\* The appsink callback: try_send into a channel that may be full or closed.
\* Between two calls of it what is inside may be leaked by GStreamer's queue.
install_appsink_bridge(m) ==
  /\ rtp[m].inside
  /\ LET taken == rtp[m].open /\ rtp[m].queue < RtpCapacity IN
     /\ rtp' = [rtp EXCEPT ![m] = [inside |-> FALSE, open |-> @.open,
                                   queue |-> IF taken THEN @.queue + 1 ELSE @.queue,
                                   refused |-> IF taken THEN @.refused ELSE @.refused + 1]]
     /\ status' = IF taken \/ m = "audio" THEN status
                  ELSE [status EXCEPT !.dropped_video_frames = @ + 1]
  /\ UNCHANGED <<emulators, context, pictures, sounds, stage, emits, overlapped>>

\* One packet to the track; a packet that does not decode or cannot be written
\* ends the task, which closes its channel.
drain_rtp_packets(m, fails) ==
  /\ rtp[m].open /\ rtp[m].queue > 0
  /\ rtp' = IF fails THEN [rtp EXCEPT ![m].open = FALSE, ![m].queue = 0]
            ELSE [rtp EXCEPT ![m].queue = @ - 1]
  /\ status' = [status EXCEPT !.pipeline_state = IF fails THEN "error" ELSE @]
  /\ UNCHANGED <<emulators, context, pictures, sounds, stage, emits, overlapped>>

\* main sets the shutdown flag when the server has ended.
shut_down ==
  /\ emits = "video" /\ stage = "serving"
  /\ stage' = "stopping"
  /\ UNCHANGED <<emulators, context, pictures, sounds, rtp, status, emits, overlapped>>

EmulatorStep ==
  \E e \in Emulator :
    \/ wire(e) \/ set_pixel_format(e) \/ keep_default_format(e) \/ set_hw_render(e)
    \/ set_sample_rate_hz(e) \/ clear_callback_context(e)
    \/ video_refresh(e) \/ publish(e) \/ read_hw_framebuffer(e)
    \/ \E n \in Batch : push_samples(e, n)
    \/ read_rate(e) \/ send(e)

Dispatch == dispatcher_loop \/ wait_for_next_returns \/ dispatch
FeedVideo == video_changed \/ video_closed \/ \E fails \in BOOLEAN : feed_video(fails)
FeedAudio == audio_lagged \/ feed_audio_panics \/ \E fails \in BOOLEAN : feed_audio(fails)

Out == \E m \in Medium :
  install_appsink_bridge(m) \/ \E fails \in BOOLEAN : drain_rtp_packets(m, fails)

Next == EmulatorStep \/ Dispatch \/ FeedVideo \/ FeedAudio \/ start \/ Out \/ shut_down

Spec == Init /\ [][Next]_vars

\* main starts the media once; the dispatcher is a thread of its own and the
\* feeder a task the runtime polls.  Cores and users owe nothing.
FairSpec == Spec /\ WF_vars(start) /\ WF_vars(Dispatch) /\ WF_vars(FeedVideo)
-----------------------------------------------------------------------------
(* What the pipeline promises.                                             *)

TypeOK ==
  /\ \A e \in Emulator :
       /\ emulators[e].at \in {"out", "wired", "loaded", "running", "drawing", "cut", "sending", "gone"}
       /\ emulators[e].byte \in 0..2 /\ emulators[e].told \in BOOLEAN
  /\ context.hw_context \in BOOLEAN /\ context.wired \in BOOLEAN /\ context.format \in Format
  /\ store.next_sequence \in 0..MaxFrames /\ FrameOK(store.latest)
  /\ dispatcher.at \in {"loop", "waiting", "sending", "ended"} /\ FrameOK(dispatcher.frame)
  /\ watch.version \in Nat /\ FrameOK(watch.value)
  /\ video.at \in {"unborn", "changed", "borrow", "ended"} /\ video.seen \in 0..watch.version
  /\ bus.pending \in 0..(Chunk - 1) /\ bus.pushed \in 0..MaxSamples
  /\ Len(channel.unread) <= Capacity
  /\ audio.at \in {"unborn", "recv", "ended"}
  /\ \A m \in Medium : rtp[m].queue \in 0..RtpCapacity
  /\ status.pipeline_state \in {"starting", "playing", "error"}
  /\ stage \in {"starting", "serving", "stopping"}

Distinct == {video.frames[i].sequence : i \in DOMAIN video.frames}

(* The dispatcher sees the latest picture only, and the feeder, which waits
   for a change and then reads whatever the channel holds, may be handed one
   picture twice.  Even so pictures reach it in order, none more than twice,
   and dropped_video_frames counts each skipped picture exactly once, plus
   the packets the way out refused. *)
FramesAreAccountedFor ==
  /\ \A i, j \in DOMAIN video.frames :
       i < j => /\ video.frames[i].sequence <= video.frames[j].sequence
                /\ j > i + 1 => video.frames[i].sequence < video.frames[j].sequence
  /\ status.dropped_video_frames - rtp["video"].refused =
       IF video.frames = <<>> THEN 0
       ELSE video.last_sequence - video.frames[1].sequence + 1 - Cardinality(Distinct)

(* The format of a picture passes through three numberings (libretro's, the
   enum, the byte of the frame header) before GStreamer is told.  While one
   emulator is wired at a time, a picture whose core announced the format it
   drew in is pushed as that format, whatever its pitch.  Nothing is said of
   the others: see HeaderNamesTheFormat. *)
PicturesAreRight ==
  ~overlapped =>
    \A i \in DOMAIN video.frames :
      LET f == video.frames[i] IN f.pushed /\ f.told => build_video_caps(f.byte) = f.drawn

(* The header's pixel_format says what the bytes of a picture are.  It does
   not for a picture read back from the GPU, which is RGBA and labelled
   XRGB8888, nor for a core that kept libretro's default 0RGB1555 and pads its
   rows enough for the format they are taken for. *)
HeaderNamesTheFormat ==
  ~overlapped =>
    \A i \in DOMAIN video.frames :
      LET f == video.frames[i] IN f.pushed => build_video_caps(f.byte) = f.drawn

(* The chunks cut so far are each in one place: held by the emulator that cut
   them, unread, fed, or missed by the receiver (it was not subscribed, has
   lagged, or has ended).  Chunks of one emulator are fed in the order they were
   cut; two overlapping emulators number under the lock and send outside it,
   so theirs may swap.  Time stamps follow the sequence: among fed chunks of one
   rate a later one has a later stamp, and none is fed that was cut before the
   first.  As long as emulators do not overlap the feeder ends only with an
   error shown in the status. *)
AudioIsAccountedFor ==
  LET fed == audio.packets
      Places(k) == {e \in Emulator : k \in Sequences(emulators[e].packets)}
                     \cup {<<"unread", i>> : i \in Positions(channel.unread, k)}
                     \cup {<<"fed", i>> : i \in Positions(fed, k)}
                     \cup {m \in {"missed"} : k \in channel.missed}
  IN
  /\ \A k \in 0..(bus.next_sequence - 1) : Cardinality(Places(k)) = 1
  /\ \A i, j \in DOMAIN fed :
       /\ i < j => fed[i].sequence < fed[j].sequence \/ (overlapped /\ fed[i].by # fed[j].by)
       /\ fed[i].sequence < fed[j].sequence /\ fed[i].rate = fed[j].rate => fed[i].pts < fed[j].pts
       /\ fed[1].sequence <= fed[i].sequence
  /\ ~overlapped /\ audio.at = "ended" => status.pipeline_state = "error"

(* Chunks that come in a burst can be scheduled: the feeder ends only over a
   push that failed, and says so.  It does not when two emulators overlap and
   the chunk numbered first is sent second: no time stamp can be made for it
   and the task panics, which leaves the runtime without sound and the status
   at "playing". *)
BurstsAreScheduled == audio.at = "ended" => status.pipeline_state = "error"

(* A picture published does not stay behind: it or a later one is fed,
   whether the dispatcher was looking, waiting or sending when it came. *)
LatestFrameIsFed ==
  \A k \in 0..(MaxFrames - 1) :
    store.latest.sequence = k ~> (video.last_sequence >= k \/ video.at = "ended" \/ stage = "stopping")
=============================================================================
