------------------------ MODULE MediaPipelineProofs ------------------------
(* Theorems about MediaPipeline, for any number of emulators, any sizes    *)
(* of batches, chunks and channels, and any core's format and rate.        *)
(*                                                                         *)
(* Three inductive invariants, each on top of the types: pictures are      *)
(* announced as drawn; the feeder's frames are in order and counted; and   *)
(* every chunk of sound is in one place, behind those cut before it.       *)
EXTENDS MediaPipeline, FiniteSetTheorems, SequenceTheorems, TLAPS

-----------------------------------------------------------------------------
(* Types.                                                                  *)

Place == {"out", "wired", "loaded", "running", "drawing", "cut", "sending", "gone"}

Packet == [sequence : Nat, by : Emulator, rate : Rates, pts : Nat]

EmulatorState == [at : Place, told : BOOLEAN, byte : 0..2, rate : Rates \cup {None}, packets : Seq(Packet)]

Frame == [sequence : -1..MaxFrames, byte : 0..2, drawn : {"BGRx", "RGB16", "xRGB1555", "RGBx"},
          told : BOOLEAN, pitch : Nat, pushed : BOOLEAN]

Context == [wired : BOOLEAN, format : Format, hw_context : BOOLEAN]

Types ==
  /\ emulators \in [Emulator -> EmulatorState]
  /\ context \in Context
  /\ store \in [next_sequence : 0..MaxFrames, latest : Frame]
  /\ dispatcher \in [at : {"loop", "waiting", "sending", "ended"}, last_sequence : -1..MaxFrames,
                     frame : Frame]
  /\ watch \in [version : Nat, value : Frame]
  /\ video \in [at : {"unborn", "changed", "borrow", "ended"}, seen : Nat,
                last_sequence : -1..MaxFrames, frames : Seq(Frame)]
  /\ bus \in [pending : 0..(Chunk - 1), next_sequence : Nat, rate : Rates, pushed : 0..MaxSamples]
  /\ channel \in [unread : Seq(Packet), lagged : BOOLEAN, missed : SUBSET Nat]
  /\ audio \in [at : {"unborn", "recv", "ended"}, base_sequence : Nat \cup {None},
                packets : Seq(Packet)]
  /\ rtp \in [Medium -> [inside : BOOLEAN, queue : 0..RtpCapacity, open : BOOLEAN, refused : Nat]]
  /\ status \in [pipeline_state : {"starting", "playing", "error"}, dropped_video_frames : Nat]
  /\ stage \in {"starting", "serving", "stopping"}
  /\ overlapped \in BOOLEAN

\* What bounds the counters: a picture being drawn has its place.
Drawing == {e \in Emulator : Emu(e, "drawing")}

TypeInv ==
  /\ Types
  /\ IsFiniteSet(Drawing) /\ store.next_sequence + Cardinality(Drawing) <= MaxFrames
  /\ store.latest.sequence = store.next_sequence - 1
  /\ video.seen <= watch.version
  /\ Len(channel.unread) <= Capacity
  /\ \A e \in Emulator : /\ emulators[e].packets # <<>> <=> emulators[e].at \in {"cut", "sending"}
                         /\ emulators[e].at = "sending" => emulators[e].rate \in Rates

-----------------------------------------------------------------------------
(* Pictures as drawn.                                                      *)

\* Said of a picture whose core announced its format.
Announces(byte, drawn, told) == told => build_video_caps(byte) = drawn

EmulatorsAnnounce ==
  /\ \A e, x \in Emulator : Wired(e) /\ Wired(x) => e = x
  /\ \A e \in Emulator :
       /\ emulators[e].at \in {"out", "wired"} => ~emulators[e].told
       /\ Wired(e) => Announces(as_u8(context.format), Drawn(RawFormat[e]), emulators[e].told)
       /\ Emu(e, "drawing") => Announces(emulators[e].byte, Drawn(RawFormat[e]), emulators[e].told)

PicturesAnnounce ==
  /\ Announces(store.latest.byte, store.latest.drawn, store.latest.told)
  /\ Announces(dispatcher.frame.byte, dispatcher.frame.drawn, dispatcher.frame.told)
  /\ Announces(watch.value.byte, watch.value.drawn, watch.value.told)

Fed ==
  \A i \in DOMAIN video.frames :
    Announces(video.frames[i].byte, video.frames[i].drawn, video.frames[i].told)

FormatInv == ~overlapped => EmulatorsAnnounce /\ PicturesAnnounce /\ Fed

-----------------------------------------------------------------------------
(* Pictures in order.                                                      *)

InOrder ==
  \A i, j \in DOMAIN video.frames :
    i < j => /\ video.frames[i].sequence <= video.frames[j].sequence
             /\ j > i + 1 => video.frames[i].sequence < video.frames[j].sequence

\* The last picture was fed twice.
Repeated ==
  LET n == Len(video.frames)
  IN n > 1 /\ video.frames[n - 1].sequence = video.frames[n].sequence

Current == video.last_sequence = watch.value.sequence

\* Sequences grow from the store to the feeder, and a picture fed twice is not
\* there for the feeder to see a third time.
OrderInv ==
  /\ dispatcher.last_sequence <= store.latest.sequence
  /\ dispatcher.at = "sending" =>
       /\ dispatcher.frame.sequence > dispatcher.last_sequence
       /\ dispatcher.frame.sequence <= store.latest.sequence
  /\ watch.value.sequence = dispatcher.last_sequence
  /\ watch.version > 0 => watch.value.sequence >= 0
  /\ video.last_sequence <= watch.value.sequence
  /\ IF video.frames = <<>> THEN video.last_sequence = None
     ELSE video.last_sequence = video.frames[Len(video.frames)].sequence /\ video.last_sequence >= 0
  /\ stage = "starting" => video.at = "unborn"
  /\ video.at = "unborn" => video.frames = <<>>
  /\ video.at = "changed" /\ Current /\ Repeated => video.seen = watch.version
  /\ video.at = "borrow" => /\ watch.version > 0
                            /\ Current => video.seen = watch.version /\ ~Repeated
  /\ InOrder

Counted ==
  /\ IsFiniteSet(Distinct)
  /\ status.dropped_video_frames - rtp["video"].refused =
       IF video.frames = <<>> THEN 0
       ELSE video.last_sequence - video.frames[1].sequence + 1 - Cardinality(Distinct)

-----------------------------------------------------------------------------
(* Sound.                                                                  *)

Unrepeated(q) == \A i, j \in DOMAIN q : q[i].sequence = q[j].sequence => i = j

Held == [e \in Emulator |-> Sequences(emulators[e].packets)]

\* The chunks up to n are parted among the emulators, the channel, the feeder and the lost.
Parted(held, unread, fed, missed, n) ==
  /\ \A k \in Nat : k < n <=> \/ \E e \in Emulator : k \in held[e]
                              \/ k \in unread \/ k \in fed \/ k \in missed
  /\ \A e, x \in Emulator : e # x => held[e] \cap held[x] = {}
  /\ \A e \in Emulator : held[e] \cap (unread \cup fed \cup missed) = {}
  /\ unread \cap fed = {} /\ unread \cap missed = {} /\ fed \cap missed = {}

PartInv ==
  /\ Unrepeated(channel.unread) /\ Unrepeated(audio.packets)
  /\ Parted(Held, Sequences(channel.unread), Sequences(audio.packets), channel.missed, bus.next_sequence)
  /\ bus.next_sequence + bus.pending <= bus.pushed

\* Chunks are in the order they were cut; two overlapping emulators' may swap.
Before(swap, x, y) == x.sequence < y.sequence \/ (swap /\ x.by # y.by)
Sorted(swap, q) == \A i, j \in DOMAIN q : i < j => Before(swap, q[i], q[j])
AllBefore(swap, q, r) == \A i \in DOMAIN q, j \in DOMAIN r : Before(swap, q[i], r[j])

SoundInv ==
  /\ Sorted(overlapped, audio.packets) /\ Sorted(overlapped, channel.unread)
  /\ AllBefore(overlapped, audio.packets, channel.unread)
  /\ \A e \in Emulator :
       /\ Sorted(overlapped, emulators[e].packets)
       /\ AllBefore(overlapped, audio.packets, emulators[e].packets)
       /\ AllBefore(overlapped, channel.unread, emulators[e].packets)
       /\ \A i \in DOMAIN emulators[e].packets : emulators[e].packets[i].by = e

StampInv ==
  /\ audio.base_sequence = IF audio.packets = <<>> THEN None ELSE audio.packets[1].sequence
  /\ \A i \in DOMAIN audio.packets :
       /\ audio.packets[i].pts = Pts(audio.base_sequence, audio.packets[i])
       /\ Stampable(audio.packets[i].pts)

EndInv == ~overlapped /\ audio.at = "ended" => status.pipeline_state = "error"

-----------------------------------------------------------------------------
(* Sequences.                                                              *)

LEMMA SeqFacts ==
  ASSUME NEW S, NEW q \in Seq(S)
  PROVE  /\ Len(q) \in Nat /\ DOMAIN q = 1 .. Len(q)
         /\ \A i \in 1 .. Len(q) : q[i] \in S
         /\ q = <<>> <=> Len(q) = 0
  BY LenProperties, ElementOfSeq, EmptySeq

LEMMA AppendFacts ==
  ASSUME NEW S, NEW q \in Seq(S), NEW x \in S
  PROVE  /\ Append(q, x) \in Seq(S) /\ Append(q, x) # <<>>
         /\ Len(Append(q, x)) = Len(q) + 1
         /\ DOMAIN Append(q, x) = 1 .. Len(q) + 1
         /\ \A i \in 1 .. Len(q) + 1 : Append(q, x)[i] = IF i = Len(q) + 1 THEN x ELSE q[i]
<1>1. /\ Append(q, x) \in Seq(S) /\ Append(q, x) # <<>>
      /\ Len(Append(q, x)) = Len(q) + 1
      /\ \A i \in 1 .. Len(q) : Append(q, x)[i] = q[i]
      /\ Append(q, x)[Len(q) + 1] = x
  BY AppendProperties
<1>2. DOMAIN Append(q, x) = 1 .. Len(q) + 1
  BY <1>1, LenProperties
<1>3. Len(q) \in Nat
  BY LenProperties
<1> QED
  BY <1>1, <1>2, <1>3

LEMMA TailFacts ==
  ASSUME NEW S, NEW q \in Seq(S), q # <<>>
  PROVE  /\ Head(q) = q[1] /\ q[1] \in S
         /\ Tail(q) \in Seq(S) /\ Len(Tail(q)) = Len(q) - 1
         /\ DOMAIN Tail(q) = 1 .. Len(q) - 1
         /\ \A i \in 1 .. Len(q) - 1 : Tail(q)[i] = q[i + 1]
         /\ Len(q) \in Nat \ {0}
<1>1. /\ Head(q) \in S /\ Head(q) = q[1]
      /\ Tail(q) \in Seq(S) /\ Len(Tail(q)) = Len(q) - 1
      /\ \A i \in 1 .. Len(Tail(q)) : Tail(q)[i] = q[i + 1]
  BY HeadTailProperties
<1>2. DOMAIN Tail(q) = 1 .. Len(Tail(q))
  BY <1>1, LenProperties
<1>3. Len(q) \in Nat \ {0}
  BY EmptySeq
<1> QED
  BY <1>1, <1>2, <1>3

\* What Cut cuts.
LEMMA CutFacts ==
  ASSUME NEW pending \in Nat, NEW next \in Nat, NEW e \in Emulator
  PROVE  LET q == Cut(pending, next, e) IN
         /\ q \in Seq(Packet) /\ Len(q) = pending \div Chunk /\ Len(q) \in Nat
         /\ DOMAIN q = 1 .. Len(q)
         /\ \A i \in 1 .. Len(q) : q[i] = [sequence |-> next + i - 1, by |-> e, rate |-> 0, pts |-> 0]
         /\ Rest(pending) \in 0 .. Chunk - 1
         /\ Len(q) + Rest(pending) <= pending
<1> DEFINE n == pending \div Chunk
           q == Cut(pending, next, e)
<1>1. /\ n \in Nat /\ Rest(pending) \in 0 .. Chunk - 1
      /\ pending = Chunk * n + Rest(pending)
  BY PipelineAssumption DEF Rest
<1>2. n <= Chunk * n
  <2> HIDE DEF n
  <2>1. Chunk >= 1 /\ Chunk \in Nat /\ n \in Nat
    BY <1>1, PipelineAssumption
  <2>2. \A c \in Nat, m \in Nat : c >= 1 => m <= c * m
    OBVIOUS
  <2> QED
    BY <2>1, <2>2
<1>3. n + Rest(pending) <= pending
  <2> HIDE DEF n
  <2>1. Chunk * n \in Nat /\ n \in Nat /\ Rest(pending) \in Nat
    BY <1>1, PipelineAssumption
  <2> DEFINE c == Chunk * n
  <2>2. c \in Nat /\ n <= c /\ pending = c + Rest(pending)
    BY <1>1, <1>2, <2>1
  <2> HIDE DEF c
  <2> QED
    BY <2>1, <2>2
<1>4. \A i \in 1 .. n : [sequence |-> next + i - 1, by |-> e, rate |-> 0, pts |-> 0] \in Packet
  BY <1>1 DEF Packet, Rates
<1>5. q = [i \in 1 .. n |-> [sequence |-> next + i - 1, by |-> e, rate |-> 0, pts |-> 0]]
  BY DEF Cut
<1> HIDE DEF n, q
<1>6. q \in Seq(Packet)
  <2>1. q \in [1 .. n -> Packet]
    BY <1>4, <1>5
  <2> QED
    BY <1>1, <2>1, SeqDef
<1>7. Len(q) = n
  BY <1>1, <1>5
<1> QED
  BY <1>1, <1>3, <1>5, <1>6, <1>7 DEF n, q

-----------------------------------------------------------------------------
(* Types are kept.                                                         *)

LEMMA FormatFacts ==
  /\ \A raw \in 0..2 : from_libretro(raw) \in Format
  /\ \A format \in Format : as_u8(format) \in 0..2
  /\ \A e \in Emulator : /\ Drawn(RawFormat[e]) \in {"BGRx", "RGB16", "xRGB1555", "RGBx"}
                         /\ Pitch[e] \in Nat
  /\ \A e \in Emulator : RawFormat[e] \in 0..2 /\ RateOf[e] \in Rates /\ RateOf[e] \in Rates \cup {None}
  /\ 0 \in Rates
  BY PipelineAssumption DEF from_libretro, as_u8, Format, Rates, Drawn

LEMMA InitTypes == Init => TypeInv
<1> SUFFICES ASSUME Init PROVE TypeInv
  OBVIOUS
<1> USE DEF Init
<1>1. NoFrame \in Frame
  BY PipelineAssumption DEF NoFrame, Frame, None
<1>2. /\ emulators \in [Emulator -> EmulatorState]
      /\ context \in Context
  <2>1. [at |-> "out", told |-> FALSE, byte |-> 0, rate |-> None, packets |-> <<>>] \in EmulatorState
    BY EmptySeq DEF EmulatorState, Place
  <2> QED
    BY <2>1 DEF Format, Context
<1>3. /\ store \in [next_sequence : 0..MaxFrames, latest : Frame]
      /\ dispatcher \in [at : {"loop", "waiting", "sending", "ended"}, last_sequence : -1..MaxFrames,
                          frame : Frame]
      /\ watch \in [version : Nat, value : Frame]
  BY <1>1, PipelineAssumption DEF None
<1>4. video \in [at : {"unborn", "changed", "borrow", "ended"}, seen : Nat,
                 last_sequence : -1..MaxFrames, frames : Seq(Frame)]
  BY PipelineAssumption, EmptySeq DEF None
<1>5. bus \in [pending : 0..(Chunk - 1), next_sequence : Nat, rate : Rates, pushed : 0..MaxSamples]
  BY PipelineAssumption, FormatFacts
<1>6. /\ channel \in [unread : Seq(Packet), lagged : BOOLEAN, missed : SUBSET Nat]
      /\ audio \in [at : {"unborn", "recv", "ended"}, base_sequence : Nat \cup {None},
                     packets : Seq(Packet)]
  BY EmptySeq DEF None
<1>7. /\ rtp \in [Medium -> [inside : BOOLEAN, queue : 0..RtpCapacity, open : BOOLEAN, refused : Nat]]
      /\ status \in [pipeline_state : {"starting", "playing", "error"}, dropped_video_frames : Nat]
      /\ stage \in {"starting", "serving", "stopping"}
      /\ overlapped \in BOOLEAN
  <2>1. [inside |-> FALSE, queue |-> 0, open |-> FALSE, refused |-> 0]
          \in [inside : BOOLEAN, queue : 0..RtpCapacity, open : BOOLEAN, refused : Nat]
    BY PipelineAssumption
  <2> QED
    BY <2>1
<1>8. Drawing = {}
  BY DEF Drawing, Emu
<1>9. /\ IsFiniteSet(Drawing) /\ store.next_sequence + Cardinality(Drawing) <= MaxFrames
      /\ store.latest.sequence = store.next_sequence - 1
      /\ video.seen <= watch.version
  BY <1>8, FS_EmptySet, PipelineAssumption DEF NoFrame, None
<1>10. Len(channel.unread) <= Capacity
  BY PipelineAssumption, EmptySeq
<1>11. \A e \in Emulator : /\ emulators[e].packets # <<>> <=> emulators[e].at \in {"cut", "sending"}
                           /\ emulators[e].at = "sending" => emulators[e].rate \in Rates
  <2>1. \A e \in Emulator : emulators[e].packets = <<>> /\ emulators[e].at = "out"
    OBVIOUS
  <2> QED
    BY <2>1
<1> HIDE DEF Init
<1> QED
  BY <1>2, <1>3, <1>4, <1>5, <1>6, <1>7, <1>9, <1>10, <1>11 DEF TypeInv, Types

\* What the types say of the fields.
LEMMA Fields ==
  ASSUME Types
  PROVE  /\ emulators \in [Emulator -> EmulatorState]
         /\ \A e \in Emulator : /\ emulators[e] \in EmulatorState
                                /\ emulators[e].byte \in 0..2 /\ emulators[e].packets \in Seq(Packet)
         /\ context.format \in Format
         /\ store.next_sequence \in 0..MaxFrames /\ store.latest \in Frame
         /\ dispatcher.frame \in Frame /\ dispatcher.last_sequence \in -1..MaxFrames
         /\ watch.version \in Nat /\ watch.value \in Frame
         /\ video.frames \in Seq(Frame) /\ video.seen \in Nat /\ video.last_sequence \in -1..MaxFrames
         /\ bus.pending \in 0..(Chunk - 1) /\ bus.next_sequence \in Nat /\ bus.rate \in Rates
         /\ bus.pushed \in 0..MaxSamples
         /\ channel.unread \in Seq(Packet) /\ channel.missed \in SUBSET Nat
         /\ audio.packets \in Seq(Packet) /\ audio.base_sequence \in Nat \cup {None}
         /\ status.dropped_video_frames \in Nat
         /\ MaxFrames \in Nat /\ MaxSamples \in Nat /\ Chunk \in Nat \ {0}
<1>1. /\ emulators \in [Emulator -> EmulatorState]
      /\ \A e \in Emulator : /\ emulators[e] \in EmulatorState
                             /\ emulators[e].byte \in 0..2 /\ emulators[e].packets \in Seq(Packet)
  BY DEF Types, EmulatorState
<1>2. /\ context.format \in Format
      /\ store.next_sequence \in 0..MaxFrames /\ store.latest \in Frame
      /\ dispatcher.frame \in Frame /\ dispatcher.last_sequence \in -1..MaxFrames
      /\ watch.version \in Nat /\ watch.value \in Frame
  BY DEF Types, Context
<1>3. /\ video.frames \in Seq(Frame) /\ video.seen \in Nat /\ video.last_sequence \in -1..MaxFrames
      /\ bus.pending \in 0..(Chunk - 1) /\ bus.next_sequence \in Nat /\ bus.rate \in Rates
      /\ bus.pushed \in 0..MaxSamples
  BY DEF Types
<1>4. /\ channel.unread \in Seq(Packet) /\ channel.missed \in SUBSET Nat
      /\ audio.packets \in Seq(Packet) /\ audio.base_sequence \in Nat \cup {None}
      /\ status.dropped_video_frames \in Nat
  BY DEF Types
<1> QED
  BY <1>1, <1>2, <1>3, <1>4, PipelineAssumption

\* A step in which no emulator begins or ends a picture.
LEMMA StillDrawing ==
  ASSUME emulators' \in [Emulator -> EmulatorState],
         \A x \in Emulator : emulators'[x].at = "drawing" <=> emulators[x].at = "drawing"
  PROVE  Drawing' = Drawing
  BY DEF Drawing, Emu

\* A step of the emulators that concerns their place only.
LEMMA PlaceTypes ==
  ASSUME TypeInv, NEW e \in Emulator, NEW at \in Place \ {"cut", "sending", "drawing"},
         emulators[e].at \notin {"cut", "sending", "drawing"}, Goes(e, at),
         context' \in Context,
         bus' \in [pending : 0..(Chunk - 1), next_sequence : Nat, rate : Rates, pushed : 0..MaxSamples],
         overlapped' \in BOOLEAN,
         UNCHANGED <<pictures, channel, audio, rtp, status, stage>>
  PROVE  TypeInv'
<1> DEFINE r == [emulators[e] EXCEPT !.at = at]
<1>1. emulators \in [Emulator -> EmulatorState] /\ emulators' = [emulators EXCEPT ![e] = r]
  BY DEF TypeInv, Types, Goes
<1>2. r \in EmulatorState /\ r.at = at /\ r.packets = emulators[e].packets
  BY <1>1 DEF EmulatorState
<1> HIDE DEF r
<1>3. /\ emulators' \in [Emulator -> EmulatorState]
      /\ \A x \in Emulator : emulators'[x] = IF x = e THEN r ELSE emulators[x]
  BY <1>1, <1>2
<1>4. Drawing' = Drawing
  BY <1>2, <1>3, StillDrawing
<1>5. \A x \in Emulator : /\ emulators'[x].packets # <<>> <=> emulators'[x].at \in {"cut", "sending"}
                          /\ emulators'[x].at = "sending" => emulators'[x].rate \in Rates
  BY <1>2, <1>3 DEF TypeInv
<1> QED
  BY SMTT(30), <1>3, <1>4, <1>5 DEF TypeInv, Types, pictures

LEMMA EmulatorTypes ==
  ASSUME TypeInv, NEW e \in Emulator,
         \/ wire(e) \/ keep_default_format(e) \/ set_sample_rate_hz(e)
         \/ clear_callback_context(e)
  PROVE  TypeInv'
<1> USE DEF Emu, sounds
<1>0. /\ context \in Context /\ overlapped \in BOOLEAN
      /\ bus \in [pending : 0..(Chunk - 1), next_sequence : Nat, rate : Rates, pushed : 0..MaxSamples]
  BY DEF TypeInv, Types
<1>1. CASE wire(e)
  <2>1. context' \in Context
    BY <1>0, <1>1 DEF wire, Context, Format
  <2> QED
    BY <1>0, <1>1, <2>1, PlaceTypes DEF wire, Place
<1>3. CASE keep_default_format(e)
  BY <1>0, <1>3, PlaceTypes DEF keep_default_format, Place
<1>4. CASE set_sample_rate_hz(e)
  BY <1>0, <1>4, PlaceTypes, FormatFacts DEF set_sample_rate_hz, Place
<1>5. CASE clear_callback_context(e)
  <2>1. context' \in Context
    BY <1>5 DEF clear_callback_context, Context, Format
  <2> QED
    BY <1>0, <1>5, <2>1, PlaceTypes DEF clear_callback_context, Place
<1> QED
  BY <1>1, <1>3, <1>4, <1>5

\* The core says what it draws, or asks for a GL context.
LEMMA AskTypes ==
  ASSUME TypeInv, NEW e \in Emulator, set_pixel_format(e) \/ set_hw_render(e)
  PROVE  TypeInv'
<1>0. emulators \in [Emulator -> EmulatorState] /\ context \in Context
  BY DEF TypeInv, Types
<1>1. /\ context' \in Context
      /\ UNCHANGED <<pictures, sounds, rtp, status, stage, overlapped>>
  <2>1. CASE set_pixel_format(e)
    <3>1. from_libretro(RawFormat[e]) \in Format
      BY FormatFacts
    <3> QED
      BY <1>0, <2>1, <3>1 DEF set_pixel_format, Context
  <2>2. CASE set_hw_render(e)
    <3>1. context' = [context EXCEPT !.hw_context = TRUE]
      BY <2>2 DEF set_hw_render
    <3>2. TRUE \in BOOLEAN /\ UNCHANGED <<pictures, sounds, rtp, status, stage, overlapped>>
      BY <2>2 DEF set_hw_render
    <3> HIDE DEF pictures, sounds
    <3> QED
      BY <1>0, <3>1, <3>2 DEF Context
  <2> QED
    BY <2>1, <2>2
<1>2. /\ emulators' \in [Emulator -> EmulatorState]
      /\ \A x \in Emulator : /\ emulators'[x].packets = emulators[x].packets
                             /\ emulators'[x].rate = emulators[x].rate
                             /\ \/ emulators'[x].at = emulators[x].at
                                \/ emulators[x].at = "wired" /\ emulators'[x].at = "loaded"
  <2>1. CASE set_pixel_format(e)
    <3> DEFINE r == [emulators[e] EXCEPT !.at = "loaded", !.told = TRUE]
    <3>1. emulators' = [emulators EXCEPT ![e] = r] /\ emulators[e].at = "wired"
      BY <1>0, <2>1 DEF set_pixel_format, Emu
    <3>2. /\ r \in EmulatorState /\ r.at = "loaded" /\ r.packets = emulators[e].packets
          /\ r.rate = emulators[e].rate
      BY <1>0 DEF EmulatorState, Place
    <3> HIDE DEF r
    <3>3. /\ emulators' \in [Emulator -> EmulatorState]
          /\ \A x \in Emulator : emulators'[x] = IF x = e THEN r ELSE emulators[x]
      BY <1>0, <3>1, <3>2
    <3> QED
      BY <3>1, <3>2, <3>3
  <2>2. CASE set_hw_render(e)
    BY <1>0, <2>2 DEF set_hw_render
  <2> QED
    BY <2>1, <2>2
<1>3. Drawing' = Drawing
  BY <1>2, StillDrawing
<1>4. \A x \in Emulator : /\ emulators'[x].packets # <<>> <=> emulators'[x].at \in {"cut", "sending"}
                          /\ emulators'[x].at = "sending" => emulators'[x].rate \in Rates
  BY <1>2 DEF TypeInv
<1> QED
  BY SMTT(30), <1>1, <1>2, <1>3, <1>4 DEF TypeInv, Types, pictures, sounds

LEMMA RefreshTypes ==
  ASSUME TypeInv, NEW e \in Emulator, video_refresh(e)
  PROVE  TypeInv'
<1> DEFINE r == [emulators[e] EXCEPT !.at = "drawing", !.byte = as_u8(context.format)]
<1>1. /\ emulators \in [Emulator -> EmulatorState] /\ emulators' = [emulators EXCEPT ![e] = r]
      /\ emulators[e].at = "running"
  BY DEF TypeInv, Types, video_refresh, Emu
<1>2. r \in EmulatorState /\ r.at = "drawing" /\ r.packets = emulators[e].packets
  <2>1. as_u8(context.format) \in 0..2
    BY Fields, FormatFacts DEF TypeInv
  <2> QED
    BY <1>1, <2>1 DEF EmulatorState, Place
<1> HIDE DEF r
<1>3. /\ emulators' \in [Emulator -> EmulatorState]
      /\ \A x \in Emulator : emulators'[x] = IF x = e THEN r ELSE emulators[x]
  BY <1>1, <1>2
<1>4. Drawing' = Drawing \cup {e} /\ e \notin Drawing
  BY <1>1, <1>2, <1>3 DEF Drawing, Emu
<1>5. IsFiniteSet(Drawing') /\ store.next_sequence + Cardinality(Drawing') <= MaxFrames
  <2>1. IsFiniteSet(Drawing) /\ Cardinality(Drawing) \in Nat
    BY FS_CardinalityType DEF TypeInv
  <2>2. IsFiniteSet(Drawing') /\ Cardinality(Drawing') = Cardinality(Drawing) + 1
    BY <1>4, <2>1, FS_AddElement
  <2>3. store.next_sequence + Cardinality(Drawing) < MaxFrames
    BY DEF video_refresh, RoomForAPicture, Drawing
  <2>4. store.next_sequence \in Nat
    BY DEF TypeInv, Types
  <2> QED
    BY <2>1, <2>2, <2>3, <2>4, PipelineAssumption
<1>6. \A x \in Emulator : /\ emulators'[x].packets # <<>> <=> emulators'[x].at \in {"cut", "sending"}
                          /\ emulators'[x].at = "sending" => emulators'[x].rate \in Rates
  BY <1>1, <1>2, <1>3 DEF TypeInv
<1> QED
  BY SMTT(30), <1>3, <1>5, <1>6 DEF TypeInv, Types, pictures, sounds, video_refresh

LEMMA PublishTypes ==
  ASSUME TypeInv, NEW e \in Emulator, publish(e)
  PROVE  TypeInv'
<1> DEFINE r == [emulators[e] EXCEPT !.at = "running"]
<1>1. /\ emulators \in [Emulator -> EmulatorState] /\ emulators' = [emulators EXCEPT ![e] = r]
      /\ emulators[e].at = "drawing"
  BY DEF TypeInv, Types, publish, Goes, Emu
<1>2. r \in EmulatorState /\ r.at = "running" /\ r.packets = emulators[e].packets
  BY <1>1 DEF EmulatorState, Place
<1> HIDE DEF r
<1>3. /\ emulators' \in [Emulator -> EmulatorState]
      /\ \A x \in Emulator : emulators'[x] = IF x = e THEN r ELSE emulators[x]
  BY <1>1, <1>2
<1>4. Drawing' = Drawing \ {e} /\ e \in Drawing
  BY <1>1, <1>2, <1>3 DEF Drawing, Emu
<1>5. /\ IsFiniteSet(Drawing')
      /\ store.next_sequence \in Nat /\ store.next_sequence + 1 <= MaxFrames
      /\ store.next_sequence + 1 + Cardinality(Drawing') <= MaxFrames
  <2>1. IsFiniteSet(Drawing) /\ Cardinality(Drawing) \in Nat
    BY FS_CardinalityType DEF TypeInv
  <2>2. IsFiniteSet(Drawing') /\ Cardinality(Drawing') = Cardinality(Drawing) - 1
    BY <1>4, <2>1, FS_RemoveElement
  <2>3. Cardinality(Drawing') \in Nat
    BY <2>2, FS_CardinalityType
  <2>4. store.next_sequence \in Nat /\ store.next_sequence + Cardinality(Drawing) <= MaxFrames
    BY DEF TypeInv, Types
  <2> QED
    BY <2>1, <2>2, <2>3, <2>4, PipelineAssumption
<1>6. \A x \in Emulator : /\ emulators'[x].packets # <<>> <=> emulators'[x].at \in {"cut", "sending"}
                          /\ emulators'[x].at = "sending" => emulators'[x].rate \in Rates
  BY <1>1, <1>2, <1>3 DEF TypeInv
<1>7. /\ store' \in [next_sequence : 0..MaxFrames, latest : Frame]
      /\ store'.next_sequence = store.next_sequence + 1
      /\ store'.latest.sequence = store'.next_sequence - 1
  <2>0. emulators[e].byte \in 0..2 /\ RawFormat[e] \in 0..2 /\ MaxFrames \in Nat
    BY Fields, FormatFacts DEF TypeInv
  <2>1. store.next_sequence \in -1..MaxFrames /\ store.next_sequence + 1 \in 0..MaxFrames
    <3>1. Cardinality(Drawing') \in Nat
      BY <1>5, FS_CardinalityType
    <3> QED
      BY <1>5, <2>0, <3>1
  <2> DEFINE f == [sequence |-> store.next_sequence, byte |-> emulators[e].byte,
                   drawn |-> Drawn(RawFormat[e]), told |-> emulators[e].told, pitch |-> Pitch[e],
                   pushed |-> FALSE]
  <2>2. f \in Frame
    <3>1. emulators[e].told \in BOOLEAN
      BY <1>1 DEF EmulatorState
    <3> QED
      BY <2>0, <2>1, <3>1, FormatFacts DEF Frame
  <2>3. store' = [next_sequence |-> store.next_sequence + 1, latest |-> f]
    BY DEF publish, Published, NoFrame
  <2> HIDE DEF f
  <2>4. f.sequence = store.next_sequence
    BY DEF f
  <2> QED
    BY <2>1, <2>2, <2>3, <2>4
<1>8. store'.next_sequence + Cardinality(Drawing') <= MaxFrames
  BY <1>5, <1>7, FS_CardinalityType
<1>9. UNCHANGED <<context, dispatcher, watch, video, bus, channel, audio, rtp, status, stage, overlapped>>
  BY DEF publish, sounds
<1> QED
  BY SMTT(30), <1>3, <1>5, <1>6, <1>7, <1>8, <1>9 DEF TypeInv, Types

\* A picture read back from the GPU takes a number that is left.
LEMMA ReadbackTypes ==
  ASSUME TypeInv, NEW e \in Emulator, read_hw_framebuffer(e)
  PROVE  TypeInv' /\ ~store'.latest.told /\ store'.latest.sequence = store.next_sequence
<1> DEFINE f == [sequence |-> store.next_sequence, byte |-> 0, drawn |-> "RGBx", told |-> FALSE,
                 pitch |-> 4, pushed |-> FALSE]
<1>1. store' = [next_sequence |-> store.next_sequence + 1, latest |-> f]
  BY DEF read_hw_framebuffer, Published, NoFrame, as_u8
<1>2. /\ IsFiniteSet(Drawing) /\ Cardinality(Drawing) \in Nat
      /\ store.next_sequence \in 0..MaxFrames /\ MaxFrames \in Nat
      /\ store.next_sequence + Cardinality(Drawing) < MaxFrames
  BY Fields, FS_CardinalityType DEF TypeInv, read_hw_framebuffer, RoomForAPicture, Drawing
<1>3. /\ store.next_sequence \in -1..MaxFrames /\ store.next_sequence + 1 \in 0..MaxFrames
      /\ store.next_sequence + 1 + Cardinality(Drawing) <= MaxFrames
  BY <1>2
<1>4. f \in Frame /\ f.sequence = store.next_sequence /\ ~f.told
  BY <1>3 DEF Frame
<1> HIDE DEF f
<1>5. /\ store' \in [next_sequence : 0..MaxFrames, latest : Frame]
      /\ store'.next_sequence = store.next_sequence + 1
      /\ store'.latest.sequence = store'.next_sequence - 1 /\ store'.latest = f
  BY <1>1, <1>2, <1>3, <1>4
<1>6. /\ Drawing' = Drawing
      /\ UNCHANGED <<emulators, context, dispatcher, watch, video, bus, channel, audio, rtp, status,
                     stage, overlapped>>
  BY DEF read_hw_framebuffer, sounds, Drawing, Emu
<1>7. store'.next_sequence + Cardinality(Drawing') <= MaxFrames
  BY <1>3, <1>5, <1>6
<1>8. Types'
  <2>1. Types
    BY DEF TypeInv
  <2>2. store' \in [next_sequence : 0..MaxFrames, latest : Frame]
    BY <1>5
  <2>3. /\ emulators' = emulators /\ context' = context /\ dispatcher' = dispatcher
        /\ watch' = watch /\ video' = video /\ bus' = bus /\ channel' = channel
        /\ audio' = audio /\ rtp' = rtp /\ status' = status /\ stage' = stage
        /\ overlapped' = overlapped
    BY <1>6
  <2> QED
    BY <2>1, <2>2, <2>3, SMTT(60) DEF Types
<1>9. IsFiniteSet(Drawing')
  BY <1>2, <1>6
<1>10. /\ (video.seen <= watch.version)' /\ (Len(channel.unread) <= Capacity)'
       /\ \A x \in Emulator : /\ emulators'[x].packets # <<>> <=> emulators'[x].at \in {"cut", "sending"}
                              /\ emulators'[x].at = "sending" => emulators'[x].rate \in Rates
  BY <1>6 DEF TypeInv
<1>11. TypeInv'
  BY <1>5, <1>7, <1>8, <1>9, <1>10 DEF TypeInv
<1> QED
  BY <1>4, <1>5, <1>11

LEMMA PushTypes ==
  ASSUME TypeInv, NEW e \in Emulator, NEW n \in Batch, push_samples(e, n)
  PROVE  TypeInv'
<1> DEFINE packets == Cut(bus.pending + n, bus.next_sequence, e)
           r == IF packets = <<>> THEN emulators[e]
                ELSE [emulators[e] EXCEPT !.at = "cut", !.packets = packets]
<1>1. /\ emulators \in [Emulator -> EmulatorState] /\ emulators[e].at = "running"
      /\ bus.pending + n \in Nat /\ bus.next_sequence \in Nat
      /\ bus.pushed \in Nat /\ n \in Nat /\ bus.pushed + n <= MaxSamples
  <2>1. n \in Nat
    BY PipelineAssumption
  <2>2. /\ emulators \in [Emulator -> EmulatorState] /\ bus.pending \in Nat
        /\ bus.next_sequence \in Nat /\ bus.pushed \in Nat
    BY Fields DEF TypeInv
  <2>3. emulators[e].at = "running" /\ bus.pushed + n <= MaxSamples
    BY DEF push_samples, Emu
  <2> QED
    BY <2>1, <2>2, <2>3
<1>2. /\ packets \in Seq(Packet) /\ Len(packets) \in Nat
      /\ Rest(bus.pending + n) \in 0 .. Chunk - 1
  BY <1>1, CutFacts
<1>3. emulators[e].packets = <<>>
  BY <1>1 DEF TypeInv
<1>4. emulators' = [emulators EXCEPT ![e] = r]
  BY <1>1 DEF push_samples, EmulatorState
<1>5. bus' = [bus EXCEPT !.pending = Rest(bus.pending + n), !.pushed = bus.pushed + n,
                         !.next_sequence = bus.next_sequence + Len(packets)]
  BY DEF push_samples
<1>6. bus' \in [pending : 0..(Chunk - 1), next_sequence : Nat, rate : Rates, pushed : 0..MaxSamples]
  <2> HIDE DEF packets
  <2>1. bus.next_sequence + Len(packets) \in Nat /\ bus.pushed + n \in 0..MaxSamples
    BY SMTT(30), <1>1, <1>2, PipelineAssumption
  <2> QED
    BY <1>2, <1>5, <2>1 DEF TypeInv, Types
<1> HIDE DEF packets
<1>7. /\ r \in EmulatorState /\ r.at \in {"running", "cut"}
      /\ r.packets # <<>> <=> r.at \in {"cut", "sending"}
  <2>1. CASE packets = <<>>
    BY <1>1, <1>3, <2>1
  <2>2. CASE packets # <<>>
    BY <1>1, <1>2, <2>2 DEF EmulatorState, Place
  <2> QED
    BY <2>1, <2>2
<1> HIDE DEF r
<1>8. /\ emulators' \in [Emulator -> EmulatorState]
      /\ \A x \in Emulator : emulators'[x] = IF x = e THEN r ELSE emulators[x]
  BY <1>1, <1>4, <1>7
<1>9. Drawing' = Drawing
  BY <1>1, <1>7, <1>8, StillDrawing
<1>10. \A x \in Emulator : /\ emulators'[x].packets # <<>> <=> emulators'[x].at \in {"cut", "sending"}
                           /\ emulators'[x].at = "sending" => emulators'[x].rate \in Rates
  BY <1>7, <1>8 DEF TypeInv
<1> QED
  <2>1. UNCHANGED <<context, store, dispatcher, watch, video, channel, audio, rtp, status, stage, overlapped>>
    BY DEF push_samples, pictures
  <2> QED
    BY SMTT(30), <1>6, <1>8, <1>9, <1>10, <2>1 DEF TypeInv, Types

LEMMA ReadRateTypes ==
  ASSUME TypeInv, NEW e \in Emulator, read_rate(e)
  PROVE  TypeInv'
<1> DEFINE r == [emulators[e] EXCEPT !.at = "sending", !.rate = bus.rate]
<1>1. /\ emulators \in [Emulator -> EmulatorState] /\ emulators' = [emulators EXCEPT ![e] = r]
      /\ emulators[e].at = "cut" /\ bus.rate \in Rates
  BY DEF TypeInv, Types, read_rate, Emu
<1>2. /\ r \in EmulatorState /\ r.at = "sending" /\ r.packets = emulators[e].packets
      /\ r.rate \in Rates
  BY <1>1 DEF EmulatorState, Place
<1> HIDE DEF r
<1>3. /\ emulators' \in [Emulator -> EmulatorState]
      /\ \A x \in Emulator : emulators'[x] = IF x = e THEN r ELSE emulators[x]
  BY <1>1, <1>2
<1>4. Drawing' = Drawing
  BY <1>1, <1>2, <1>3, StillDrawing
<1>5. \A x \in Emulator : /\ emulators'[x].packets # <<>> <=> emulators'[x].at \in {"cut", "sending"}
                          /\ emulators'[x].at = "sending" => emulators'[x].rate \in Rates
  BY <1>1, <1>2, <1>3 DEF TypeInv
<1> QED
  BY SMTT(30), <1>3, <1>4, <1>5 DEF TypeInv, Types, pictures, sounds, read_rate

\* The channel after a send: the packet is missed, or it joins those unread,
\* of which the oldest goes when they are too many.
LEMMA SentCases ==
  ASSUME TypeInv, NEW p \in Packet
  PROVE  \/ /\ audio.at # "recv" /\ Sent(p).unread = channel.unread
            /\ Sent(p).missed = channel.missed \cup {p.sequence} /\ Sent(p).lagged = channel.lagged
         \/ /\ Len(channel.unread) < Capacity /\ Sent(p).unread = Append(channel.unread, p)
            /\ Sent(p).missed = channel.missed /\ Sent(p).lagged = channel.lagged
         \/ /\ channel.unread # <<>> /\ Len(channel.unread) = Capacity /\ Sent(p).lagged = TRUE
            /\ Sent(p).unread = Append(Tail(channel.unread), p)
            /\ Sent(p).missed = channel.missed \cup {Head(channel.unread).sequence}
<1>1. /\ channel.unread \in Seq(Packet) /\ Len(channel.unread) <= Capacity /\ Capacity \in Nat \ {0}
      /\ channel \in [unread : Seq(Packet), lagged : BOOLEAN, missed : SUBSET Nat]
  BY Fields, PipelineAssumption DEF TypeInv, Types
<1> DEFINE unread == Append(channel.unread, p)
<1>2. Len(channel.unread) \in Nat /\ Len(unread) = Len(channel.unread) + 1
  BY <1>1, SeqFacts, AppendFacts
<1>3. CASE audio.at # "recv"
  BY <1>1, <1>3 DEF Sent
<1>4. CASE audio.at = "recv" /\ Len(channel.unread) < Capacity
  <2>1. Len(unread) <= Capacity
    BY <1>1, <1>2, <1>4
  <2>2. Sent(p) = [channel EXCEPT !.unread = unread]
    BY <1>4, <2>1 DEF Sent
  <2> QED
    BY <1>1, <1>4, <2>2
<1>5. CASE audio.at = "recv" /\ ~(Len(channel.unread) < Capacity)
  <2>1. ~(Len(unread) <= Capacity) /\ Len(channel.unread) = Capacity /\ channel.unread # <<>>
    BY <1>1, <1>2, <1>5, SeqFacts
  <2>2. Sent(p) = [unread |-> Tail(unread), lagged |-> TRUE,
                   missed |-> channel.missed \cup {Head(unread).sequence}]
    BY <1>5, <2>1 DEF Sent
  <2>3. Head(unread) = Head(channel.unread) /\ Tail(unread) = Append(Tail(channel.unread), p)
    BY <1>1, <2>1, HeadTailAppend
  <2> HIDE DEF unread
  <2>4. /\ Sent(p).unread = Append(Tail(channel.unread), p)
        /\ Sent(p).missed = channel.missed \cup {Head(channel.unread).sequence}
    BY <2>2, <2>3
  <2>5. Sent(p).lagged = TRUE
    BY <2>2
  <2> QED
    BY <2>1, <2>4, <2>5
<1> QED
  BY <1>3, <1>4, <1>5

LEMMA SentTypes ==
  ASSUME TypeInv, NEW p \in Packet
  PROVE  /\ Sent(p) \in [unread : Seq(Packet), lagged : BOOLEAN, missed : SUBSET Nat]
         /\ Len(Sent(p).unread) <= Capacity
<1>1. /\ channel.unread \in Seq(Packet) /\ Len(channel.unread) <= Capacity /\ Capacity \in Nat \ {0}
      /\ channel.lagged \in BOOLEAN /\ channel.missed \in SUBSET Nat
  BY Fields, PipelineAssumption DEF TypeInv, Types
<1>2. \E unread, lagged, missed : Sent(p) = [unread |-> unread, lagged |-> lagged, missed |-> missed]
  <2>1. channel = [unread |-> channel.unread, lagged |-> channel.lagged, missed |-> channel.missed]
    BY DEF TypeInv, Types
  <2>2. \A x : [channel EXCEPT !.missed = x] = [unread |-> channel.unread, lagged |-> channel.lagged, missed |-> x]
    BY <2>1
  <2>3. \A x : [channel EXCEPT !.unread = x] = [unread |-> x, lagged |-> channel.lagged, missed |-> channel.missed]
    BY <2>1
  <2> DEFINE unread == Append(channel.unread, p)
  <2>4. \/ Sent(p) = [channel EXCEPT !.missed = @ \cup {p.sequence}]
        \/ Sent(p) = [channel EXCEPT !.unread = unread]
        \/ Sent(p) = [unread |-> Tail(unread), lagged |-> TRUE,
                      missed |-> channel.missed \cup {Head(unread).sequence}]
    BY DEF Sent
  <2> HIDE DEF unread
  <2> QED
    BY <2>2, <2>3, <2>4
<1>3. p.sequence \in Nat
  BY DEF Packet
<1>4. /\ Sent(p).unread \in Seq(Packet) /\ Len(Sent(p).unread) <= Capacity
      /\ Sent(p).missed \in SUBSET Nat /\ Sent(p).lagged \in BOOLEAN
  <2>1. CASE Sent(p).unread = channel.unread /\ Sent(p).missed = channel.missed \cup {p.sequence}
             /\ Sent(p).lagged = channel.lagged
    BY <1>1, <1>3, <2>1
  <2>2. CASE Len(channel.unread) < Capacity /\ Sent(p).unread = Append(channel.unread, p)
             /\ Sent(p).missed = channel.missed /\ Sent(p).lagged = channel.lagged
    BY <1>1, <2>2, AppendFacts, SeqFacts
  <2>3. CASE /\ channel.unread # <<>> /\ Len(channel.unread) = Capacity /\ Sent(p).lagged = TRUE
             /\ Sent(p).unread = Append(Tail(channel.unread), p)
             /\ Sent(p).missed = channel.missed \cup {Head(channel.unread).sequence}
    <3>1. /\ Tail(channel.unread) \in Seq(Packet) /\ Len(Tail(channel.unread)) = Capacity - 1
          /\ Head(channel.unread) \in Packet
      BY <1>1, <2>3, TailFacts
    <3>2. /\ Sent(p).unread \in Seq(Packet) /\ Len(Sent(p).unread) = Capacity - 1 + 1
      BY <2>3, <3>1, AppendFacts
    <3>3. Head(channel.unread).sequence \in Nat
      BY <3>1 DEF Packet
    <3>4. Len(Sent(p).unread) <= Capacity
      BY <1>1, <3>2
    <3>5. Sent(p).missed \in SUBSET Nat
      BY <1>1, <2>3, <3>3
    <3>6. Sent(p).lagged \in BOOLEAN
      BY <2>3
    <3> QED
      BY <3>2, <3>4, <3>5, <3>6
  <2> QED
    BY SentCases, <2>1, <2>2, <2>3
<1> QED
  BY <1>2, <1>4

\* What e has left to send.
LEMMA SendFacts ==
  ASSUME TypeInv, NEW e \in Emulator, send(e)
  PROVE  LET q == emulators[e].packets
             p == [Head(q) EXCEPT !.rate = emulators[e].rate]
         IN  /\ q \in Seq(Packet) /\ q # <<>> /\ Len(q) \in Nat \ {0} /\ q[1] \in Packet /\ Head(q) = q[1]
             /\ p \in Packet /\ p.sequence = q[1].sequence /\ p.by = q[1].by /\ p.pts = q[1].pts
             /\ channel' = Sent(p)
             /\ emulators' \in [Emulator -> EmulatorState]
             /\ emulators'[e].packets = Tail(q)
             /\ emulators'[e].packets # <<>> <=> emulators'[e].at = "sending"
             /\ emulators'[e].at \in {"running", "sending"}
             /\ emulators'[e].at = "sending" => emulators'[e].rate \in Rates
             /\ emulators'[e].byte = emulators[e].byte /\ emulators'[e].told = emulators[e].told
             /\ \A x \in Emulator : x # e => emulators'[x] = emulators[x]
<1> DEFINE q == emulators[e].packets
           p == [Head(q) EXCEPT !.rate = emulators[e].rate]
           r == IF Len(q) = 1 THEN [emulators[e] EXCEPT !.at = "running", !.packets = <<>>, !.rate = None]
                ELSE [emulators[e] EXCEPT !.packets = Tail(q)]
<1>1. /\ emulators \in [Emulator -> EmulatorState] /\ emulators[e].at = "sending"
      /\ emulators[e].rate \in Rates /\ q \in Seq(Packet) /\ q # <<>>
  BY Fields DEF TypeInv, send, Emu
<1>2. /\ Head(q) = q[1] /\ q[1] \in Packet /\ Len(q) \in Nat \ {0}
      /\ Tail(q) \in Seq(Packet) /\ Len(Tail(q)) = Len(q) - 1
  BY <1>1, TailFacts
<1>3. p \in Packet /\ p.sequence = q[1].sequence /\ p.by = q[1].by /\ p.pts = q[1].pts
  BY <1>1, <1>2 DEF Packet
<1>4. emulators' = [emulators EXCEPT ![e] = r] /\ channel' = Sent(p)
  <2>1. CASE Len(q) = 1
    BY <1>1, <2>1 DEF send
  <2>2. CASE Len(q) # 1
    BY <1>1, <2>2 DEF send
  <2> QED
    BY <2>1, <2>2
<1>5. /\ r \in EmulatorState /\ r.packets = Tail(q) /\ r.at \in {"running", "sending"}
      /\ r.packets # <<>> <=> r.at = "sending"
      /\ r.at = "sending" => r.rate \in Rates
      /\ r.byte = emulators[e].byte /\ r.told = emulators[e].told
  <2>2. emulators[e] \in EmulatorState
    BY <1>1
  <2> HIDE DEF q
  <2>1. Tail(q) = <<>> <=> Len(q) = 1
    <3>1. Tail(q) = <<>> <=> Len(Tail(q)) = 0
      BY <1>2, SeqFacts
    <3> QED
      BY <1>2, <3>1
  <2>3. CASE Len(q) = 1
    <3>1. r = [emulators[e] EXCEPT !.at = "running", !.packets = <<>>, !.rate = None]
      BY <2>3
    <3> HIDE DEF r
    <3> QED
      BY <1>2, <2>1, <2>2, <2>3, <3>1 DEF EmulatorState, Place
  <2>4. CASE Len(q) # 1
    <3>1. r = [emulators[e] EXCEPT !.packets = Tail(q)]
      BY <2>4
    <3> HIDE DEF r
    <3> QED
      BY <1>1, <1>2, <2>1, <2>2, <2>4, <3>1 DEF EmulatorState, Place
  <2> QED
    BY <2>3, <2>4
<1> HIDE DEF q, p, r
<1>6. /\ emulators' \in [Emulator -> EmulatorState]
      /\ \A x \in Emulator : emulators'[x] = IF x = e THEN r ELSE emulators[x]
  BY <1>1, <1>4, <1>5
<1>7. /\ emulators'[e].packets = Tail(q) /\ emulators'[e].at \in {"running", "sending"}
      /\ emulators'[e].packets # <<>> <=> emulators'[e].at = "sending"
      /\ emulators'[e].at = "sending" => emulators'[e].rate \in Rates
      /\ emulators'[e].byte = emulators[e].byte /\ emulators'[e].told = emulators[e].told
  BY <1>5, <1>6
<1> QED
  BY <1>1, <1>2, <1>3, <1>4, <1>6, <1>7 DEF q, p

LEMMA SendTypes ==
  ASSUME TypeInv, NEW e \in Emulator, send(e)
  PROVE  TypeInv'
<1> DEFINE p == [Head(emulators[e].packets) EXCEPT !.rate = emulators[e].rate]
<1>1. /\ p \in Packet /\ channel' = Sent(p)
      /\ emulators' \in [Emulator -> EmulatorState]
      /\ emulators'[e].packets # <<>> <=> emulators'[e].at = "sending"
      /\ emulators'[e].at \in {"running", "sending"}
      /\ emulators'[e].at = "sending" => emulators'[e].rate \in Rates
      /\ \A x \in Emulator : x # e => emulators'[x] = emulators[x]
  BY SendFacts
<1> HIDE DEF p
<1>2. emulators[e].at = "sending"
  BY DEF send, Emu
<1>3. /\ channel' \in [unread : Seq(Packet), lagged : BOOLEAN, missed : SUBSET Nat]
      /\ Len(channel'.unread) <= Capacity
  BY <1>1, SentTypes
<1>4. Drawing' = Drawing
  BY <1>1, <1>2, StillDrawing
<1>5. \A x \in Emulator : /\ emulators'[x].packets # <<>> <=> emulators'[x].at \in {"cut", "sending"}
                          /\ emulators'[x].at = "sending" => emulators'[x].rate \in Rates
  BY <1>1, <1>2 DEF TypeInv
<1>6. UNCHANGED <<context, store, dispatcher, watch, video, bus, audio, rtp, status, stage, overlapped>>
  BY DEF send, pictures
<1> QED
  BY SMTT(30), <1>1, <1>3, <1>4, <1>5, <1>6 DEF TypeInv, Types

LEMMA DispatchTypes ==
  ASSUME TypeInv, Dispatch
  PROVE  TypeInv'
<1> USE DEF sounds
<1>0. /\ NoFrame \in Frame /\ dispatcher.frame \in Frame /\ dispatcher.last_sequence \in -1..MaxFrames
      /\ store.latest \in Frame /\ watch.version \in Nat /\ video.seen \in Nat
  BY Fields DEF TypeInv, NoFrame, Frame, None
<1>1. Drawing' = Drawing /\ UNCHANGED <<emulators, context, store, video, bus, channel, audio, rtp,
                                        status, stage, overlapped>>
  BY DEF Dispatch, dispatcher_loop, wait_for_next_returns, dispatch, Drawing, Emu
<1>2. /\ dispatcher' \in [at : {"loop", "waiting", "sending", "ended"}, last_sequence : -1..MaxFrames,
                          frame : Frame]
      /\ watch' \in [version : Nat, value : Frame] /\ video.seen <= watch'.version
  <2>1. CASE dispatcher_loop
    BY <1>0, <2>1 DEF dispatcher_loop, TypeInv, Types
  <2>2. CASE wait_for_next_returns
    BY <1>0, <2>2 DEF wait_for_next_returns, TypeInv, Types
  <2>3. CASE dispatch
    <3>1. dispatcher.frame.sequence \in -1..MaxFrames
      BY <1>0 DEF Frame
    <3>2. dispatcher' = [at |-> "loop", last_sequence |-> dispatcher.frame.sequence, frame |-> NoFrame]
      BY <2>3 DEF dispatch
    <3>3. watch' = [version |-> watch.version + 1, value |-> dispatcher.frame]
      BY <2>3 DEF dispatch
    <3>4. video.seen <= watch.version
      BY DEF TypeInv
    <3>5. video.seen <= watch'.version /\ watch' \in [version : Nat, value : Frame]
      BY <1>0, <3>3, <3>4
    <3> QED
      BY <1>0, <3>1, <3>2, <3>5
  <2> QED
    BY <2>1, <2>2, <2>3 DEF Dispatch
<1> QED
  BY SMTT(30), <1>1, <1>2 DEF TypeInv, Types

\* A buffer more in GStreamer.
LEMMA InsideFacts ==
  ASSUME TypeInv, NEW m \in Medium
  PROVE  /\ Inside(m) \in [Medium -> [inside : BOOLEAN, queue : 0..RtpCapacity, open : BOOLEAN, refused : Nat]]
         /\ \A n \in Medium : Inside(m)[n].refused = rtp[n].refused
<1>1. rtp \in [Medium -> [inside : BOOLEAN, queue : 0..RtpCapacity, open : BOOLEAN, refused : Nat]]
  BY DEF TypeInv, Types
<1> QED
  BY <1>1 DEF Inside

\* What one more picture fed does to the feeder and the count.
LEMMA FeedFacts ==
  ASSUME TypeInv, NEW fails \in BOOLEAN, feed_video(fails)
  PROVE  \E f \in Frame :
           /\ f.sequence = watch.value.sequence /\ f.byte = watch.value.byte
           /\ f.drawn = watch.value.drawn /\ f.told = watch.value.told
           /\ video' = [video EXCEPT !.at = IF fails THEN "ended" ELSE "changed",
                                     !.last_sequence = f.sequence, !.frames = Append(video.frames, f)]
           /\ status'.dropped_video_frames = status.dropped_video_frames + Skipped(f.sequence)
           /\ Skipped(f.sequence) \in Nat
           /\ status' \in [pipeline_state : {"starting", "playing", "error"}, dropped_video_frames : Nat]
           /\ rtp' \in [Medium -> [inside : BOOLEAN, queue : 0..RtpCapacity, open : BOOLEAN, refused : Nat]]
           /\ rtp'["video"].refused = rtp["video"].refused
<1> DEFINE v == watch.value
           packs == repack_video_payload(build_video_caps(v.byte), v.pitch)
           f == [v EXCEPT !.pushed = packs]
<1>1. v \in Frame /\ status.dropped_video_frames \in Nat /\ video.last_sequence \in -1..MaxFrames
  BY Fields DEF TypeInv
<1>2. packs \in BOOLEAN
  BY DEF repack_video_payload
<1>3. /\ f \in Frame /\ f.sequence = v.sequence /\ f.byte = v.byte /\ f.drawn = v.drawn
      /\ f.told = v.told /\ v.sequence \in -1..MaxFrames
  <2> HIDE DEF packs, v
  <2> QED
    BY <1>1, <1>2 DEF Frame
<1>4. /\ video' = [video EXCEPT !.at = IF fails THEN "ended" ELSE "changed",
                                !.last_sequence = v.sequence, !.frames = Append(video.frames, f)]
      /\ status' = [pipeline_state |-> IF fails THEN "error" ELSE status.pipeline_state,
                    dropped_video_frames |-> status.dropped_video_frames + Skipped(v.sequence)]
      /\ rtp' = rtp \/ rtp' = Inside("video")
  BY DEF feed_video
<1>5. Skipped(v.sequence) \in Nat
  <2> HIDE DEF v
  <2> QED
    BY <1>1, <1>3, PipelineAssumption DEF Skipped, None
<1> HIDE DEF f, packs, v
<1>6. /\ status' \in [pipeline_state : {"starting", "playing", "error"}, dropped_video_frames : Nat]
      /\ status'.dropped_video_frames = status.dropped_video_frames + Skipped(v.sequence)
  BY SMTT(30), <1>1, <1>4, <1>5 DEF TypeInv, Types
<1>7. /\ rtp' \in [Medium -> [inside : BOOLEAN, queue : 0..RtpCapacity, open : BOOLEAN, refused : Nat]]
      /\ rtp'["video"].refused = rtp["video"].refused
  <2>1. "video" \in Medium
    BY DEF Medium
  <2>2. CASE rtp' = rtp
    BY <2>2 DEF TypeInv, Types
  <2>3. CASE rtp' = Inside("video")
    BY <2>1, <2>3, InsideFacts
  <2> QED
    BY <1>4, <2>2, <2>3
<1> QED
  BY <1>3, <1>4, <1>5, <1>6, <1>7 DEF v

LEMMA FeedVideoTypes ==
  ASSUME TypeInv, FeedVideo
  PROVE  TypeInv'
<1> USE DEF sounds
<1>1. Drawing' = Drawing /\ UNCHANGED <<emulators, context, store, dispatcher, watch, bus, channel, audio,
                                        stage, overlapped>>
  BY DEF FeedVideo, video_changed, video_closed, feed_video, Drawing, Emu
<1>2. CASE video_changed \/ video_closed
  <2>1. watch.version \in Nat
    BY Fields DEF TypeInv
  <2>2. /\ video' \in [at : {"unborn", "changed", "borrow", "ended"}, seen : Nat,
                       last_sequence : -1..MaxFrames, frames : Seq(Frame)]
        /\ video'.seen <= watch.version
    <3>1. CASE video_changed
      <4>1. video' = [video EXCEPT !.at = "borrow", !.seen = watch.version]
        BY <3>1 DEF video_changed
      <4>2. video \in [at : {"unborn", "changed", "borrow", "ended"}, seen : Nat,
                       last_sequence : -1..MaxFrames, frames : Seq(Frame)]
        BY DEF TypeInv, Types
      <4>3. /\ video' \in [at : {"unborn", "changed", "borrow", "ended"}, seen : Nat,
                           last_sequence : -1..MaxFrames, frames : Seq(Frame)]
            /\ video'.seen = watch.version
        BY <2>1, <4>1, <4>2
      <4> QED
        BY <2>1, <4>3
    <3>2. CASE video_closed
      BY <2>1, <3>2 DEF TypeInv, Types, video_closed
    <3> QED
      BY <1>2, <3>1, <3>2
  <2>3. UNCHANGED <<rtp, status>>
    BY <1>2 DEF video_changed, video_closed
  <2> QED
    BY SMTT(30), <1>1, <2>2, <2>3 DEF TypeInv, Types
<1>3. ASSUME NEW fails \in BOOLEAN, feed_video(fails) PROVE TypeInv'
  <2>1. PICK f \in Frame :
          /\ video' = [video EXCEPT !.at = IF fails THEN "ended" ELSE "changed",
                                    !.last_sequence = f.sequence, !.frames = Append(video.frames, f)]
          /\ status' \in [pipeline_state : {"starting", "playing", "error"}, dropped_video_frames : Nat]
          /\ rtp' \in [Medium -> [inside : BOOLEAN, queue : 0..RtpCapacity, open : BOOLEAN, refused : Nat]]
    BY <1>3, FeedFacts
  <2>2. f.sequence \in -1..MaxFrames
    BY DEF Frame
  <2>3. Append(video.frames, f) \in Seq(Frame)
    BY Fields, AppendFacts DEF TypeInv
  <2>4. /\ video' \in [at : {"unborn", "changed", "borrow", "ended"}, seen : Nat,
                       last_sequence : -1..MaxFrames, frames : Seq(Frame)]
        /\ video'.seen = video.seen
    BY <2>1, <2>2, <2>3 DEF TypeInv, Types
  <2> QED
    BY SMTT(30), <1>1, <2>1, <2>4 DEF TypeInv, Types
<1> QED
  BY <1>2, <1>3 DEF FeedVideo

\* What feeding the oldest chunk unread does.
LEMMA AudioFacts ==
  ASSUME TypeInv, NEW fails \in BOOLEAN, feed_audio(fails)
  PROVE  LET p == Head(channel.unread)
             base == IF audio.base_sequence = None THEN p.sequence ELSE audio.base_sequence
             fed == [p EXCEPT !.pts = Pts(base, p)]
         IN  /\ audio.at = "recv" /\ channel.unread # <<>> /\ channel.unread \in Seq(Packet)
             /\ p \in Packet /\ p = channel.unread[1] /\ base \in Nat
             /\ Pts(base, p) \in Nat /\ Stampable(Pts(base, p)) /\ fed \in Packet
             /\ fed.sequence = p.sequence /\ fed.by = p.by /\ fed.rate = p.rate /\ fed.pts = Pts(base, p)
             /\ audio' = [at |-> IF fails THEN "ended" ELSE "recv", base_sequence |-> base,
                          packets |-> Append(audio.packets, fed)]
             /\ \/ /\ channel'.unread = Tail(channel.unread) /\ channel'.missed = channel.missed
                \/ /\ channel'.unread = <<>>
                   /\ channel'.missed = channel.missed \cup Sequences(Tail(channel.unread))
<1> DEFINE p == Head(channel.unread)
           base == IF audio.base_sequence = None THEN p.sequence ELSE audio.base_sequence
           fed == [p EXCEPT !.pts = Pts(base, p)]
<1>1. /\ audio.at = "recv" /\ channel.unread # <<>> /\ channel.unread \in Seq(Packet)
      /\ audio.base_sequence \in Nat \cup {None}
  BY Fields DEF TypeInv, feed_audio
<1>2. p \in Packet /\ p = channel.unread[1]
  BY <1>1, TailFacts
<1>3. base \in Nat /\ Stampable(Pts(base, p))
  BY <1>1, <1>2 DEF Packet, feed_audio
<1>4. audio' = [at |-> IF fails THEN "ended" ELSE "recv", base_sequence |-> base,
                packets |-> Append(audio.packets, fed)]
  BY DEF feed_audio
<1>5. channel' = IF fails
                 THEN [unread |-> <<>>, lagged |-> FALSE,
                       missed |-> channel.missed \cup Sequences(Tail(channel.unread))]
                 ELSE [channel EXCEPT !.unread = Tail(channel.unread)]
  BY DEF feed_audio, AudioEnds
<1>6. /\ \/ /\ channel'.unread = Tail(channel.unread) /\ channel'.missed = channel.missed
         \/ /\ channel'.unread = <<>>
            /\ channel'.missed = channel.missed \cup Sequences(Tail(channel.unread))
  BY <1>5 DEF TypeInv, Types
<1> HIDE DEF p, base
<1>7. Pts(base, p) \in Nat
  <2> DEFINE offset == (p.sequence - base) % Wide
             pts == offset * Duration[p.rate]
  <2>1. p.sequence \in Nat /\ p.rate \in Rates
    BY <1>2 DEF Packet
  <2>2. offset \in Nat /\ Wide \in Nat \ {0}
    BY <1>3, <2>1, PipelineAssumption
  <2>3. Duration[p.rate] \in Nat
    BY <2>1, PipelineAssumption
  <2>4. pts \in Nat
    BY <2>2, <2>3
  <2>5. Pts(base, p) = IF pts < Wide THEN pts ELSE Wide - 1
    BY DEF Pts
  <2> HIDE DEF offset, pts
  <2> QED
    BY <2>2, <2>4, <2>5
<1>8. /\ fed \in Packet /\ fed.pts = Pts(base, p)
      /\ fed.sequence = p.sequence /\ fed.by = p.by /\ fed.rate = p.rate
  BY <1>2, <1>7 DEF Packet
<1> HIDE DEF fed
<1> QED
  BY <1>1, <1>2, <1>3, <1>4, <1>6, <1>7, <1>8 DEF p, base, fed

\* The sequences of what is left are among those of the whole.
LEMMA TailSequences ==
  ASSUME NEW q \in Seq(Packet), q # <<>>
  PROVE  /\ Sequences(q) \in SUBSET Nat
         /\ Sequences(q) = Sequences(Tail(q)) \cup {q[1].sequence}
<1>1. /\ Tail(q) \in Seq(Packet) /\ Len(q) \in Nat \ {0} /\ DOMAIN Tail(q) = 1 .. Len(q) - 1
      /\ \A i \in 1 .. Len(q) - 1 : Tail(q)[i] = q[i + 1]
      /\ DOMAIN q = 1 .. Len(q) /\ \A i \in 1 .. Len(q) : q[i] \in Packet
  BY TailFacts, SeqFacts
<1>2. Sequences(q) \in SUBSET Nat
  BY <1>1 DEF Sequences, Packet
<1>3. ASSUME NEW k \in Sequences(q) PROVE k \in Sequences(Tail(q)) \cup {q[1].sequence}
  <2>1. PICK i \in 1 .. Len(q) : k = q[i].sequence
    BY <1>1 DEF Sequences
  <2>2. CASE i = 1
    BY <2>1, <2>2
  <2>3. CASE i # 1
    <3>1. i - 1 \in 1 .. Len(q) - 1 /\ (i - 1) + 1 = i
      BY <1>1, <2>3
    <3>2. Tail(q)[i - 1] = q[i]
      BY <1>1, <3>1
    <3> QED
      BY <1>1, <2>1, <3>1, <3>2 DEF Sequences
  <2> QED
    BY <2>2, <2>3
<1>4. ASSUME NEW k \in Sequences(Tail(q)) \cup {q[1].sequence} PROVE k \in Sequences(q)
  <2>1. CASE k = q[1].sequence
    BY <1>1, <2>1 DEF Sequences
  <2>2. CASE k \in Sequences(Tail(q))
    <3>1. PICK i \in 1 .. Len(q) - 1 : k = Tail(q)[i].sequence
      BY <1>1, <2>2 DEF Sequences
    <3>2. i + 1 \in 1 .. Len(q) /\ k = q[i + 1].sequence
      BY <1>1, <3>1
    <3> QED
      BY <1>1, <3>2 DEF Sequences
  <2> QED
    BY <2>1, <2>2
<1> QED
  BY <1>2, <1>3, <1>4

LEMMA FeedAudioTypes ==
  ASSUME TypeInv, FeedAudio
  PROVE  TypeInv'
<1>1. Drawing' = Drawing /\ UNCHANGED <<emulators, context, store, dispatcher, watch, video, bus,
                                        stage, overlapped>>
  BY DEF FeedAudio, audio_lagged, feed_audio, feed_audio_panics, feed_audio_panics, Drawing, Emu, pictures
<1>2. CASE audio_lagged
  <2>1. channel' = [channel EXCEPT !.lagged = FALSE] /\ UNCHANGED <<audio, rtp, status>>
    BY <1>2 DEF audio_lagged
  <2>2. channel \in [unread : Seq(Packet), lagged : BOOLEAN, missed : SUBSET Nat]
    BY DEF TypeInv, Types
  <2>3. /\ channel' \in [unread : Seq(Packet), lagged : BOOLEAN, missed : SUBSET Nat]
        /\ channel'.unread = channel.unread
    BY <2>1, <2>2
  <2>4. UNCHANGED <<audio, rtp, status>>
    BY <2>1
  <2> QED
    BY SMTT(30), <1>1, <2>3, <2>4 DEF TypeInv, Types
<1>3. ASSUME NEW fails \in BOOLEAN, feed_audio(fails) PROVE TypeInv'
  <2> DEFINE p == Head(channel.unread)
             base == IF audio.base_sequence = None THEN p.sequence ELSE audio.base_sequence
             fed == [p EXCEPT !.pts = Pts(base, p)]
  <2>1. /\ channel.unread # <<>> /\ channel.unread \in Seq(Packet) /\ base \in Nat /\ fed \in Packet
        /\ audio' = [at |-> IF fails THEN "ended" ELSE "recv", base_sequence |-> base,
                     packets |-> Append(audio.packets, fed)]
        /\ \/ channel'.unread = Tail(channel.unread) /\ channel'.missed = channel.missed
           \/ /\ channel'.unread = <<>>
              /\ channel'.missed = channel.missed \cup Sequences(Tail(channel.unread))
    BY <1>3, AudioFacts
  <2> HIDE DEF p, base, fed
  <2>2. audio' \in [at : {"unborn", "recv", "ended"}, base_sequence : Nat \cup {None},
                    packets : Seq(Packet)]
    <3>1. Append(audio.packets, fed) \in Seq(Packet)
      BY <2>1, Fields, AppendFacts DEF TypeInv
    <3> QED
      BY <2>1, <3>1
  <2>3. /\ Tail(channel.unread) \in Seq(Packet) /\ Len(Tail(channel.unread)) = Len(channel.unread) - 1
        /\ Sequences(Tail(channel.unread)) \in SUBSET Nat /\ Len(channel.unread) \in Nat \ {0}
    BY <2>1, TailFacts, TailSequences
  <2>4. channel' \in [unread : Seq(Packet), lagged : BOOLEAN, missed : SUBSET Nat]
        /\ Len(channel'.unread) <= Capacity
    <3>1. channel' = IF fails
                     THEN [unread |-> <<>>, lagged |-> FALSE,
                           missed |-> channel.missed \cup Sequences(Tail(channel.unread))]
                     ELSE [channel EXCEPT !.unread = Tail(channel.unread)]
      BY <1>3 DEF feed_audio, AudioEnds
    <3>2. /\ channel \in [unread : Seq(Packet), lagged : BOOLEAN, missed : SUBSET Nat]
          /\ Len(channel.unread) <= Capacity /\ Capacity \in Nat
      BY PipelineAssumption DEF TypeInv, Types
    <3>3. <<>> \in Seq(Packet) /\ Len(<<>>) = 0
      BY EmptySeq
    <3>4. CASE fails
      BY <2>3, <3>1, <3>2, <3>3, <3>4
    <3>5. CASE ~fails
      <4>1. /\ channel' \in [unread : Seq(Packet), lagged : BOOLEAN, missed : SUBSET Nat]
            /\ channel'.unread = Tail(channel.unread)
        BY <2>3, <3>1, <3>2, <3>5
      <4> QED
        BY <2>3, <3>2, <4>1
    <3> QED
      BY <3>4, <3>5
  <2>5. rtp' \in [Medium -> [inside : BOOLEAN, queue : 0..RtpCapacity, open : BOOLEAN, refused : Nat]]
    <3>1. rtp' = rtp \/ rtp' = Inside("audio")
      BY <1>3 DEF feed_audio
    <3>2. "audio" \in Medium
      BY DEF Medium
    <3>3. rtp \in [Medium -> [inside : BOOLEAN, queue : 0..RtpCapacity, open : BOOLEAN, refused : Nat]]
      BY DEF TypeInv, Types
    <3> QED
      BY <3>1, <3>2, <3>3, InsideFacts
  <2>6. status' \in [pipeline_state : {"starting", "playing", "error"}, dropped_video_frames : Nat]
    BY <1>3 DEF feed_audio, TypeInv, Types
  <2> QED
    BY <1>1, <2>2, <2>4, <2>5, <2>6 DEF TypeInv, Types
<1>4. CASE feed_audio_panics
  <2>1. /\ channel' = [unread |-> <<>>, lagged |-> FALSE,
                       missed |-> channel.missed \cup Sequences(channel.unread)]
        /\ audio' = [audio EXCEPT !.at = "ended"] /\ UNCHANGED <<rtp, status>>
    BY <1>4 DEF feed_audio_panics, AudioEnds
  <2>2. /\ Sequences(channel.unread) \in SUBSET Nat /\ channel.missed \in SUBSET Nat
        /\ Capacity \in Nat /\ <<>> \in Seq(Packet) /\ Len(<<>>) = 0
    BY <1>4, Fields, TailSequences, PipelineAssumption, EmptySeq DEF feed_audio_panics, TypeInv
  <2>3. /\ channel' \in [unread : Seq(Packet), lagged : BOOLEAN, missed : SUBSET Nat]
        /\ Len(channel'.unread) <= Capacity
    BY <2>1, <2>2
  <2>4. audio' \in [at : {"unborn", "recv", "ended"}, base_sequence : Nat \cup {None},
                    packets : Seq(Packet)]
    BY <2>1 DEF TypeInv, Types
  <2> QED
    BY SMTT(30), <1>1, <2>1, <2>3, <2>4 DEF TypeInv, Types
<1> QED
  BY <1>2, <1>3, <1>4 DEF FeedAudio

\* What the way out of GStreamer changes.
LEMMA OutFacts ==
  ASSUME TypeInv, Out
  PROVE  /\ rtp' \in [Medium -> [inside : BOOLEAN, queue : 0..RtpCapacity, open : BOOLEAN, refused : Nat]]
         /\ status' \in [pipeline_state : {"starting", "playing", "error"}, dropped_video_frames : Nat]
         /\ status'.dropped_video_frames - rtp'["video"].refused
              = status.dropped_video_frames - rtp["video"].refused
         /\ UNCHANGED <<emulators, context, pictures, sounds, stage, emits, overlapped>>
<1>0. /\ rtp \in [Medium -> [inside : BOOLEAN, queue : 0..RtpCapacity, open : BOOLEAN, refused : Nat]]
      /\ status \in [pipeline_state : {"starting", "playing", "error"}, dropped_video_frames : Nat]
      /\ "video" \in Medium /\ RtpCapacity \in Nat /\ Medium = {"video", "audio"}
  BY PipelineAssumption DEF TypeInv, Types, Medium
<1>1. ASSUME NEW m \in Medium, install_appsink_bridge(m)
      PROVE  /\ rtp' \in [Medium -> [inside : BOOLEAN, queue : 0..RtpCapacity, open : BOOLEAN, refused : Nat]]
             /\ status' \in [pipeline_state : {"starting", "playing", "error"}, dropped_video_frames : Nat]
             /\ status'.dropped_video_frames - rtp'["video"].refused
                  = status.dropped_video_frames - rtp["video"].refused
  <2> DEFINE taken == rtp[m].open /\ rtp[m].queue < RtpCapacity
             r == [inside |-> FALSE, open |-> rtp[m].open,
                   queue |-> IF taken THEN rtp[m].queue + 1 ELSE rtp[m].queue,
                   refused |-> IF taken THEN rtp[m].refused ELSE rtp[m].refused + 1]
  <2>1. /\ rtp' = [rtp EXCEPT ![m] = r]
        /\ status' = IF taken \/ m = "audio" THEN status
                     ELSE [status EXCEPT !.dropped_video_frames = status.dropped_video_frames + 1]
    BY <1>1, <1>0 DEF install_appsink_bridge
  <2>2. /\ rtp[m].queue \in 0..RtpCapacity /\ rtp[m].refused \in Nat /\ rtp[m].open \in BOOLEAN
        /\ rtp["video"].refused \in Nat /\ status.dropped_video_frames \in Nat
    BY <1>0
  <2>3. CASE taken
    <3>1. r = [inside |-> FALSE, open |-> rtp[m].open, queue |-> rtp[m].queue + 1, refused |-> rtp[m].refused]
      BY <2>3
    <3>2. rtp[m].queue + 1 \in 0..RtpCapacity
      BY <1>0, <2>2, <2>3
    <3> HIDE DEF r
    <3>3. rtp' \in [Medium -> [inside : BOOLEAN, queue : 0..RtpCapacity, open : BOOLEAN, refused : Nat]]
      BY <1>0, <2>1, <2>2, <3>1, <3>2
    <3>4. rtp'["video"].refused = rtp["video"].refused
      BY <1>0, <2>1, <3>1
    <3>5. status' = status
      BY <2>1, <2>3
    <3> HIDE DEF taken
    <3> QED
      BY <1>0, <3>3, <3>4, <3>5
  <2>4. CASE ~taken
    <3>1. r = [inside |-> FALSE, open |-> rtp[m].open, queue |-> rtp[m].queue, refused |-> rtp[m].refused + 1]
      BY <2>4
    <3> HIDE DEF r
    <3>2. rtp' \in [Medium -> [inside : BOOLEAN, queue : 0..RtpCapacity, open : BOOLEAN, refused : Nat]]
      BY <1>0, <2>1, <2>2, <3>1
    <3>3. CASE m = "audio"
      <4>1. rtp'["video"].refused = rtp["video"].refused
        BY <1>0, <2>1, <3>1, <3>3
      <4>2. status' = status
        BY <2>1, <3>3
      <4> HIDE DEF taken
      <4> QED
        BY <1>0, <3>2, <4>1, <4>2
    <3>4. CASE m = "video"
      <4>1. rtp'["video"].refused = rtp["video"].refused + 1
        BY <1>0, <2>1, <3>1, <3>4
      <4>2. status' = [status EXCEPT !.dropped_video_frames = status.dropped_video_frames + 1]
        BY <2>1, <2>4, <3>4
      <4> HIDE DEF taken
      <4>3. /\ status' \in [pipeline_state : {"starting", "playing", "error"}, dropped_video_frames : Nat]
            /\ status'.dropped_video_frames = status.dropped_video_frames + 1
        BY <1>0, <2>2, <4>2
      <4> QED
        BY <2>2, <3>2, <4>1, <4>3
    <3> QED
      BY <1>0, <3>3, <3>4
  <2> QED
    BY <2>3, <2>4
<1>2. ASSUME NEW m \in Medium, NEW fails \in BOOLEAN, drain_rtp_packets(m, fails)
      PROVE  /\ rtp' \in [Medium -> [inside : BOOLEAN, queue : 0..RtpCapacity, open : BOOLEAN, refused : Nat]]
             /\ status' \in [pipeline_state : {"starting", "playing", "error"}, dropped_video_frames : Nat]
             /\ status'.dropped_video_frames - rtp'["video"].refused
                  = status.dropped_video_frames - rtp["video"].refused
  <2>1. /\ status' \in [pipeline_state : {"starting", "playing", "error"}, dropped_video_frames : Nat]
        /\ status'.dropped_video_frames = status.dropped_video_frames
    BY <1>0, <1>2 DEF drain_rtp_packets
  <2>2. /\ rtp' = [rtp EXCEPT ![m] = [rtp[m] EXCEPT !.open = FALSE, !.queue = 0]]
           \/ rtp' = [rtp EXCEPT ![m] = [rtp[m] EXCEPT !.queue = rtp[m].queue - 1]]
        /\ rtp[m].queue > 0
    BY <1>0, <1>2 DEF drain_rtp_packets
  <2>3. /\ rtp[m] \in [inside : BOOLEAN, queue : 0..RtpCapacity, open : BOOLEAN, refused : Nat]
        /\ rtp[m].queue \in 0..RtpCapacity
    BY <1>0
  <2>4. rtp[m].queue - 1 \in 0..RtpCapacity
    BY <1>0, <2>2, <2>3
  <2>5. /\ [rtp[m] EXCEPT !.queue = rtp[m].queue - 1]
             \in [inside : BOOLEAN, queue : 0..RtpCapacity, open : BOOLEAN, refused : Nat]
        /\ [rtp[m] EXCEPT !.queue = rtp[m].queue - 1].refused = rtp[m].refused
    BY <2>3, <2>4
  <2>6. /\ [rtp[m] EXCEPT !.open = FALSE, !.queue = 0]
             \in [inside : BOOLEAN, queue : 0..RtpCapacity, open : BOOLEAN, refused : Nat]
        /\ [rtp[m] EXCEPT !.open = FALSE, !.queue = 0].refused = rtp[m].refused
    <3>1. 0 \in 0..RtpCapacity
      BY <1>0
    <3> DEFINE closed == FALSE
    <3>2. closed \in BOOLEAN
      OBVIOUS
    <3> HIDE DEF closed
    <3>3. /\ [rtp[m] EXCEPT !.open = closed, !.queue = 0]
               \in [inside : BOOLEAN, queue : 0..RtpCapacity, open : BOOLEAN, refused : Nat]
          /\ [rtp[m] EXCEPT !.open = closed, !.queue = 0].refused = rtp[m].refused
      BY <2>3, <3>1, <3>2
    <3> QED
      BY <3>3 DEF closed
  <2>7. PICK r : /\ r \in [inside : BOOLEAN, queue : 0..RtpCapacity, open : BOOLEAN, refused : Nat]
                 /\ r.refused = rtp[m].refused
                 /\ rtp' = [rtp EXCEPT ![m] = r]
    BY <2>2, <2>5, <2>6
  <2>8. /\ rtp' \in [Medium -> [inside : BOOLEAN, queue : 0..RtpCapacity, open : BOOLEAN, refused : Nat]]
        /\ rtp'["video"].refused = rtp["video"].refused
    BY <1>0, <2>7
  <2> QED
    BY <2>1, <2>8
<1>3. UNCHANGED <<emulators, context, pictures, sounds, stage, emits, overlapped>>
  BY DEF Out, install_appsink_bridge, drain_rtp_packets
<1> QED
  BY <1>1, <1>2, <1>3 DEF Out

LEMMA RestTypes ==
  ASSUME TypeInv, start \/ Out \/ shut_down \/ UNCHANGED vars
  PROVE  TypeInv'
<1> USE DEF pictures, sounds
<1>1. CASE start
  <2>1. /\ status' = [status EXCEPT !.pipeline_state = "playing"]
        /\ video' = [video EXCEPT !.at = "changed"]
        /\ audio' = [audio EXCEPT !.at = "recv"]
        /\ rtp' = [m \in Medium |-> [rtp[m] EXCEPT !.open = TRUE]]
        /\ stage' = "serving"
        /\ UNCHANGED <<emulators, context, store, dispatcher, watch, bus, channel, emits, overlapped>>
    BY <1>1 DEF start
  <2>2. rtp' \in [Medium -> [inside : BOOLEAN, queue : 0..RtpCapacity, open : BOOLEAN, refused : Nat]]
    <3>1. \A m \in Medium : rtp[m] \in [inside : BOOLEAN, queue : 0..RtpCapacity, open : BOOLEAN, refused : Nat]
      BY DEF TypeInv, Types
    <3> QED
      BY <2>1, <3>1
  <2>3. /\ video' \in [at : {"unborn", "changed", "borrow", "ended"}, seen : Nat,
                       last_sequence : -1..MaxFrames, frames : Seq(Frame)]
        /\ video'.seen = video.seen
    BY <2>1 DEF TypeInv, Types
  <2>4. /\ audio' \in [at : {"unborn", "recv", "ended"}, base_sequence : Nat \cup {None},
                       packets : Seq(Packet)]
        /\ status' \in [pipeline_state : {"starting", "playing", "error"}, dropped_video_frames : Nat]
    BY <2>1 DEF TypeInv, Types
  <2>5. /\ Drawing' = Drawing
        /\ UNCHANGED <<emulators, context, store, dispatcher, watch, bus, channel, emits, overlapped>>
        /\ stage' \in {"starting", "serving", "stopping"}
    BY <2>1 DEF Drawing, Emu
  <2> QED
    BY <2>2, <2>3, <2>4, <2>5 DEF TypeInv, Types
<1>2. CASE Out
  <2>1. Drawing' = Drawing /\ UNCHANGED <<emulators, context, pictures, sounds, stage, emits, overlapped>>
    BY <1>2, OutFacts DEF Drawing, Emu
  <2> QED
    BY SMTT(30), <1>2, <2>1, OutFacts DEF TypeInv, Types
<1>3. CASE shut_down
  <2>1. Drawing' = Drawing /\ UNCHANGED <<emulators, context, pictures, sounds, rtp, status, emits, overlapped>>
    BY <1>3 DEF shut_down, Drawing, Emu
  <2> QED
    BY SMTT(30), <1>3, <2>1 DEF TypeInv, Types, shut_down
<1>4. CASE UNCHANGED vars
  <2>1. Drawing' = Drawing
    BY <1>4 DEF vars, Drawing, Emu
  <2> QED
    BY <1>4, <2>1 DEF TypeInv, Types, vars
<1> QED
  BY <1>1, <1>2, <1>3, <1>4

LEMMA NextTypes ==
  ASSUME TypeInv, [Next]_vars
  PROVE  TypeInv'
<1>1. CASE EmulatorStep
  BY <1>1, EmulatorTypes, AskTypes, RefreshTypes, PublishTypes, ReadbackTypes, PushTypes,
     ReadRateTypes, SendTypes DEF EmulatorStep
<1>2. CASE Dispatch
  BY <1>2, DispatchTypes
<1>3. CASE FeedVideo
  BY <1>3, FeedVideoTypes
<1>4. CASE FeedAudio
  BY <1>4, FeedAudioTypes
<1>5. CASE start \/ Out \/ shut_down \/ UNCHANGED vars
  BY <1>5, RestTypes
<1> QED
  BY <1>1, <1>2, <1>3, <1>4, <1>5 DEF Next

LEMMA TypesAreRight == Spec => []TypeInv
<1>1. TypeInv /\ [Next]_vars => TypeInv'
  BY NextTypes
<1> QED
  BY <1>1, InitTypes, PTL DEF Spec

(* Every part of the pipeline holds what its type says: a picture being    *)
(* drawn has a number left, the channel is never over its capacity, nor    *)
(* the way out of GStreamer, and nothing is held that was not cut.         *)
THEOREM TypeCorrect == Spec => []TypeOK
<1>1. TypeInv => TypeOK
  <2> SUFFICES ASSUME TypeInv PROVE TypeOK
    OBVIOUS
  <2> USE DEF TypeInv, Types
  <2>1. \A e \in Emulator :
          /\ emulators[e].at \in {"out", "wired", "loaded", "running", "drawing", "cut", "sending", "gone"}
          /\ emulators[e].byte \in 0..2 /\ emulators[e].told \in BOOLEAN
    BY DEF EmulatorState, Place
  <2>2. \A f \in Frame : FrameOK(f)
    BY DEF Frame, FrameOK
  <2>3. /\ context.hw_context \in BOOLEAN /\ context.wired \in BOOLEAN /\ context.format \in Format
        /\ store.next_sequence \in 0..MaxFrames /\ FrameOK(store.latest)
        /\ dispatcher.at \in {"loop", "waiting", "sending", "ended"} /\ FrameOK(dispatcher.frame)
        /\ watch.version \in Nat /\ FrameOK(watch.value)
    BY <2>2 DEF Context
  <2>4. video.at \in {"unborn", "changed", "borrow", "ended"} /\ video.seen \in 0..watch.version
    <3>1. video.seen \in Nat /\ watch.version \in Nat /\ video.seen <= watch.version
      BY Fields
    <3>2. video.at \in {"unborn", "changed", "borrow", "ended"}
      OBVIOUS
    <3> QED
      BY <3>1, <3>2
  <2>5. /\ bus.pending \in 0..(Chunk - 1) /\ bus.pushed \in 0..MaxSamples
        /\ Len(channel.unread) <= Capacity
        /\ audio.at \in {"unborn", "recv", "ended"}
    OBVIOUS
  <2>6. /\ \A m \in Medium : rtp[m].queue \in 0..RtpCapacity
        /\ status.pipeline_state \in {"starting", "playing", "error"}
        /\ stage \in {"starting", "serving", "stopping"}
    OBVIOUS
  <2> HIDE DEF TypeInv
  <2> QED
    BY <2>1, <2>3, <2>4, <2>5, <2>6 DEF TypeOK
<1> QED
  BY <1>1, TypesAreRight, PTL

-----------------------------------------------------------------------------
(* Pictures are announced as drawn.                                        *)

\* The byte of a format announced to libretro's numbers comes out as drawn.
LEMMA NumbersAgree ==
  ASSUME NEW raw \in 0..2
  PROVE  build_video_caps(as_u8(from_libretro(raw))) = Drawn(raw)
<1>1. CASE raw = 0
  BY <1>1 DEF as_u8, from_libretro, build_video_caps, Drawn
<1>2. CASE raw = 1
  BY <1>2 DEF as_u8, from_libretro, build_video_caps, Drawn
<1>3. CASE raw = 2
  BY <1>3 DEF as_u8, from_libretro, build_video_caps, Drawn
<1> QED
  BY <1>1, <1>2, <1>3

LEMMA NoFrameAnnounced == Announces(NoFrame.byte, NoFrame.drawn, NoFrame.told)
  BY DEF NoFrame, Announces

LEMMA InitFormats == Init => FormatInv
<1> SUFFICES ASSUME Init PROVE EmulatorsAnnounce /\ PicturesAnnounce /\ Fed
  BY DEF FormatInv
<1>1. EmulatorsAnnounce
  BY DEF Init, Announces, EmulatorsAnnounce, Wired, Emu
<1>2. PicturesAnnounce
  BY NoFrameAnnounced DEF Init, PicturesAnnounce
<1>3. video.frames = <<>>
  BY DEF Init
<1>4. Fed
  <2>1. DOMAIN video.frames = {}
    BY <1>3
  <2> QED
    BY <2>1 DEF Fed
<1> QED
  BY <1>1, <1>2, <1>4

LEMMA EmulatorStepFormats ==
  ASSUME TypeInv, EmulatorsAnnounce, PicturesAnnounce, NEW e \in Emulator, ~overlapped',
         \/ wire(e) \/ set_pixel_format(e) \/ keep_default_format(e) \/ set_hw_render(e)
         \/ set_sample_rate_hz(e) \/ clear_callback_context(e)
         \/ video_refresh(e) \/ publish(e) \/ read_hw_framebuffer(e)
  PROVE  EmulatorsAnnounce' /\ PicturesAnnounce' /\ UNCHANGED video
<1>0. emulators \in [Emulator -> EmulatorState] /\ context \in Context
  BY DEF TypeInv, Types
<1> USE DEF EmulatorsAnnounce, Wired, Emu, pictures
<1>1. CASE wire(e)
  <2>1. /\ emulators' = [emulators EXCEPT ![e].at = "wired"] /\ emulators[e].at = "out"
        /\ \A x \in Emulator \ {e} : ~Wired(x)
        /\ UNCHANGED <<store, dispatcher, watch, video>>
    BY <1>1 DEF wire, Goes
  <2>2. \A x \in Emulator : /\ emulators'[x].at = IF x = e THEN "wired" ELSE emulators[x].at
                            /\ emulators'[x].told = emulators[x].told
    BY <1>0, <2>1 DEF EmulatorState
  <2> QED
    BY <2>1, <2>2 DEF PicturesAnnounce, Announces
<1>2. CASE set_pixel_format(e)
  <2>1. /\ emulators' = [emulators EXCEPT ![e].at = "loaded", ![e].told = TRUE]
        /\ emulators[e].at = "wired" /\ context'.format = from_libretro(RawFormat[e])
        /\ UNCHANGED <<store, dispatcher, watch, video>>
    BY <1>0, <1>2 DEF set_pixel_format, Context
  <2>2. \A x \in Emulator : /\ emulators'[x].at = IF x = e THEN "loaded" ELSE emulators[x].at
                            /\ x # e => emulators'[x].told = emulators[x].told
    BY <1>0, <2>1 DEF EmulatorState
  <2>3. \A x \in Emulator : x # e => ~Wired(x)
    BY <2>1
  <2>4. build_video_caps(as_u8(context'.format)) = Drawn(RawFormat[e])
    BY <2>1, NumbersAgree, FormatFacts
  <2>5. \A told : Announces(as_u8(context'.format), Drawn(RawFormat[e]), told)
    BY <2>4 DEF Announces
  <2>6. /\ emulators'[e].at = "loaded"
        /\ \A x \in Emulator \ {e} : /\ ~Wired(x)' /\ emulators'[x].at = emulators[x].at
                                     /\ emulators'[x].told = emulators[x].told
    BY <2>2, <2>3
  <2>7. Announces(as_u8(context'.format), Drawn(RawFormat[e]), emulators'[e].told)
    BY <2>5
  <2>8. EmulatorsAnnounce'
    BY <2>6, <2>7
  <2>9. PicturesAnnounce'
    BY <2>1 DEF PicturesAnnounce
  <2> QED
    BY <2>1, <2>8, <2>9
<1>3. CASE keep_default_format(e) \/ set_sample_rate_hz(e)
  <2>1. PICK at \in {"loaded", "running"} :
          emulators' = [emulators EXCEPT ![e].at = at]
    BY <1>3 DEF keep_default_format, set_sample_rate_hz, Goes
  <2>2. /\ emulators[e].at \in {"wired", "loaded"}
        /\ UNCHANGED <<context, store, dispatcher, watch, video>>
    BY <1>3 DEF keep_default_format, set_sample_rate_hz
  <2>3. \A x \in Emulator : /\ emulators'[x].at = IF x = e THEN at ELSE emulators[x].at
                            /\ emulators'[x].told = emulators[x].told
    BY <1>0, <2>1 DEF EmulatorState
  <2>4. EmulatorsAnnounce'
    BY <2>2, <2>3
  <2> QED
    BY <2>2, <2>4 DEF PicturesAnnounce
<1>4. CASE set_hw_render(e)
  <2>1. context'.format = context.format /\ UNCHANGED <<emulators, store, dispatcher, watch, video>>
    BY <1>0, <1>4 DEF set_hw_render, Context
  <2> QED
    BY <2>1 DEF PicturesAnnounce
<1>5. CASE clear_callback_context(e)
  <2>1. /\ emulators' = [emulators EXCEPT ![e].at = "gone"] /\ emulators[e].at \in {"wired", "loaded", "running"}
        /\ UNCHANGED <<store, dispatcher, watch, video>>
    BY <1>5 DEF clear_callback_context, Goes
  <2>2. \A x \in Emulator : /\ emulators'[x].at = IF x = e THEN "gone" ELSE emulators[x].at
                            /\ emulators'[x].told = emulators[x].told
    BY <1>0, <2>1 DEF EmulatorState
  <2>3. \A x \in Emulator : x # e => ~Wired(x)
    BY <2>1
  <2> QED
    BY <2>1, <2>2, <2>3 DEF PicturesAnnounce
<1>6. CASE video_refresh(e)
  <2>1. /\ emulators' = [emulators EXCEPT ![e].at = "drawing", ![e].byte = as_u8(context.format)]
        /\ emulators[e].at = "running"
        /\ UNCHANGED <<context, store, dispatcher, watch, video>>
    BY <1>6 DEF video_refresh
  <2>2. \A x \in Emulator : /\ emulators'[x].at = IF x = e THEN "drawing" ELSE emulators[x].at
                            /\ emulators'[x].byte = IF x = e THEN as_u8(context.format) ELSE emulators[x].byte
                            /\ emulators'[x].told = emulators[x].told
    BY <1>0, <2>1 DEF EmulatorState
  <2>3. /\ Announces(as_u8(context.format), Drawn(RawFormat[e]), emulators[e].told)
        /\ \A x \in Emulator : x # e => ~Wired(x)
    BY <2>1
  <2>4. /\ emulators'[e].at = "drawing" /\ emulators'[e].told = emulators[e].told
        /\ emulators'[e].byte = as_u8(context.format)
        /\ \A x \in Emulator : x # e => ~Wired(x)'
        /\ UNCHANGED context
    BY ZenonT(30), <2>1, <2>2, <2>3
  <2>5. Announces(as_u8(context.format), Drawn(RawFormat[e]), emulators'[e].told)
    BY <2>3, <2>4
  <2>6. \A x \in Emulator \ {e} : /\ emulators'[x].at = emulators[x].at
                                  /\ emulators'[x].told = emulators[x].told
    BY <2>2
  <2>7. EmulatorsAnnounce'
    BY <2>4, <2>5, <2>6
  <2> QED
    BY <2>1, <2>7 DEF PicturesAnnounce
<1>7. CASE publish(e)
  <2>1. /\ emulators' = [emulators EXCEPT ![e].at = "running"] /\ emulators[e].at = "drawing"
        /\ UNCHANGED <<context, dispatcher, watch, video>>
    BY <1>7 DEF publish, Goes
  <2>2. /\ store'.latest.byte = emulators[e].byte /\ store'.latest.drawn = Drawn(RawFormat[e])
        /\ store'.latest.told = emulators[e].told
    BY <1>7 DEF publish, Published, NoFrame
  <2>3. \A x \in Emulator : /\ emulators'[x].at = IF x = e THEN "running" ELSE emulators[x].at
                            /\ emulators'[x].byte = emulators[x].byte
                            /\ emulators'[x].told = emulators[x].told
    BY <1>0, <2>1 DEF EmulatorState
  <2>4. EmulatorsAnnounce'
    BY <2>1, <2>3
  <2>5. PicturesAnnounce'
    BY <2>1, <2>2 DEF PicturesAnnounce
  <2> QED
    BY <2>1, <2>4, <2>5
<1>8. CASE read_hw_framebuffer(e)
  <2>1. UNCHANGED <<emulators, context, dispatcher, watch, video>> /\ ~store'.latest.told
    BY <1>8, ReadbackTypes DEF read_hw_framebuffer
  <2> QED
    BY <2>1 DEF PicturesAnnounce, Announces
<1> QED
  BY <1>1, <1>2, <1>3, <1>4, <1>5, <1>6, <1>7, <1>8

\* Sound does not concern the pictures: its emulators are and stay running.
LEMMA SoundStepPlaces ==
  ASSUME TypeInv, NEW e \in Emulator,
         (\E n \in Batch : push_samples(e, n)) \/ read_rate(e) \/ send(e)
  PROVE  /\ \A x \in Emulator : x # e => emulators'[x] = emulators[x]
         /\ emulators[e].at \in {"running", "cut", "sending"} /\ emulators'[e].at \in {"running", "cut", "sending"}
         /\ emulators'[e].byte = emulators[e].byte /\ emulators'[e].told = emulators[e].told
         /\ UNCHANGED <<context, store, dispatcher, watch, video, overlapped, rtp, status>>
<1>0. emulators \in [Emulator -> EmulatorState]
  BY DEF TypeInv, Types
<1>1. ASSUME NEW n \in Batch, push_samples(e, n)
      PROVE  /\ \A x \in Emulator : x # e => emulators'[x] = emulators[x]
             /\ emulators[e].at = "running" /\ emulators'[e].at \in {"running", "cut", "sending"}
             /\ emulators'[e].byte = emulators[e].byte /\ emulators'[e].told = emulators[e].told
             /\ UNCHANGED <<context, store, dispatcher, watch, video, overlapped, rtp, status>>
  <2> DEFINE packets == Cut(bus.pending + n, bus.next_sequence, e)
  <2>1. /\ emulators[e].at = "running"
        /\ emulators' = IF packets = <<>> THEN emulators
                        ELSE [emulators EXCEPT ![e].at = "cut", ![e].packets = packets]
        /\ UNCHANGED <<context, store, dispatcher, watch, video, overlapped, rtp, status>>
    BY <1>1 DEF push_samples, Emu, pictures
  <2> HIDE DEF packets
  <2> QED
    BY <1>0, <2>1 DEF EmulatorState
<1>2. CASE read_rate(e)
  BY <1>0, <1>2 DEF read_rate, Emu, EmulatorState, pictures, sounds
<1>3. CASE send(e)
  BY <1>3, SendFacts DEF send, Emu, pictures
<1> QED
  BY <1>1, <1>2, <1>3

LEMMA SoundStepFormats ==
  ASSUME TypeInv, EmulatorsAnnounce, PicturesAnnounce, NEW e \in Emulator,
         (\E n \in Batch : push_samples(e, n)) \/ read_rate(e) \/ send(e)
  PROVE  EmulatorsAnnounce' /\ PicturesAnnounce' /\ UNCHANGED <<video, overlapped>>
<1>1. /\ \A x \in Emulator : x # e => emulators'[x] = emulators[x]
      /\ emulators[e].at \in {"running", "cut", "sending"} /\ emulators'[e].at \in {"running", "cut", "sending"}
      /\ emulators'[e].told = emulators[e].told
      /\ UNCHANGED <<context, store, dispatcher, watch, video, overlapped>>
  BY SoundStepPlaces
<1>2. EmulatorsAnnounce'
  BY <1>1 DEF EmulatorsAnnounce, Wired, Emu
<1>3. PicturesAnnounce'
  BY <1>1 DEF PicturesAnnounce
<1> QED
  BY <1>1, <1>2, <1>3

LEMMA OtherStepFormats ==
  ASSUME TypeInv, EmulatorsAnnounce, PicturesAnnounce, Fed,
         Dispatch \/ FeedVideo \/ FeedAudio \/ start \/ Out \/ shut_down \/ UNCHANGED vars
  PROVE  EmulatorsAnnounce' /\ PicturesAnnounce' /\ Fed' /\ UNCHANGED overlapped
<1>1. UNCHANGED <<emulators, context, store, overlapped>>
  BY OutFacts DEF Dispatch, dispatcher_loop, wait_for_next_returns, dispatch,
    FeedVideo, video_changed, video_closed, feed_video, FeedAudio, audio_lagged, feed_audio, feed_audio_panics,
    start, shut_down, vars, pictures
<1>2. EmulatorsAnnounce'
  BY <1>1 DEF EmulatorsAnnounce, Wired, Emu
<1>3. CASE Dispatch
  <2>1. /\ dispatcher'.frame \in {dispatcher.frame, store.latest, NoFrame}
        /\ watch'.value \in {watch.value, dispatcher.frame} /\ UNCHANGED video
    <3>1. CASE dispatcher_loop
      BY <3>1 DEF dispatcher_loop, TypeInv, Types
    <3>2. CASE wait_for_next_returns
      BY <3>2 DEF wait_for_next_returns, TypeInv, Types
    <3>3. CASE dispatch
      BY <3>3 DEF dispatch
    <3> QED
      BY <1>3, <3>1, <3>2, <3>3 DEF Dispatch
  <2>2. PicturesAnnounce'
    BY <1>1, <2>1, NoFrameAnnounced DEF PicturesAnnounce
  <2>3. Fed'
    BY <2>1 DEF Fed
  <2> QED
    BY <1>1, <1>2, <2>2, <2>3
<1>4. CASE FeedVideo
  <2>1. UNCHANGED <<dispatcher, watch>>
    BY <1>4 DEF FeedVideo, video_changed, video_closed, feed_video
  <2>2. PicturesAnnounce'
    BY <1>1, <2>1 DEF PicturesAnnounce
  <2>3. Fed'
    <3>1. CASE video_changed \/ video_closed
      <4>1. video'.frames = video.frames
        BY <3>1 DEF video_changed, video_closed, TypeInv, Types
      <4> QED
        BY <4>1 DEF Fed
    <3>2. ASSUME NEW fails \in BOOLEAN, feed_video(fails) PROVE Fed'
      <4>1. PICK f \in Frame :
              /\ f.byte = watch.value.byte /\ f.drawn = watch.value.drawn /\ f.told = watch.value.told
              /\ video' = [video EXCEPT !.at = IF fails THEN "ended" ELSE "changed",
                                        !.last_sequence = f.sequence, !.frames = Append(video.frames, f)]
        BY <3>2, FeedFacts
      <4>2. Announces(f.byte, f.drawn, f.told)
        BY <4>1 DEF PicturesAnnounce
      <4>3. video'.frames = Append(video.frames, f)
        BY <4>1 DEF TypeInv, Types
      <4>4. /\ video.frames \in Seq(Frame) /\ Len(video.frames) \in Nat
            /\ DOMAIN video.frames = 1 .. Len(video.frames)
        BY Fields, SeqFacts DEF TypeInv
      <4>5. /\ DOMAIN video'.frames = 1 .. Len(video.frames) + 1
            /\ \A i \in 1 .. Len(video.frames) + 1 :
                 video'.frames[i] = IF i = Len(video.frames) + 1 THEN f ELSE video.frames[i]
        BY <4>3, <4>4, AppendFacts
      <4> QED
        <5> SUFFICES ASSUME NEW i \in DOMAIN video'.frames
                     PROVE  Announces(video'.frames[i].byte, video'.frames[i].drawn, video'.frames[i].told)
          BY DEF Fed
        <5>1. CASE i = Len(video.frames) + 1
          BY <4>2, <4>5, <5>1
        <5>2. CASE i # Len(video.frames) + 1
          BY <4>4, <4>5, <5>2 DEF Fed
        <5> QED
          BY <5>1, <5>2
    <3> QED
      BY <1>4, <3>1, <3>2 DEF FeedVideo
  <2> QED
    BY <1>1, <1>2, <2>2, <2>3
<1>5. CASE FeedAudio \/ start \/ Out \/ shut_down \/ UNCHANGED vars
  <2>1. UNCHANGED <<store, dispatcher, watch>> /\ video'.frames = video.frames
    BY <1>5, OutFacts DEF FeedAudio, audio_lagged, feed_audio, feed_audio_panics, start, shut_down, vars, pictures, TypeInv, Types
  <2>2. PicturesAnnounce'
    BY <2>1 DEF PicturesAnnounce
  <2>3. Fed'
    BY <2>1 DEF Fed
  <2> QED
    BY <1>1, <1>2, <2>2, <2>3
<1> QED
  BY <1>3, <1>4, <1>5

LEMMA NextFormats ==
  ASSUME TypeInv, FormatInv, [Next]_vars
  PROVE  FormatInv'
<1> SUFFICES ASSUME ~overlapped' PROVE EmulatorsAnnounce' /\ PicturesAnnounce' /\ Fed'
  BY DEF FormatInv
<1>1. CASE ~overlapped
  <2>0. EmulatorsAnnounce /\ PicturesAnnounce /\ Fed
    BY <1>1 DEF FormatInv
  <2>1. CASE EmulatorStep
    <3>1. PICK e \in Emulator :
            \/ wire(e) \/ set_pixel_format(e) \/ keep_default_format(e) \/ set_hw_render(e)
            \/ set_sample_rate_hz(e) \/ clear_callback_context(e)
            \/ video_refresh(e) \/ publish(e) \/ read_hw_framebuffer(e)
            \/ \E n \in Batch : push_samples(e, n)
            \/ read_rate(e) \/ send(e)
      BY <2>1 DEF EmulatorStep
    <3>2. EmulatorsAnnounce' /\ PicturesAnnounce' /\ UNCHANGED video
      BY <2>0, <3>1, EmulatorStepFormats, SoundStepFormats
    <3> QED
      BY <2>0, <3>2 DEF Fed
  <2>2. CASE Dispatch \/ FeedVideo \/ FeedAudio \/ start \/ Out \/ shut_down \/ UNCHANGED vars
    BY <2>0, <2>2, OtherStepFormats
  <2> QED
    BY <2>1, <2>2 DEF Next
<1>2. CASE overlapped
  <2>1. overlapped'
    BY <1>2 DEF Next, EmulatorStep, wire, set_pixel_format, keep_default_format, set_sample_rate_hz,
      set_hw_render, clear_callback_context, video_refresh, publish, read_hw_framebuffer, push_samples, read_rate, send,
      Dispatch, dispatcher_loop, wait_for_next_returns, dispatch,
      FeedVideo, video_changed, video_closed, feed_video, FeedAudio, audio_lagged, feed_audio, feed_audio_panics,
      start, Out, install_appsink_bridge, drain_rtp_packets, shut_down, vars
  <2> QED
    BY <2>1
<1> QED
  BY <1>1, <1>2

(* While no two emulators are wired at once, every picture whose core      *)
(* announced the format it drew in is pushed into GStreamer as that        *)
(* format, through all three numberings of the formats.                    *)
THEOREM PicturesAreAnnouncedAsDrawn == Spec => []PicturesAreRight
<1>1. FormatInv => PicturesAreRight
  BY DEF FormatInv, Fed, Announces, PicturesAreRight
<1>2. Init => TypeInv /\ FormatInv
  BY InitTypes, InitFormats
<1>3. TypeInv /\ FormatInv /\ [Next]_vars => (TypeInv /\ FormatInv)'
  BY NextTypes, NextFormats
<1> QED
  BY <1>1, <1>2, <1>3, PTL DEF Spec

-----------------------------------------------------------------------------
(* Pictures are fed in order and the skipped ones are counted.             *)

\* The numbers OrderInv compares.
LEMMA OrderFields ==
  ASSUME TypeInv
  PROVE  /\ store.latest.sequence \in -1..MaxFrames /\ dispatcher.frame.sequence \in -1..MaxFrames
         /\ dispatcher.last_sequence \in -1..MaxFrames /\ watch.value.sequence \in -1..MaxFrames
         /\ video.last_sequence \in -1..MaxFrames /\ watch.version \in Nat /\ video.seen \in Nat
         /\ MaxFrames \in Nat
         /\ video.frames \in Seq(Frame) /\ Len(video.frames) \in Nat
         /\ DOMAIN video.frames = 1 .. Len(video.frames)
         /\ \A i \in 1 .. Len(video.frames) : video.frames[i].sequence \in -1..MaxFrames
         /\ video.frames = <<>> <=> Len(video.frames) = 0
         /\ video.seen <= watch.version /\ store.latest.sequence = store.next_sequence - 1
         /\ store.next_sequence \in Nat
<1>1. /\ store.latest \in Frame /\ dispatcher.frame \in Frame /\ watch.value \in Frame
      /\ dispatcher.last_sequence \in -1..MaxFrames /\ store.next_sequence \in Nat
      /\ video.last_sequence \in -1..MaxFrames /\ watch.version \in Nat /\ video.seen \in Nat
      /\ video.frames \in Seq(Frame) /\ MaxFrames \in Nat
      /\ video.seen <= watch.version /\ store.latest.sequence = store.next_sequence - 1
  BY SMTT(30), Fields DEF TypeInv
<1>2. /\ Len(video.frames) \in Nat /\ DOMAIN video.frames = 1 .. Len(video.frames)
      /\ \A i \in 1 .. Len(video.frames) : video.frames[i] \in Frame
      /\ video.frames = <<>> <=> Len(video.frames) = 0
  BY <1>1, SeqFacts
<1>3. \A f \in Frame : f.sequence \in -1..MaxFrames
  BY DEF Frame
<1> QED
  BY <1>1, <1>2, <1>3

LEMMA InitOrder == Init => OrderInv /\ Counted
<1> SUFFICES ASSUME Init PROVE OrderInv /\ Counted
  OBVIOUS
<1>1. /\ video = [at |-> "unborn", seen |-> 0, last_sequence |-> None, frames |-> <<>>]
      /\ dispatcher.at = "loop" /\ dispatcher.last_sequence = None
      /\ store.latest.sequence = None /\ watch.version = 0 /\ watch.value.sequence = None
      /\ status.dropped_video_frames = 0 /\ rtp["video"].refused = 0
      /\ DOMAIN video.frames = {} /\ Len(video.frames) = 0
  BY DEF Init, NoFrame, Medium
<1>2. OrderInv
  BY <1>1 DEF OrderInv, InOrder, Current, Repeated, None
<1>3. Distinct = {}
  BY <1>1 DEF Distinct
<1>4. Counted
  BY <1>1, <1>3, FS_EmptySet DEF Counted
<1> QED
  BY <1>2, <1>4

\* A picture published is newer than all others.
LEMMA PublishOrder ==
  ASSUME TypeInv, OrderInv, Counted, NEW e \in Emulator, publish(e) \/ read_hw_framebuffer(e)
  PROVE  OrderInv' /\ Counted'
<1>1. /\ store'.latest.sequence = store.next_sequence
      /\ UNCHANGED <<dispatcher, watch, video, rtp, status, stage>>
  <2>1. CASE publish(e)
    BY <2>1 DEF publish, Published, NoFrame
  <2>2. CASE read_hw_framebuffer(e)
    BY <2>2, ReadbackTypes DEF read_hw_framebuffer
  <2> QED
    BY <2>1, <2>2
<1>2. store.latest.sequence < store'.latest.sequence
  BY <1>1, OrderFields
<1>3. OrderInv'
  BY SMTT(30), <1>1, <1>2, OrderFields DEF OrderInv, InOrder, Current, Repeated
<1>4. Counted'
  BY <1>1 DEF Counted, Distinct
<1> QED
  BY <1>3, <1>4

LEMMA DispatchOrder ==
  ASSUME TypeInv, OrderInv, Counted, Dispatch
  PROVE  OrderInv' /\ Counted'
<1>1. UNCHANGED <<store, video, rtp, status, stage>>
  BY DEF Dispatch, dispatcher_loop, wait_for_next_returns, dispatch
<1>2. Counted'
  BY <1>1 DEF Counted, Distinct
<1>3. CASE dispatch
  <2>1. /\ dispatcher.at = "sending"
        /\ dispatcher'.at = "loop" /\ dispatcher'.last_sequence = dispatcher.frame.sequence
        /\ watch'.version = watch.version + 1 /\ watch'.value = dispatcher.frame
    BY <1>3 DEF dispatch
  <2>2. /\ watch'.value.sequence > watch.value.sequence /\ watch'.value.sequence <= store.latest.sequence
        /\ watch'.value.sequence >= 0 /\ watch'.value.sequence > video.last_sequence
    BY <2>1, OrderFields DEF OrderInv
  <2>3. ~Current'
    BY <1>1, <2>2, OrderFields DEF Current
  <2>4. /\ dispatcher'.last_sequence <= store.latest.sequence
        /\ watch'.value.sequence = dispatcher'.last_sequence
        /\ video.last_sequence <= watch'.value.sequence /\ watch'.version > 0
    BY SMTT(30), <2>1, <2>2, OrderFields
  <2> QED
    BY <1>1, <1>2, <2>1, <2>2, <2>3, <2>4 DEF OrderInv, InOrder, Repeated
<1>4. CASE dispatcher_loop \/ wait_for_next_returns
  <2>1. /\ dispatcher'.last_sequence = dispatcher.last_sequence /\ UNCHANGED watch
        /\ dispatcher'.at = "sending" => /\ dispatcher'.frame = store.latest
                                         /\ store.latest.sequence > dispatcher.last_sequence
    <3>1. CASE dispatcher_loop
      BY <3>1 DEF dispatcher_loop, Newer, TypeInv, Types
    <3>2. CASE wait_for_next_returns
      BY <3>2 DEF wait_for_next_returns, Newer, TypeInv, Types
    <3> QED
      BY <1>4, <3>1, <3>2
  <2> QED
    BY <1>1, <1>2, <2>1, OrderFields DEF OrderInv, InOrder, Repeated, Current
<1> QED
  BY <1>3, <1>4 DEF Dispatch

LEMMA ChangedOrder ==
  ASSUME TypeInv, OrderInv, Counted, video_changed \/ video_closed
  PROVE  OrderInv' /\ Counted'
<1>1. /\ UNCHANGED <<store, dispatcher, watch, rtp, status, stage>>
      /\ video'.frames = video.frames /\ video'.last_sequence = video.last_sequence
      /\ video.at = "changed"
      /\ \/ /\ video'.at = "borrow" /\ watch.version > video.seen /\ video'.seen = watch.version
         \/ video'.at = "ended"
  BY DEF video_changed, video_closed, TypeInv, Types
<1>2. Counted'
  BY <1>1 DEF Counted, Distinct
<1>3. CASE video'.at = "ended"
  BY <1>1, <1>2, <1>3 DEF OrderInv, InOrder, Repeated, Current
<1>4. CASE video'.at = "borrow" /\ watch.version > video.seen /\ video'.seen = watch.version
  <2>1. ~(Current /\ Repeated) /\ watch.version > 0
    BY <1>1, <1>4, OrderFields DEF OrderInv
  <2>2. ~(Current' /\ Repeated')
    BY <1>1, <2>1 DEF Current, Repeated
  <2> QED
    BY <1>1, <1>2, <1>4, <2>1, <2>2 DEF OrderInv, InOrder
<1> QED
  BY <1>1, <1>3, <1>4

LEMMA FeedOrder ==
  ASSUME TypeInv, OrderInv, Counted, NEW fails \in BOOLEAN, feed_video(fails)
  PROVE  OrderInv' /\ Counted'
<1> DEFINE n == Len(video.frames)
           last == video.last_sequence
<1>0. /\ UNCHANGED <<store, dispatcher, watch, stage>> /\ video.at = "borrow"
  BY DEF feed_video
<1>1. PICK f \in Frame :
        /\ f.sequence = watch.value.sequence
        /\ video' = [video EXCEPT !.at = IF fails THEN "ended" ELSE "changed",
                                  !.last_sequence = f.sequence, !.frames = Append(video.frames, f)]
        /\ status'.dropped_video_frames = status.dropped_video_frames + Skipped(f.sequence)
        /\ status' \in [pipeline_state : {"starting", "playing", "error"}, dropped_video_frames : Nat]
        /\ rtp'["video"].refused = rtp["video"].refused
  BY FeedFacts
<1>2. /\ video'.at \in {"changed", "ended"} /\ video'.last_sequence = f.sequence
      /\ video'.frames = Append(video.frames, f) /\ video'.seen = video.seen
  BY <1>1 DEF TypeInv, Types
<1>3. /\ n \in Nat /\ video'.frames # <<>> /\ Len(video'.frames) = n + 1
      /\ DOMAIN video'.frames = 1 .. n + 1 /\ DOMAIN video.frames = 1 .. n
      /\ \A i \in 1 .. n + 1 : video'.frames[i] = IF i = n + 1 THEN f ELSE video.frames[i]
  <2>1. /\ video.frames \in Seq(Frame) /\ Len(video.frames) \in Nat
        /\ DOMAIN video.frames = 1 .. Len(video.frames)
    BY OrderFields
  <2>2. /\ Append(video.frames, f) # <<>> /\ Len(Append(video.frames, f)) = Len(video.frames) + 1
        /\ DOMAIN Append(video.frames, f) = 1 .. Len(video.frames) + 1
        /\ \A i \in 1 .. Len(video.frames) + 1 :
             Append(video.frames, f)[i] = IF i = Len(video.frames) + 1 THEN f ELSE video.frames[i]
    BY <2>1, AppendFacts
  <2> QED
    BY <1>2, <2>1, <2>2
<1>4. /\ f.sequence \in Int /\ f.sequence >= 0 /\ last \in Int /\ last <= f.sequence
      /\ \A i \in 1 .. n : video.frames[i].sequence \in Int
  BY SMTT(30), <1>0, <1>1, OrderFields DEF OrderInv
<1>5. /\ n = 0 => last = None
      /\ n # 0 => last = video.frames[n].sequence /\ last >= 0
      /\ n = 0 <=> video.frames = <<>>
  BY OrderFields DEF OrderInv
<1>6. last = f.sequence => ~Repeated /\ video.seen = watch.version
  BY <1>0, <1>1 DEF OrderInv, Current
<1> HIDE DEF n, last
<1>7. \A i \in 1 .. n : /\ video.frames[i].sequence <= last
                        /\ i < n /\ last = f.sequence => video.frames[i].sequence < f.sequence
  <2> TAKE i \in 1 .. n
  <2>1. /\ \A j, k \in 1 .. n :
             j < k => /\ video.frames[j].sequence <= video.frames[k].sequence
                      /\ k > j + 1 => video.frames[j].sequence < video.frames[k].sequence
    BY <1>3 DEF OrderInv, InOrder
  <2>2. n \in 1 .. n /\ n # 0
    BY <1>3
  <2>3. video.frames[i].sequence <= last
    <3>1. CASE i = n
      BY <1>4, <1>5, <2>2, <3>1
    <3>2. CASE i < n
      BY <1>5, <2>1, <2>2, <3>2
    <3> QED
      BY <1>3, <3>1, <3>2
  <2>4. ASSUME i < n, last = f.sequence PROVE video.frames[i].sequence < f.sequence
    <3>1. n - 1 \in 1 .. n /\ n > 1
      BY <1>3, <2>4
    <3>2. video.frames[n - 1].sequence # video.frames[n].sequence
      BY <1>6, <2>4, <3>1 DEF Repeated, n
    <3>3. video.frames[n - 1].sequence < video.frames[n].sequence
      BY <1>4, <2>1, <2>2, <3>1, <3>2
    <3>4. CASE i = n - 1
      BY <1>5, <2>2, <2>4, <3>3, <3>4
    <3>5. CASE i < n - 1
      <4>1. video.frames[i].sequence < video.frames[n].sequence
        BY <1>3, <2>1, <2>2, <3>5
      <4> QED
        BY <1>5, <2>2, <2>4, <4>1
    <3> QED
      BY <1>3, <2>4, <3>4, <3>5
  <2> QED
    BY <2>3, <2>4
<1>8. InOrder'
  <2> SUFFICES ASSUME NEW i \in 1 .. n + 1, NEW j \in 1 .. n + 1, i < j
               PROVE  /\ video'.frames[i].sequence <= video'.frames[j].sequence
                      /\ j > i + 1 => video'.frames[i].sequence < video'.frames[j].sequence
    BY <1>3 DEF InOrder
  <2>1. i \in 1 .. n /\ video'.frames[i] = video.frames[i]
    BY <1>3
  <2>2. CASE j = n + 1
    <3>1. video'.frames[j] = f
      BY <1>3, <2>2
    <3>2. video.frames[i].sequence <= last /\ video.frames[i].sequence \in Int
      BY <1>4, <1>7, <2>1
    <3>3. ASSUME j > i + 1 PROVE video.frames[i].sequence < f.sequence
      <4>1. i < n
        BY <1>3, <2>2, <3>3
      <4>2. CASE last = f.sequence
        BY <1>7, <2>1, <4>1, <4>2
      <4>3. CASE last # f.sequence
        BY <1>4, <3>2, <4>3
      <4> QED
        BY <4>2, <4>3
    <3>4. video.frames[i].sequence <= f.sequence
      BY <1>4, <3>2
    <3> QED
      BY <2>1, <3>1, <3>3, <3>4
  <2>3. CASE j # n + 1
    <3>1. j \in 1 .. n /\ video'.frames[j] = video.frames[j]
      BY <1>3, <2>3
    <3> QED
      BY <1>3, <2>1, <3>1 DEF OrderInv, InOrder
  <2> QED
    BY <2>2, <2>3
<1>9. Repeated' => video'.seen = watch'.version
  <2> SUFFICES ASSUME Repeated' PROVE video.seen = watch.version
    BY <1>0, <1>2
  <2>1. n + 1 > 1 /\ video'.frames[n + 1 - 1].sequence = video'.frames[n + 1].sequence
    BY <1>3 DEF Repeated
  <2>2. n \in 1 .. n + 1 /\ n + 1 \in 1 .. n + 1 /\ n + 1 - 1 = n /\ n # 0 /\ n # n + 1
    BY <1>3, <2>1
  <2>3. video.frames[n].sequence = f.sequence
    BY <1>3, <2>1, <2>2
  <2> QED
    BY <1>5, <1>6, <2>2, <2>3
<1>10. OrderInv'
  <2>1. /\ video'.last_sequence = video'.frames[Len(video'.frames)].sequence /\ video'.last_sequence >= 0
    BY <1>2, <1>3, <1>4
  <2>2. video'.last_sequence <= watch'.value.sequence
    BY <1>0, <1>1, <1>2, <1>4
  <2>3. stage' # "starting"
    BY <1>0 DEF OrderInv
  <2> QED
    BY <1>0, <1>2, <1>3, <1>8, <1>9, <2>1, <2>2, <2>3 DEF OrderInv
<1>11. Distinct' = Distinct \cup {f.sequence}
  <2>1. ASSUME NEW k \in Distinct' PROVE k \in Distinct \cup {f.sequence}
    BY <1>3, <2>1 DEF Distinct
  <2>2. ASSUME NEW k \in Distinct PROVE k \in Distinct'
    <3>1. PICK i \in 1 .. n : k = video.frames[i].sequence
      BY <1>3, <2>2 DEF Distinct
    <3>2. i \in 1 .. n + 1 /\ i # n + 1
      BY <1>3
    <3> QED
      BY <1>3, <3>1, <3>2 DEF Distinct
  <2>3. f.sequence \in Distinct'
    <3>1. n + 1 \in 1 .. n + 1
      BY <1>3
    <3> QED
      BY <1>3, <3>1 DEF Distinct
  <2> QED
    BY <2>1, <2>2, <2>3
<1>12. /\ IsFiniteSet(Distinct') /\ Cardinality(Distinct) \in Nat
       /\ Cardinality(Distinct') = IF f.sequence \in Distinct THEN Cardinality(Distinct)
                                   ELSE Cardinality(Distinct) + 1
  BY <1>11, FS_AddElement, FS_CardinalityType DEF Counted
<1>13. Counted'
  <2> DEFINE dropped == status.dropped_video_frames - rtp["video"].refused
  <2>1. /\ dropped \in Int /\ Skipped(f.sequence) \in Int
        /\ status'.dropped_video_frames - rtp'["video"].refused = dropped + Skipped(f.sequence)
    <3>1. status.dropped_video_frames \in Nat /\ rtp["video"].refused \in Nat
      BY DEF TypeInv, Types, Medium
    <3>2. Skipped(f.sequence) \in Int
      BY <1>4 DEF Skipped, last
    <3> QED
      BY <1>1, <3>1, <3>2
  <2>2. dropped = IF video.frames = <<>> THEN 0
                  ELSE last - video.frames[1].sequence + 1 - Cardinality(Distinct)
    BY DEF Counted, last
  <2> HIDE DEF dropped
  <2>3. 1 \in 1 .. n + 1
    BY <1>3
  <2>4. dropped + Skipped(f.sequence)
          = f.sequence - video'.frames[1].sequence + 1 - Cardinality(Distinct')
    <3>1. CASE n = 0
      <4>1. Skipped(f.sequence) = 0 /\ dropped = 0
        BY <1>5, <2>2, <3>1 DEF Skipped, last
      <4>2. Distinct = {}
        BY <1>3, <3>1 DEF Distinct
      <4>3. Cardinality(Distinct') = 1
        BY <1>11, <4>2, FS_Singleton
      <4>4. video'.frames[1] = f
        BY <1>3, <2>3, <3>1
      <4> QED
        BY <1>4, <4>1, <4>3, <4>4
    <3>2. CASE n # 0 /\ last = f.sequence
      <4>1. Skipped(f.sequence) = 0
        BY <1>4, <3>2 DEF Skipped, last
      <4>2. n \in 1 .. n /\ 1 \in 1 .. n
        BY <1>3, <3>2
      <4>3. f.sequence \in Distinct
        BY <1>3, <1>5, <3>2, <4>2 DEF Distinct
      <4>4. video'.frames[1] = video.frames[1]
        BY <1>3, <2>3, <3>2
      <4>5. dropped = last - video.frames[1].sequence + 1 - Cardinality(Distinct)
        BY <1>5, <2>2, <3>2
      <4> QED
        BY <1>4, <1>12, <2>1, <3>2, <4>1, <4>2, <4>3, <4>4, <4>5
    <3>3. CASE n # 0 /\ last # f.sequence
      <4>1. last < f.sequence /\ last # None
        BY <1>4, <1>5, <3>3 DEF None
      <4>2. Skipped(f.sequence) = f.sequence - (last + 1)
        BY <1>4, <4>1 DEF Skipped, last
      <4>3. f.sequence \notin Distinct
        <5>1. \A i \in 1 .. n : video.frames[i].sequence <= last
          BY <1>7
        <5>2. \A i \in 1 .. n : video.frames[i].sequence # f.sequence
          BY <1>4, <4>1, <5>1
        <5> QED
          BY <1>3, <5>2 DEF Distinct
      <4>4. video'.frames[1] = video.frames[1] /\ 1 \in 1 .. n
        BY <1>3, <2>3, <3>3
      <4>5. dropped = last - video.frames[1].sequence + 1 - Cardinality(Distinct)
        BY <1>5, <2>2, <3>3
      <4> QED
        BY <1>4, <1>12, <2>1, <3>3, <4>1, <4>2, <4>3, <4>4, <4>5
    <3> QED
      BY <3>1, <3>2, <3>3
  <2> QED
    BY <1>2, <1>3, <1>12, <2>1, <2>4 DEF Counted
<1> QED
  BY <1>10, <1>13

LEMMA OtherOrder ==
  ASSUME TypeInv, OrderInv, Counted,
         EmulatorStep \/ FeedAudio \/ start \/ Out \/ shut_down \/ UNCHANGED vars
  PROVE  OrderInv' /\ Counted'
<1>1. CASE \E e \in Emulator : publish(e) \/ read_hw_framebuffer(e)
  BY <1>1, PublishOrder
<1>2. CASE start
  <2>1. /\ stage = "starting" /\ stage' = "serving"
        /\ video'.frames = video.frames /\ video'.last_sequence = video.last_sequence
        /\ video'.at = "changed" /\ video'.seen = video.seen
        /\ UNCHANGED <<store, dispatcher, watch>>
        /\ rtp' = [m \in Medium |-> [rtp[m] EXCEPT !.open = TRUE]]
        /\ status'.dropped_video_frames = status.dropped_video_frames
    BY <1>2 DEF start, TypeInv, Types
  <2>2. rtp'["video"].refused = rtp["video"].refused
    <3>1. "video" \in Medium
      BY DEF Medium
    <3> QED
      BY SMTT(30), <2>1, <3>1 DEF TypeInv, Types
  <2>3. Counted'
    BY <2>1, <2>2 DEF Counted, Distinct
  <2>4. video.frames = <<>>
    BY <2>1 DEF OrderInv
  <2>5. ~Repeated'
    <3>1. Len(video'.frames) = 0
      BY <2>1, <2>4
    <3> QED
      BY <3>1 DEF Repeated
  <2> QED
    BY <2>1, <2>3, <2>5 DEF OrderInv, InOrder
<1>3. CASE Out
  <2>1. /\ UNCHANGED <<store, dispatcher, watch, video, stage>>
        /\ status'.dropped_video_frames - rtp'["video"].refused
              = status.dropped_video_frames - rtp["video"].refused
    BY <1>3, OutFacts DEF pictures
  <2>2. Counted'
    BY <2>1 DEF Counted, Distinct
  <2> QED
    BY <2>1, <2>2 DEF OrderInv, InOrder, Repeated, Current
<1>4. CASE shut_down
  <2>1. UNCHANGED <<store, dispatcher, watch, video, rtp, status>> /\ stage' = "stopping"
    BY <1>4 DEF shut_down, pictures
  <2>2. Counted'
    BY <2>1 DEF Counted, Distinct
  <2> QED
    BY <2>1, <2>2 DEF OrderInv, InOrder, Repeated, Current
<1>5. CASE UNCHANGED <<store, dispatcher, watch, video, rtp, status, stage>>
  <2>1. Counted'
    BY <1>5 DEF Counted, Distinct
  <2> QED
    BY <1>5, <2>1 DEF OrderInv, InOrder, Repeated, Current
<1>6. CASE FeedAudio
  <2>1. UNCHANGED <<store, dispatcher, watch, video, stage>>
    BY <1>6 DEF FeedAudio, audio_lagged, feed_audio, feed_audio_panics, pictures
  <2>2. /\ rtp'["video"].refused = rtp["video"].refused
        /\ status'.dropped_video_frames = status.dropped_video_frames
    <3>1. rtp' = rtp \/ rtp' = Inside("audio")
      BY <1>6 DEF FeedAudio, audio_lagged, feed_audio, feed_audio_panics
    <3>2. "audio" \in Medium /\ "video" \in Medium
      BY DEF Medium
    <3>3. status' = status \/ \E s : status' = [status EXCEPT !.pipeline_state = s]
      BY <1>6 DEF FeedAudio, audio_lagged, feed_audio, feed_audio_panics
    <3>4. status'.dropped_video_frames = status.dropped_video_frames
      BY <3>3 DEF TypeInv, Types
    <3> QED
      BY <3>1, <3>2, <3>4, InsideFacts
  <2>3. Counted'
    BY <2>1, <2>2 DEF Counted, Distinct
  <2> QED
    BY <2>1, <2>3 DEF OrderInv, InOrder, Repeated, Current
<1>7. CASE EmulatorStep
  <2>1. PICK e \in Emulator :
          \/ publish(e) \/ read_hw_framebuffer(e)
          \/ wire(e) \/ set_pixel_format(e) \/ keep_default_format(e) \/ set_hw_render(e)
          \/ set_sample_rate_hz(e) \/ clear_callback_context(e) \/ video_refresh(e)
          \/ (\E n \in Batch : push_samples(e, n)) \/ read_rate(e) \/ send(e)
    BY <1>7 DEF EmulatorStep
  <2>2. CASE publish(e) \/ read_hw_framebuffer(e)
    BY <1>1, <2>2
  <2>3. CASE ~publish(e) /\ ~read_hw_framebuffer(e)
    <3>1. UNCHANGED <<store, dispatcher, watch, video, rtp, status, stage>>
      BY <2>1, <2>3 DEF wire, set_pixel_format, keep_default_format, set_hw_render, set_sample_rate_hz,
        clear_callback_context, video_refresh, push_samples, read_rate, send, pictures
    <3> QED
      BY <1>5, <3>1
  <2> QED
    BY <2>2, <2>3
<1>8. UNCHANGED vars => UNCHANGED <<store, dispatcher, watch, video, rtp, status, stage>>
  BY DEF vars
<1> QED
  BY <1>2, <1>3, <1>4, <1>5, <1>6, <1>7, <1>8

LEMMA NextOrder ==
  ASSUME TypeInv, OrderInv, Counted, [Next]_vars
  PROVE  OrderInv' /\ Counted'
  BY DispatchOrder, ChangedOrder, FeedOrder, OtherOrder DEF Next, FeedVideo

(* Pictures reach GStreamer in order, none more than twice, and            *)
(* dropped_video_frames counts each picture the feeder skipped exactly     *)
(* once, plus the packets the way out refused: whatever the dispatcher and *)
(* the feeder interleave, and whichever pushes fail.                       *)
THEOREM SkippedPicturesAreCounted == Spec => []FramesAreAccountedFor
<1>1. OrderInv /\ Counted => FramesAreAccountedFor
  BY DEF OrderInv, InOrder, Counted, FramesAreAccountedFor
<1>2. Init => TypeInv /\ OrderInv /\ Counted
  BY InitTypes, InitOrder
<1>3. TypeInv /\ OrderInv /\ Counted /\ [Next]_vars => (TypeInv /\ OrderInv /\ Counted)'
  BY NextTypes, NextOrder
<1> QED
  BY <1>1, <1>2, <1>3, PTL DEF Spec

-----------------------------------------------------------------------------
(* Every chunk is in one place, behind those cut before it.                *)

LEMMA AppendSequences ==
  ASSUME NEW q \in Seq(Packet), NEW p \in Packet
  PROVE  /\ Sequences(Append(q, p)) = Sequences(q) \cup {p.sequence}
         /\ Unrepeated(q) /\ p.sequence \notin Sequences(q) => Unrepeated(Append(q, p))
<1> DEFINE n == Len(q)
           r == Append(q, p)
<1>1. /\ n \in Nat /\ DOMAIN q = 1 .. n /\ DOMAIN r = 1 .. n + 1
      /\ \A i \in 1 .. n + 1 : r[i] = IF i = n + 1 THEN p ELSE q[i]
  BY AppendFacts, SeqFacts
<1> HIDE DEF n, r
<1>2. \A i \in 1 .. n : i \in 1 .. n + 1 /\ i # n + 1 /\ r[i] = q[i]
  BY <1>1
<1>3. n + 1 \in 1 .. n + 1 /\ r[n + 1] = p /\ \A i \in 1 .. n + 1 : i = n + 1 \/ i \in 1 .. n
  BY <1>1
<1>4. Sequences(r) = Sequences(q) \cup {p.sequence}
  BY <1>1, <1>2, <1>3 DEF Sequences
<1>5. ASSUME Unrepeated(q), p.sequence \notin Sequences(q) PROVE Unrepeated(r)
  <2> SUFFICES ASSUME NEW i \in 1 .. n + 1, NEW j \in 1 .. n + 1, r[i].sequence = r[j].sequence
               PROVE  i = j
    BY <1>1 DEF Unrepeated
  <2>1. \A k \in 1 .. n : q[k].sequence # p.sequence
    BY <1>1, <1>5 DEF Sequences
  <2>2. CASE i = n + 1 \/ j = n + 1
    BY <1>2, <1>3, <2>1, <2>2
  <2>3. CASE i \in 1 .. n /\ j \in 1 .. n
    BY <1>1, <1>2, <1>5, <2>3 DEF Unrepeated
  <2> QED
    BY <1>3, <2>2, <2>3
<1> QED
  BY <1>4, <1>5 DEF r

LEMMA TailUnrepeated ==
  ASSUME NEW q \in Seq(Packet), q # <<>>, Unrepeated(q)
  PROVE  Unrepeated(Tail(q)) /\ q[1].sequence \notin Sequences(Tail(q))
<1>1. /\ Len(q) \in Nat \ {0} /\ DOMAIN Tail(q) = 1 .. Len(q) - 1 /\ DOMAIN q = 1 .. Len(q)
      /\ \A i \in 1 .. Len(q) - 1 : Tail(q)[i] = q[i + 1]
  BY TailFacts, SeqFacts
<1>2. \A i \in 1 .. Len(q) - 1 : i + 1 \in 1 .. Len(q) /\ i + 1 # 1 /\ 1 \in 1 .. Len(q)
  BY <1>1
<1>3. Unrepeated(Tail(q))
  <2> SUFFICES ASSUME NEW i \in 1 .. Len(q) - 1, NEW j \in 1 .. Len(q) - 1,
                      Tail(q)[i].sequence = Tail(q)[j].sequence
               PROVE  i = j
    BY <1>1 DEF Unrepeated
  <2>1. i + 1 = j + 1
    BY <1>1, <1>2 DEF Unrepeated
  <2> QED
    BY <2>1
<1>4. q[1].sequence \notin Sequences(Tail(q))
  BY <1>1, <1>2 DEF Unrepeated, Sequences
<1> QED
  BY <1>3, <1>4

LEMMA AppendSorted ==
  ASSUME NEW swap \in BOOLEAN, NEW q \in Seq(Packet), NEW p \in Packet, NEW r \in Seq(Packet)
  PROVE  /\ Sorted(swap, q) /\ (\A i \in DOMAIN q : Before(swap, q[i], p)) => Sorted(swap, Append(q, p))
         /\ AllBefore(swap, q, r) /\ (\A j \in DOMAIN r : Before(swap, p, r[j]))
              => AllBefore(swap, Append(q, p), r)
         /\ AllBefore(swap, r, q) /\ (\A i \in DOMAIN r : Before(swap, r[i], p))
              => AllBefore(swap, r, Append(q, p))
<1> DEFINE n == Len(q)
           a == Append(q, p)
<1>1. /\ n \in Nat /\ DOMAIN q = 1 .. n /\ DOMAIN a = 1 .. n + 1
      /\ \A i \in 1 .. n + 1 : a[i] = IF i = n + 1 THEN p ELSE q[i]
  BY AppendFacts, SeqFacts
<1> HIDE DEF n, a
<1>2. \A i \in 1 .. n + 1 : (i = n + 1 /\ a[i] = p) \/ (i \in 1 .. n /\ i # n + 1 /\ a[i] = q[i])
  BY <1>1
<1>3. ASSUME Sorted(swap, q), \A i \in DOMAIN q : Before(swap, q[i], p) PROVE Sorted(swap, a)
  <2> SUFFICES ASSUME NEW i \in 1 .. n + 1, NEW j \in 1 .. n + 1, i < j PROVE Before(swap, a[i], a[j])
    BY <1>1 DEF Sorted
  <2>1. i \in 1 .. n /\ a[i] = q[i]
    BY <1>1, <1>2
  <2>2. CASE j = n + 1
    BY <1>1, <1>2, <1>3, <2>1, <2>2
  <2>3. CASE j \in 1 .. n /\ a[j] = q[j]
    BY <1>1, <1>3, <2>1, <2>3 DEF Sorted
  <2> QED
    BY <1>2, <2>2, <2>3
<1>4. ASSUME AllBefore(swap, q, r), \A j \in DOMAIN r : Before(swap, p, r[j]) PROVE AllBefore(swap, a, r)
  BY <1>1, <1>2, <1>4 DEF AllBefore
<1>5. ASSUME AllBefore(swap, r, q), \A i \in DOMAIN r : Before(swap, r[i], p) PROVE AllBefore(swap, r, a)
  BY <1>1, <1>2, <1>5 DEF AllBefore
<1> QED
  BY <1>3, <1>4, <1>5 DEF a

LEMMA TailSorted ==
  ASSUME NEW swap \in BOOLEAN, NEW q \in Seq(Packet), q # <<>>, NEW r \in Seq(Packet)
  PROVE  /\ Sorted(swap, q) => /\ Sorted(swap, Tail(q))
                               /\ \A j \in DOMAIN Tail(q) : Before(swap, q[1], Tail(q)[j])
         /\ AllBefore(swap, q, r) => /\ AllBefore(swap, Tail(q), r)
                                     /\ \A j \in DOMAIN r : Before(swap, q[1], r[j])
         /\ AllBefore(swap, r, q) => /\ AllBefore(swap, r, Tail(q))
                                     /\ \A i \in DOMAIN r : Before(swap, r[i], q[1])
<1>1. /\ Len(q) \in Nat \ {0} /\ DOMAIN Tail(q) = 1 .. Len(q) - 1 /\ DOMAIN q = 1 .. Len(q)
      /\ \A i \in 1 .. Len(q) - 1 : Tail(q)[i] = q[i + 1]
  BY TailFacts, SeqFacts
<1>2. 1 \in 1 .. Len(q) /\ \A i \in 1 .. Len(q) - 1 : i + 1 \in 1 .. Len(q) /\ 1 < i + 1
  BY <1>1
<1>3. ASSUME Sorted(swap, q) PROVE /\ Sorted(swap, Tail(q))
                                   /\ \A j \in DOMAIN Tail(q) : Before(swap, q[1], Tail(q)[j])
  <2>1. \A i, j \in 1 .. Len(q) : i < j => Before(swap, q[i], q[j])
    BY <1>1, <1>3 DEF Sorted
  <2>2. ASSUME NEW i \in 1 .. Len(q) - 1, NEW j \in 1 .. Len(q) - 1, i < j
        PROVE  Before(swap, Tail(q)[i], Tail(q)[j])
    <3>1. i + 1 < j + 1
      BY <2>2
    <3>2. Before(swap, q[i + 1], q[j + 1])
      BY <1>2, <2>1, <3>1
    <3> QED
      BY <1>1, <3>2
  <2>3. ASSUME NEW j \in 1 .. Len(q) - 1 PROVE Before(swap, q[1], Tail(q)[j])
    BY <1>1, <1>2, <2>1
  <2>4. Sorted(swap, Tail(q))
    BY <1>1, <2>2 DEF Sorted
  <2> QED
    BY <1>1, <2>3, <2>4
<1>4. ASSUME AllBefore(swap, q, r) PROVE /\ AllBefore(swap, Tail(q), r)
                                         /\ \A j \in DOMAIN r : Before(swap, q[1], r[j])
  BY <1>1, <1>2, <1>4 DEF AllBefore
<1>5. ASSUME AllBefore(swap, r, q) PROVE /\ AllBefore(swap, r, Tail(q))
                                         /\ \A i \in DOMAIN r : Before(swap, r[i], q[1])
  BY <1>1, <1>2, <1>5 DEF AllBefore
<1> QED
  BY <1>3, <1>4, <1>5

LEMMA EmptySorted ==
  ASSUME NEW swap \in BOOLEAN, NEW q
  PROVE  /\ Sorted(swap, <<>>) /\ AllBefore(swap, <<>>, q) /\ AllBefore(swap, q, <<>>)
         /\ Unrepeated(<<>>) /\ Sequences(<<>>) = {}
<1>1. DOMAIN <<>> = {}
  OBVIOUS
<1> QED
  BY <1>1 DEF Sorted, AllBefore, Unrepeated, Sequences

\* Only the sequence and the emulator of a chunk order it.
LEMMA SameBefore ==
  ASSUME NEW swap \in BOOLEAN, NEW x, NEW y, NEW z,
         y.sequence = x.sequence, y.by = x.by
  PROVE  /\ Before(swap, x, z) => Before(swap, y, z)
         /\ Before(swap, z, x) => Before(swap, z, y)
  BY DEF Before

\* The emulator e gives chunk s away.
Gives(held, held2, e, s) ==
  /\ \A x \in Emulator : x # e => held2[x] = held[x]
  /\ held[e] = held2[e] \cup {s} /\ s \notin held2[e]

\* Chunk s is missed, or unread with room for it, or unread in the place of another.
Joins(unread, unread2, missed, missed2, s) ==
  \/ unread2 = unread /\ missed2 = missed \cup {s}
  \/ unread2 = unread \cup {s} /\ missed2 = missed
  \/ \E h \in unread : unread2 = (unread \ {h}) \cup {s} /\ missed2 = missed \cup {h}

LEMMA PartedSend ==
  ASSUME NEW held, NEW held2, NEW unread, NEW unread2, NEW fed, NEW missed, NEW missed2, NEW n \in Nat,
         NEW e \in Emulator, NEW s, Parted(held, unread, fed, missed, n),
         Gives(held, held2, e, s), Joins(unread, unread2, missed, missed2, s)
  PROVE  Parted(held2, unread2, fed, missed2, n) /\ s \notin unread
<1> USE DEF Gives
<1>1. /\ \A x \in Emulator : held2[x] \subseteq held[x]
      /\ \A x \in Emulator : s \notin held2[x]
      /\ s \in held[e] /\ s \notin unread /\ s \notin fed /\ s \notin missed
  BY DEF Parted
<1>2. \A k : (\E x \in Emulator : k \in held[x]) <=> (\E x \in Emulator : k \in held2[x]) \/ k = s
  BY <1>1
<1>3. /\ unread2 \cap fed = {} /\ unread2 \cap missed2 = {} /\ fed \cap missed2 = {}
      /\ \A k : k \in unread2 \/ k \in missed2 <=> k \in unread \/ k \in missed \/ k = s
  BY <1>1 DEF Parted, Joins
<1>4. \A x, y \in Emulator : x # y => held2[x] \cap held2[y] = {}
  BY <1>1 DEF Parted
<1>5. \A x \in Emulator : held2[x] \cap (unread2 \cup fed \cup missed2) = {}
  BY <1>1, <1>3 DEF Parted
<1>6. \A k \in Nat : k < n <=> \/ \E x \in Emulator : k \in held2[x]
                               \/ k \in unread2 \/ k \in fed \/ k \in missed2
  BY <1>2, <1>3 DEF Parted
<1> QED
  BY <1>1, <1>3, <1>4, <1>5, <1>6 DEF Parted

\* Chunk s is read; what is left of the channel stays, or is missed with it closed.
Reads(unread, unread2, missed, missed2, s) ==
  /\ s \in unread
  /\ \/ unread2 = unread \ {s} /\ missed2 = missed
     \/ unread2 = {} /\ missed2 = missed \cup (unread \ {s})

LEMMA PartedFeed ==
  ASSUME NEW held, NEW unread, NEW unread2, NEW fed, NEW missed, NEW missed2, NEW n \in Nat,
         NEW s, Parted(held, unread, fed, missed, n), Reads(unread, unread2, missed, missed2, s)
  PROVE  Parted(held, unread2, fed \cup {s}, missed2, n) /\ s \notin fed
<1> USE DEF Reads
<1>1. s \notin fed /\ s \notin missed /\ \A x \in Emulator : s \notin held[x]
  BY DEF Parted
<1>2. \A k : k \in unread2 \cup (fed \cup {s}) \cup missed2 <=> k \in unread \cup fed \cup missed
  OBVIOUS
<1>3. unread2 \cap (fed \cup {s}) = {} /\ unread2 \cap missed2 = {} /\ (fed \cup {s}) \cap missed2 = {}
  BY <1>1 DEF Parted
<1>4. \A x \in Emulator : held[x] \cap (unread2 \cup (fed \cup {s}) \cup missed2) = {}
  BY <1>2 DEF Parted
<1>5. \A k \in Nat : k < n <=> \/ \E e \in Emulator : k \in held[e]
                               \/ k \in unread2 \/ k \in fed \cup {s} \/ k \in missed2
  BY <1>2 DEF Parted
<1> QED
  BY <1>1, <1>3, <1>4, <1>5 DEF Parted

\* Chunks cut are new.
LEMMA PartedCut ==
  ASSUME NEW held, NEW held2, NEW unread \in SUBSET Nat, NEW fed \in SUBSET Nat, NEW missed \in SUBSET Nat,
         NEW n \in Nat, NEW m \in Nat, NEW e \in Emulator, Parted(held, unread, fed, missed, n),
         \A x \in Emulator : held[x] \in SUBSET Nat,
         \A x \in Emulator : x # e => held2[x] = held[x],
         held[e] = {}, held2[e] = n .. n + m - 1
  PROVE  Parted(held2, unread, fed, missed, n + m)
<1>1. \A k \in held2[e] : k \in Nat /\ ~(k < n) /\ k < n + m
  OBVIOUS
<1>2. /\ \A x \in Emulator : x # e => \A k \in held[x] : k < n
      /\ \A k \in unread \cup fed \cup missed : k < n
  BY DEF Parted
<1>3. \A x \in Emulator : x # e => held2[x] \cap held2[e] = {}
  BY <1>1, <1>2
<1>4. \A x, y \in Emulator : x # y => held2[x] \cap held2[y] = {}
  BY <1>3 DEF Parted
<1>5. \A x \in Emulator : held2[x] \cap (unread \cup fed \cup missed) = {}
  <2>1. held2[e] \cap (unread \cup fed \cup missed) = {}
    BY <1>1, <1>2
  <2>2. \A x \in Emulator : x # e => held2[x] \cap (unread \cup fed \cup missed) = {}
    BY DEF Parted
  <2> QED
    BY <2>1, <2>2
<1>6. ASSUME NEW k \in Nat
      PROVE  k < n + m <=> \/ \E x \in Emulator : k \in held2[x]
                           \/ k \in unread \/ k \in fed \/ k \in missed
  <2>1. CASE k < n
    <3>1. k < n + m
      BY <2>1
    <3>2. \/ \E x \in Emulator : k \in held[x]
          \/ k \in unread \/ k \in fed \/ k \in missed
      BY <2>1 DEF Parted
    <3>3. \A x \in Emulator : k \in held[x] => k \in held2[x]
      OBVIOUS
    <3> QED
      BY <3>1, <3>2, <3>3
  <2>2. CASE ~(k < n)
    <3>1. k \notin unread /\ k \notin fed /\ k \notin missed
      BY <1>2, <2>2
    <3>2. \A x \in Emulator : x # e => k \notin held2[x]
      BY <1>2, <2>2
    <3>3. k \in held2[e] <=> k < n + m
      BY <2>2
    <3> QED
      BY <3>1, <3>2, <3>3
  <2> QED
    BY <2>1, <2>2
<1> QED
  BY <1>4, <1>5, <1>6 DEF Parted

AudioInv == PartInv /\ SoundInv /\ StampInv

LEMMA InitAudio == Init => AudioInv
<1> SUFFICES ASSUME Init PROVE AudioInv
  OBVIOUS
<1>1. /\ channel.unread = <<>> /\ channel.missed = {} /\ audio.packets = <<>> /\ audio.base_sequence = None
      /\ bus.next_sequence = 0 /\ bus.pending = 0 /\ bus.pushed = 0 /\ overlapped = FALSE
      /\ \A e \in Emulator : emulators[e].packets = <<>>
      /\ DOMAIN audio.packets = {}
  BY DEF Init
<1>2. /\ Held = [e \in Emulator |-> {}] /\ Sequences(<<>>) = {} /\ Unrepeated(<<>>)
      /\ Sorted(overlapped, <<>>) /\ AllBefore(overlapped, <<>>, <<>>)
  BY <1>1, EmptySorted DEF Held
<1>3. PartInv
  <2>1. Parted(Held, {}, {}, {}, 0)
    BY <1>2 DEF Parted
  <2>2. /\ Sequences(channel.unread) = {} /\ Sequences(audio.packets) = {}
        /\ Unrepeated(channel.unread) /\ Unrepeated(audio.packets)
    BY <1>1, <1>2
  <2>3. bus.next_sequence + bus.pending <= bus.pushed
    BY <1>1
  <2> QED
    BY <1>1, <2>1, <2>2, <2>3 DEF PartInv
<1>4. SoundInv
  <2>1. \A e \in Emulator : DOMAIN emulators[e].packets = {}
    BY <1>1
  <2> QED
    BY <1>1, <1>2, <2>1 DEF SoundInv
<1>5. StampInv
  BY <1>1 DEF StampInv
<1> QED
  BY <1>3, <1>4, <1>5 DEF AudioInv

\* A step that moves no chunk; emulators may begin to overlap.
LEMMA QuietAudio ==
  ASSUME AudioInv, \A e \in Emulator : emulators'[e].packets = emulators[e].packets,
         channel'.unread = channel.unread, channel'.missed = channel.missed,
         audio'.packets = audio.packets, audio'.base_sequence = audio.base_sequence,
         bus'.next_sequence = bus.next_sequence, bus'.pending = bus.pending, bus'.pushed = bus.pushed,
         overlapped => overlapped'
  PROVE  AudioInv'
<1>1. Held' = Held
  BY DEF Held
<1>2. PartInv'
  BY <1>1 DEF AudioInv, PartInv
<1>3. \A q : Sorted(overlapped, q) => Sorted(overlapped', q)
  BY DEF Sorted, Before
<1>4. \A q, r : AllBefore(overlapped, q, r) => AllBefore(overlapped', q, r)
  BY DEF AllBefore, Before
<1>5. SoundInv'
  BY <1>3, <1>4 DEF AudioInv, SoundInv
<1>6. StampInv'
  BY DEF AudioInv, StampInv
<1> QED
  BY <1>2, <1>5, <1>6 DEF AudioInv

\* The sequences of an emulator, the channel and the feeder.
LEMMA SoundFields ==
  ASSUME TypeInv
  PROVE  /\ \A e \in Emulator : /\ emulators[e].packets \in Seq(Packet) /\ Held[e] = Sequences(emulators[e].packets)
                                /\ Held[e] \in SUBSET Nat
         /\ channel.unread \in Seq(Packet) /\ Sequences(channel.unread) \in SUBSET Nat
         /\ audio.packets \in Seq(Packet) /\ Sequences(audio.packets) \in SUBSET Nat
         /\ channel.missed \in SUBSET Nat /\ bus.next_sequence \in Nat /\ bus.pending \in Nat
         /\ bus.pushed \in Nat /\ bus.pushed <= MaxSamples /\ overlapped \in BOOLEAN
         /\ audio.base_sequence \in Nat \cup {None}
<1>1. \A q \in Seq(Packet) : Sequences(q) \in SUBSET Nat
  BY TailSequences, EmptySorted
<1>2. \A e \in Emulator : emulators[e].packets \in Seq(Packet)
  BY Fields DEF TypeInv
<1>3. /\ channel.unread \in Seq(Packet) /\ audio.packets \in Seq(Packet)
      /\ channel.missed \in SUBSET Nat /\ bus.next_sequence \in Nat /\ bus.pending \in 0 .. Chunk - 1
      /\ bus.pushed \in 0 .. MaxSamples /\ Chunk \in Nat /\ MaxSamples \in Nat
      /\ audio.base_sequence \in Nat \cup {None}
  BY Fields DEF TypeInv
<1>4. overlapped \in BOOLEAN
  BY DEF TypeInv, Types
<1>5. \A e \in Emulator : Held[e] = Sequences(emulators[e].packets)
  BY DEF Held
<1>6. bus.pending \in Nat /\ bus.pushed \in Nat /\ bus.pushed <= MaxSamples
  BY <1>3
<1> QED
  BY <1>1, <1>2, <1>3, <1>4, <1>5, <1>6

LEMMA PushAudio ==
  ASSUME TypeInv, TypeInv', AudioInv, NEW e \in Emulator, NEW n \in Batch, push_samples(e, n)
  PROVE  AudioInv'
<1> DEFINE packets == Cut(bus.pending + n, bus.next_sequence, e)
           next == bus.next_sequence
           m == Len(packets)
<1>1. /\ emulators \in [Emulator -> EmulatorState] /\ emulators[e].at = "running"
      /\ bus.pending \in Nat /\ next \in Nat /\ n \in Nat /\ bus.pending + n \in Nat /\ bus.pushed \in Nat
  <2>1. n \in Nat
    BY PipelineAssumption
  <2>2. emulators \in [Emulator -> EmulatorState] /\ emulators[e].at = "running"
    BY DEF TypeInv, Types, push_samples, Emu
  <2> QED
    BY <2>1, <2>2, SoundFields
<1>2. /\ packets \in Seq(Packet) /\ m \in Nat /\ DOMAIN packets = 1 .. m
      /\ \A i \in 1 .. m : packets[i] = [sequence |-> next + i - 1, by |-> e, rate |-> 0, pts |-> 0]
      /\ Rest(bus.pending + n) \in 0 .. Chunk - 1 /\ m + Rest(bus.pending + n) <= bus.pending + n
  BY ZenonT(30), <1>1, CutFacts
<1>3. emulators[e].packets = <<>>
  BY <1>1 DEF TypeInv
<1>4. /\ emulators' = IF packets = <<>> THEN emulators
                      ELSE [emulators EXCEPT ![e].at = "cut", ![e].packets = packets]
      /\ bus' = [bus EXCEPT !.pending = Rest(bus.pending + n), !.pushed = bus.pushed + n,
                           !.next_sequence = next + m]
      /\ UNCHANGED <<channel, audio, overlapped>>
  BY DEF push_samples
<1> HIDE DEF packets, next, m
<1>5. \A x \in Emulator : emulators'[x].packets = IF x = e THEN packets ELSE emulators[x].packets
  BY <1>1, <1>3, <1>4 DEF EmulatorState
<1>6. bus'.next_sequence = next + m /\ bus'.pending = Rest(bus.pending + n) /\ bus'.pushed = bus.pushed + n
  BY <1>4 DEF TypeInv, Types
<1>7. Held'[e] = next .. next + m - 1
  <2>1. Held'[e] = Sequences(packets)
    BY <1>5 DEF Held
  <2>2. \A i \in 1 .. m : packets[i].sequence = next + i - 1
    BY <1>2
  <2>3. Sequences(packets) \subseteq next .. next + m - 1
    BY <1>1, <1>2, <2>2 DEF Sequences
  <2>4. ASSUME NEW k \in next .. next + m - 1 PROVE k \in Sequences(packets)
    <3>1. k - next + 1 \in 1 .. m /\ next + (k - next + 1) - 1 = k
      BY <1>1, <1>2
    <3>2. packets[k - next + 1].sequence = k
      BY <2>2, <3>1
    <3> QED
      BY <1>2, <3>1, <3>2 DEF Sequences
  <2> QED
    BY <2>1, <2>3, <2>4
<1>8. PartInv'
  <2>1. \A x \in Emulator : x # e => Held'[x] = Held[x]
    BY <1>5 DEF Held
  <2>2. Held[e] = {}
    BY <1>3, EmptySorted DEF Held
  <2>3. Parted(Held, Sequences(channel.unread), Sequences(audio.packets), channel.missed, next)
    BY DEF AudioInv, PartInv, next
  <2>4. Parted(Held', Sequences(channel.unread), Sequences(audio.packets), channel.missed, next + m)
    <3> DEFINE unread == Sequences(channel.unread)
               fed == Sequences(audio.packets)
    <3>1. /\ unread \in SUBSET Nat /\ fed \in SUBSET Nat /\ channel.missed \in SUBSET Nat
          /\ \A x \in Emulator : Held[x] \in SUBSET Nat
      BY SoundFields
    <3>2. Parted(Held, unread, fed, channel.missed, next)
      BY <2>3
    <3> HIDE DEF unread, fed
    <3>3. Parted(Held', unread, fed, channel.missed, next + m)
      BY ZenonT(30), <1>1, <1>2, <1>7, <2>1, <2>2, <3>1, <3>2, PartedCut
    <3> QED
      BY <3>3 DEF unread, fed
  <2>5. next + m + Rest(bus.pending + n) <= bus.pushed + n
    <3>1. next + bus.pending <= bus.pushed
      BY DEF AudioInv, PartInv, next
    <3>2. Rest(bus.pending + n) \in Int
      BY <1>2
    <3> QED
      BY SMTT(30), <1>1, <1>2, <3>1, <3>2
  <2> QED
    BY <1>4, <1>6, <2>4, <2>5 DEF AudioInv, PartInv
<1>9. \A i \in 1 .. m : /\ packets[i].by = e
                        /\ \A x \in Nat : x < next => x < packets[i].sequence
  BY <1>1, <1>2
<1>10. /\ \A j \in DOMAIN channel.unread : channel.unread[j].sequence \in Nat /\ channel.unread[j].sequence < next
       /\ \A j \in DOMAIN audio.packets : audio.packets[j].sequence \in Nat /\ audio.packets[j].sequence < next
  <2>1. \A k \in Sequences(channel.unread) \cup Sequences(audio.packets) : k \in Nat /\ k < next
    BY SoundFields DEF AudioInv, PartInv, Parted, next
  <2> QED
    BY <2>1 DEF Sequences
<1>11. Sorted(overlapped, packets)
  <2>1. \A i, j \in 1 .. m : i < j => packets[i].sequence < packets[j].sequence
    BY <1>1, <1>2
  <2> QED
    BY <1>2, <2>1 DEF Sorted, Before
<1>12. AllBefore(overlapped, audio.packets, packets) /\ AllBefore(overlapped, channel.unread, packets)
  BY <1>2, <1>9, <1>10 DEF AllBefore, Before
<1>13. SoundInv'
  <2>1. /\ Sorted(overlapped, audio.packets) /\ Sorted(overlapped, channel.unread)
        /\ AllBefore(overlapped, audio.packets, channel.unread)
    BY DEF AudioInv, SoundInv
  <2>2. ASSUME NEW x \in Emulator
        PROVE  /\ Sorted(overlapped, emulators'[x].packets)
               /\ AllBefore(overlapped, audio.packets, emulators'[x].packets)
               /\ AllBefore(overlapped, channel.unread, emulators'[x].packets)
               /\ \A i \in DOMAIN emulators'[x].packets : emulators'[x].packets[i].by = x
    <3>1. CASE x = e
      BY <1>2, <1>5, <1>9, <1>11, <1>12, <3>1
    <3>2. CASE x # e
      BY <1>5, <3>2 DEF AudioInv, SoundInv
    <3> QED
      BY <3>1, <3>2
  <2> QED
    BY <1>4, <2>1, <2>2 DEF SoundInv
<1>14. StampInv'
  BY <1>4 DEF AudioInv, StampInv
<1> QED
  BY <1>8, <1>13, <1>14 DEF AudioInv

\* One emulator's chunks in order are distinct.
LEMMA SortedUnrepeated ==
  ASSUME NEW swap \in BOOLEAN, NEW q \in Seq(Packet), NEW e, Sorted(swap, q), \A i \in DOMAIN q : q[i].by = e
  PROVE  Unrepeated(q)
<1>1. DOMAIN q = 1 .. Len(q) /\ Len(q) \in Nat /\ \A i \in 1 .. Len(q) : q[i].sequence \in Nat
  <2>1. DOMAIN q = 1 .. Len(q) /\ Len(q) \in Nat /\ \A i \in 1 .. Len(q) : q[i] \in Packet
    BY SeqFacts
  <2> QED
    BY <2>1 DEF Packet
<1>2. \A i, j \in 1 .. Len(q) : i < j => q[i].sequence < q[j].sequence
  BY <1>1 DEF Sorted, Before
<1> QED
  BY <1>1, <1>2 DEF Unrepeated

\* Two emulators with chunks to send overlap.
LEMMA SoundsOverlap ==
  ASSUME TypeInv, FormatInv, NEW e \in Emulator, NEW x \in Emulator, x # e,
         emulators[e].packets # <<>>, emulators[x].packets # <<>>
  PROVE  overlapped
<1>1. Wired(e) /\ Wired(x)
  BY DEF TypeInv, Wired
<1> QED
  BY <1>1 DEF FormatInv, EmulatorsAnnounce

LEMMA SendAudio ==
  ASSUME TypeInv, FormatInv, AudioInv, NEW e \in Emulator, send(e)
  PROVE  AudioInv'
<1> DEFINE q == emulators[e].packets
           p == [Head(q) EXCEPT !.rate = emulators[e].rate]
           s == p.sequence
           unread == channel.unread
           fed == audio.packets
<1>1. /\ q \in Seq(Packet) /\ q # <<>> /\ Head(q) = q[1]
      /\ p \in Packet /\ p.sequence = q[1].sequence /\ p.by = q[1].by
      /\ channel' = Sent(p)
      /\ emulators'[e].packets = Tail(q)
      /\ \A x \in Emulator : x # e => emulators'[x] = emulators[x]
  BY SendFacts
<1>2. UNCHANGED <<bus, audio, overlapped>>
  BY DEF send
<1>3. /\ unread \in Seq(Packet) /\ fed \in Seq(Packet) /\ overlapped \in BOOLEAN
      /\ Tail(q) \in Seq(Packet) /\ 1 \in DOMAIN q /\ DOMAIN q = 1 .. Len(q)
      /\ DOMAIN Tail(q) = 1 .. Len(q) - 1 /\ Len(q) \in Nat \ {0}
      /\ \A i \in 1 .. Len(q) - 1 : Tail(q)[i] = q[i + 1]
  BY <1>1, SoundFields, TailFacts, SeqFacts
<1>4. /\ Sorted(overlapped, q) /\ AllBefore(overlapped, fed, q) /\ AllBefore(overlapped, unread, q)
      /\ Sorted(overlapped, fed) /\ Sorted(overlapped, unread) /\ AllBefore(overlapped, fed, unread)
      /\ \A i \in DOMAIN q : q[i].by = e
      /\ Unrepeated(unread) /\ Unrepeated(fed)
      /\ Parted(Held, Sequences(unread), Sequences(fed), channel.missed, bus.next_sequence)
  BY DEF AudioInv, SoundInv, PartInv
<1>5. p.by = e
  BY <1>1, <1>3, <1>4
<1> HIDE DEF p
<1>6. Gives(Held, Held', e, s)
  <2>1. Unrepeated(q)
    BY <1>1, <1>3, <1>4, SortedUnrepeated
  <2>2. /\ Sequences(q) = Sequences(Tail(q)) \cup {q[1].sequence} /\ q[1].sequence \notin Sequences(Tail(q))
    BY <1>1, <2>1, TailSequences, TailUnrepeated
  <2>3. Held[e] = Sequences(q) /\ Held'[e] = Sequences(Tail(q))
    BY <1>1 DEF Held
  <2> QED
    BY <1>1, <2>2, <2>3 DEF Held, Gives
<1> HIDE DEF q, s, unread, fed
<1>7. CASE channel'.unread = channel.unread /\ channel'.missed = channel.missed \cup {p.sequence}
  <2>1. PartInv'
    <3>1. Parted(Held', Sequences(unread), Sequences(fed), channel'.missed, bus.next_sequence)
      <4> DEFINE u == Sequences(unread)
                 f == Sequences(fed)
                 missed2 == channel'.missed
      <4>1. Parted(Held, u, f, channel.missed, bus.next_sequence)
        BY <1>4
      <4>2. Joins(u, u, channel.missed, missed2, s) /\ bus.next_sequence \in Nat
        BY <1>7, SoundFields DEF s, Joins
      <4> HIDE DEF u, f, missed2
      <4>3. Parted(Held', u, f, missed2, bus.next_sequence)
        BY <1>6, <4>1, <4>2, PartedSend
      <4> QED
        BY <4>3 DEF u, f, missed2
    <3> QED
      BY <1>2, <1>4, <1>7, <3>1 DEF unread, fed, AudioInv, PartInv
  <2>2. SoundInv'
    <3>1. ASSUME NEW x \in Emulator
          PROVE  /\ Sorted(overlapped, emulators'[x].packets)
                 /\ AllBefore(overlapped, fed, emulators'[x].packets)
                 /\ AllBefore(overlapped, unread, emulators'[x].packets)
                 /\ \A i \in DOMAIN emulators'[x].packets : emulators'[x].packets[i].by = x
      <4>1. CASE x = e
        <5>1. \A i \in 1 .. Len(q) - 1 : Tail(q)[i].by = e
          BY <1>3, <1>4
        <5>2. /\ emulators'[x].packets = Tail(q)
              /\ \A i \in DOMAIN Tail(q) : Tail(q)[i].by = x
          BY <1>1, <1>3, <4>1, <5>1
        <5>3. /\ Sorted(overlapped, Tail(q)) /\ AllBefore(overlapped, fed, Tail(q))
              /\ AllBefore(overlapped, unread, Tail(q))
          <6> HIDE DEF q, fed, unread
          <6> QED
            BY <1>1, <1>3, <1>4, TailSorted
        <5> QED
          BY <5>2, <5>3
      <4>2. CASE x # e
        BY <1>1, <4>2 DEF AudioInv, SoundInv, unread, fed
      <4> QED
        BY <4>1, <4>2
    <3> QED
      BY <1>2, <1>4, <1>7, <3>1 DEF SoundInv, unread, fed
  <2>3. StampInv'
    BY <1>2 DEF AudioInv, StampInv
  <2> QED
    BY <2>1, <2>2, <2>3 DEF AudioInv
<1>8. ASSUME NEW base \in Seq(Packet), channel'.unread = Append(base, p),
             Sorted(overlapped, base), AllBefore(overlapped, fed, base), Unrepeated(base),
             Sequences(base) \subseteq Sequences(unread),
             \A x \in Emulator : AllBefore(overlapped, base, emulators[x].packets),
             \/ Sequences(base) = Sequences(unread) /\ channel'.missed = channel.missed
             \/ \E h \in Sequences(unread) : /\ Sequences(base) = Sequences(unread) \ {h}
                                             /\ channel'.missed = channel.missed \cup {h}
      PROVE  AudioInv'
  <2>1. Sequences(Append(base, p)) = Sequences(base) \cup {s}
    BY <1>1, <1>8, AppendSequences DEF s
  <2>2. /\ Parted(Held', Sequences(Append(base, p)), Sequences(fed), channel'.missed, bus.next_sequence)
        /\ s \notin Sequences(unread)
    <3> DEFINE u == Sequences(unread)
               b == Sequences(base)
               f == Sequences(fed)
               missed2 == channel'.missed
               unread2 == Sequences(Append(base, p))
    <3>1. Parted(Held, u, f, channel.missed, bus.next_sequence) /\ bus.next_sequence \in Nat
      BY <1>4, SoundFields
    <3>2. Joins(u, unread2, channel.missed, missed2, s)
      BY <1>8, <2>1 DEF Joins
    <3> HIDE DEF u, b, f, missed2, unread2
    <3>3. Parted(Held', unread2, f, missed2, bus.next_sequence) /\ s \notin u
      BY <1>6, <3>1, <3>2, PartedSend
    <3> QED
      BY <3>3 DEF u, f, missed2, unread2
  <2>3. PartInv'
    <3>1. Unrepeated(Append(base, p))
      <4>1. p.sequence \notin Sequences(base)
        BY <1>8, <2>2 DEF s
      <4> QED
        BY <1>1, <1>8, <4>1, AppendSequences
    <3>2. Unrepeated(audio'.packets) /\ bus'.next_sequence + bus'.pending <= bus'.pushed
      BY <1>2 DEF AudioInv, PartInv
    <3> QED
      BY <1>2, <1>8, <2>2, <3>1, <3>2 DEF PartInv, fed
  <2>4. /\ \A i \in DOMAIN base : Before(overlapped, base[i], p)
        /\ \A i \in DOMAIN fed : Before(overlapped, fed[i], p)
        /\ \A i \in DOMAIN Tail(q) : Before(overlapped, p, Tail(q)[i])
        /\ AllBefore(overlapped, base, Tail(q)) /\ AllBefore(overlapped, fed, Tail(q))
        /\ Sorted(overlapped, Tail(q))
    <3>1. /\ \A i \in DOMAIN base : Before(overlapped, base[i], q[1])
          /\ \A i \in DOMAIN fed : Before(overlapped, fed[i], q[1])
          /\ \A i \in DOMAIN Tail(q) : Before(overlapped, q[1], Tail(q)[i])
          /\ AllBefore(overlapped, base, Tail(q)) /\ AllBefore(overlapped, fed, Tail(q))
          /\ Sorted(overlapped, Tail(q))
      <4>1. AllBefore(overlapped, base, q)
        BY <1>8 DEF q
      <4> QED
        BY <1>1, <1>3, <1>4, <1>8, <4>1, TailSorted
    <3>2. \A z : /\ Before(overlapped, z, q[1]) => Before(overlapped, z, p)
                 /\ Before(overlapped, q[1], z) => Before(overlapped, p, z)
      BY <1>1, <1>3, SameBefore
    <3> QED
      BY <3>1, <3>2
  <2>5. Sorted(overlapped, Append(base, p)) /\ AllBefore(overlapped, fed, Append(base, p))
    BY <1>1, <1>3, <1>8, <2>4, AppendSorted
  <2>6. ASSUME NEW x \in Emulator
        PROVE  /\ Sorted(overlapped, emulators'[x].packets)
               /\ AllBefore(overlapped, fed, emulators'[x].packets)
               /\ AllBefore(overlapped, Append(base, p), emulators'[x].packets)
               /\ \A i \in DOMAIN emulators'[x].packets : emulators'[x].packets[i].by = x
    <3>1. CASE x = e
      <4>1. AllBefore(overlapped, Append(base, p), Tail(q))
        BY <1>1, <1>3, <1>8, <2>4, AppendSorted
      <4>2. \A i \in 1 .. Len(q) - 1 : Tail(q)[i].by = e
        BY <1>3, <1>4
      <4> QED
        BY <1>1, <1>3, <2>4, <3>1, <4>1, <4>2
    <3>2. CASE x # e
      <4>1. emulators'[x].packets = emulators[x].packets /\ emulators[x].packets \in Seq(Packet)
        BY <1>1, <3>2, SoundFields
      <4>2. /\ Sorted(overlapped, emulators[x].packets)
            /\ AllBefore(overlapped, fed, emulators[x].packets)
            /\ \A i \in DOMAIN emulators[x].packets : emulators[x].packets[i].by = x
        BY DEF AudioInv, SoundInv, fed
      <4>3. \A j \in DOMAIN emulators[x].packets : Before(overlapped, p, emulators[x].packets[j])
        <5> SUFFICES ASSUME NEW j \in DOMAIN emulators[x].packets
                     PROVE  Before(overlapped, p, emulators[x].packets[j])
          OBVIOUS
        <5>1. emulators[x].packets # <<>>
          <6>1. DOMAIN <<>> = {}
            OBVIOUS
          <6> QED
            BY <6>1
        <5>2. overlapped
          BY <1>1, <3>2, <5>1, SoundsOverlap DEF q
        <5>3. emulators[x].packets[j].by = x
          BY <4>2
        <5> QED
          BY <1>5, <3>2, <5>2, <5>3 DEF Before
      <4>4. AllBefore(overlapped, Append(base, p), emulators[x].packets)
        <5>1. AllBefore(overlapped, base, emulators[x].packets)
          BY <1>8
        <5> QED
          BY <1>1, <1>3, <1>8, <4>1, <4>3, <5>1, AppendSorted
      <4> QED
        BY <4>1, <4>2, <4>4
    <3> QED
      BY <3>1, <3>2
  <2>7. SoundInv'
    BY <1>2, <1>4, <1>8, <2>5, <2>6 DEF SoundInv, fed
  <2>8. StampInv'
    BY <1>2 DEF AudioInv, StampInv
  <2> QED
    BY <2>3, <2>7, <2>8 DEF AudioInv
<1>9. CASE channel'.unread = Append(unread, p) /\ channel'.missed = channel.missed
  <2>1. \A x \in Emulator : AllBefore(overlapped, unread, emulators[x].packets)
    BY DEF AudioInv, SoundInv, unread
  <2> QED
    BY <1>3, <1>4, <1>8, <1>9, <2>1
<1>10. CASE /\ unread # <<>> /\ channel'.unread = Append(Tail(unread), p)
            /\ channel'.missed = channel.missed \cup {Head(unread).sequence}
  <2>1. /\ Tail(unread) \in Seq(Packet) /\ Head(unread) = unread[1]
        /\ Sequences(unread) = Sequences(Tail(unread)) \cup {unread[1].sequence}
        /\ unread[1].sequence \notin Sequences(Tail(unread)) /\ Unrepeated(Tail(unread))
    BY <1>3, <1>4, <1>10, TailFacts, TailSequences, TailUnrepeated
  <2>2. Sorted(overlapped, Tail(unread)) /\ AllBefore(overlapped, fed, Tail(unread))
    BY <1>3, <1>4, <1>10, TailSorted
  <2>3. ASSUME NEW x \in Emulator PROVE AllBefore(overlapped, Tail(unread), emulators[x].packets)
    <3>1. AllBefore(overlapped, unread, emulators[x].packets) /\ emulators[x].packets \in Seq(Packet)
      BY SoundFields DEF AudioInv, SoundInv, unread
    <3> QED
      BY <1>3, <1>10, <3>1, TailSorted
  <2>4. \E h \in Sequences(unread) : /\ Sequences(Tail(unread)) = Sequences(unread) \ {h}
                                     /\ channel'.missed = channel.missed \cup {h}
    BY <1>10, <2>1
  <2> DEFINE rest == Tail(unread)
  <2>5. /\ rest \in Seq(Packet) /\ channel'.unread = Append(rest, p) /\ Unrepeated(rest)
        /\ Sequences(rest) \subseteq Sequences(unread)
    BY <1>10, <2>1
  <2> HIDE DEF rest
  <2> QED
    BY <1>8, <2>2, <2>3, <2>4, <2>5 DEF rest
<1> QED
  <2>1. \/ Sent(p).unread = channel.unread /\ Sent(p).missed = channel.missed \cup {p.sequence}
        \/ Sent(p).unread = Append(channel.unread, p) /\ Sent(p).missed = channel.missed
        \/ /\ channel.unread # <<>> /\ Sent(p).unread = Append(Tail(channel.unread), p)
           /\ Sent(p).missed = channel.missed \cup {Head(channel.unread).sequence}
    BY <1>1, SentCases
  <2> QED
    BY <1>1, <1>7, <1>9, <1>10, <2>1 DEF unread

LEMMA FeedAudio1 ==
  ASSUME TypeInv, AudioInv, NEW fails \in BOOLEAN, feed_audio(fails)
  PROVE  AudioInv'
<1> DEFINE unread == channel.unread
           fed == audio.packets
           p == Head(unread)
           base == IF audio.base_sequence = None THEN p.sequence ELSE audio.base_sequence
           x == [p EXCEPT !.pts = Pts(base, p)]
           s == p.sequence
           rest == channel'.unread
<1>1. /\ unread # <<>> /\ unread \in Seq(Packet) /\ p \in Packet /\ p = unread[1] /\ base \in Nat
      /\ x \in Packet /\ x.sequence = p.sequence /\ x.by = p.by /\ x.rate = p.rate /\ x.pts = Pts(base, p)
      /\ Stampable(x.pts)
      /\ audio'.base_sequence = base /\ audio'.packets = Append(fed, x)
      /\ \/ /\ channel'.unread = Tail(channel.unread) /\ channel'.missed = channel.missed
         \/ /\ channel'.unread = <<>>
            /\ channel'.missed = channel.missed \cup Sequences(Tail(channel.unread))
  BY AudioFacts
<1>2. UNCHANGED <<bus, emulators, overlapped>>
  BY DEF feed_audio
<1>3. fed \in Seq(Packet) /\ overlapped \in BOOLEAN /\ audio.base_sequence \in Nat \cup {None}
  BY SoundFields
<1>4. /\ Sorted(overlapped, fed) /\ Sorted(overlapped, unread) /\ AllBefore(overlapped, fed, unread)
      /\ Unrepeated(unread) /\ Unrepeated(fed)
      /\ Parted(Held, Sequences(unread), Sequences(fed), channel.missed, bus.next_sequence)
      /\ \A e \in Emulator : /\ AllBefore(overlapped, fed, emulators[e].packets)
                             /\ AllBefore(overlapped, unread, emulators[e].packets)
  BY DEF AudioInv, SoundInv, PartInv
<1> HIDE DEF p, base, x
<1>5. /\ Sequences(unread) = Sequences(Tail(unread)) \cup {s} /\ s \notin Sequences(Tail(unread))
      /\ Unrepeated(Tail(unread)) /\ Tail(unread) \in Seq(Packet)
  BY <1>1, <1>4, TailSequences, TailUnrepeated, TailFacts
<1>6. Reads(Sequences(unread), Sequences(rest), channel.missed, channel'.missed, s)
  <2>1. Sequences(Tail(unread)) = Sequences(unread) \ {s} /\ s \in Sequences(unread)
    BY <1>5
  <2>2. Sequences(<<>>) = {}
    BY EmptySorted
  <2> QED
    BY <1>1, <2>1, <2>2 DEF Reads
<1>7. /\ rest \in Seq(Packet) /\ Unrepeated(rest) /\ Sorted(overlapped, rest)
      /\ \A j \in DOMAIN rest : Before(overlapped, p, rest[j])
      /\ AllBefore(overlapped, fed, rest)
      /\ \A e \in Emulator : AllBefore(overlapped, rest, emulators[e].packets)
  <2>1. CASE rest = Tail(unread)
    <3>1. /\ Sorted(overlapped, Tail(unread)) /\ AllBefore(overlapped, fed, Tail(unread))
          /\ \A j \in DOMAIN Tail(unread) : Before(overlapped, unread[1], Tail(unread)[j])
      BY <1>1, <1>3, <1>4, TailSorted
    <3>2. ASSUME NEW e \in Emulator PROVE AllBefore(overlapped, Tail(unread), emulators[e].packets)
      <4>1. emulators[e].packets \in Seq(Packet) /\ AllBefore(overlapped, unread, emulators[e].packets)
        BY <1>4, SoundFields
      <4> QED
        BY <1>1, <1>3, <4>1, TailSorted
    <3> QED
      BY <1>1, <1>5, <2>1, <3>1, <3>2
  <2>2. CASE rest = <<>>
    <3>1. DOMAIN rest = {}
      BY <2>2
    <3> QED
      BY <1>3, <2>2, <3>1, EmptySorted, EmptySeq
  <2> QED
    BY <1>1, <2>1, <2>2
<1> HIDE DEF unread, fed, s, rest
<1>8. PartInv'
  <2>1. Sequences(Append(fed, x)) = Sequences(fed) \cup {s}
    BY <1>1, <1>3, AppendSequences DEF s
  <2>2. /\ Parted(Held, Sequences(rest), Sequences(fed) \cup {s}, channel'.missed, bus.next_sequence)
        /\ s \notin Sequences(fed)
    <3> DEFINE u == Sequences(unread)
               u2 == Sequences(rest)
               f == Sequences(fed)
               missed2 == channel'.missed
    <3>1. /\ Parted(Held, u, f, channel.missed, bus.next_sequence)
          /\ Reads(u, u2, channel.missed, missed2, s) /\ bus.next_sequence \in Nat
      BY <1>4, <1>6, SoundFields
    <3> HIDE DEF u, u2, f, missed2
    <3>2. Parted(Held, u2, f \cup {s}, missed2, bus.next_sequence) /\ s \notin f
      BY <3>1, PartedFeed
    <3> QED
      BY <3>2 DEF u, u2, f, missed2
  <2>3. Unrepeated(Append(fed, x))
    <3>1. x.sequence \notin Sequences(fed)
      BY <1>1, <2>2 DEF s
    <3> QED
      BY <1>1, <1>3, <1>4, <3>1, AppendSequences
  <2>4. Held' = Held
    BY <1>2 DEF Held
  <2>5. bus'.next_sequence + bus'.pending <= bus'.pushed
    BY <1>2 DEF AudioInv, PartInv
  <2> QED
    BY <1>1, <1>2, <1>7, <2>1, <2>2, <2>3, <2>4, <2>5 DEF PartInv, rest
<1>9. /\ \A i \in DOMAIN fed : Before(overlapped, fed[i], x)
      /\ \A j \in DOMAIN rest : Before(overlapped, x, rest[j])
      /\ \A e \in Emulator : \A j \in DOMAIN emulators[e].packets : Before(overlapped, x, emulators[e].packets[j])
  <2>1. \A z : /\ Before(overlapped, z, p) => Before(overlapped, z, x)
               /\ Before(overlapped, p, z) => Before(overlapped, x, z)
    BY <1>1, <1>3, SameBefore
  <2>2. \A i \in DOMAIN fed : Before(overlapped, fed[i], p)
    BY <1>1, <1>3, <1>4, TailSorted
  <2>3. ASSUME NEW e \in Emulator
        PROVE  \A j \in DOMAIN emulators[e].packets : Before(overlapped, p, emulators[e].packets[j])
    <3>1. emulators[e].packets \in Seq(Packet) /\ AllBefore(overlapped, unread, emulators[e].packets)
      BY <1>4, SoundFields
    <3> QED
      BY <1>1, <1>3, <3>1, TailSorted
  <2> QED
    BY <1>7, <2>1, <2>2, <2>3
<1>10. SoundInv'
  <2>1. Sorted(overlapped, Append(fed, x))
    BY <1>1, <1>3, <1>4, <1>9, AppendSorted
  <2>2. AllBefore(overlapped, Append(fed, x), rest)
    BY <1>1, <1>3, <1>7, <1>9, AppendSorted
  <2>3. ASSUME NEW e \in Emulator
        PROVE  /\ Sorted(overlapped, emulators[e].packets)
               /\ AllBefore(overlapped, Append(fed, x), emulators[e].packets)
               /\ AllBefore(overlapped, rest, emulators[e].packets)
               /\ \A i \in DOMAIN emulators[e].packets : emulators[e].packets[i].by = e
    <3>1. emulators[e].packets \in Seq(Packet) /\ AllBefore(overlapped, fed, emulators[e].packets)
      BY <1>4, SoundFields
    <3>2. AllBefore(overlapped, Append(fed, x), emulators[e].packets)
      BY <1>1, <1>3, <1>9, <3>1, AppendSorted
    <3> QED
      BY <1>7, <3>2 DEF AudioInv, SoundInv
  <2> QED
    BY <1>1, <1>2, <1>7, <2>1, <2>2, <2>3 DEF SoundInv, rest
<1>11. StampInv'
  <2> DEFINE n == Len(fed)
  <2>1. /\ n \in Nat /\ DOMAIN fed = 1 .. n /\ DOMAIN Append(fed, x) = 1 .. n + 1 /\ Append(fed, x) # <<>>
        /\ \A i \in 1 .. n + 1 : Append(fed, x)[i] = IF i = n + 1 THEN x ELSE fed[i]
        /\ fed = <<>> <=> n = 0
        /\ \A i \in 1 .. n : fed[i] \in Packet
    BY <1>1, <1>3, AppendFacts, SeqFacts
  <2> HIDE DEF n
  <2>2. base = Append(fed, x)[1].sequence
    <3>1. CASE n = 0
      <4>1. audio.base_sequence = None
        BY <2>1, <3>1 DEF AudioInv, StampInv, fed
      <4>2. Append(fed, x)[1] = x
        BY <2>1, <3>1
      <4> QED
        BY <1>1, <4>1, <4>2 DEF base
    <3>2. CASE n # 0
      <4>1. audio.base_sequence = fed[1].sequence
        BY <2>1, <3>2 DEF AudioInv, StampInv, fed
      <4>2. 1 \in 1 .. n /\ 1 \in 1 .. n + 1 /\ 1 # n + 1
        BY <2>1, <3>2
      <4>3. fed[1].sequence \in Nat
        BY <2>1, <4>2 DEF Packet
      <4>4. audio.base_sequence # None
        BY <4>1, <4>3 DEF None
      <4> QED
        BY <2>1, <4>1, <4>2, <4>4 DEF base
    <3> QED
      BY <3>1, <3>2
  <2>3. ASSUME NEW i \in 1 .. n + 1
        PROVE  /\ Append(fed, x)[i].pts = Pts(base, Append(fed, x)[i])
               /\ Stampable(Append(fed, x)[i].pts)
    <3>1. CASE i = n + 1
      <4>1. Pts(base, x) = Pts(base, p)
        BY <1>1 DEF Pts
      <4> QED
        BY <1>1, <2>1, <3>1, <4>1
    <3>2. CASE i # n + 1
      <4>1. i \in 1 .. n /\ Append(fed, x)[i] = fed[i] /\ n # 0
        BY <2>1, <3>2
      <4>2. fed[i].pts = Pts(audio.base_sequence, fed[i]) /\ Stampable(fed[i].pts)
        BY <2>1, <4>1 DEF AudioInv, StampInv, fed
      <4>3. audio.base_sequence = base
        <5>1. audio.base_sequence = fed[1].sequence
          BY <2>1, <4>1 DEF AudioInv, StampInv, fed
        <5>2. 1 \in 1 .. n /\ 1 \in 1 .. n + 1 /\ 1 # n + 1
          BY <2>1, <4>1
        <5> QED
          BY <2>1, <2>2, <5>1, <5>2
      <4> QED
        BY <4>1, <4>2, <4>3
    <3> QED
      BY <3>1, <3>2
  <2> QED
    BY <1>1, <2>1, <2>2, <2>3 DEF StampInv
<1> QED
  BY <1>8, <1>10, <1>11 DEF AudioInv

\* The receiver is dropped: what was unread is missed.
LEMMA PanicAudio ==
  ASSUME TypeInv, AudioInv, feed_audio_panics
  PROVE  AudioInv'
<1>1. /\ audio'.packets = audio.packets /\ audio'.base_sequence = audio.base_sequence
      /\ channel'.unread = <<>> /\ channel'.missed = channel.missed \cup Sequences(channel.unread)
      /\ UNCHANGED <<bus, emulators, overlapped>>
  BY DEF feed_audio_panics, AudioEnds, TypeInv, Types
<1>2. /\ Sequences(<<>>) = {} /\ Unrepeated(<<>>) /\ Sorted(overlapped, <<>>) /\ DOMAIN <<>> = {}
  <2>1. DOMAIN <<>> = {}
    OBVIOUS
  <2> QED
    BY <2>1 DEF Sequences, Unrepeated, Sorted
<1>3. PartInv'
  <2> DEFINE u == Sequences(channel.unread)
             f == Sequences(audio.packets)
             m == channel.missed
             n == bus.next_sequence
             h == Held
  <2>1. Parted(h, u, f, m, n)
    BY DEF AudioInv, PartInv
  <2>2. Held' = Held
    BY <1>1 DEF Held
  <2> HIDE DEF u, f, m, n, h
  <2>3. Parted(h, {}, f, m \cup u, n)
    BY <2>1 DEF Parted
  <2>4. Parted(Held', Sequences(channel'.unread), Sequences(audio'.packets), channel'.missed,
               bus'.next_sequence)
    BY <1>1, <1>2, <2>2, <2>3 DEF u, f, m, n, h
  <2> QED
    BY <1>1, <1>2, <2>4 DEF PartInv, AudioInv
<1>4. SoundInv'
  BY <1>1, <1>2 DEF AudioInv, SoundInv, AllBefore
<1>5. StampInv'
  BY <1>1 DEF AudioInv, StampInv
<1> QED
  BY <1>3, <1>4, <1>5 DEF AudioInv

LEMMA NextAudio ==
  ASSUME TypeInv, FormatInv, AudioInv, [Next]_vars
  PROVE  AudioInv'
<1>0. TypeInv'
  BY NextTypes
<1>1. CASE EmulatorStep
  <2>1. PICK e \in Emulator :
          \/ wire(e) \/ set_pixel_format(e) \/ keep_default_format(e) \/ set_hw_render(e)
          \/ set_sample_rate_hz(e) \/ clear_callback_context(e)
          \/ video_refresh(e) \/ publish(e) \/ read_hw_framebuffer(e) \/ read_rate(e)
          \/ (\E n \in Batch : push_samples(e, n))
          \/ send(e)
    BY <1>1 DEF EmulatorStep
  <2>2. CASE \E n \in Batch : push_samples(e, n)
    BY <1>0, <2>2, PushAudio
  <2>3. CASE send(e)
    BY <2>3, SendAudio
  <2>4. CASE \/ wire(e) \/ set_pixel_format(e) \/ keep_default_format(e) \/ set_hw_render(e)
             \/ set_sample_rate_hz(e) \/ clear_callback_context(e)
             \/ video_refresh(e) \/ publish(e) \/ read_hw_framebuffer(e) \/ read_rate(e)
    <3>1. \A x \in Emulator : emulators'[x].packets = emulators[x].packets
      <4>1. emulators \in [Emulator -> EmulatorState]
        BY DEF TypeInv, Types
      <4>2. \/ emulators' = emulators
            \/ \E at : emulators' = [emulators EXCEPT ![e].at = at]
            \/ emulators' = [emulators EXCEPT ![e].at = "loaded", ![e].told = TRUE]
            \/ \E at, byte : emulators' = [emulators EXCEPT ![e].at = at, ![e].byte = byte]
            \/ \E at, rate : emulators' = [emulators EXCEPT ![e].at = at, ![e].rate = rate]
        BY <2>4 DEF wire, set_pixel_format, keep_default_format, set_hw_render, set_sample_rate_hz,
          clear_callback_context, video_refresh, publish, read_hw_framebuffer, read_rate, Goes
      <4>3. CASE \E at : emulators' = [emulators EXCEPT ![e].at = at]
        BY <4>1, <4>3 DEF EmulatorState
      <4>4. CASE \E at, byte : emulators' = [emulators EXCEPT ![e].at = at, ![e].byte = byte]
        BY <4>1, <4>4 DEF EmulatorState
      <4>5. CASE \E at, rate : emulators' = [emulators EXCEPT ![e].at = at, ![e].rate = rate]
        BY <4>1, <4>5 DEF EmulatorState
      <4>6. CASE emulators' = [emulators EXCEPT ![e].at = "loaded", ![e].told = TRUE]
        BY <4>1, <4>6 DEF EmulatorState
      <4> QED
        BY <4>2, <4>3, <4>4, <4>5, <4>6
    <3>2. UNCHANGED <<channel, audio>> /\ (overlapped => overlapped')
      <4>1. CASE wire(e)
        BY <4>1 DEF wire, sounds
      <4>2. CASE ~wire(e)
        BY <2>4, <4>2 DEF set_pixel_format, keep_default_format, set_hw_render, set_sample_rate_hz,
          clear_callback_context, video_refresh, publish, read_hw_framebuffer, read_rate, sounds
      <4> QED
        BY <4>1, <4>2
    <3>3. /\ bus'.next_sequence = bus.next_sequence /\ bus'.pending = bus.pending
          /\ bus'.pushed = bus.pushed
      <4>1. bus' = bus \/ bus' = [bus EXCEPT !.rate = RateOf[e]]
        BY <2>4 DEF wire, set_pixel_format, keep_default_format, set_hw_render, set_sample_rate_hz,
          clear_callback_context, video_refresh, publish, read_hw_framebuffer, read_rate, sounds
      <4> QED
        BY <4>1 DEF TypeInv, Types
    <3> QED
      BY <3>1, <3>2, <3>3, QuietAudio
  <2> QED
    BY <2>1, <2>2, <2>3, <2>4
<1>2. CASE FeedAudio
  <2>1. CASE audio_lagged
    <3>1. /\ channel' = [channel EXCEPT !.lagged = FALSE]
          /\ UNCHANGED <<emulators, audio, bus, overlapped>>
      BY <2>1 DEF audio_lagged
    <3>2. channel'.unread = channel.unread /\ channel'.missed = channel.missed
      BY <3>1 DEF TypeInv, Types
    <3> QED
      BY <3>1, <3>2, QuietAudio
  <2> QED
    BY <1>2, <2>1, FeedAudio1, PanicAudio DEF FeedAudio
<1>3. CASE start
  <2>1. audio' = [audio EXCEPT !.at = "recv"] /\ UNCHANGED <<emulators, channel, bus, overlapped>>
    BY <1>3 DEF start
  <2>2. audio'.packets = audio.packets /\ audio'.base_sequence = audio.base_sequence
    BY <2>1 DEF TypeInv, Types
  <2> QED
    BY <2>1, <2>2, QuietAudio
<1>4. CASE Dispatch \/ FeedVideo \/ Out \/ shut_down \/ UNCHANGED vars
  <2>1. UNCHANGED <<emulators, channel, audio, bus, overlapped>>
    BY <1>4, OutFacts DEF Dispatch, dispatcher_loop, wait_for_next_returns, dispatch,
      FeedVideo, video_changed, video_closed, feed_video, shut_down, vars, sounds
  <2> QED
    BY <2>1, QuietAudio
<1> QED
  BY <1>1, <1>2, <1>3, <1>4 DEF Next

-----------------------------------------------------------------------------
(* What the invariant says of the chunks.                                  *)

\* A chunk cut is in one place, and nowhere twice.
LEMMA OnePlace ==
  ASSUME TypeInv, PartInv, NEW k \in 0..(bus.next_sequence - 1)
  PROVE  LET Places == {e \in Emulator : k \in Sequences(emulators[e].packets)}
                        \cup {<<"unread", i>> : i \in Positions(channel.unread, k)}
                        \cup {<<"fed", i>> : i \in Positions(audio.packets, k)}
                        \cup {m \in {"missed"} : k \in channel.missed}
         IN  Cardinality(Places) = 1
<1> DEFINE Holders == {e \in Emulator : k \in Sequences(emulators[e].packets)}
           Unread == {<<"unread", i>> : i \in Positions(channel.unread, k)}
           Fed1 == {<<"fed", i>> : i \in Positions(audio.packets, k)}
           Missed == {m \in {"missed"} : k \in channel.missed}
           Places == Holders \cup Unread \cup Fed1 \cup Missed
<1>1. k \in Nat /\ k < bus.next_sequence
  BY SoundFields
<1>2. Parted(Held, Sequences(channel.unread), Sequences(audio.packets), channel.missed, bus.next_sequence)
  BY DEF PartInv
<1>3. \A e \in Emulator : e \in Holders <=> k \in Held[e]
  BY DEF Held
<1>4. k \notin Sequences(channel.unread) => Unread = {}
  BY DEF Sequences, Positions
<1>5. k \notin Sequences(audio.packets) => Fed1 = {}
  BY DEF Sequences, Positions
<1>6. k \notin channel.missed => Missed = {}
  OBVIOUS
<1>7. \E x : Places = {x}
  <2>1. CASE \E e \in Emulator : k \in Held[e]
    <3>1. PICK e \in Emulator : k \in Held[e]
      BY <2>1
    <3>2. k \notin Sequences(channel.unread) /\ k \notin Sequences(audio.packets) /\ k \notin channel.missed
      BY <1>2, <3>1 DEF Parted
    <3>3. \A x \in Emulator : x # e => k \notin Held[x]
      BY <1>2, <3>1 DEF Parted
    <3>4. Holders = {e}
      BY <1>3, <3>1, <3>3
    <3> HIDE DEF Holders, Unread, Fed1, Missed
    <3> QED
      BY <1>4, <1>5, <1>6, <3>2, <3>4
  <2>2. CASE k \in Sequences(channel.unread)
    <3>1. k \notin Sequences(audio.packets) /\ k \notin channel.missed /\ \A e \in Emulator : k \notin Held[e]
      BY <1>2, <2>2 DEF Parted
    <3>2. PICK i \in DOMAIN channel.unread : channel.unread[i].sequence = k
      BY <2>2 DEF Sequences
    <3>3. Positions(channel.unread, k) = {i}
      BY <3>2 DEF PartInv, Unrepeated, Positions
    <3>4. Unread = {<<"unread", i>>} /\ Holders = {}
      BY <1>3, <3>1, <3>3
    <3> HIDE DEF Holders, Unread, Fed1, Missed
    <3> QED
      BY <1>5, <1>6, <3>1, <3>4
  <2>3. CASE k \in Sequences(audio.packets)
    <3>1. k \notin Sequences(channel.unread) /\ k \notin channel.missed /\ \A e \in Emulator : k \notin Held[e]
      BY <1>2, <2>3 DEF Parted
    <3>2. PICK i \in DOMAIN audio.packets : audio.packets[i].sequence = k
      BY <2>3 DEF Sequences
    <3>3. Positions(audio.packets, k) = {i}
      BY <3>2 DEF PartInv, Unrepeated, Positions
    <3>4. Fed1 = {<<"fed", i>>} /\ Holders = {}
      BY <1>3, <3>1, <3>3
    <3> HIDE DEF Holders, Unread, Fed1, Missed
    <3> QED
      BY <1>4, <1>6, <3>1, <3>4
  <2>4. CASE k \in channel.missed
    <3>1. /\ k \notin Sequences(channel.unread) /\ k \notin Sequences(audio.packets)
          /\ \A e \in Emulator : k \notin Held[e]
      BY <1>2, <2>4 DEF Parted
    <3>2. Missed = {"missed"} /\ Holders = {}
      BY <1>3, <2>4, <3>1
    <3> HIDE DEF Holders, Unread, Fed1, Missed
    <3> QED
      BY <1>4, <1>5, <3>1, <3>2
  <2> QED
    BY <1>1, <1>2, <2>1, <2>2, <2>3, <2>4 DEF Parted
<1> HIDE DEF Places
<1>8. Cardinality(Places) = 1
  BY <1>7, FS_Singleton
<1> QED
  BY <1>8 DEF Places

\* The clock of the time stamps does not wrap while samples are pushed.
NoWrap == \A rate \in Rates : MaxSamples * Duration[rate] < Wide

\* A chunk not older than the first one fed has its distance for a stamp.
LEMMA StampOf ==
  ASSUME NoWrap, NEW base \in Nat, NEW x \in Packet,
         base <= x.sequence, x.sequence < MaxSamples
  PROVE  /\ Pts(base, x) = (x.sequence - base) * Duration[x.rate]
         /\ Stampable(Pts(base, x))
<1> DEFINE a == x.sequence - base
           d == Duration[x.rate]
<1>1. /\ x.sequence \in Nat /\ x.rate \in Rates
      /\ Wide \in Nat \ {0} /\ MaxSamples \in Nat /\ d \in Nat /\ d >= 2
  BY PipelineAssumption DEF Packet
<1>2. a \in Nat /\ a < MaxSamples
  BY <1>1
<1>3. MaxSamples * d < Wide
  BY <1>1 DEF NoWrap
<1> HIDE DEF a, d
<1>4. /\ a * d \in Nat /\ MaxSamples * d \in Nat
      /\ a <= a * d /\ a * d + d <= MaxSamples * d
  <2>1. \A m, n \in Nat, c \in Nat : m < n => m * c + c <= n * c
    <3> SUFFICES ASSUME NEW m \in Nat, NEW n \in Nat, NEW c \in Nat, m < n
                 PROVE  m * c + c <= n * c
      OBVIOUS
    <3>1. (m + 1) * c <= n * c
      BY SMTT(30)
    <3>2. (m + 1) * c = m * c + c
      BY SMTT(30)
    <3> QED
      BY <3>1, <3>2
  <2>2. \A m \in Nat, c \in Nat : c >= 2 => m * c \in Nat /\ m <= m * c
    BY SMTT(30)
  <2> QED
    BY <1>1, <1>2, <2>1, <2>2
<1>5. a < Wide /\ a * d < Wide /\ a * d # Wide - 1
  BY <1>1, <1>2, <1>3, <1>4
<1>6. (x.sequence - base) % Wide = a
  <2>1. a % Wide = a
    BY <1>1, <1>2, <1>5
  <2> QED
    BY <2>1 DEF a
<1>7. Pts(base, x) = IF a * d < Wide THEN a * d ELSE Wide - 1
  BY <1>6 DEF Pts, d
<1> QED
  BY <1>5, <1>7 DEF Stampable, a, d

\* Later chunks of a rate have later stamps.
LEMMA StampsRise ==
  ASSUME NoWrap, NEW base \in Nat, NEW x \in Packet, NEW y \in Packet,
         base <= x.sequence, x.sequence < y.sequence, y.sequence < MaxSamples, x.rate = y.rate
  PROVE  Pts(base, x) < Pts(base, y)
<1>1. Pts(base, x) = (x.sequence - base) * Duration[x.rate]
      /\ Pts(base, y) = (y.sequence - base) * Duration[y.rate]
  <2>1. x.sequence < MaxSamples /\ base <= y.sequence
    BY PipelineAssumption DEF Packet
  <2> QED
    BY <2>1, StampOf
<1> DEFINE a == x.sequence - base
           b == y.sequence - base
           d == Duration[x.rate]
<1>2. a \in Nat /\ b \in Nat /\ a < b /\ d \in Nat \ {0}
  BY PipelineAssumption DEF Packet
<1> HIDE DEF a, b, d
<1>3. \A m, n \in Nat, c \in Nat \ {0} : m < n => m * c < n * c
  BY SMTT(30)
<1>4. a * d < b * d
  BY <1>2, <1>3
<1> QED
  BY <1>1, <1>4 DEF a, b, d

\* A chunk cut before the first one fed wraps and saturates.
LEMMA StampBelow ==
  ASSUME NoWrap, NEW base \in Nat, NEW x \in Packet, x.sequence < base, base < MaxSamples
  PROVE  ~Stampable(Pts(base, x))
<1> DEFINE b == base - x.sequence
           d == Duration[x.rate]
           o == (x.sequence - base) % Wide
<1>1. /\ x.sequence \in Nat /\ x.rate \in Rates
      /\ Wide \in Nat \ {0} /\ MaxSamples \in Nat /\ d \in Nat /\ d >= 2
  BY PipelineAssumption DEF Packet
<1>2. b \in Nat /\ b > 0 /\ b < MaxSamples
  BY <1>1
<1>3. MaxSamples * d < Wide
  BY <1>1 DEF NoWrap
<1>4. x.sequence - base = -b
  BY <1>1
<1> HIDE DEF b, d
<1>5. \A m \in Nat, c \in Nat : c >= 2 => m * c \in Nat /\ 2 * m <= m * c
  BY SMTT(30)
<1>6. 2 * MaxSamples < Wide
  BY <1>1, <1>3, <1>5
<1>7. o = Wide - b
  <2>1. (-b) % Wide = Wide - b
    BY <1>1, <1>2, <1>6
  <2> QED
    BY <1>4, <2>1
<1>8. o \in Nat /\ 2 * o >= Wide
  BY <1>1, <1>2, <1>6, <1>7
<1> HIDE DEF o
<1>9. o * d \in Nat /\ ~(o * d < Wide)
  BY <1>1, <1>5, <1>8
<1>10. Pts(base, x) = IF o * d < Wide THEN o * d ELSE Wide - 1
  BY DEF Pts, o, d
<1> QED
  BY <1>9, <1>10 DEF Stampable

\* The chunks unread or fed have numbers below MaxSamples.
LEMMA FewChunks ==
  ASSUME TypeInv, AudioInv,
         NEW k \in Sequences(channel.unread) \cup Sequences(audio.packets)
  PROVE  k \in Nat /\ k < MaxSamples
<1>1. k \in Nat
  BY SoundFields, SeqFacts DEF Sequences, Packet
<1>2. k < bus.next_sequence
  BY <1>1 DEF AudioInv, PartInv, Parted
<1>3. /\ bus.next_sequence \in Nat /\ bus.pending \in Nat /\ bus.pushed \in Nat
      /\ bus.pushed <= MaxSamples /\ bus.next_sequence + bus.pending <= bus.pushed /\ MaxSamples \in Nat
  BY SoundFields, PipelineAssumption DEF AudioInv, PartInv
<1> QED
  BY <1>1, <1>2, <1>3

\* While emulators do not overlap the feeder is not sent a chunk it cannot stamp.
LEMMA NoPanic ==
  ASSUME NoWrap, TypeInv, AudioInv, feed_audio_panics
  PROVE  overlapped
<1> DEFINE p == Head(channel.unread)
           fed == audio.packets
<1>1. /\ channel.unread # <<>> /\ channel.unread \in Seq(Packet) /\ fed \in Seq(Packet)
      /\ audio.base_sequence # None /\ ~Stampable(Pts(audio.base_sequence, p))
  BY SoundFields DEF feed_audio_panics
<1>2. p \in Packet /\ p = channel.unread[1] /\ 1 \in DOMAIN channel.unread
  BY <1>1, TailFacts, SeqFacts
<1>3. fed # <<>> /\ audio.base_sequence = fed[1].sequence
  BY <1>1 DEF AudioInv, StampInv
<1>4. 1 \in DOMAIN fed /\ fed[1] \in Packet
  BY <1>1, <1>3, SeqFacts
<1>5. Before(overlapped, fed[1], p)
  BY <1>2, <1>4 DEF AudioInv, SoundInv, AllBefore
<1>6. p.sequence \in Nat /\ p.sequence < MaxSamples
  BY <1>2, FewChunks DEF Sequences
<1>7. fed[1].sequence \in Nat
  BY <1>4 DEF Packet
<1> HIDE DEF p, fed
<1>8. SUFFICES ASSUME ~overlapped PROVE FALSE
  OBVIOUS
<1>9. fed[1].sequence <= p.sequence
  BY <1>5, <1>6, <1>7, <1>8 DEF Before
<1> QED
  BY <1>1, <1>2, <1>3, <1>6, <1>7, <1>9, StampOf

LEMMA NextEnd ==
  ASSUME NoWrap, TypeInv, AudioInv, EndInv, [Next]_vars
  PROVE  EndInv'
<1>1. CASE feed_audio_panics
  BY <1>1, NoPanic DEF EndInv, feed_audio_panics
<1>2. ASSUME NEW fails \in BOOLEAN, feed_audio(fails) PROVE EndInv'
  <2>1. /\ audio'.at = IF fails THEN "ended" ELSE "recv"
        /\ status' = [status EXCEPT !.pipeline_state = IF fails THEN "error" ELSE @]
    BY <1>2 DEF feed_audio
  <2> QED
    BY <2>1 DEF EndInv, TypeInv, Types
<1>3. CASE start
  BY <1>3 DEF start, EndInv, TypeInv, Types
<1>4. ASSUME audio' = audio, overlapped => overlapped',
             status.pipeline_state = "error" => status'.pipeline_state = "error"
      PROVE  EndInv'
  BY <1>4 DEF EndInv
<1>5. CASE Out
  <2>1. audio' = audio /\ overlapped' = overlapped
    BY <1>5, OutFacts DEF sounds
  <2>2. \/ status' = status
        \/ status' = [status EXCEPT !.dropped_video_frames = @ + 1]
        \/ \E fails \in BOOLEAN : status' = [status EXCEPT !.pipeline_state = IF fails THEN "error" ELSE @]
    BY <1>5 DEF Out, install_appsink_bridge, drain_rtp_packets
  <2>3. status.pipeline_state = "error" => status'.pipeline_state = "error"
    BY <2>2 DEF TypeInv, Types
  <2> QED
    BY <1>4, <2>1, <2>3
<1>6. CASE FeedVideo
  <2>1. audio' = audio /\ overlapped' = overlapped
    BY <1>6 DEF FeedVideo, video_changed, video_closed, feed_video, sounds
  <2>2. status.pipeline_state = "error" => status'.pipeline_state = "error"
    <3>1. ASSUME NEW fails \in BOOLEAN, feed_video(fails)
          PROVE  status'.pipeline_state = IF fails THEN "error" ELSE status.pipeline_state
      BY <3>1 DEF feed_video
    <3>2. CASE video_changed \/ video_closed
      BY <3>2 DEF video_changed, video_closed
    <3> QED
      BY <1>6, <3>1, <3>2 DEF FeedVideo
  <2> QED
    BY <1>4, <2>1, <2>2
<1>7. CASE EmulatorStep
  <2>1. PICK e \in Emulator :
          \/ wire(e) \/ set_pixel_format(e) \/ keep_default_format(e) \/ set_hw_render(e)
          \/ set_sample_rate_hz(e) \/ clear_callback_context(e)
          \/ video_refresh(e) \/ publish(e) \/ read_hw_framebuffer(e)
          \/ (\E n \in Batch : push_samples(e, n))
          \/ read_rate(e) \/ send(e)
    BY <1>7 DEF EmulatorStep
  <2>2. audio' = audio /\ status' = status
    BY <2>1 DEF wire, set_pixel_format, keep_default_format, set_hw_render, set_sample_rate_hz,
      clear_callback_context, video_refresh, publish, read_hw_framebuffer, push_samples, read_rate, send,
      sounds
  <2>3. overlapped => overlapped'
    <3>1. CASE wire(e)
      BY <3>1 DEF wire
    <3>2. CASE ~wire(e)
      BY <2>1, <3>2 DEF set_pixel_format, keep_default_format, set_hw_render, set_sample_rate_hz,
        clear_callback_context, video_refresh, publish, read_hw_framebuffer, push_samples, read_rate, send
    <3> QED
      BY <3>1, <3>2
  <2> QED
    BY <1>4, <2>2, <2>3
<1>8. CASE Dispatch \/ audio_lagged \/ shut_down \/ UNCHANGED vars
  <2>1. audio' = audio /\ status' = status /\ overlapped' = overlapped
    BY <1>8 DEF Dispatch, dispatcher_loop, wait_for_next_returns, dispatch, audio_lagged, shut_down,
      vars, sounds
  <2> QED
    BY <1>4, <2>1
<1> QED
  BY <1>1, <1>2, <1>3, <1>5, <1>6, <1>7, <1>8 DEF Next, FeedAudio

LEMMA AccountFollows ==
  ASSUME NoWrap, TypeInv, AudioInv, EndInv
  PROVE  AudioIsAccountedFor
<1> DEFINE fed == audio.packets
<1>1. ASSUME NEW k \in 0..(bus.next_sequence - 1)
      PROVE  Cardinality({e \in Emulator : k \in Sequences(emulators[e].packets)}
                           \cup {<<"unread", i>> : i \in Positions(channel.unread, k)}
                           \cup {<<"fed", i>> : i \in Positions(audio.packets, k)}
                           \cup {m \in {"missed"} : k \in channel.missed}) = 1
  BY OnePlace DEF AudioInv
<1>2. ASSUME NEW i \in DOMAIN fed, NEW j \in DOMAIN fed
      PROVE  /\ i < j => fed[i].sequence < fed[j].sequence \/ (overlapped /\ fed[i].by # fed[j].by)
             /\ fed[i].sequence < fed[j].sequence /\ fed[i].rate = fed[j].rate => fed[i].pts < fed[j].pts
             /\ fed[1].sequence <= fed[i].sequence
  <2>1. /\ fed \in Seq(Packet) /\ DOMAIN fed = 1 .. Len(fed) /\ Len(fed) \in Nat
        /\ \A n \in 1 .. Len(fed) : fed[n] \in Packet
    BY SoundFields, SeqFacts
  <2>2. i < j => fed[i].sequence < fed[j].sequence \/ (overlapped /\ fed[i].by # fed[j].by)
    BY DEF AudioInv, SoundInv, Sorted, Before
  <2>3. 1 \in DOMAIN fed /\ fed # <<>>
    BY <2>1
  <2>4. /\ audio.base_sequence = fed[1].sequence
        /\ fed[i].pts = Pts(fed[1].sequence, fed[i]) /\ fed[j].pts = Pts(fed[1].sequence, fed[j])
        /\ Stampable(fed[i].pts)
    BY <2>3 DEF AudioInv, StampInv
  <2>5. fed[i] \in Packet /\ fed[j] \in Packet /\ fed[1] \in Packet
    BY <2>1, <2>3
  <2>6. fed[1].sequence \in Nat /\ fed[i].sequence \in Nat /\ fed[j].sequence \in Nat
    BY <2>5 DEF Packet
  <2>7. fed[1].sequence < MaxSamples /\ fed[j].sequence < MaxSamples
    BY <2>3, FewChunks DEF Sequences
  <2> HIDE DEF fed
  <2>8. fed[1].sequence <= fed[i].sequence
    BY <2>4, <2>5, <2>6, <2>7, StampBelow
  <2>9. fed[i].sequence < fed[j].sequence /\ fed[i].rate = fed[j].rate => fed[i].pts < fed[j].pts
    BY <2>4, <2>5, <2>6, <2>7, <2>8, StampsRise
  <2> QED
    BY <2>2, <2>8, <2>9
<1> QED
  BY <1>1, <1>2 DEF AudioIsAccountedFor, EndInv

(* Every chunk of sound cut is in one place: with the emulator that cut    *)
(* it, unread, fed or missed, whatever the emulators, the slow or absent   *)
(* receiver, failing pushes and the panic interleave.  Chunks of one       *)
(* emulator are fed in the order they were cut, those of overlapping ones  *)
(* may swap; none fed was cut before the first, and stamps of one rate     *)
(* rise with the numbers.  Without an overlap the feeder ends only with an *)
(* error.  All this as long as the clock does not wrap.                    *)
THEOREM NoChunkIsLostOrRepeated ==
  ASSUME NoWrap
  PROVE  Spec => []AudioIsAccountedFor
<1>1. TypeInv /\ AudioInv /\ EndInv => AudioIsAccountedFor
  BY AccountFollows
<1>2. Init => TypeInv /\ FormatInv /\ AudioInv /\ EndInv
  BY InitTypes, InitFormats, InitAudio DEF Init, EndInv
<1>3. TypeInv /\ FormatInv /\ AudioInv /\ EndInv /\ [Next]_vars
        => (TypeInv /\ FormatInv /\ AudioInv /\ EndInv)'
  BY NextTypes, NextFormats, NextAudio, NextEnd
<1> QED
  BY <1>1, <1>2, <1>3, PTL DEF Spec
=============================================================================
