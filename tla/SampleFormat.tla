---------------------------- MODULE SampleFormat ----------------------------
(***************************************************************************)
(* The byte arithmetic between the platforms' buffers and the ring: format *)
(* pods as backend_linux.rs writes and reads them, and which bytes of a    *)
(* buffer the conversion to mono reads.                                    *)
(***************************************************************************)
EXTENDS Integers, Sequences, SequencesExt

\* libspa's ids: pod types, keys of a format, sample formats.
Id == 3
Int32 == 4
Object == 15
FormatObject == 262147
MediaType == 1
MediaSubtype == 2
AudioFormat == 65537
AudioRate == 65539
AudioChannels == 65540
F32 == 283
S16 == 259
S32 == 267

\* The code's own numbering of the formats it converts.
Kinds == {0, 1, 2}
KindOf(id) == CASE id = F32 -> 0 [] id = S16 -> 1 [] id = S32 -> 2 [] OTHER -> -1

\* The formats offered when the target names none, in their order of preference.
Candidates == {F32, S32, S16} \X {48000, 44100, 96000, 192000} \X {2, 1}

\* A pod is a sequence of words and the number of its bytes, which its header gives.
\* A property: value header, payload padded to eight bytes, key and flags.
Prop(key, type, value) == <<4, type, value, 0, key, 0>>

Assemble(props) ==
    LET body == FlattenSeq(props)
    IN  [words |-> <<8 + 4 * Len(body), Object, FormatObject, Len(props)>> \o body,
         bytes |-> 8 + 8 + 4 * Len(body)]

\* build_format_pod's properties.
FormatProps(format, rate, channels) ==
    << Prop(MediaType, Id, 1), Prop(MediaSubtype, Id, 1), Prop(AudioFormat, Id, format),
       Prop(AudioRate, Int32, rate), Prop(AudioChannels, Int32, channels) >>

-----------------------------------------------------------------------------
\* u32_at: a word of the pod, if it ends before the pod does.
InPod(pod, off) == off + 4 <= pod.bytes
WordAt(pod, off) == pod.words[off \div 4 + 1]

\* mutant: a payload of a multiple of eight bytes gets eight more
PaddedPast(size) == 8 * (size \div 8 + 1)
Padded(size) == 8 * ((size + 7) \div 8)

Walking == [off |-> 16, rate |-> 0, channels |-> 0, kind |-> -1, inside |-> TRUE]

\* One round of the walk over the properties; the first word past the end ends it.
Visit(pod, acc) ==
    IF ~(acc.inside /\ InPod(pod, acc.off + 4)) THEN [acc EXCEPT !.inside = FALSE]
    ELSE LET type  == WordAt(pod, acc.off + 4)
             value == WordAt(pod, acc.off + 8)
             at    == acc.off + 8 + Padded(WordAt(pod, acc.off))
             past  == [acc EXCEPT !.off = at + 8]
         IN  CASE ~InPod(pod, at) -> [acc EXCEPT !.inside = FALSE]
               [] InPod(pod, at) /\ <<WordAt(pod, at), type>> = <<AudioFormat, Id>> ->
                      [past EXCEPT !.kind = KindOf(value)]
               [] InPod(pod, at) /\ <<WordAt(pod, at), type>> = <<AudioRate, Int32>> ->
                      [past EXCEPT !.rate = value]
               [] InPod(pod, at) /\ <<WordAt(pod, at), type>> = <<AudioChannels, Int32>> ->
                      [past EXCEPT !.channels = value]
               [] OTHER -> past

NoFormat == [rate |-> 0, channels |-> 0, kind |-> -1]

\* The walk, round by round: as many as the header says there are properties.
Walk(pod) ==
    LET acc[k \in 0..WordAt(pod, 12)] == IF k = 0 THEN Walking ELSE Visit(pod, acc[k - 1])
    IN  acc

\* parse_format_pod.
ParseFormat(pod) ==
    LET end == Walk(pod)[WordAt(pod, 12)]
    IN  IF InPod(pod, 12) /\ WordAt(pod, 4) = Object /\ end.inside
           /\ end.rate # 0 /\ end.channels # 0 /\ end.kind # -1
        THEN [rate |-> end.rate, channels |-> end.channels, kind |-> end.kind]
        ELSE NoFormat

-----------------------------------------------------------------------------
Least(a, b) == IF a < b THEN a ELSE b

\* Bytes of a sample, as Fmt::bits has it.
Width(kind) == CASE kind = 0 -> 4 [] kind = 1 -> 2 [] OTHER -> 4
FrameBytes(kind, channels) == channels * Width(kind)

\* mutant: the offset is not held against the mapping
ReadUnclamped(mapped, offset, size, kind, channels) ==
    [start |-> offset, frames |-> Least(size, mapped) \div FrameBytes(kind, channels)]

\* What process reads of a chunk of size bytes at offset in a mapping.
Read(mapped, offset, size, kind, channels) ==
    LET start == Least(offset, mapped)
    IN  [start |-> start,
         frames |-> Least(size, mapped - start) \div FrameBytes(kind, channels)]

\* Bytes convert_interleaved_to_mono looks at for so many frames: it takes the
\* width from the pair (float, bits) and not from FrameBytes.
Converted(frames, channels, float, bits) ==
    CASE float /\ bits = 32 -> frames * channels * 4
      [] ~float /\ bits = 16 -> frames * channels * 2
      [] ~float /\ bits = 32 -> frames * channels * 4
      [] OTHER -> 0

\* io_proc's frames: of the one interleaved buffer, or of the first channel's,
\* and the bytes it looks at in each.
IoFrames(interleaved, channels, sizes) ==
    IF interleaved THEN (sizes[1] \div 4) \div channels ELSE sizes[1] \div 4
IoBytes(interleaved, channels, sizes, b) ==
    IF interleaved THEN IF b = 1 THEN 4 * IoFrames(interleaved, channels, sizes) * channels ELSE 0
    ELSE 4 * Least(sizes[b] \div 4, IoFrames(interleaved, channels, sizes))

-----------------------------------------------------------------------------
\* A property the worker does not know, with a value of so many bytes.
Unknown(size) == <<size, Int32>> \o [w \in 1..2 * ((size + 7) \div 8) |-> 48000] \o <<7, 0>>

\* What build_format_pod writes parse_format_pod reads back, for every format the
\* worker offers and whatever other property, of whatever size, laid out the same
\* way, stands before, between or after the ones that matter; a pod that ends before
\* its last key is refused (backend_linux.rs:178-180).  Of the daemon's own pods
\* nothing is said: backend_linux.rs:121-123 lays out a property with its key first.
PodReadBack(candidate, place, extra, cut) ==
    LET whole == Assemble(InsertAt(FormatProps(candidate[1], candidate[2], candidate[3]), place,
                                   Unknown(extra)))
        pod == [whole EXCEPT !.bytes = @ - cut]
    IN  ParseFormat(pod) =
            IF cut > 4 THEN NoFormat
            ELSE [rate |-> candidate[2], channels |-> candidate[3], kind |-> KindOf(candidate[1])]

\* No sample is read outside the chunk or the mapping, however the two disagree,
\* and no whole frame of it is left out (backend_linux.rs:389-392, capture.rs:61-64).
ReadsWholeChunk(mapped, offset, size, kind, channels) ==
    LET read == Read(mapped, offset, size, kind, channels)
        end  == read.start + Converted(read.frames, channels, kind = 0, 8 * Width(kind))
    IN  /\ end <= mapped
        /\ read.frames > 0 => read.start = offset /\ end <= offset + size
        /\ offset <= mapped =>
               Least(offset + size, mapped) - end \in 0..FrameBytes(kind, channels) - 1

\* io_proc stays inside each of CoreAudio's buffers (backend_macos.rs:256-284).
IoProcStaysInside(interleaved, channels, sizes) ==
    \A b \in DOMAIN sizes : IoBytes(interleaved, channels, sizes, b) <= sizes[b]
=============================================================================
