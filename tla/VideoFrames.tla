----------------------------- MODULE VideoFrames -----------------------------
(***************************************************************************)
(* livekit::VideoFrame (video_frame.cpp, video_utils.cpp): how a buffer is *)
(* sized, where planeInfos() says its planes are, and where they really    *)
(* are, for frames that are created, received from Rust and converted.     *)
(*                                                                         *)
(* A plane is rows of a number of bytes.  Sizes of buffers are size_t;     *)
(* strides and sizes of planes are uint32_t, here modulo Word.             *)
(***************************************************************************)
EXTENDS Integers, Sequences

CONSTANTS
  Word,          \* 2^32
  Widths, Heights,
  Paddings       \* the bytes by which a row of a received plane may be longer than its pixels

ASSUME VideoFramesAssumption ==
  /\ Word \in Nat \ {0} /\ Widths \subseteq Int /\ Heights \subseteq Int
  /\ Paddings \subseteq Nat

PackedTypes == {"RGBA", "RGB24"}      \* RGBA stands for ARGB, ABGR and BGRA, which are alike
PlanarTypes == {"I420", "I420A", "I422", "I444", "I010", "NV12"}
BufferTypes == PackedTypes \cup PlanarTypes
Unsupported == "External"

VARIABLES
  vframe,        \* the frame: its members, and where the planes of the picture are in its data
  frame_call     \* how the last call ended

frameVars == <<vframe, frame_call>>

NoVideoFrame == [width |-> 0, height |-> 0, type |-> "RGBA", size |-> 0, planes |-> <<>>]

FramesInit == vframe = NoVideoFrame /\ frame_call = "none"

-----------------------------------------------------------------------------
(* Sizes and layouts *)

Half(n) == (n + 1) \div 2

\* Mutant of ComputeBufferSize: an odd row or column is cut off.
BufferSizeRoundedDown(w, h, t) ==
  CASE t = "RGBA" -> w * h * 4
    [] t \in {"RGB24", "I444"} -> w * h * 3
    [] t \in {"I420", "NV12"} -> w * h + (w \div 2) * (h \div 2) * 2
    [] t = "I010" -> w * h * 2 + (w \div 2) * (h \div 2) * 4
    [] t = "I420A" -> w * h * 2 + (w \div 2) * (h \div 2) * 2
    [] t = "I422" -> w * h + (w \div 2) * h * 2

ComputeBufferSize(w, h, t) ==
  CASE t = "RGBA" -> w * h * 4
    [] t \in {"RGB24", "I444"} -> w * h * 3
    [] t \in {"I420", "NV12"} -> w * h + Half(w) * Half(h) * 2
    [] t = "I010" -> w * h * 2 + Half(w) * Half(h) * 4
    [] t = "I420A" -> w * h * 2 + Half(w) * Half(h) * 2
    [] t = "I422" -> w * h + Half(w) * h * 2

\* It throws if there is nothing to compute.
HasBufferSize(w, h, t) == w > 0 /\ h > 0 /\ t \in BufferTypes

\* The planes of a type: bytes per row and rows.
PlaneShapes(w, h, t) ==
  LET Plane(bytes, rows) == [bytes |-> bytes, rows |-> rows] IN
  CASE t = "RGBA" -> <<Plane(w * 4, h)>>
    [] t = "RGB24" -> <<Plane(w * 3, h)>>
    [] t = "I420" -> <<Plane(w, h), Plane(Half(w), Half(h)), Plane(Half(w), Half(h))>>
    [] t = "I420A" -> <<Plane(w, h), Plane(Half(w), Half(h)), Plane(Half(w), Half(h)), Plane(w, h)>>
    [] t = "I422" -> <<Plane(w, h), Plane(Half(w), h), Plane(Half(w), h)>>
    [] t = "I444" -> <<Plane(w, h), Plane(w, h), Plane(w, h)>>
    [] t = "I010" -> <<Plane(w * 2, h), Plane(Half(w) * 2, Half(h)), Plane(Half(w) * 2, Half(h))>>
    [] t = "NV12" -> <<Plane(w, h), Plane(Half(w) * 2, Half(h))>>

\* Planes one after the other, of which there are at most four: each begins where the one before it ends.
Offset(sizes, i) ==
  LET Before(j) == IF j < i THEN sizes[j] ELSE 0 IN Before(1) + Before(2) + Before(3)

BackToBack(planes) ==
  LET sizes == [i \in DOMAIN planes |-> planes[i].size] IN
  [i \in DOMAIN planes |-> [offset |-> Offset(sizes, i), stride |-> planes[i].stride, size |-> planes[i].size]]

ComputePlaneInfos(w, h, t) ==
  LET shapes == PlaneShapes(w, h, t) IN
  BackToBack([i \in DOMAIN shapes |-> [stride |-> shapes[i].bytes % Word,
                                       size |-> (shapes[i].bytes * shapes[i].rows) % Word]])

\* Nothing for a frame without data; the default constructor makes one.
PlaneInfos(f) ==
  IF f.size = 0 \/ ~HasBufferSize(f.width, f.height, f.type) THEN <<>> ELSE ComputePlaneInfos(f.width, f.height, f.type)

-----------------------------------------------------------------------------
(* Frames.  The constructor throws if the data is too small for the picture *)

VideoFrame(w, h, t, size, planes) ==
  IF HasBufferSize(w, h, t) /\ size >= ComputeBufferSize(w, h, t)
  THEN /\ vframe' = [width |-> w, height |-> h, type |-> t, size |-> size, planes |-> planes]
       /\ frame_call' = "returned"
  ELSE frame_call' = "threw" /\ UNCHANGED vframe

\* The application fills in a frame of its own as planeInfos() says.
ConstructFrame(w, h, t, size) ==
  VideoFrame(w, h, t, size, IF HasBufferSize(w, h, t) THEN ComputePlaneInfos(w, h, t) ELSE <<>>)

CreateFrame(w, h, t) ==
  IF HasBufferSize(w, h, t) THEN ConstructFrame(w, h, t, ComputeBufferSize(w, h, t))
  ELSE frame_call' = "threw" /\ UNCHANGED vframe

\* fromOwnedInfo(): the components, with what padding they have, are packed back to back ...
FromOwnedComponents(w, h, t, padding) ==
  LET shapes == PlaneShapes(w, h, t)
      planes == BackToBack([i \in DOMAIN shapes |-> [stride |-> shapes[i].bytes + padding,
                                                     size |-> (shapes[i].bytes + padding) * shapes[i].rows]])
      last == planes[Len(planes)] IN
  /\ HasBufferSize(w, h, t)
  /\ VideoFrame(w, h, t, last.offset + last.size, planes)

\* ... and without components, whatever the type, stride * height bytes are copied, or as many as the picture needs.
FromOwnedPacked(w, h, t, padding, has_stride) ==
  LET row == PlaneShapes(w, h, t)[1].bytes + (IF has_stride THEN padding ELSE 0)
      size == IF has_stride THEN row * h ELSE ComputeBufferSize(w, h, t) IN
  /\ HasBufferSize(w, h, t)
  /\ VideoFrame(w, h, t, size, <<[offset |-> 0, stride |-> row, size |-> size]>>)

\* A frame of an external decoder has no data.
FromOwnedExternal(w, h) ==
  vframe' = [NoVideoFrame EXCEPT !.width = w, !.height = h, !.type = Unsupported] /\ frame_call' = "returned"

\* fromOwnedProto(): a tight buffer is copied; without a picture, or without data, it throws.
FromOwnedProto(w, h, t, has_data) ==
  IF has_data THEN CreateFrame(w, h, t) ELSE frame_call' = "threw" /\ UNCHANGED vframe

\* What Rust is told of a frame: its planes, and the stride of a packed one.
ToProto(f) ==
  [components |-> PlaneInfos(f),
   stride |-> CASE f.type = "RGBA" -> (f.width * 4) % Word
                [] f.type = "RGB24" -> (f.width * 3) % Word
                [] OTHER -> 0]

\* Rust converts what has planes, and answers with an error or not at all otherwise.
ConvertViaFfi(t, answer) ==
  IF answer \in {"missing", "error"} THEN frame_call' = "threw" /\ UNCHANGED vframe
  ELSE ToProto(vframe).components # <<>> /\ FromOwnedProto(vframe.width, vframe.height, t, answer = "ok")

\* convert() of a frame to its own type copies it, with the padding it has.
Convert(t, flip_y, answer) ==
  IF t = vframe.type /\ ~flip_y
  THEN VideoFrame(vframe.width, vframe.height, t, vframe.size, vframe.planes)
  ELSE ConvertViaFfi(t, answer)

FramesNext ==
  \/ \E w \in Widths, h \in Heights, t \in BufferTypes \cup {Unsupported} :
       \/ CreateFrame(w, h, t)
       \/ \E extra \in {-1, 1} : HasBufferSize(w, h, t) /\ ConstructFrame(w, h, t, ComputeBufferSize(w, h, t) + extra)
       \/ FromOwnedExternal(w, h)
       \/ \E padding \in Paddings :
            FromOwnedComponents(w, h, t, padding) \/ \E b \in BOOLEAN : FromOwnedPacked(w, h, t, padding, b)
  \/ \E t \in BufferTypes, flip \in BOOLEAN, answer \in {"ok", "no_data", "error", "missing"} : Convert(t, flip, answer)

FramesSpec == FramesInit /\ [][FramesNext]_frameVars

-----------------------------------------------------------------------------
(* Properties *)

\* The planes that planeInfos() describes, which applications write, and which toProto() has Rust read,
\* do not overlap and lie in the frame's data, for every type and for odd sizes, also where the 32-bit arithmetic
\* of the planes wraps around and that of the buffer does not; and without a wrap they fill it.
PlanesInBuffer ==
  LET planes == ToProto(vframe).components
      needed == IF planes = <<>> THEN 0 ELSE ComputeBufferSize(vframe.width, vframe.height, vframe.type) IN
  /\ \A i \in DOMAIN planes : planes[i].offset + planes[i].size <= vframe.size
  /\ \A i, j \in DOMAIN planes : i < j => planes[i].offset + planes[i].size <= planes[j].offset
  /\ planes # <<>> /\ vframe.type \in PackedTypes => ToProto(vframe).stride = planes[1].stride
  /\ planes # <<>> /\ needed < Word => planes[Len(planes)].offset + planes[Len(planes)].size = needed
=============================================================================
