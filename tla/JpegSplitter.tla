--------------------------- MODULE JpegSplitter ---------------------------
(***************************************************************************)
(* The scanner of FfmpegBridge (_onData in src/video/ffmpeg-bridge.ts): it *)
(* cuts JPEG frames out of what ffmpeg writes to its standard output.      *)
(* StreamBridge takes chunks for heads and tails of frames; here they are  *)
(* bytes, divided as the pipe likes.                                       *)
(*                                                                         *)
(* A frame is a start marker, a body without markers of the two kinds      *)
(* looked for (JPEG stuffs the byte after an FF), and an end marker.  The  *)
(* processes of a bridge come one after the other, and each may end in the *)
(* middle of a frame; the buffer outlives them.                            *)
(***************************************************************************)
EXTENDS Integers, Sequences, SequencesExt

CONSTANTS
  MaxFrames,       (* bound: frames written by all processes                  *)
  MaxReplaced      (* bound: processes replaced                               *)

ASSUME SplitterAssumption ==
  /\ MaxFrames \in Nat
  /\ MaxReplaced \in Nat

Frame == 1 .. MaxFrames

(* A byte: FF, the second byte of either marker, or any other; it also     *)
(* says which frame it was written for, which the scanner does not see.    *)
Byte == [v : {"FF", "D8", "D9", "other"}, of : Frame]

Bodies == {<<"other">>, <<"FF", "other">>}

Jpeg(k, body) ==
  LET values == <<"FF", "D8">> \o body \o <<"FF", "D9">>
  IN [i \in DOMAIN values |-> [v |-> values[i], of |-> k]]

VARIABLES
  source,      (* source[k]: the k-th frame as it was written                 *)
  pipe,        (* bytes written that were not delivered                       *)
  buffer,      (* the buffer of the bridge                                    *)
  captured,    (* the frame events, in order                                  *)
  replaced,    (* processes replaced so far                                   *)
  broken,      (* frames a process was prevented from writing to the end      *)
  split        (* frames whose start marker was divided between two chunks.   *)
               (* broken and split are only observed.                         *)

vars == <<source, pipe, buffer, captured, replaced, broken, split>>

Init ==
  /\ source = <<>>
  /\ pipe = <<>>
  /\ buffer = <<>>
  /\ captured = <<>>
  /\ replaced = 0
  /\ broken = {}
  /\ split = {}

-----------------------------------------------------------------------------
(* Buffer.indexOf of a marker, from a position on; 0 if it is not there. *)
IndexOf(buf, second, from) ==
  LET hits == {i \in from .. Len(buf) - 1 : buf[i].v = "FF" /\ buf[i + 1].v = second}
  IN IF hits = {} THEN 0 ELSE Min(hits)

\* Mutant: the end marker is looked for from the beginning.
EndOfAny(buf, soi) == IndexOf(buf, "D9", 1)

(* The end marker that closes the frame that starts at soi. *)
EndOf(buf, soi) == IndexOf(buf, "D9", soi + 2)

(* The loop: the frames cut from the buffer and what stays in it.  Without *)
(* a start marker nothing stays; without an end marker all of it does.     *)
Cut[buf \in Seq(Byte)] ==
  LET soi == IndexOf(buf, "D8", 1)
      eoi == EndOf(buf, soi)
      more == Cut[SubSeq(buf, eoi + 2, Len(buf))]
  IN IF soi = 0 THEN [data |-> <<>>, rest |-> <<>>]
     ELSE IF eoi = 0 THEN [data |-> <<>>, rest |-> buf]
     ELSE [data |-> <<SubSeq(buf, soi, eoi + 1)>> \o more.data, rest |-> more.rest]

\* Mutant: one frame per chunk.
FramesOnce(buf) ==
  LET soi == IndexOf(buf, "D8", 1)
      eoi == EndOf(buf, soi)
  IN IF soi = 0 \/ eoi = 0
     THEN [data |-> <<>>, rest |-> IF soi = 0 THEN <<>> ELSE buf]
     ELSE [data |-> <<SubSeq(buf, soi, eoi + 1)>>, rest |-> SubSeq(buf, eoi + 2, Len(buf))]

(* What _onData cuts from a buffer. *)
Frames(buf) == Cut[buf]

\* Mutant: the sequence number is taken before it is increased.
EventsFromZero(data) ==
  [i \in DOMAIN data |-> [sequence |-> Len(captured) + i - 1, data |-> data[i]]]

(* The frame events for what was cut. *)
Events(data) ==
  [i \in DOMAIN data |-> [sequence |-> Len(captured) + i, data |-> data[i]]]

(* _onData with the next n bytes of the pipe. *)
OnData(n) ==
  /\ n \in 1 .. Len(pipe)
  /\ LET found == Frames(buffer \o SubSeq(pipe, 1, n))
     IN /\ buffer' = found.rest
        /\ captured' = captured \o Events(found.data)
  /\ pipe' = SubSeq(pipe, n + 1, Len(pipe))
  /\ split' = IF n < Len(pipe) /\ pipe[n].v = "FF" /\ pipe[n + 1].v = "D8"
              THEN split \cup {pipe[n].of} ELSE split
  /\ UNCHANGED <<source, replaced, broken>>

-----------------------------------------------------------------------------
(* The ffmpeg processes                                                    *)

WriteFrame ==
  /\ Len(source) < MaxFrames
  /\ \E body \in Bodies :
       LET jpeg == Jpeg(Len(source) + 1, body)
       IN /\ source' = Append(source, jpeg)
          /\ pipe' = pipe \o jpeg
  /\ UNCHANGED <<buffer, captured, replaced, broken, split>>

(* The process ends wherever it is, and the bridge starts another one. *)
ProcessReplaced ==
  /\ replaced < MaxReplaced
  /\ replaced' = replaced + 1
  /\ \E n \in 0 .. Len(pipe) :
       /\ pipe' = SubSeq(pipe, 1, n)
       /\ broken' = broken \cup {pipe[i].of : i \in n + 1 .. Len(pipe)}
  /\ UNCHANGED <<source, buffer, captured, split>>

-----------------------------------------------------------------------------
Next ==
  \/ \E n \in 1 .. Len(pipe) : OnData(n)
  \/ WriteFrame
  \/ ProcessReplaced

Spec == Init /\ [][Next]_vars

-----------------------------------------------------------------------------
(* Properties                                                              *)

(* The state has its types. *)
TypeOK ==
  /\ source \in Seq(Seq(Byte)) /\ Len(source) <= MaxFrames
  /\ pipe \in Seq(Byte)
  /\ buffer \in Seq(Byte)
  /\ \A i \in DOMAIN captured :
       /\ captured[i].sequence \in Frame
       /\ captured[i].data \in Seq(Byte)
  /\ replaced \in 0 .. MaxReplaced
  /\ broken \subseteq Frame
  /\ split \subseteq Frame

(* What is reported as a frame is a frame of the source, whole, behind at  *)
(* most the beginnings of frames that a process did not finish; frames are *)
(* reported in order and once.  Losing one marker never makes the scanner  *)
(* cut between the wrong ones from then on.                                *)
FramesWhole ==
  \A i \in DOMAIN captured :
    LET data == captured[i].data
    IN /\ \E k \in DOMAIN source :
            /\ IsSuffix(source[k], data)
            /\ \A j \in 1 .. Len(data) - Len(source[k]) : data[j].of \in broken
       /\ IndexOf(data, "D8", 1) = 1
       /\ \A j \in 1 .. i - 1 : Last(captured[j].data).of < Last(data).of

(* A frame that has been delivered to the last byte has been reported,     *)
(* however it was divided and whatever shared its chunks, unless its start *)
(* marker was divided.                                                     *)
LostOnlyWhenSplit ==
  \A k \in DOMAIN source :
    \/ \E i \in DOMAIN captured : IsSuffix(source[k], captured[i].data)
    \/ \E i \in DOMAIN pipe : pipe[i].of = k
    \/ k \in broken \cup split
=============================================================================
