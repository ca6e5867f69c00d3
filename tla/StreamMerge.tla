---------------------------- MODULE StreamMerge ----------------------------
(***************************************************************************)
(* How a chat takes a chunk of a reply into what it has of it              *)
(* (core/src/chat.rs).  Texts are sequences of parts, each longer than the *)
(* four characters an overlap needs.                                       *)
(***************************************************************************)
EXTENDS Integers, SequencesExt

Overlap(buffer, chunk) ==
  Max({n \in 0..Len(chunk) : n <= Len(buffer) /\ IsSuffix(SubSeq(chunk, 1, n), buffer)})

(* Mutant: a chunk is put behind what is there. *)
AppendChunk(buffer, chunk) == buffer \o chunk

MergeStreamChunk(buffer, chunk) ==
  IF IsPrefix(buffer, chunk) THEN chunk
  ELSE IF IsSuffix(chunk, buffer) THEN buffer
  ELSE buffer \o SubSeq(chunk, Overlap(buffer, chunk) + 1, Len(chunk))
=============================================================================
