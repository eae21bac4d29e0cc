---------------------------- MODULE SerialStream ----------------------------
(***************************************************************************)
(* The canonical byte stream of a region, as the REPLAY mode of the bench  *)
(* produces it: one loop over the chunks serializes each one from the      *)
(* final blocks and the frozen light and feeds it to the hash.             *)
(***************************************************************************)
EXTENDS Integers, Sequences

CONSTANT Chunks        \* how many chunks the region has, 1024 in the code

VARIABLE stream

\* The payload of a chunk whose blocks are final (every postprocess step is
\* over) and whose light is frozen.
FinalBody == [blocks |-> TRUE, light |-> TRUE]

Init == stream = <<>>

\* One turn of the loop: the next chunk, after its prefix with the index.
Emit ==
  /\ Len(stream) < Chunks
  /\ stream' = Append(stream, [chunk |-> Len(stream), body |-> FinalBody])

Spec == Init /\ [][Emit]_stream
=============================================================================
