------------------------- MODULE CappedOutputClaims -------------------------
(***************************************************************************)
(* What the repository says of the output limits and the code does not do: *)
(* each claim is refuted by a run of its own.                              *)
(***************************************************************************)
EXTENDS CappedOutput

\* "Hard ceiling on how many bytes we will read from a single stream (stdout or stderr)
\* before we stop reading" (src/src/executor.rs:14): reading stops within a chunk of
\* the ceiling.  In the code the ceiling is not looked at before a line is complete.
CeilingIsHard ==
    \E n \in ChunkSizes : bytes + pending < MAX_STREAM_BYTES + n
=============================================================================
