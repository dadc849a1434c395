---------------------------- MODULE MCFrameSplit ----------------------------
(***************************************************************************)
(* Every request over a few frame numbers, reversed and negative ones      *)
(* included, split among up to five threads.                               *)
(***************************************************************************)
EXTENDS FrameSplit

SmallFrames == -3 .. 6

=============================================================================
