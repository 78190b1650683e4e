----------------------------- MODULE MCOneStream ----------------------------
(* One stream of StreamParsing, for the run that shows a finding. *)
EXTENDS StreamParsing

MCUsages == {[input |-> 1, output |-> 0, cache |-> 1], [input |-> 0, output |-> 2, cache |-> 0]}
=============================================================================
