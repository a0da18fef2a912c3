---------------------------- MODULE MCChangeFeed ----------------------------
(* Instances of ChangeFeed for TLC.  Devices, streams and handlers are     *)
(* interchangeable where no liveness is asked.                             *)
EXTENDS ChangeFeed, TLC

Symmetry == Permutations(Device) \cup Permutations(Stream) \cup Permutations(Handler)

=============================================================================
