--------------------------- MODULE MCCancellation ---------------------------
(* An instance of Cancellation with a second of four milliseconds. *)
EXTENDS Cancellation
=============================================================================
