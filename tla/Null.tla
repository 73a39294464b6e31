-------------------------------- MODULE Null --------------------------------
(* What stands for null, undefined and SQL NULL in every module. *)
CONSTANT None
=============================================================================
