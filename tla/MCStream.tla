------------------------------ MODULE MCStream ------------------------------
(***************************************************************************)
(* StepStream for one turn with the most steps handle_turn emits: the      *)
(* retrieval, the validation, a draft and its verification for each of     *)
(* three attempts, and the record.                                         *)
(***************************************************************************)
EXTENDS StepStream

=============================================================================
