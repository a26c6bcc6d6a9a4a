----------------------------- MODULE MCFrontEnd -----------------------------
(* FrontEnd with two texts, so that two inputs can hold different airports. *)
EXTENDS FrontEnd
=============================================================================
