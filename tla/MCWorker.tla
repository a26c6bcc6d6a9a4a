------------------------------ MODULE MCWorker ------------------------------
(* Worker on a few connections, which are model values. *)
EXTENDS Worker
=============================================================================
