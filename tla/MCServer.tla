------------------------------ MODULE MCServer ------------------------------
(* Server with a few workers and connections.  The run checks liveness, so  *)
(* the connections keep their identity.                                    *)
EXTENDS Server
=============================================================================
