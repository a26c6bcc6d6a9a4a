----------------------------- MODULE IdleTimeout -----------------------------
(***************************************************************************)
(* What a worker promises its connections about silence, without           *)
(* identifiers, tables, handlers or queues: each served connection has a   *)
(* watch that counts down from Timeout and is wound up again whenever its  *)
(* peer is heard; it is timed out exactly when its watch has run off, never*)
(* earlier; and a connection goes without a watch only after some other    *)
(* connection was timed out, each end or renewal of one costing at most    *)
(* one other connection its watch.                                         *)
(*                                                                         *)
(* The last clause is weaker than what one would wish for (no watch is     *)
(* ever lost).  It is the strongest promise that module Worker keeps.      *)
(***************************************************************************)
EXTENDS Integers

CONSTANTS Conns, Timeout

VARIABLES
    state,   \* per connection: "absent", "accepted", "served", "timedOut", "gone"
    left,    \* the connections that are watched, and the ticks their watch has left
    fired    \* the connections that were timed out

vars == <<state, left, fired>>

Init ==
    /\ state = [c \in Conns |-> "absent"]
    /\ left = [c \in {} |-> 0]
    /\ fired = {}

Accept(c) ==
    /\ state[c] = "absent"
    /\ state' = [state EXCEPT ![c] = "accepted"]
    /\ UNCHANGED <<left, fired>>

(* The watches but those of c and, after a timeout, of at most one other. *)
Kept(c) ==
    {DOMAIN left \ {c}}
        \cup {DOMAIN left \ {c, d} : d \in {e \in Conns : fired # {}}}

(* The peer connected or was heard: the watch of c is wound up. *)
Hear(c) ==
    /\ state[c] \in {"accepted", "served"}
    /\ state' = [state EXCEPT ![c] = "served"]
    /\ \E kept \in Kept(c) :
          left' = [d \in kept \cup {c} |-> IF d = c THEN Timeout ELSE left[d]]
    /\ UNCHANGED fired

(* The connection ends, and its watch with it. *)
End(c) ==
    /\ state[c] \in {"served", "timedOut"}
    /\ state' = [state EXCEPT ![c] = "gone"]
    /\ \E kept \in Kept(c) : left' = [d \in kept |-> left[d]]
    /\ UNCHANGED fired

(* A tick goes by on every watch. *)
Pass ==
    /\ left' = [c \in DOMAIN left |-> IF left[c] < 0 THEN -1 ELSE left[c] - 1]
    /\ UNCHANGED <<state, fired>>

(* Every connection whose watch has run off is timed out. *)
Expire ==
    LET overdue == {c \in DOMAIN left : left[c] < 0} IN
    /\ state' = [c \in Conns |-> IF c \in overdue THEN "timedOut" ELSE state[c]]
    /\ left' = [c \in DOMAIN left \ overdue |-> left[c]]
    /\ fired' = fired \cup overdue

Next ==
    \/ \E c \in Conns : Accept(c) \/ Hear(c) \/ End(c)
    \/ Pass
    \/ Expire

Spec == Init /\ [][Next]_vars
=============================================================================
