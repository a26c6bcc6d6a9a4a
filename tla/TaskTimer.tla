----------------------------- MODULE TaskTimer -----------------------------
(***************************************************************************)
(* The deadline table of one worker (crow/task_timer.h).  A table is a     *)
(* record with                                                             *)
(*   tasks   the std::map tasks_: identifier -> owner and remaining time   *)
(*   highest highest_id_, the last identifier issued                       *)
(* A deadline is kept as the number of ticks that remain until it, so that *)
(* the passing of time (Elapse) stays finite: 0 is "due now, not yet       *)
(* expired" and -1 stands for every moment past the deadline.  The task    *)
(* itself is always the lambda of Connection::start_deadline, hence the    *)
(* connection it captured stands for it.                                   *)
(***************************************************************************)
EXTENDS Integers, Functions

CONSTANT Timeout   \* default_timeout_, in ticks

ASSUME TimeoutAssumption == Timeout \in Nat

EmptyTable == [tasks |-> [i \in {} |-> 0], highest |-> 0]

(* Mutant of Cancel: the cancelled identifier is given back. *)
CancelReturningId(table, id) ==
    [tasks   |-> Restrict(table.tasks, DOMAIN table.tasks \ {id}),
     highest |-> table.highest - 1]

(* tasks_.erase(id): no effect when the id is not registered. *)
Cancel(table, id) ==
    [tasks   |-> Restrict(table.tasks, DOMAIN table.tasks \ {id}),
     highest |-> table.highest]

(* The identifier that the next call of schedule() issues. *)
NextId(table) == table.highest + 1

(* tasks_.insert({++highest_id_, ...}): insert keeps an entry that is there. *)
Schedule(table, owner) ==
    LET id == NextId(table) IN
    [tasks   |-> [i \in DOMAIN table.tasks \cup {id} |->
                    IF i \in DOMAIN table.tasks
                    THEN table.tasks[i]
                    ELSE [owner |-> owner, left |-> Timeout]],
     highest |-> id]

(* Mutant of Expired: the comparison with the clock is inverted. *)
NotYetExpired(table) == {i \in DOMAIN table.tasks : table.tasks[i].left > 0}

(* Mutant of Expired: a deadline that is due now counts as expired. *)
DueOrExpired(table) == {i \in DOMAIN table.tasks : table.tasks[i].left <= 0}

Expired(table) == {i \in DOMAIN table.tasks : table.tasks[i].left < 0}

(* Mutant of ProcessTasks: the identifiers start again on every tick. *)
ProcessTasksRenumbering(table) ==
    [tasks   |-> Restrict(table.tasks, DOMAIN table.tasks \ Expired(table)),
     highest |-> 0]

(* process_tasks() after the expired tasks were called: they are erased,   *)
(* and the identifiers start again from 0 when none is left.               *)
ProcessTasks(table) ==
    LET rest == DOMAIN table.tasks \ Expired(table) IN
    [tasks   |-> Restrict(table.tasks, rest),
     highest |-> IF rest = {} THEN 0 ELSE table.highest]

(* One tick length of steady_clock time goes by. *)
Elapse(table) ==
    [tasks   |-> [i \in DOMAIN table.tasks |->
                    [table.tasks[i] EXCEPT !.left = IF @ < 0 THEN -1 ELSE @ - 1]],
     highest |-> table.highest]
=============================================================================
