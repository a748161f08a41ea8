---------------------------- MODULE ImageTaskBoard ----------------------------
(***************************************************************************)
(* What the image task service promises its clients: a task that is        *)
(* accepted is worked on and ends, once; only a failed one may be taken up *)
(* again; and how a task ended stays on the board until its retention has  *)
(* passed, whatever happens to the process in between.                     *)
(***************************************************************************)

CONSTANT Task

VARIABLES
  state,     \* what the board shows of each task
  expired    \* the ended tasks whose retention has passed

board == <<state, expired>>

State == {"unknown", "working", "success", "error"}

Init == state = [k \in Task |-> "unknown"] /\ expired = {}

\* What may become of a task in one step.
Accepted(k) == state'[k] = "working" /\ (state[k] = "unknown" \/ k \in expired)
Ended(k) == state[k] = "working" /\ state'[k] \in {"success", "error"}
Resumed(k) == state[k] = "error" /\ state'[k] = "working"
Forgotten(k) == state'[k] = "unknown" /\ k \in expired

\* A step may concern several tasks: a restart interrupts all of them.
Change ==
  /\ state' \in [Task -> State]
  /\ \A k \in Task : state'[k] # state[k] =>
       Accepted(k) \/ Ended(k) \/ Resumed(k) \/ Forgotten(k)
  /\ expired' = {k \in expired : state'[k] = state[k]}

Expire(k) ==
  /\ state[k] \in {"success", "error"}
  /\ expired' = expired \cup {k}
  /\ UNCHANGED state

Next == Change \/ \E k \in Task : Expire(k)

Spec == Init /\ [][Next]_board
=============================================================================
