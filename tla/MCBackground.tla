------------------------------ MODULE MCBackground ------------------------------
(***************************************************************************)
(* What works in the background, for TLC: batches on accounts              *)
(* (TaskManager), the phases of registration (RegisterService) and the log *)
(* with its cleanup (LogStore).  The parts share no state: a behaviour is  *)
(* one of one part.                                                        *)
(***************************************************************************)
EXTENDS TaskManager, RegisterService, LogStore

VARIABLE part

\* Logs of an older version: two lines say the same.
SampleLogs == {<<0, 0, 1>>, <<0, 1, 0>>}
LogTexts == {0, 1, 100}
SampleQueries ==
  {[precise |-> TRUE, texts |-> LogTexts, offset |-> 0, limit |-> 3],
   [precise |-> FALSE, texts |-> {0, 1}, offset |-> 1, limit |-> 1]}

BackgroundInit ==
  /\ part \in {"tasks", "register", "log"}
  /\ Init /\ RegisterInit /\ LogInit
  /\ part = "register" \/ mode = "total"
  /\ part = "log" \/ (lines = [i \in 1..3 |-> [id |-> NoId, text |-> i \div 3]])

BackgroundNext ==
  \/ part = "tasks" /\ Next /\ UNCHANGED <<part, registerVars, logVars>>
  \/ part = "register" /\ RegisterNext /\ UNCHANGED <<part, vars, logVars>>
  \/ part = "log" /\ LogNext /\ UNCHANGED <<part, vars, registerVars>>

\* Fairness and RegisterFairness, each for its part.
BackgroundSpec ==
  /\ BackgroundInit /\ [][BackgroundNext]_<<part, vars, registerVars, logVars>>
  /\ \A i \in Task : WF_vars(part = "tasks" /\ BodyStep(i))
  /\ \A r \in Runner : /\ WF_registerVars(part = "register" /\ RunnerStep(r))
                       /\ WF_registerVars(part = "register" /\ TaskDone(r))
  /\ WF_registerVars(part = "register" /\ CheckClock)
  /\ WF_registerVars(part = "register" /\ Tick)
=============================================================================
