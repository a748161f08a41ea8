------------------------------- MODULE MCServing -------------------------------
(***************************************************************************)
(* What threads take, use and give back, for TLC: places on accounts       *)
(* (AccountPool) and on proxy nodes (ProxyEgress), mailboxes               *)
(* (RegisterWorker), and the stored images (Gallery).  The parts share no  *)
(* state: a behaviour is one of one part.                                  *)
(***************************************************************************)
EXTENDS AccountPool, ProxyEgress, RegisterWorker, Gallery, TLC

CONSTANTS a1, w1, w2, r3

VARIABLE part

\* Requests are interchangeable, and so are the registration's workers; the threads of all
\* parts have the same names, so that few permutations do.
ServingSymmetry == Permutations(Worker)

\* One mailbox, and one alias of it; mails lack their recipients or their time.
LoginOf(a) == IF a = "alias" THEN "mailbox" ELSE a
SampleHeaders == {h \in [named : BOOLEAN, dated : BOOLEAN] : h.named # h.dated}

\* A part may stop when its requests or registrations are all over, and nowhere else.
AtRest ==
  /\ \/ part = "egress" /\ \A r \in EgRequest : egPhase[r] = "done"
     \/ part = "mail" /\ \A w \in MailWorker : at[w] = "idle"
  /\ UNCHANGED <<part, vars, egVars, workerVars, galleryVars>>

ServingInit ==
  /\ part \in {"pool", "egress", "mail", "gallery"}
  /\ Init /\ EgInit /\ WorkerInit /\ GalleryInit
  /\ part = "egress" \/ nodes = <<>>
  /\ mode = "local"

ServingNext ==
  \/ part = "pool" /\ Next /\ UNCHANGED <<part, egVars, workerVars, galleryVars>>
  \/ part = "egress" /\ EgNext /\ UNCHANGED <<part, vars, workerVars, galleryVars>>
  \/ part = "mail" /\ WorkerNext /\ UNCHANGED <<part, vars, egVars, galleryVars>>
  \/ part = "gallery" /\ GalleryNext /\ UNCHANGED <<part, vars, egVars, workerVars>>
  \/ AtRest

ServingSpec == ServingInit /\ [][ServingNext]_<<part, vars, egVars, workerVars, galleryVars>>
=============================================================================
