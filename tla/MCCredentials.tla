------------------------------ MODULE MCCredentials ------------------------------
(***************************************************************************)
(* What accounts are made and kept alive with, for TLC: the queue of the   *)
(* verifications after failures (FailureRefresh), the daemon of the        *)
(* Firefly channel (FireflyRefresh), the mailboxes of new accounts         *)
(* (MailSources), logins by hand (OAuthLogin) and imports from other       *)
(* installations (ImportJobs).  The parts share no state: a behaviour is   *)
(* one of one part.                                                        *)
(***************************************************************************)
EXTENDS FailureRefresh, FireflyRefresh, MailSources, OAuthLogin, ImportJobs

CONSTANTS top, sub

VARIABLE part

\* One source of every kind; a wild domain, a name below another one, no domain.
SampleKind(s) == s

SampleOffers(s) ==
  CASE s \in {"cloudflare_temp_email", "tempmail_lol"} ->
         {[base |-> top, wild |-> TRUE], [base |-> sub, wild |-> FALSE]}
    [] s \in {"moemail", "cloudmail_gen", "inbucket"} -> {[base |-> top, wild |-> FALSE]}
    [] s \in {"ahem", "jovemail", "yyds_mail", "gptmail"} -> {}
    [] OTHER -> {[base |-> top, wild |-> FALSE]}

SampleParent(d) == IF d = sub THEN top ELSE NoDomain

SampleConfigs == {<<"tempmail_lol", "ddg_mail">>} \cup {<<s>> : s \in MailKinds}

\* One remote of each kind; an import of two accounts, or two imports of one.
SampleRemoteKind(r) == r
SamplePlans == {<<{"i", "j"}, {}>>, <<{"i"}, {"i"}>>}

CredentialsInit ==
  /\ part \in {"queue", "firefly", "mail", "login", "import"}
  /\ Init /\ FfInit /\ SourcesInit /\ LoginInit /\ ImportsInit
  /\ part = "mail" \/ mailConfig = <<"ahem">>
  /\ part = "import" \/ (remotes = {"cpa"} /\ chosen[1] = {"i"})

CredentialsNext ==
  \/ part = "queue" /\ Next /\ UNCHANGED <<part, ffVars, msVars, loginVars, ijVars>>
  \/ part = "firefly" /\ FfNext /\ UNCHANGED <<part, vars, msVars, loginVars, ijVars>>
  \/ part = "mail" /\ SourcesNext /\ UNCHANGED <<part, vars, ffVars, loginVars, ijVars>>
  \/ part = "login" /\ LoginNext /\ UNCHANGED <<part, vars, ffVars, msVars, ijVars>>
  \/ part = "import" /\ ImportsNext /\ UNCHANGED <<part, vars, ffVars, msVars, loginVars>>

\* The fairness of FailureRefresh, for its part.
CredentialsSpec ==
  /\ CredentialsInit /\ [][CredentialsNext]_<<part, vars, ffVars, msVars, loginVars, ijVars>>
  /\ WF_vars(part = "queue" /\ LoopStep)
  /\ \A t \in Token : WF_vars(part = "queue" /\ JobStep(t))
=============================================================================
