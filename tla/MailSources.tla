----------------------------- MODULE MailSources -----------------------------
(***************************************************************************)
(* Where the registration workers get their mail addresses from: the       *)
(* rotation over the configured sources and the mailboxes these make       *)
(* (services/register/mail_provider.py), and the blacklist of domains      *)
(* OpenAI does not accept (services/register/domain_blacklist.py), which   *)
(* the workers fill while other workers are making mailboxes.              *)
(*                                                                         *)
(* A source offers configured domains, domains its server lists, whatever  *)
(* its server picks, or addresses of its own.  A domain is its name or all *)
(* names below it.  The blacklist is a file of entries per source, and may *)
(* be unreadable.  Sources are known by provider_ref: one that is edited   *)
(* and has no id is another source.                                        *)
(***************************************************************************)
EXTENDS Naturals, Sequences, FiniteSets

CONSTANTS
  MailTaker,       \* worker threads
  Source,          \* configured sources of mail
  Kind(_),         \* the type of a source, one of MailKinds
  Offers(_),       \* the domains configured for it
  NoSource,
  MailDomain,      \* domain names
  Parent(_),       \* the name above a name, or NoDomain
  NoDomain,
  Configs,         \* the enabled sources in their order, at the start
  MaxEntries,      \* bound: domains the workers enter
  MaxDeeds         \* bound: what administrators do, and damage

\* The types of sources; "outlook_token" is modelled by RegisterWorker.
MailKinds == {"cloudflare_temp_email", "moemail", "cloudmail_gen", "inbucket", "tempmail_lol", "duckmail",
          "gptmail", "ahem", "jovemail", "yyds_mail", "ddg_mail", "outlook_email_api"}

\* A configured or a banned domain; a wild one is written "*.base".
Pattern == [base : MailDomain, wild : BOOLEAN]

ASSUME MailSourcesAssumption ==
  /\ NoSource \notin Source /\ NoDomain \notin MailDomain
  /\ \A s \in Source : Kind(s) \in MailKinds /\ Offers(s) \subseteq Pattern
  /\ \A d \in MailDomain : Parent(d) \in MailDomain \cup {NoDomain}
  /\ Configs \subseteq Seq(Source)
  /\ {MaxEntries, MaxDeeds} \subseteq Nat

VARIABLES
  mailConfig,   \* the enabled sources, in their order
  rotation,     \* provider_index
  blacklist,    \* the active entries: <<source, pattern>>
  blacklistOk,  \* neither the file nor its backup is damaged
  writes,       \* domains entered so far
  deeds,        \* what was done to the list and the configuration from outside
  aliasKept,      \* ddg_aliases.json has the alias that was given out last
  leased,       \* leased sources whose address is in use, used or failed
  takes,        \* where a worker is
  turns,        \* passes left of the loop over the sources
  sourcesTried,        \* sources it has tried
  source,       \* the source it uses
  domain,       \* the domain of its address
  rejected,     \* domains a worker has seen rejected (history)
  warned        \* what was rejected when the worker began (history)

listVars == <<blacklist, blacklistOk, writes, deeds>>
takeVars == <<takes, turns, sourcesTried, source, domain>>
msVars == <<mailConfig, rotation, listVars, aliasKept, leased, takeVars, rejected, warned>>

SourcesTypeOK ==
  /\ mailConfig \in Seq(Source) /\ rotation \in Nat
  /\ blacklist \subseteq Source \X Pattern /\ blacklistOk \in BOOLEAN
  /\ writes \in 0..MaxEntries /\ deeds \in 0..MaxDeeds
  /\ aliasKept \in BOOLEAN /\ leased \subseteq Source
  /\ takes \in [MailTaker -> {"idle", "next", "make", "record", "made", "has", "ban", "mark"}]
  /\ turns \in [MailTaker -> Nat]
  /\ sourcesTried \in [MailTaker -> SUBSET Source]
  /\ source \in [MailTaker -> Source \cup {NoSource}]
  /\ domain \in [MailTaker -> MailDomain \cup {NoDomain}]
  /\ rejected \subseteq Source \X MailDomain
  /\ warned \in [MailTaker -> SUBSET (Source \X MailDomain)]

------------------------------------------------------------------------------
(* The blacklist *)

\* The name and the names above it.
Above(d) ==
  LET up[n \in 0..Cardinality(MailDomain)] ==
        IF n = 0 THEN {d} ELSE up[n - 1] \cup ({Parent(e) : e \in up[n - 1] \cap MailDomain} \ {NoDomain})
  IN  up[Cardinality(MailDomain)]

\* domain_matches_ban: a ban covers the names below it.
Matches(p, ban) == ~p.wild /\ ban.base \in Above(p.base)

\* config_domain_blocked: a banned name also stops the names above it, but a wild ban does
\* not; a wild domain is stopped by every ban below it, and by a wild one above it.
ConfigBlocked(p, ban) ==
  \/ p.base \in Above(ban.base) /\ (ban.wild => p.wild \/ p.base = ban.base)
  \/ ban.base \in Above(p.base) /\ (p.wild => ban.wild \/ p.base = ban.base)

Bans(s) == {entry[2] : entry \in {e \in blacklist : e[1] = s}}

\* is_excluded_provider
Excluded(s) == Kind(s) = "outlook_email_api"

\* is_banned, for the name of an address; the callers pass over excluded sources and
\* take an unreadable list for a ban.
IsBanned(s, d) ==
  /\ ~Excluded(s)
  /\ \/ ~blacklistOk
     \/ \E ban \in Bans(s) : LET p == [base |-> d, wild |-> FALSE]
                             IN  Matches(p, ban) \/ ConfigBlocked(p, ban)

\* filter_domains; nothing is left of any list when the blacklist is unreadable.
Allowed(s, patterns) ==
  {p \in patterns : blacklistOk /\ \A ban \in Bans(s) : ~Matches(p, ban) /\ ~ConfigBlocked(p, ban)}

------------------------------------------------------------------------------
(* create_mailbox *)

GotoTake(w, place) == takes' = [takes EXCEPT ![w] = place]

\* _enabled_entries
Enabled == {mailConfig[i] : i \in 1..Len(mailConfig)}

\* _next_entry
NextEntry == mailConfig[(rotation % Len(mailConfig)) + 1]
Advance == rotation' = IF Len(mailConfig) = 1 THEN rotation ELSE (rotation + 1) % Len(mailConfig)

StartTaking(w) ==
  /\ takes[w] = "idle" /\ mailConfig # <<>>
  /\ turns' = [turns EXCEPT ![w] = Len(mailConfig)]
  /\ warned' = [warned EXCEPT ![w] = rejected]
  /\ GotoTake(w, "next")
  /\ UNCHANGED <<mailConfig, rotation, listVars, aliasKept, leased, sourcesTried, source, domain, rejected>>

\* A pass of the loop: _create_provider takes the next source of the rotation, which
\* other workers advance as well; one that was tried is passed over.
NextSource(w) ==
  /\ takes[w] = "next" /\ turns[w] > 0 /\ mailConfig # <<>>
  /\ turns' = [turns EXCEPT ![w] = @ - 1]
  /\ Advance
  /\ IF NextEntry \in sourcesTried[w]
       THEN UNCHANGED <<takes, sourcesTried, source>>
       ELSE /\ sourcesTried' = [sourcesTried EXCEPT ![w] = @ \cup {NextEntry}]
            /\ source' = [source EXCEPT ![w] = NextEntry]
            /\ GotoTake(w, "make")
  /\ UNCHANGED <<mailConfig, listVars, aliasKept, leased, domain, rejected, warned>>

\* The worker ends; what it knew goes with it.
EndTaking(w) ==
  /\ GotoTake(w, "idle")
  /\ turns' = [turns EXCEPT ![w] = 0]
  /\ sourcesTried' = [sourcesTried EXCEPT ![w] = {}]
  /\ source' = [source EXCEPT ![w] = NoSource]
  /\ domain' = [domain EXCEPT ![w] = NoDomain]

\* "No source could make a mailbox", or no source is enabled any more.
GiveUpTaking(w) ==
  /\ takes[w] = "next" /\ (turns[w] = 0 \/ mailConfig = <<>>)
  /\ EndTaking(w)
  /\ warned' = [warned EXCEPT ![w] = {}]
  /\ UNCHANGED <<mailConfig, rotation, listVars, aliasKept, leased, rejected>>

\* A domain that is banned and a spent daily limit make the worker go on.
GoOn(w) == GotoTake(w, "next") /\ UNCHANGED domain

Made(w, d) == domain' = [domain EXCEPT ![w] = d] /\ GotoTake(w, "made")

\* Names below a name.
Below(base) == {d \in MailDomain : Parent(d) = base}

\* _next_domain, of these domains: a name, or a new name below a wild domain.
NextDomain(w, patterns) ==
  \/ Allowed(source[w], patterns) = {} /\ GoOn(w)
  \/ \E p \in Allowed(source[w], patterns) :
       \E d \in IF p.wild THEN Below(p.base) ELSE {p.base} : Made(w, d)

Makes(w, kind) ==
  /\ takes[w] = "make" /\ Kind(source[w]) = kind
  /\ UNCHANGED <<mailConfig, rotation, listVars, turns, sourcesTried, source, rejected, warned>>

CloudflareTempMail(w) ==
  Makes(w, "cloudflare_temp_email") /\ NextDomain(w, Offers(source[w])) /\ UNCHANGED <<aliasKept, leased>>

MoEmail(w) ==
  Makes(w, "moemail") /\ NextDomain(w, Offers(source[w])) /\ UNCHANGED <<aliasKept, leased>>

\* The name that is chosen, or one below it: a configured or a random one, if asked for
\* (subdomain, random_subdomain).
SubdomainOf(w, patterns) ==
  \/ Allowed(source[w], patterns) = {} /\ GoOn(w)
  \/ \E p \in Allowed(source[w], patterns) : \E d \in {p.base} \cup Below(p.base) : Made(w, d)

CloudMailGen(w) ==
  Makes(w, "cloudmail_gen") /\ SubdomainOf(w, Offers(source[w])) /\ UNCHANGED <<aliasKept, leased>>

Inbucket(w) ==
  Makes(w, "inbucket") /\ SubdomainOf(w, Offers(source[w])) /\ UNCHANGED <<aliasKept, leased>>

\* The server picks the domain of the new mailbox, which is then looked up.
ServerPicks(w) ==
  \E d \in MailDomain : IF IsBanned(source[w], d) THEN GoOn(w) ELSE Made(w, d)

TempMailLol(w) ==
  /\ Makes(w, "tempmail_lol") /\ UNCHANGED <<aliasKept, leased>>
  /\ IF Offers(source[w]) # {} THEN NextDomain(w, Offers(source[w])) ELSE ServerPicks(w)

\* The default domain is looked up, then used.
FixedDomain(w) ==
  \E p \in Offers(source[w]) : IF IsBanned(source[w], p.base) THEN GoOn(w) ELSE Made(w, p.base)

DuckMail(w) ==
  Makes(w, "duckmail") /\ FixedDomain(w) /\ UNCHANGED <<aliasKept, leased>>

\* Without a default domain the server picks, and nothing is looked up.
GptMail(w) ==
  /\ Makes(w, "gptmail") /\ UNCHANGED <<aliasKept, leased>>
  /\ IF Offers(source[w]) # {} THEN FixedDomain(w) ELSE \E d \in MailDomain : Made(w, d)

\* The domains configured or, when there are none, those the server lists; a server that
\* lists none is another error.
Listed(s) ==
  IF Offers(s) # {} THEN {Offers(s)}
    ELSE {{[base |-> d, wild |-> FALSE] : d \in names} : names \in SUBSET MailDomain \ {{}}}

Ahem(w) ==
  /\ Makes(w, "ahem") /\ UNCHANGED <<aliasKept, leased>>
  /\ \E patterns \in Listed(source[w]) : NextDomain(w, patterns)

JoveMail(w) ==
  /\ Makes(w, "jovemail") /\ UNCHANGED <<aliasKept, leased>>
  /\ \E patterns \in Listed(source[w]) : NextDomain(w, patterns)

YydsMail(w) ==
  /\ Makes(w, "yyds_mail") /\ UNCHANGED <<aliasKept, leased>>
  /\ \E patterns \in Listed(source[w]) : SubdomainOf(w, patterns)

\* A new alias, or the last one once more when the daily limit is reached: it is looked up
\* among those given out, then recorded, in two steps.
DDGMail(w) ==
  /\ Makes(w, "ddg_mail") /\ UNCHANGED <<aliasKept, leased>>
  /\ \/ aliasKept /\ GoOn(w)
     \/ GotoTake(w, "record") /\ UNCHANGED domain

RecordAlias(w) ==
  /\ takes[w] = "record" /\ aliasKept' = TRUE
  /\ \E p \in Offers(source[w]) : Made(w, p.base)
  /\ UNCHANGED <<mailConfig, rotation, listVars, leased, turns, sourcesTried, source, rejected, warned>>

\* An address that is available is put in use.  Another error ends the registration.
OutlookEmailApi(w) ==
  /\ takes[w] = "make" /\ Kind(source[w]) = "outlook_email_api"
  /\ IF source[w] \in leased
       THEN /\ EndTaking(w)
            /\ warned' = [warned EXCEPT ![w] = {}] /\ UNCHANGED leased
       ELSE /\ leased' = leased \cup {source[w]}
            /\ \E p \in Offers(source[w]) : Made(w, p.base)
            /\ UNCHANGED <<turns, sourcesTried, source, warned>>
  /\ UNCHANGED <<mailConfig, rotation, listVars, aliasKept, rejected>>

\* Any other error of the provider.
MakeFails(w) ==
  /\ takes[w] = "make" /\ EndTaking(w)
  /\ warned' = [warned EXCEPT ![w] = {}]
  /\ UNCHANGED <<mailConfig, rotation, listVars, aliasKept, leased, rejected>>

\* A faulty variant, for the mutation runs: the name is looked up before the request only.
KeepUnchecked(w) ==
  /\ takes[w] = "made" /\ GotoTake(w, "has") /\ UNCHANGED domain
  /\ UNCHANGED <<mailConfig, rotation, listVars, aliasKept, leased, turns, sourcesTried, source, rejected, warned>>

\* The domain of the address is looked up once more.
CheckMade(w) ==
  /\ takes[w] = "made"
  /\ IF IsBanned(source[w], domain[w])
       THEN GotoTake(w, "next") /\ domain' = [domain EXCEPT ![w] = NoDomain]
       ELSE GotoTake(w, "has") /\ UNCHANGED domain
  /\ UNCHANGED <<mailConfig, rotation, listVars, aliasKept, leased, turns, sourcesTried, source, rejected, warned>>

------------------------------------------------------------------------------
(* What becomes of the address *)

\* The registration succeeds, or fails for a reason that is not the domain's
\* (should_ban_from_error); mark_mailbox_result.
Registered(w) ==
  /\ takes[w] = "has" /\ EndTaking(w)
  /\ warned' = [warned EXCEPT ![w] = {}]
  /\ UNCHANGED <<mailConfig, rotation, listVars, aliasKept, leased, rejected>>

\* OpenAI does not accept the domain.
Rejected(w) ==
  /\ takes[w] = "has" /\ GotoTake(w, IF Excluded(source[w]) THEN "mark" ELSE "ban")
  /\ UNCHANGED <<mailConfig, rotation, listVars, aliasKept, leased, turns, sourcesTried, source, domain,
                 rejected, warned>>

\* _maybe_ban_domain_from_error; a failure to write is passed over
BanDomain(w) ==
  /\ takes[w] = "ban" /\ GotoTake(w, "mark")
  /\ IF blacklistOk
       THEN /\ writes < MaxEntries /\ writes' = writes + 1
            /\ blacklist' = blacklist \cup {<<source[w], [base |-> domain[w], wild |-> FALSE]>>}
            /\ rejected' = rejected \cup {<<source[w], domain[w]>>}
       ELSE UNCHANGED <<blacklist, writes, rejected>>
  /\ UNCHANGED <<mailConfig, rotation, blacklistOk, deeds, aliasKept, leased, turns, sourcesTried, source,
                 domain, warned>>

MarkRejected(w) ==
  /\ takes[w] = "mark" /\ EndTaking(w)
  /\ warned' = [warned EXCEPT ![w] = {}]
  /\ UNCHANGED <<mailConfig, rotation, listVars, aliasKept, leased, rejected>>

------------------------------------------------------------------------------
(* Administrators, and the file *)

takerVars == <<mailConfig, rotation, aliasKept, leased, takeVars>>

\* Entries that go take what was learnt from the rejections with them.
Forget(gone) ==
  LET lost == {<<e[1], e[2].base>> : e \in gone}
  IN  rejected' = rejected \ lost /\ warned' = [w \in MailTaker |-> warned[w] \ lost]

Deed == deeds < MaxDeeds /\ deeds' = deeds + 1

\* ban; entries of sources that are not enabled play no part.
BanByHand ==
  /\ Deed /\ blacklistOk
  /\ \E s \in Enabled, p \in Pattern :
       ~Excluded(s) /\ blacklist' = blacklist \cup {<<s, p>>}
  /\ UNCHANGED <<takerVars, blacklistOk, writes, rejected, warned>>

Unban ==
  /\ Deed /\ blacklistOk
  /\ \E e \in blacklist : blacklist' = blacklist \ {e} /\ Forget({e})
  /\ UNCHANGED <<takerVars, blacklistOk, writes>>

\* import_payload, mode "replace" for one source.  Mode "merge" does what BanByHand does.
ReplaceBans ==
  /\ Deed /\ blacklistOk
  /\ \E s \in {e[1] : e \in blacklist}, new \in {{}} \cup {{p} : p \in Pattern} :
       /\ blacklist' = {e \in blacklist : e[1] # s} \cup {<<s, p>> : p \in new}
       /\ Forget(blacklist \ blacklist')
  /\ UNCHANGED <<takerVars, blacklistOk, writes>>

\* The file and its backup are damaged, or repaired (external).
DamageList ==
  /\ Deed /\ blacklistOk' = ~blacklistOk
  /\ UNCHANGED <<takerVars, blacklist, writes, rejected, warned>>

\* RegisterService.update: sources are disabled.
Reconfigure ==
  /\ Deed
  /\ \E kept \in SUBSET Enabled : mailConfig' = SelectSeq(mailConfig, LAMBDA s : s \in kept)
  /\ UNCHANGED <<rotation, blacklist, blacklistOk, writes, aliasKept, leased, takeVars, rejected, warned>>

SourcesInit ==
  /\ mailConfig \in Configs
  /\ rotation = 0 /\ blacklist = {} /\ blacklistOk = TRUE /\ writes = 0 /\ deeds = 0
  /\ aliasKept = FALSE /\ leased = {}
  /\ takes = [w \in MailTaker |-> "idle"] /\ turns = [w \in MailTaker |-> 0]
  /\ sourcesTried = [w \in MailTaker |-> {}]
  /\ source = [w \in MailTaker |-> NoSource] /\ domain = [w \in MailTaker |-> NoDomain]
  /\ rejected = {} /\ warned = [w \in MailTaker |-> {}]

Takes(w) ==
  \/ StartTaking(w) \/ NextSource(w) \/ GiveUpTaking(w)
  \/ CloudflareTempMail(w) \/ MoEmail(w) \/ CloudMailGen(w) \/ Inbucket(w) \/ TempMailLol(w)
  \/ DuckMail(w) \/ GptMail(w) \/ Ahem(w) \/ JoveMail(w) \/ YydsMail(w) \/ DDGMail(w) \/ RecordAlias(w)
  \/ OutlookEmailApi(w) \/ MakeFails(w) \/ CheckMade(w)
  \/ Registered(w) \/ Rejected(w) \/ BanDomain(w) \/ MarkRejected(w)

SourcesNext ==
  \/ \E w \in MailTaker : Takes(w)
  \/ BanByHand \/ Unban \/ ReplaceBans \/ DamageList \/ Reconfigure

SourcesSpec == SourcesInit /\ [][SourcesNext]_msVars

------------------------------------------------------------------------------
(* Properties *)

\* A domain that OpenAI rejected is not tried again at that source, nor a name below or
\* above it: of a worker that begins after another one entered the rejection, whatever the
\* kind of the source and whether or not it makes subdomains, and though the entry is
\* looked up at several moments while the list is edited, damaged and repaired.
RejectedIsAvoided ==
  [][\A w \in MailTaker, d \in MailDomain :
       takes[w] = "made" /\ takes'[w] = "has" /\ <<source[w], d>> \in warned[w] =>
         d \notin Above(domain[w]) /\ domain[w] \notin Above(d)]_msVars
=============================================================================
