------------------------------ MODULE TokenAlias ------------------------------
(***************************************************************************)
(* The alias table of AccountService.  When an access token is refreshed   *)
(* the account moves to a new key and the old token is remembered as an    *)
(* alias of the new one (`_token_aliases`), so that a caller which still   *)
(* holds the old token finds the account.  `_resolve_access_token_locked`  *)
(* follows aliases while the token names no account; a second rotation     *)
(* gives a chain of two, and a `seen` set ends the walk on a cycle.        *)
(*                                                                         *)
(* The operators are state functions of the set of present tokens and of   *)
(* the alias table; the modules that own those variables pass them in.     *)
(***************************************************************************)

\* One turn of the while loop: stop at a token that names an account or has
\* no alias, otherwise take the alias.
AliasHop(present, aliases, t) ==
  IF t \in present \/ t \notin DOMAIN aliases THEN t ELSE aliases[t]

AliasNodes(aliases) == DOMAIN aliases \cup {aliases[t] : t \in DOMAIN aliases}

\* The end of the walk from t: the settled token that lies in every set which
\* contains t and is closed under the loop's step.  A cycle has no settled
\* token; the code then returns some token that names no account, as t does.
Resolve(present, aliases, t) ==
  IF AliasHop(present, aliases, t) = t THEN t
  ELSE LET hop(x) == AliasHop(present, aliases, x)
           walks == {S \in SUBSET AliasNodes(aliases) :
                        t \in S /\ \A x \in S : hop(x) \in S}
           ends == {x \in AliasNodes(aliases) :
                        hop(x) = x /\ \A S \in walks : x \in S}
       IN  IF ends = {} THEN t ELSE CHOOSE x \in ends : TRUE

\* A faulty variant, for the mutation runs: only the last rotation is known.
AliasToLatest(aliases, old, new) == [x \in {old} |-> new]

\* `self._token_aliases[old_token] = new_token`
AliasTo(aliases, old, new) ==
  [x \in DOMAIN aliases \cup {old} |-> IF x = old THEN new ELSE aliases[x]]

\* The dict comprehension of delete_accounts and update_account: aliases that
\* start or end at a removed token are dropped.
ForgetAliases(aliases, gone) ==
  [x \in {y \in DOMAIN aliases : y \notin gone /\ aliases[y] \notin gone}
     |-> aliases[x]]
=============================================================================
