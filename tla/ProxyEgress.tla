------------------------------ MODULE ProxyEgress ------------------------------
(***************************************************************************)
(* The egress of image requests (services/proxy_service.py): which proxy a *)
(* request leaves through, and the places of a proxy group's nodes.        *)
(*                                                                         *)
(* A request resolves the references that apply to it in order: the        *)
(* account's, its group's, the caller's, the default one.  A reference to  *)
(* a group leads to one of the nodes that have a place left; an image      *)
(* request takes the place at once, waits when there is none, and gives it *)
(* back with the limit and the key it has kept since.  The nodes may be    *)
(* edited at any time, also while requests wait on the list they know.     *)
(***************************************************************************)
EXTENDS Integers, FiniteSets, SequencesExt

CONSTANTS
  EgRequest,   \* requests, one life each
  EgNode,      \* node ids of the group
  Limits,      \* the image_concurrency_limit a node may be given; 0 is none
  MaxEdits     \* bound: how often the settings are changed

ASSUME ProxyEgressAssumption ==
  IsFiniteSet(EgRequest) /\ Limits \subseteq Nat /\ MaxEdits \in Nat

VARIABLES
  nodes,       \* the enabled nodes of the group, each with its limit
  egInflight,  \* _egress_inflight
  known,       \* the nodes a waiting request goes by
  profile,     \* the profile each request holds
  egPhase,
  egEdits

egVars == <<nodes, egInflight, known, profile, egPhase, egEdits>>

\* A profile without a place: a plain proxy, or none.
NoPlace == [node |-> "none", limit |-> 0]
NodeMap == UNION {[S -> Limits] : S \in SUBSET EgNode}

EgTypeOK ==
  /\ nodes \in NodeMap
  /\ egInflight \in [EgNode -> 0..Cardinality(EgRequest)]
  /\ known \in [EgRequest -> NodeMap]
  /\ profile \in [EgRequest -> [node : EgNode \cup {"none"}, limit : Limits \cup {0}]]
  /\ egPhase \in [EgRequest -> {"new", "waiting", "open", "streaming", "done"}]
  /\ egEdits \in 0..MaxEdits

------------------------------------------------------------------------------
(* Which proxy *)

\* What a reference is: nothing (or "global"), "direct", a plain url, a profile
\* that is enabled or not, a group.
Reference == {"none", "direct", "url", "profile", "dead profile", "group"}

\* The references of a request, in the order of get_profile: account, account
\* group, explicit, default.  An unresolved reference of the account or of the
\* caller ends the search without a proxy.
Pinning == {1, 3}

\* _resolve_proxy_reference, for a group with nodes or without: is it final?
Final(refs, i, hasNodes) ==
  \/ refs[i] \in {"direct", "url", "profile"}
  \/ refs[i] \in {"group", "dead profile"} /\ i \in Pinning
  \/ refs[i] = "group" /\ hasNodes

\* get_profile: the first final reference decides, else the runtime's proxy.
Decides(refs, hasNodes) ==
  LET i == SelectInSeq([k \in DOMAIN refs |-> Final(refs, k, hasNodes)], LAMBDA b : b)
  IN IF i = 0 THEN "runtime" ELSE refs[i]

\* A group that is decided on without nodes gives no proxy.
LeadsTo(hasNodes) == {Decides(refs, hasNodes) : refs \in [1..4 -> Reference]}
WithNodes == LeadsTo(TRUE)
WithoutNodes == LeadsTo(FALSE)

------------------------------------------------------------------------------
(* Places *)

\* _proxy_node_has_image_capacity, for a list of nodes.
NodeAvailable(ns) == {n \in DOMAIN ns : ns[n] = 0 \/ egInflight[n] < ns[n]}

EgGo(r, p) == egPhase' = [egPhase EXCEPT ![r] = p]

\* The node is selected and its place taken in one critical section.
Reserve(r, ns, n) ==
  /\ profile' = [profile EXCEPT ![r] = [node |-> n, limit |-> ns[n]]]
  /\ egInflight' = [egInflight EXCEPT ![n] = @ + (IF ns[n] > 0 THEN 1 ELSE 0)]

\* get_profile, or get_fallback_profile on a retry.  In a group
\* (_resolve_proxy_group) the list of nodes is read once, before the lock.
ResolveGroup(r) ==
  /\ egPhase[r] = "new"
  /\ \E decision \in IF nodes = <<>> THEN WithoutNodes ELSE WithNodes :
       IF decision = "group" /\ nodes # <<>>
         THEN known' = [known EXCEPT ![r] = nodes] /\ EgGo(r, "waiting")
         ELSE UNCHANGED known /\ EgGo(r, "open")
  /\ UNCHANGED <<nodes, egInflight, profile, egEdits>>

\* A place is free in the list the request knows: random.choice among them.
TakePlace(r) ==
  /\ egPhase[r] = "waiting"
  /\ \E n \in NodeAvailable(known[r]) : Reserve(r, known[r], n)
  /\ known' = [known EXCEPT ![r] = <<>>]
  /\ EgGo(r, "open")
  /\ UNCHANGED <<nodes, egEdits>>

\* A faulty variant, for the mutation runs: it goes by the limit of the settings.
ReleasedBySettings(r) ==
  LET n == profile[r].node
  IN IF n \notin DOMAIN nodes \/ nodes[n] = 0 THEN egInflight
     ELSE [egInflight EXCEPT ![n] = IF @ <= 1 THEN 0 ELSE @ - 1]

\* release_image_egress, for the limit and the node of the profile.
Released(r) ==
  LET p == profile[r]
  IN IF p.limit = 0 THEN egInflight
     ELSE [egInflight EXCEPT ![p.node] = IF @ <= 1 THEN 0 ELSE @ - 1]

\* The session cannot be opened: the constructor gives the place back.
OpenFails(r) ==
  /\ egPhase[r] = "open"
  /\ egInflight' = Released(r)
  /\ profile' = [profile EXCEPT ![r] = NoPlace]
  /\ EgGo(r, "done")
  /\ UNCHANGED <<nodes, known, egEdits>>

\* acquire_image_egress finds the place reserved; the stream begins.
OpenSession(r) ==
  /\ egPhase[r] = "open"
  /\ EgGo(r, "streaming")
  /\ UNCHANGED <<nodes, egInflight, known, profile, egEdits>>

\* The stream ends, or fails early and goes on with the fallback's profile, or
\* with another account; the finally clause gives the place back each time.
StreamEnds(r) ==
  /\ egPhase[r] = "streaming"
  /\ egInflight' = Released(r)
  /\ profile' = [profile EXCEPT ![r] = NoPlace]
  /\ \E next \in {"done", "new"} : EgGo(r, next)
  /\ UNCHANGED <<nodes, known, egEdits>>

\* The settings are saved: nodes come, go, or get another limit.
EditNodes ==
  /\ egEdits < MaxEdits
  /\ nodes' \in NodeMap \ {nodes}
  /\ egEdits' = egEdits + 1
  /\ UNCHANGED <<egInflight, known, profile, egPhase>>

EgInit ==
  /\ nodes \in NodeMap
  /\ egInflight = [n \in EgNode |-> 0]
  /\ known = [r \in EgRequest |-> <<>>]
  /\ profile = [r \in EgRequest |-> NoPlace]
  /\ egPhase = [r \in EgRequest |-> "new"]
  /\ egEdits = 0

EgStep(r) ==
  \/ ResolveGroup(r) \/ TakePlace(r) \/ OpenFails(r)
  \/ OpenSession(r) \/ StreamEnds(r)

EgNext == (\E r \in EgRequest : EgStep(r)) \/ EditNodes

EgSpec == EgInit /\ [][EgNext]_egVars

------------------------------------------------------------------------------
(* Properties *)

\* The places of a node that count as taken.
NodeHolders(n) == {r \in EgRequest : profile[r].node = n /\ profile[r].limit > 0}

\* Every counted place has a request that will give it back, through all edits of
\* the nodes, retries and failures, so that nobody waits for a place that is lost;
\* and the last one admitted to a node was admitted under a limit of at least the
\* places now taken.
PlacesAreHeld ==
  /\ EgTypeOK
  /\ \A n \in EgNode :
       /\ egInflight[n] = Cardinality(NodeHolders(n))
       /\ NodeHolders(n) # {} => \E r \in NodeHolders(n) : egInflight[n] <= profile[r].limit
==============================================================================
