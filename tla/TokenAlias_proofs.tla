--------------------------- MODULE TokenAlias_proofs ---------------------------
(***************************************************************************)
(* Lemmas about Resolve, for the proofs about the modules that keep an     *)
(* alias table: where the walk along the aliases ends after a rotation, a  *)
(* removal or an import, for tables of any shape and size.                 *)
(*                                                                         *)
(* Resolve looks for a settled token that lies in every set which holds    *)
(* the walk's start and is closed under its step.  Such a token is unique, *)
(* because the tokens the walk reaches it from are such a set.  The walks  *)
(* of two tables that agree on those tokens reach the same end.            *)
(***************************************************************************)
EXTENDS TokenAlias, Integers, WellFoundedInduction, TLAPS

\* The walk from t comes to e; U is a set of tokens that holds the whole table.
Reaches(U, present, al, t, e) ==
  \A S \in SUBSET U : t \in S /\ (\A x \in S : AliasHop(present, al, x) \in S) => e \in S

\* The tokens whose walk comes to e.
Basin(U, present, al, e) == {x \in U : Reaches(U, present, al, x, e)}

LEMMA HopStays ==
  ASSUME NEW present, NEW al, NEW U, AliasNodes(al) \subseteq U, NEW x \in U
  PROVE  /\ AliasHop(present, al, x) \in U
         /\ x \in AliasNodes(al) => AliasHop(present, al, x) \in AliasNodes(al)
         /\ AliasHop(present, al, x) # x => x \in AliasNodes(al)
  BY DEF AliasHop, AliasNodes

\* Short of e, the walk does not leave the tokens that come to e.
LEMMA BasinIsClosed ==
  ASSUME NEW present, NEW al, NEW U, AliasNodes(al) \subseteq U, NEW e,
         NEW x \in Basin(U, present, al, e), x # e
  PROVE  AliasHop(present, al, x) \in Basin(U, present, al, e)
  <1>1. AliasHop(present, al, x) \in U
    BY HopStays DEF Basin
  <1> SUFFICES ASSUME NEW S \in SUBSET U, AliasHop(present, al, x) \in S,
                      \A y \in S : AliasHop(present, al, y) \in S
               PROVE  e \in S
    BY <1>1 DEF Basin, Reaches
  <1>2. S \cup {x} \in SUBSET U /\ \A y \in S \cup {x} : AliasHop(present, al, y) \in S \cup {x}
    BY DEF Basin
  <1>3. e \in S \cup {x}
    BY <1>2 DEF Basin, Reaches
  <1> QED BY <1>3

\* A settled token comes nowhere else.
LEMMA SettledStays ==
  ASSUME NEW present, NEW al, NEW U, NEW x \in U, AliasHop(present, al, x) = x,
         NEW e, Reaches(U, present, al, x, e)
  PROVE  e = x
  <1>1. {x} \in SUBSET U /\ \A y \in {x} : AliasHop(present, al, y) \in {x}
    OBVIOUS
  <1> QED BY <1>1 DEF Reaches

\* The settled token that a walk comes to is what Resolve returns.
LEMMA EndIsResolved ==
  ASSUME NEW present, NEW al, NEW U, AliasNodes(al) \subseteq U, NEW t \in U, NEW e \in U,
         AliasHop(present, al, e) = e, Reaches(U, present, al, t, e)
  PROVE  Resolve(present, al, t) = e
  <1> DEFINE hop(x) == AliasHop(present, al, x)
             walks == {S \in SUBSET AliasNodes(al) : t \in S /\ \A x \in S : hop(x) \in S}
             ends == {x \in AliasNodes(al) : hop(x) = x /\ \A S \in walks : x \in S}
  <1>0. Resolve(present, al, t) =
          IF hop(t) = t THEN t ELSE IF ends = {} THEN t ELSE CHOOSE x \in ends : TRUE
    BY DEF Resolve
  <1>1. CASE hop(t) = t
    BY <1>0, <1>1, SettledStays
  <1>2. CASE hop(t) # t
    <2>1. t \in AliasNodes(al)
      BY <1>2, HopStays
    <2>2. AliasNodes(al) \in walks
      BY <2>1, HopStays
    <2>3. \A S \in walks : e \in S
      BY DEF Reaches
    <2>4. e \in ends
      BY <2>2, <2>3
    <2>5. ASSUME NEW d \in ends PROVE d = e
      <3> DEFINE B == Basin(U, present, al, e) \cap AliasNodes(al)
      <3>1. t \in B
        BY <2>1 DEF Basin
      <3>2. ASSUME NEW x \in B PROVE hop(x) \in B
        BY <3>2, BasinIsClosed, HopStays
      <3>3. B \in walks
        BY <3>1, <3>2
      <3>4. d \in B
        BY <3>3
      <3>5. Reaches(U, present, al, d, e)
        BY <3>4 DEF Basin
      <3> QED BY <3>4, <3>5, SettledStays
    <2>6. (CHOOSE x \in ends : TRUE) \in ends
      BY <2>4
    <2> HIDE DEF ends
    <2> QED BY <1>0, <1>2, <2>4, <2>5, <2>6
  <1> QED BY <1>1, <1>2

\* What Resolve returns is where the walk ends, if it is settled.
LEMMA ResolvedIsEnd ==
  ASSUME NEW present, NEW al, NEW U, AliasNodes(al) \subseteq U, NEW t \in U,
         AliasHop(present, al, Resolve(present, al, t)) = Resolve(present, al, t)
  PROVE  /\ Resolve(present, al, t) \in U
         /\ Reaches(U, present, al, t, Resolve(present, al, t))
  <1> DEFINE hop(x) == AliasHop(present, al, x)
             walks == {S \in SUBSET AliasNodes(al) : t \in S /\ \A x \in S : hop(x) \in S}
             ends == {x \in AliasNodes(al) : hop(x) = x /\ \A S \in walks : x \in S}
             e == Resolve(present, al, t)
  <1>0. e = IF hop(t) = t THEN t ELSE IF ends = {} THEN t ELSE CHOOSE x \in ends : TRUE
    BY DEF Resolve
  <1>1. CASE e = t
    BY <1>1 DEF Reaches
  <1>2. CASE e # t
    <2>1. hop(t) # t /\ ends # {} /\ e = CHOOSE x \in ends : TRUE
      BY <1>0, <1>2
    <2>2. e \in ends
      <3> HIDE DEF ends, e
      <3> QED BY <2>1
    <2>3. t \in AliasNodes(al)
      BY <2>1, HopStays
    <2>4. ASSUME NEW S \in SUBSET U, t \in S, \A x \in S : hop(x) \in S
          PROVE  e \in S
      <3>1. S \cap AliasNodes(al) \in walks
        BY <2>3, <2>4, HopStays
      <3> QED BY <2>2, <3>1
    <2> QED BY <2>2, <2>4 DEF Reaches
  <1> QED BY <1>1, <1>2

\* Two tables agree on the tokens that come to e, as far as the walk from t goes (Z):
\* then it comes to e in both.
LEMMA SameWalk ==
  ASSUME NEW p, NEW a, NEW q, NEW b, NEW U, AliasNodes(a) \subseteq U, NEW t, NEW e,
         Reaches(U, p, a, t, e), NEW Z \in SUBSET U, t \in Z, \A x \in Z : AliasHop(p, a, x) \in Z,
         \A x \in Z \cap Basin(U, p, a, e) : x # e => AliasHop(q, b, x) = AliasHop(p, a, x)
  PROVE  Reaches(U, q, b, t, e)
  <1> SUFFICES ASSUME NEW S \in SUBSET U, t \in S, \A x \in S : AliasHop(q, b, x) \in S, e \notin S
               PROVE  FALSE
    BY DEF Reaches
  <1> DEFINE T == S \cap Z \cap Basin(U, p, a, e)
  <1>1. t \in T
    BY DEF Basin
  <1>2. ASSUME NEW x \in T PROVE AliasHop(p, a, x) \in T
    <2>1. x # e
      OBVIOUS
    <2>2. AliasHop(p, a, x) \in Basin(U, p, a, e)
      BY <2>1, BasinIsClosed
    <2> QED BY <2>1, <2>2
  <1>3. T \in SUBSET U
    OBVIOUS
  <1>4. e \in T
    <2> HIDE DEF T
    <2> QED BY <1>1, <1>2, <1>3 DEF Reaches
  <1> QED BY <1>4

------------------------------------------------------------------------------
(* What Resolve returns. *)

\* The walk ends on the token it started from or on one that some alias names.
LEMMA ResolveInNodes ==
  ASSUME NEW present, NEW al, NEW t
  PROVE  Resolve(present, al, t) \in {t} \cup AliasNodes(al)
  <1> DEFINE hop(x) == AliasHop(present, al, x)
             walks == {S \in SUBSET AliasNodes(al) : t \in S /\ \A x \in S : hop(x) \in S}
             ends == {x \in AliasNodes(al) : hop(x) = x /\ \A S \in walks : x \in S}
  <1>1. Resolve(present, al, t) =
          IF hop(t) = t THEN t ELSE IF ends = {} THEN t ELSE CHOOSE x \in ends : TRUE
    BY DEF Resolve
  <1>2. ends \subseteq AliasNodes(al)
    OBVIOUS
  <1>3. ends # {} => (CHOOSE x \in ends : TRUE) \in ends
    OBVIOUS
  <1> QED BY <1>1, <1>2, <1>3

\* It is settled, unless the walk runs in a circle and gives back its start.
LEMMA ResolvedOrSame ==
  ASSUME NEW present, NEW al, NEW t, Resolve(present, al, t) # t
  PROVE  AliasHop(present, al, Resolve(present, al, t)) = Resolve(present, al, t)
  <1> DEFINE hop(x) == AliasHop(present, al, x)
             walks == {S \in SUBSET AliasNodes(al) : t \in S /\ \A x \in S : hop(x) \in S}
             ends == {x \in AliasNodes(al) : hop(x) = x /\ \A S \in walks : x \in S}
             e == Resolve(present, al, t)
  <1>1. e = IF hop(t) = t THEN t ELSE IF ends = {} THEN t ELSE CHOOSE x \in ends : TRUE
    BY DEF Resolve
  <1>2. ends # {} /\ e = CHOOSE x \in ends : TRUE
    BY <1>1
  <1>3. e \in ends
    <2> HIDE DEF ends, e
    <2> QED BY <1>2
  <1> QED BY <1>3

\* Resolving twice is resolving once.
LEMMA ResolveTwice ==
  ASSUME NEW present, NEW al, NEW t
  PROVE  Resolve(present, al, Resolve(present, al, t)) = Resolve(present, al, t)
  <1> DEFINE e == Resolve(present, al, t)
  <1>1. CASE e = t
    BY <1>1
  <1>2. CASE e # t
    <2>1. AliasHop(present, al, e) = e
      BY <1>2, ResolvedOrSame
    <2> QED BY <2>1 DEF Resolve
  <1> QED BY <1>1, <1>2

LEMMA PresentIsResolved ==
  ASSUME NEW present, NEW al, NEW t \in present
  PROVE  Resolve(present, al, t) = t
  BY DEF Resolve, AliasHop

\* The end lies in every closed set the walk starts in.
LEMMA ResolveStays ==
  ASSUME NEW present, NEW al, NEW U, AliasNodes(al) \subseteq U, NEW Z \in SUBSET U,
         NEW t \in Z, \A x \in Z : AliasHop(present, al, x) \in Z
  PROVE  Resolve(present, al, t) \in Z
  <1>1. CASE Resolve(present, al, t) # t
    <2>1. Reaches(U, present, al, t, Resolve(present, al, t))
      BY <1>1, ResolvedOrSame, ResolvedIsEnd
    <2> QED BY <2>1 DEF Reaches
  <1> QED BY <1>1

\* Where every alias leads to a token of a higher rank there is no circle.
LEMMA WalkSettles ==
  ASSUME NEW present, NEW al, NEW t, NEW K \in Nat, NEW rank,
         \A x \in AliasNodes(al) : rank[x] \in 0..K,
         \A x \in DOMAIN al : rank[x] < rank[al[x]]
  PROVE  AliasHop(present, al, Resolve(present, al, t)) = Resolve(present, al, t)
  <1> DEFINE hop(x) == AliasHop(present, al, x)
             walks == {S \in SUBSET AliasNodes(al) : t \in S /\ \A x \in S : hop(x) \in S}
             ends == {x \in AliasNodes(al) : hop(x) = x /\ \A S \in walks : x \in S}
             met == {x \in AliasNodes(al) : \A S \in walks : x \in S}
             left == {K - rank[x] : x \in met}
             R == OpToRel(<, Nat)
  <1>0. Resolve(present, al, t) =
          IF hop(t) = t THEN t ELSE IF ends = {} THEN t ELSE CHOOSE x \in ends : TRUE
    BY DEF Resolve
  <1>1. CASE hop(t) = t
    BY <1>0, <1>1
  <1>2. CASE hop(t) # t
    <2>1. t \in met /\ \A x \in met : hop(x) \in met
      <3>1. t \in AliasNodes(al)
        BY <1>2 DEF AliasHop, AliasNodes
      <3>2. \A x \in AliasNodes(al) : hop(x) \in AliasNodes(al)
        BY DEF AliasHop, AliasNodes
      <3> QED BY <3>1, <3>2
    <2>2. left \subseteq Nat /\ left # {}
      BY <2>1
    <2>3. \A i, j \in Nat : i < j => <<i, j>> \in R
      BY DEF OpToRel
    <2>4. IsWellFoundedOn(R, Nat)
      BY NatLessThanWellFounded
    <2>5. PICK e \in met : \A x \in met : ~ (<<K - rank[x], K - rank[e]>> \in R)
      <3> HIDE DEF R, met
      <3>1. PICK m \in left : \A k \in left : ~ (<<k, m>> \in R)
        <4> HIDE DEF left
        <4> QED BY <2>2, <2>4, WFMin
      <3> QED BY <3>1
    <2>6. hop(e) = e
      <3> SUFFICES ASSUME hop(e) # e PROVE FALSE
        OBVIOUS
      <3>1. e \in DOMAIN al /\ hop(e) = al[e] /\ hop(e) \in met
        BY <2>1 DEF AliasHop
      <3>2. rank[e] \in 0..K /\ rank[hop(e)] \in 0..K /\ rank[e] < rank[hop(e)]
        BY <3>1
      <3> HIDE DEF hop, met, R
      <3>3. K - rank[hop(e)] \in Nat /\ K - rank[e] \in Nat /\ K - rank[hop(e)] < K - rank[e]
        BY <3>2
      <3> QED BY <2>3, <2>5, <3>1, <3>3
    <2>7. e \in ends
      BY <2>6
    <2>8. (CHOOSE x \in ends : TRUE) \in ends
      BY <2>7
    <2>9. \A x \in ends : hop(x) = x
      OBVIOUS
    <2> HIDE DEF ends, hop
    <2>10. Resolve(present, al, t) \in ends
      BY <1>0, <1>2, <2>7, <2>8
    <2>11. hop(Resolve(present, al, t)) = Resolve(present, al, t)
      BY <2>9, <2>10
    <2> QED BY <2>11 DEF hop
  <1> QED BY <1>1, <1>2

------------------------------------------------------------------------------
(* Where the walk ends once the table has changed. *)

\* A rotation: the walks that ended on the old token end on the new one, and no
\* other walk to an account changes.
LEMMA AliasRotated ==
  ASSUME NEW present, NEW al, NEW I, AliasNodes(al) \subseteq I, present \subseteq I,
         NEW old \in present, NEW new, new \notin I, NEW x \in I,
         NEW p, p = (present \ {old}) \cup {new}, NEW a, a = AliasTo(al, old, new)
  PROVE  /\ Resolve(present, al, x) = old => Resolve(p, a, x) = new
         /\ Resolve(present, al, x) \in present \ {old}
              => Resolve(p, a, x) = Resolve(present, al, x)
         /\ Resolve(p, a, x) \in p => Resolve(present, al, x) \in present
  <1> DEFINE U == I \cup {new}
             hop(y) == AliasHop(present, al, y)
             hopp(y) == AliasHop(p, a, y)
             e == Resolve(present, al, x)
             ep == Resolve(p, a, x)
  <1>1. AliasNodes(al) \subseteq U /\ AliasNodes(a) \subseteq U /\ old # new
    BY DEF AliasNodes, AliasTo
  <1>2. ASSUME NEW y, y \notin {old, new} PROVE hopp(y) = hop(y)
    BY <1>2 DEF AliasHop, AliasTo
  <1>3. hop(old) = old /\ hop(new) = new /\ hopp(old) = new /\ hopp(new) = new
    BY <1>1 DEF AliasHop, AliasTo, AliasNodes
  <1>4. (\A y \in present : hop(y) = y) /\ (\A y \in p : hopp(y) = y)
    BY DEF AliasHop
  <1> HIDE DEF U, hop, hopp, e, ep
  <1> USE DEF U
  <1>5. ASSUME e \in present PROVE Reaches(U, present, al, x, e)
    BY <1>1, <1>4, <1>5, ResolvedIsEnd DEF e, hop
  <1>6. ASSUME ep \in p PROVE Reaches(U, p, a, x, ep)
    BY <1>1, <1>4, <1>6, ResolvedIsEnd DEF ep, hopp
  <1>7. \A y \in U : hop(y) \in U /\ hopp(y) \in U
    BY <1>1, HopStays DEF hop, hopp
  <1>8. ASSUME e = old PROVE ep = new
    <2>1. \A y \in U \cap Basin(U, present, al, e) : y # e => hopp(y) = hop(y)
      BY <1>1, <1>2, <1>3, <1>8, SettledStays DEF Basin, hop
    <2>2. Reaches(U, p, a, x, old)
      BY <1>1, <1>5, <1>7, <1>8, <2>1, SameWalk DEF hop, hopp
    <2>3. Reaches(U, p, a, x, new)
      BY <1>3, <2>2 DEF Reaches, hopp
    <2> QED BY <1>1, <1>3, <2>3, EndIsResolved DEF ep, hopp
  <1>9. ASSUME e \in present \ {old} PROVE ep = e
    <2>1. \A y \in U \cap Basin(U, present, al, e) : y # e => hopp(y) = hop(y)
      BY <1>2, <1>3, <1>9, SettledStays DEF Basin, hop
    <2>2. Reaches(U, p, a, x, e)
      BY <1>1, <1>5, <1>7, <1>9, <2>1, SameWalk DEF hop, hopp
    <2>3. e \in U /\ hopp(e) = e
      BY <1>4, <1>9
    <2> QED BY <1>1, <2>2, <2>3, EndIsResolved DEF ep, hopp
  <1>10. ASSUME ep \in p, ep # new PROVE e = ep
    <2>1. old \notin Basin(U, p, a, ep)
      <3>1. ASSUME old \in Basin(U, p, a, ep) PROVE new \in Basin(U, p, a, ep)
        <4>1. old # ep
          BY <1>1, <1>10
        <4> QED BY <1>1, <1>3, <3>1, <4>1, BasinIsClosed DEF hopp
      <3> QED BY <1>3, <1>10, <3>1, SettledStays DEF Basin, hopp
    <2>2. \A y \in U \cap Basin(U, p, a, ep) : y # ep => hop(y) = hopp(y)
      BY <1>2, <1>3, <1>10, <2>1, SettledStays DEF Basin, hopp
    <2>3. Reaches(U, present, al, x, ep)
      BY <1>1, <1>6, <1>7, <1>10, <2>2, SameWalk DEF hop, hopp
    <2>4. ep \in U /\ hop(ep) = ep
      BY <1>4, <1>10
    <2> QED BY <1>1, <2>3, <2>4, EndIsResolved DEF e, hop
  <1>11. ASSUME ep = new PROVE e = old
    <2>1. Reaches(U, p, a, x, new)
      BY <1>6, <1>11
    <2>2. ASSUME NEW S \in SUBSET U, x \in S, \A y \in S : hop(y) \in S, old \notin S
          PROVE  FALSE
      <3>1. \A y \in S \ {new} : hop(y) # new
        BY HopStays, <1>1 DEF hop
      <3>2. x \in S \ {new} /\ \A y \in S \ {new} : hopp(y) \in S \ {new}
        BY <1>2, <2>2, <3>1
      <3> QED BY <2>1, <3>2 DEF Reaches, hopp
    <2>3. Reaches(U, present, al, x, old)
      BY <2>2 DEF Reaches, hop
    <2> QED BY <1>1, <1>3, <2>3, EndIsResolved DEF e, hop
  <1> QED BY <1>8, <1>9, <1>10, <1>11 DEF e, ep

\* A removal: the walks that ended on an account left behind still do, and none
\* comes to an account it did not come to before.
LEMMA AliasDropped ==
  ASSUME NEW present, NEW al, NEW U, AliasNodes(al) \subseteq U, present \subseteq U,
         NEW c \in U, Resolve(present, al, c) = c, NEW x \in U,
         NEW p, p = present \ {c}, NEW a, a = ForgetAliases(al, {c})
  PROVE  /\ Resolve(present, al, x) \in p => Resolve(p, a, x) = Resolve(present, al, x)
         /\ Resolve(p, a, x) \in p => Resolve(p, a, x) = Resolve(present, al, x)
  <1> DEFINE hop(y) == AliasHop(present, al, y)
             hopp(y) == AliasHop(p, a, y)
             e == Resolve(present, al, x)
             ep == Resolve(p, a, x)
  <1>1. AliasNodes(a) \subseteq U
    BY DEF AliasNodes, ForgetAliases
  <1>2. ASSUME NEW y, y # c, hop(y) # c PROVE hopp(y) = hop(y)
    BY <1>2 DEF AliasHop, ForgetAliases
  <1>3. hopp(c) = c /\ \A y : y # c /\ hop(y) = c => hopp(y) = y
    BY DEF AliasHop, ForgetAliases
  <1>4. (\A y \in present : hop(y) = y) /\ (\A y \in p : hopp(y) = y)
    BY DEF AliasHop
  <1> HIDE DEF hop, hopp, e, ep
  <1>5. \A y \in U : hop(y) \in U /\ hopp(y) \in U
    BY <1>1, HopStays DEF hop, hopp
  <1>6. ASSUME e \in p PROVE ep = e
    <2>0. e \in U /\ hop(e) = e /\ hopp(e) = e /\ e # c
      BY <1>4, <1>6
    <2>1. Reaches(U, present, al, x, e)
      BY <2>0, ResolvedIsEnd DEF e, hop
    <2>2. c \notin Basin(U, present, al, e)
      BY <2>0, EndIsResolved DEF Basin, hop
    <2>3. \A y \in U \cap Basin(U, present, al, e) : y # e => hopp(y) = hop(y)
      BY <1>2, <2>2, BasinIsClosed DEF hop
    <2>4. Reaches(U, p, a, x, e)
      BY <1>5, <2>1, <2>3, SameWalk DEF hop, hopp
    <2> QED BY <1>1, <2>0, <2>4, EndIsResolved DEF ep, hopp
  <1>7. ASSUME ep \in p PROVE e = ep
    <2>0. ep \in U /\ hop(ep) = ep /\ hopp(ep) = ep /\ ep # c
      BY <1>4, <1>7
    <2>1. Reaches(U, p, a, x, ep)
      BY <1>1, <2>0, ResolvedIsEnd DEF ep, hopp
    <2>2. \A y \in U \cap Basin(U, p, a, ep) : y # ep => hop(y) = hopp(y)
      BY <1>2, <1>3, <2>0, SettledStays DEF Basin, hopp
    <2>3. Reaches(U, present, al, x, ep)
      BY <1>1, <1>5, <2>1, <2>2, SameWalk DEF hop, hopp
    <2> QED BY <2>0, <2>3, EndIsResolved DEF e, hop
  <1> QED BY <1>6, <1>7 DEF e, ep

\* A token that comes back changes no walk that does not pass it.
LEMMA AliasImported ==
  ASSUME NEW present, NEW al, NEW U, AliasNodes(al) \subseteq U, present \subseteq U,
         NEW t \in U, NEW p, p = present \cup {t}, NEW Z \in SUBSET U, t \notin Z,
         NEW x \in Z, \A y \in Z : AliasHop(present, al, y) \in Z
  PROVE  /\ Resolve(present, al, x) \in present => Resolve(p, al, x) = Resolve(present, al, x)
         /\ Resolve(p, al, x) \in p => /\ Resolve(p, al, x) = Resolve(present, al, x)
                                       /\ Resolve(present, al, x) \in present
  <1> DEFINE hop(y) == AliasHop(present, al, y)
             hopp(y) == AliasHop(p, al, y)
             e == Resolve(present, al, x)
             ep == Resolve(p, al, x)
  <1>1. \A y \in Z : hopp(y) = hop(y) /\ hop(y) \in Z
    BY DEF AliasHop
  <1>2. (\A y \in present : hop(y) = y) /\ (\A y \in p : hopp(y) = y)
    BY DEF AliasHop
  <1> HIDE DEF hop, hopp, e, ep
  <1>3. ASSUME e \in present PROVE ep = e
    <2>1. e \in U /\ hop(e) = e /\ hopp(e) = e
      BY <1>2, <1>3
    <2>2. Reaches(U, present, al, x, e)
      BY <2>1, ResolvedIsEnd DEF e, hop
    <2>3. Reaches(U, p, al, x, e)
      BY <1>1, <2>2, SameWalk DEF hop, hopp
    <2> QED BY <2>1, <2>3, EndIsResolved DEF ep, hopp
  <1>4. ASSUME ep \in p PROVE e = ep /\ e \in present
    <2>1. ep \in U /\ hopp(ep) = ep
      BY <1>2, <1>4
    <2>2. Reaches(U, p, al, x, ep)
      BY <2>1, ResolvedIsEnd DEF ep, hopp
    <2>3. ep \in Z
      BY <1>1, ResolveStays DEF ep, hopp
    <2>4. Reaches(U, present, al, x, ep)
      BY <1>1, <2>2, SameWalk DEF hop, hopp
    <2>5. ep \in present
      BY <1>4, <2>3
    <2> QED BY <1>2, <2>1, <2>4, <2>5, EndIsResolved DEF e, hop
  <1> QED BY <1>3, <1>4 DEF e, ep
===============================================================================
