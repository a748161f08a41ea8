---------------------------- MODULE TextTurn_proofs ----------------------------
(***************************************************************************)
(* Proofs about the requests for words (TextTurn), for any words, texts,   *)
(* earlier messages, accounts and payloads.                                *)
(*                                                                         *)
(* Two facts carry both theorems.  A client of a stream knows, from the    *)
(* frames it has, which blocks are open and which closed, what was marked, *)
(* and the sum of the pieces; a frame that may follow changes what it      *)
(* knows in one way (KnowsNext), and every action sends only such frames.  *)
(* And the text that was read is what upstream said, unless that is one    *)
(* message equal to the whole history, which waits to be told at the end   *)
(* (SaidInv).                                                              *)
(***************************************************************************)
EXTENDS TextTurn, SequenceTheorems, FiniteSetTheorems, TLAPS

------------------------------------------------------------------------------
\* Numbers, and functions that are defined step by step.
LEMMA LeastNat ==
  ASSUME NEW S, S \subseteq Nat, S # {}
  PROVE  \E m \in S : \A k \in S : m <= k
<1> DEFINE R == OpToRel(<, Nat)
<1>1. \A x, y \in Nat : x < y => <<x, y>> \in R
  BY DEF OpToRel
<1>2. IsWellFoundedOn(R, Nat)
  BY NatLessThanWellFounded
<1> HIDE DEF R
<1>3. PICK m \in S : \A k \in S : ~ (<<k, m>> \in R)
  BY <1>2, WFMin
<1>4. ASSUME NEW k \in S PROVE m <= k
  <2>1. ~(k < m)
    BY <1>1, <1>3
  <2> QED
    BY <2>1
<1> QED
  BY <1>4

LEMMA UpTo ==
  ASSUME NEW n \in Nat, NEW P, 0 \in P, \A k \in 1..n : k - 1 \in P => k \in P
  PROVE  \A k \in 0..n : k \in P
<1> DEFINE Bad == {k \in 0..n : k \notin P}
<1>1. SUFFICES ASSUME Bad # {} PROVE FALSE
  OBVIOUS
<1>2. PICK m \in Bad : \A k \in Bad : m <= k
  <2>1. Bad \subseteq Nat
    OBVIOUS
  <2> HIDE DEF Bad
  <2> QED
    BY <1>1, <2>1, LeastNat
<1>3. m \in 1..n /\ m \notin P
  BY <1>2
<1>4. m - 1 \in 0..n /\ m - 1 \notin Bad
  BY <1>2, <1>3
<1> QED
  BY <1>3, <1>4

\* There is a function that takes these steps, one after the other.
StepsOver(S) ==
  \A b \in S : \A n \in Nat : \A g \in [1..n -> [S -> S]] :
    \E f \in [0..n -> S] : f[0] = b /\ \A k \in 1..n : f[k] = g[k][f[k - 1]]

LEMMA StepsExist == \A S : StepsOver(S)
<1> SUFFICES ASSUME NEW S, NEW b \in S, NEW n \in Nat, NEW g \in [1..n -> [S -> S]]
             PROVE  \E f \in [0..n -> S] : f[0] = b /\ \A k \in 1..n : f[k] = g[k][f[k - 1]]
  BY DEF StepsOver
<1> DEFINE P == {m \in 0..n : \E f \in [0..m -> S] : f[0] = b /\ \A k \in 1..m : f[k] = g[k][f[k - 1]]}
<1>1. 0 \in P
  <2>1. PICK f : f = [k \in 0..0 |-> b]
    OBVIOUS
  <2>2. f \in [0..0 -> S] /\ f[0] = b
    BY <2>1
  <2> QED
    BY <2>2
<1>2. ASSUME NEW m \in 1..n, m - 1 \in P PROVE m \in P
  <2>1. PICK f \in [0..(m - 1) -> S] : f[0] = b /\ \A k \in 1..(m - 1) : f[k] = g[k][f[k - 1]]
    BY <1>2
  <2>2. PICK next : next = g[m][f[m - 1]]
    OBVIOUS
  <2>3. next \in S
    <3>1. f[m - 1] \in S
      BY <2>1
    <3> QED
      BY <2>2, <3>1
  <2>4. PICK h : h = [k \in 0..m |-> IF k = m THEN next ELSE f[k]]
    OBVIOUS
  <2>5. h \in [0..m -> S]
    BY <2>1, <2>3, <2>4
  <2>6. h[0] = b
    BY <2>1, <2>4
  <2>7. ASSUME NEW k \in 1..m PROVE h[k] = g[k][h[k - 1]]
    <3>1. k - 1 \in 0..m /\ k - 1 # m /\ h[k - 1] = f[k - 1]
      BY <2>4
    <3>2. CASE k = m
      BY <2>2, <2>4, <3>1, <3>2
    <3>3. CASE k # m
      <4>1. k \in 1..(m - 1)
        BY <3>3
      <4> QED
        BY <2>1, <2>4, <3>1, <3>3, <4>1
    <3> QED
      BY <3>2, <3>3
  <2>8. \E e \in [0..m -> S] : e[0] = b /\ \A k \in 1..m : e[k] = g[k][e[k - 1]]
    BY <2>5, <2>6, <2>7
  <2>9. m \in 0..n
    OBVIOUS
  <2> QED
    BY <2>8, <2>9, Zenon
<1>3. n \in P
  <2> HIDE DEF P
  <2>1. \A k \in 0..n : k \in P
    BY <1>1, <1>2, UpTo
  <2> QED
    BY <2>1
<1> QED
  BY <1>3

Reading == [out : Text, inside : BOOLEAN, label : Text]
NothingRead == [out |-> <<>>, inside |-> FALSE, label |-> <<>>]
Enclosure == [out : Text, held : Text, closed : Nat]
NothingHeld == [out |-> <<>>, held |-> <<>>, closed |-> 0]
Operations == {"append", "replace", "string"} \X Text

\* Texts are closed under what is done to them.
LEMMA TextOps ==
  /\ <<>> \in Text /\ \A w \in Word : <<w>> \in Text
  /\ \A t, u \in Text : t \o u \in Text
  /\ \A t \in Text, w \in Word : Append(t, w) \in Text
  BY DEF Text

\* The greatest of some numbers up to n.
LEMMA GreatestOf ==
  ASSUME NEW S, NEW n \in Nat, S \subseteq 0..n, S # {}
  PROVE  Max(S) \in S /\ \A k \in S : k <= Max(S)
<1> DEFINE T == {n - k : k \in S}
<1>1. PICK l \in T : \A k \in T : l <= k
  <2>1. T \subseteq Nat
    OBVIOUS
  <2>2. PICK x : x \in S
    OBVIOUS
  <2>3. n - x \in T
    BY <2>2
  <2> HIDE DEF T
  <2> QED
    BY <2>1, <2>3, LeastNat
<1>2. PICK m \in S : l = n - m
  BY <1>1
<1>3. ASSUME NEW k \in S PROVE m >= k
  <2>1. n - m <= n - k
    BY <1>1, <1>2
  <2> QED
    BY <2>1
<1>4. \E x \in S : \A y \in S : x >= y
  BY <1>2, <1>3
<1>5. Max(S) \in S /\ \A y \in S : Max(S) >= y
  BY <1>4 DEF Max
<1> QED
  BY <1>5

LEMMA LeastOf ==
  ASSUME NEW S, S \subseteq Nat, S # {}
  PROVE  Min(S) \in S /\ \A k \in S : Min(S) <= k
  BY LeastNat DEF Min

\* RStrip leaves the text up to its last word that is not a space.
LEMMA RStripIs ==
  ASSUME NEW t \in Text
  PROVE  \E m \in 0..Len(t) : /\ RStrip(t) = SubSeq(t, 1, m) /\ RStrip(t) \in Text /\ Len(RStrip(t)) = m
                             /\ \A k \in (m + 1)..Len(t) : t[k] = "space"
<1>1. PICK S : S = {0} \cup {k \in DOMAIN t : t[k] # "space"}
  OBVIOUS
<1>2. Len(t) \in Nat /\ DOMAIN t = 1..Len(t) /\ \A k \in 1..Len(t) : t[k] \in Word
  BY DEF Text
<1>3. S \subseteq 0..Len(t) /\ S # {}
  BY <1>1, <1>2
<1>4. PICK m : m = Max(S)
  OBVIOUS
<1>5. m \in S /\ \A k \in S : k <= m
  BY <1>2, <1>3, <1>4, GreatestOf
<1>6. \A k \in (m + 1)..Len(t) : t[k] = "space"
  BY <1>1, <1>2, <1>3, <1>5
<1>7. m \in 0..Len(t)
  BY <1>3, <1>5
<1>8. SubSeq(t, 1, m) \in Text /\ Len(SubSeq(t, 1, m)) = m
  BY <1>2, <1>7, SubSeqProperties DEF Text
<1> QED
  BY <1>1, <1>4, <1>6, <1>7, <1>8 DEF RStrip

LEMMA ReadWordType ==
  ASSUME NEW s \in Reading, NEW w \in Word
  PROVE  ReadWord(s, w) \in Reading
<1>1. \A t \in Text : RStrip(t) \in Text
  BY RStripIs
<1> QED
  BY <1>1, TextOps DEF Reading, ReadWord

LEMMA EncloseType ==
  ASSUME NEW s \in Enclosure, NEW w \in Word, NEW open, NEW close
  PROVE  Enclose(s, w, open, close) \in Enclosure
<1>1. s.out \in Text /\ s.held \in Text /\ s.closed \in Nat /\ s = [out |-> s.out, held |-> s.held, closed |-> s.closed]
  BY DEF Enclosure
<1>2. [s EXCEPT !.held = Append(@, w)] \in Enclosure
  BY <1>1, TextOps DEF Enclosure
<1>3. [out |-> s.out, held |-> <<>>, closed |-> s.closed + 1] \in Enclosure
  BY <1>1, TextOps DEF Enclosure
<1>4. [s EXCEPT !.out = Append(@, w)] \in Enclosure
  BY <1>1, TextOps DEF Enclosure
<1> QED
  BY <1>2, <1>3, <1>4 DEF Enclose

\* The states Sanitize reads a text in.
LEMMA Readings ==
  \A t \in Text :
    \E r : /\ r \in [0..Len(t) -> Reading] /\ r[0] = NothingRead /\ Sanitize(t) = r[Len(t)].out
          /\ \A k \in 1..Len(t) : r[k] = ReadWord(r[k - 1], t[k])
<1> SUFFICES ASSUME NEW t \in Text
             PROVE  \E r : /\ r \in [0..Len(t) -> Reading] /\ r[0] = NothingRead /\ Sanitize(t) = r[Len(t)].out
                          /\ \A k \in 1..Len(t) : r[k] = ReadWord(r[k - 1], t[k])
  OBVIOUS
<1> DEFINE r == CHOOSE r : r = [k \in 0..Len(t) |-> IF k = 0 THEN NothingRead ELSE ReadWord(r[k - 1], t[k])]
<1>1. Sanitize(t) = r[Len(t)].out
  BY DEF Sanitize, NothingRead
<1>2. r = CHOOSE h : h = [k \in 0..Len(t) |-> IF k = 0 THEN NothingRead ELSE ReadWord(h[k - 1], t[k])]
  OBVIOUS
<1> HIDE DEF r
<1>3. PICK n : n = Len(t)
  OBVIOUS
<1>4. n \in Nat
  BY <1>3 DEF Text
<1>5. \A k \in 1..n : t[k] \in Word
  BY <1>3 DEF Text
<1>6. PICK g : g = [k \in 1..n |-> [s \in Reading |-> ReadWord(s, t[k])]]
  OBVIOUS
<1>7. g \in [1..n -> [Reading -> Reading]]
  BY <1>5, <1>6, ReadWordType
<1>8. NothingRead \in Reading
  BY DEF NothingRead, Reading, Text
<1>9. PICK f \in [0..n -> Reading] : f[0] = NothingRead /\ \A k \in 1..n : f[k] = g[k][f[k - 1]]
  <2>1. \A b \in Reading : \A m \in Nat : \A h \in [1..m -> [Reading -> Reading]] :
          \E f \in [0..m -> Reading] : f[0] = b /\ \A k \in 1..m : f[k] = h[k][f[k - 1]]
    <3>1. StepsOver(Reading)
      BY StepsExist
    <3> QED
      BY <3>1 DEF StepsOver
  <2>2. \A h \in [1..n -> [Reading -> Reading]] :
          \E f \in [0..n -> Reading] : f[0] = NothingRead /\ \A k \in 1..n : f[k] = h[k][f[k - 1]]
    BY <1>4, <1>8, <2>1
  <2> QED
    BY <1>7, <2>2
<1>10. f = [k \in 0..n |-> IF k = 0 THEN NothingRead ELSE ReadWord(f[k - 1], t[k])]
  <2>1. ASSUME NEW k \in 1..n PROVE f[k] = ReadWord(f[k - 1], t[k])
    <3>1. k - 1 \in 0..n
      BY <1>4
    <3>2. f[k - 1] \in Reading
      BY <1>9, <3>1
    <3>3. g[k][f[k - 1]] = ReadWord(f[k - 1], t[k])
      BY <1>6, <3>2
    <3> QED
      BY <1>9, <3>3
  <2>2. \A k \in 0..n : k # 0 => k \in 1..n
    BY <1>4
  <2> QED
    BY <1>9, <2>1, <2>2
<1>11. r = [k \in 0..n |-> IF k = 0 THEN NothingRead ELSE ReadWord(r[k - 1], t[k])]
  BY <1>2, <1>3, <1>10
<1>12. r[0] = NothingRead /\ \A k \in 1..n : r[k] = ReadWord(r[k - 1], t[k])
  BY <1>4, <1>11
<1>13. PICK P : P = {k \in 0..n : r[k] \in Reading}
  OBVIOUS
<1>14. 0 \in P /\ \A k \in 1..n : k - 1 \in P => k \in P
  BY <1>4, <1>5, <1>8, <1>12, <1>13, ReadWordType
<1>15. \A k \in 0..n : k \in P
  BY <1>4, <1>14, UpTo
<1>16. r \in [0..n -> Reading]
  BY <1>11, <1>13, <1>15
<1> QED
  BY <1>1, <1>3, <1>12, <1>16

\* The states in which a text is searched for what open and close enclose.
LEMMA Enclosures ==
  \A t \in Text : \A open, close :
    \E r : /\ r \in [0..Len(t) -> Enclosure] /\ r[0] = NothingHeld /\ Enclosed(t, open, close) = r[Len(t)]
          /\ \A k \in 1..Len(t) : r[k] = Enclose(r[k - 1], t[k], open, close)
<1> SUFFICES ASSUME NEW t \in Text, NEW open, NEW close
             PROVE  \E r : /\ r \in [0..Len(t) -> Enclosure] /\ r[0] = NothingHeld /\ Enclosed(t, open, close) = r[Len(t)]
                          /\ \A k \in 1..Len(t) : r[k] = Enclose(r[k - 1], t[k], open, close)
  OBVIOUS
<1> DEFINE r == CHOOSE r : r = [k \in 0..Len(t) |-> IF k = 0 THEN NothingHeld ELSE Enclose(r[k - 1], t[k], open, close)]
<1>1. Enclosed(t, open, close) = r[Len(t)]
  BY DEF Enclosed, NothingHeld
<1>2. r = CHOOSE h : h = [k \in 0..Len(t) |-> IF k = 0 THEN NothingHeld ELSE Enclose(h[k - 1], t[k], open, close)]
  OBVIOUS
<1> HIDE DEF r
<1>3. PICK n : n = Len(t)
  OBVIOUS
<1>4. n \in Nat
  BY <1>3 DEF Text
<1>5. \A k \in 1..n : t[k] \in Word
  BY <1>3 DEF Text
<1>6. PICK g : g = [k \in 1..n |-> [s \in Enclosure |-> Enclose(s, t[k], open, close)]]
  OBVIOUS
<1>7. g \in [1..n -> [Enclosure -> Enclosure]]
  BY <1>5, <1>6, EncloseType
<1>8. NothingHeld \in Enclosure
  BY DEF NothingHeld, Enclosure, Text
<1>9. PICK f \in [0..n -> Enclosure] : f[0] = NothingHeld /\ \A k \in 1..n : f[k] = g[k][f[k - 1]]
  <2>1. \A b \in Enclosure : \A m \in Nat : \A h \in [1..m -> [Enclosure -> Enclosure]] :
          \E f \in [0..m -> Enclosure] : f[0] = b /\ \A k \in 1..m : f[k] = h[k][f[k - 1]]
    <3>1. StepsOver(Enclosure)
      BY StepsExist
    <3> QED
      BY <3>1 DEF StepsOver
  <2>2. \A h \in [1..n -> [Enclosure -> Enclosure]] :
          \E f \in [0..n -> Enclosure] : f[0] = NothingHeld /\ \A k \in 1..n : f[k] = h[k][f[k - 1]]
    BY <1>4, <1>8, <2>1
  <2> QED
    BY <1>7, <2>2
<1>10. f = [k \in 0..n |-> IF k = 0 THEN NothingHeld ELSE Enclose(f[k - 1], t[k], open, close)]
  <2>1. ASSUME NEW k \in 1..n PROVE f[k] = Enclose(f[k - 1], t[k], open, close)
    <3>1. k - 1 \in 0..n
      BY <1>4
    <3>2. f[k - 1] \in Enclosure
      BY <1>9, <3>1
    <3>3. g[k][f[k - 1]] = Enclose(f[k - 1], t[k], open, close)
      BY <1>6, <3>2
    <3> QED
      BY <1>9, <3>3
  <2>2. \A k \in 0..n : k # 0 => k \in 1..n
    BY <1>4
  <2> QED
    BY <1>9, <2>1, <2>2
<1>11. r = [k \in 0..n |-> IF k = 0 THEN NothingHeld ELSE Enclose(r[k - 1], t[k], open, close)]
  BY <1>2, <1>3, <1>10
<1>12. r[0] = NothingHeld /\ \A k \in 1..n : r[k] = Enclose(r[k - 1], t[k], open, close)
  BY <1>4, <1>11
<1>13. PICK P : P = {k \in 0..n : r[k] \in Enclosure}
  OBVIOUS
<1>14. 0 \in P /\ \A k \in 1..n : k - 1 \in P => k \in P
  BY <1>4, <1>5, <1>8, <1>12, <1>13, EncloseType
<1>15. \A k \in 0..n : k \in P
  BY <1>4, <1>14, UpTo
<1>16. r \in [0..n -> Enclosure]
  BY <1>11, <1>13, <1>15
<1> QED
  BY <1>1, <1>3, <1>12, <1>16

\* What FlattenSeq has put together after each of its sequences.
LEMMA Flattenings ==
  \A S : \A ss \in Seq(Seq(S)) :
    \E r : /\ r \in [0..Len(ss) -> Seq(S)] /\ r[0] = <<>> /\ FlattenSeq(ss) = r[Len(ss)]
          /\ \A k \in 1..Len(ss) : r[k] = r[k - 1] \o ss[k]
<1> SUFFICES ASSUME NEW S, NEW ss \in Seq(Seq(S))
             PROVE  \E r : /\ r \in [0..Len(ss) -> Seq(S)] /\ r[0] = <<>> /\ FlattenSeq(ss) = r[Len(ss)]
                          /\ \A k \in 1..Len(ss) : r[k] = r[k - 1] \o ss[k]
  OBVIOUS
<1>1. CASE ss = <<>>
  <2>1. PICK r : r = [k \in 0..0 |-> <<>>]
    OBVIOUS
  <2>2. r \in [0..0 -> Seq(S)] /\ r[0] = <<>>
    BY <2>1, EmptySeq
  <2>3. Len(ss) = 0 /\ FlattenSeq(ss) = <<>>
    BY <1>1 DEF FlattenSeq
  <2> QED
    BY <2>2, <2>3
<1>2. CASE ss # <<>>
  <2> DEFINE c == CHOOSE c : c = [i \in 1..Len(ss) |-> IF i = 1 THEN ss[i] ELSE c[i - 1] \o ss[i]]
  <2>1. FlattenSeq(ss) = c[Len(ss)]
    BY <1>2, EmptySeq DEF FlattenSeq
  <2>2. c = CHOOSE h : h = [i \in 1..Len(ss) |-> IF i = 1 THEN ss[i] ELSE h[i - 1] \o ss[i]]
    OBVIOUS
  <2> HIDE DEF c
  <2>3. PICK n : n = Len(ss)
    OBVIOUS
  <2>4. n \in Nat \ {0}
    BY <1>2, <2>3, EmptySeq
  <2>5. \A k \in 1..n : ss[k] \in Seq(S)
    BY <2>3
  <2>6. PICK g : g = [k \in 1..n |-> [s \in Seq(S) |-> s \o ss[k]]]
    OBVIOUS
  <2>7. g \in [1..n -> [Seq(S) -> Seq(S)]]
    BY <2>5, <2>6, ConcatProperties
  <2>8. <<>> \in Seq(S) /\ n \in Nat
    BY <2>4, EmptySeq
  <2>9. PICK f \in [0..n -> Seq(S)] : f[0] = <<>> /\ \A k \in 1..n : f[k] = g[k][f[k - 1]]
    <3>1. PICK T : T = Seq(S)
      OBVIOUS
    <3>2. PICK b : b = <<>>
      OBVIOUS
    <3>3. g \in [1..n -> [T -> T]]
      BY <2>7, <3>1
    <3>6. b \in T
      BY <2>8, <3>1, <3>2
    <3>4. n \in Nat
      BY <2>4
    <3>5. \E f \in [0..n -> T] : f[0] = b /\ \A k \in 1..n : f[k] = g[k][f[k - 1]]
      <4>1. \A bb \in T : \A m \in Nat : \A h \in [1..m -> [T -> T]] :
              \E f \in [0..m -> T] : f[0] = bb /\ \A k \in 1..m : f[k] = h[k][f[k - 1]]
        <5>1. StepsOver(T)
          BY StepsExist
        <5> QED
          BY <5>1 DEF StepsOver
      <4>2. \A m \in Nat : \A h \in [1..m -> [T -> T]] :
              \E f \in [0..m -> T] : f[0] = b /\ \A k \in 1..m : f[k] = h[k][f[k - 1]]
        BY <3>6, <4>1
      <4>3. \A h \in [1..n -> [T -> T]] :
              \E f \in [0..n -> T] : f[0] = b /\ \A k \in 1..n : f[k] = h[k][f[k - 1]]
        BY <3>4, <4>2
      <4> QED
        BY <3>3, <4>3
    <3> QED
      BY <3>1, <3>2, <3>5
  <2>10. ASSUME NEW k \in 1..n PROVE f[k] = f[k - 1] \o ss[k]
    <3>1. k - 1 \in 0..n
      BY <2>4
    <3>2. f[k - 1] \in Seq(S)
      BY <2>9, <3>1
    <3>3. g[k][f[k - 1]] = f[k - 1] \o ss[k]
      BY <2>6, <3>2
    <3> QED
      BY <2>9, <3>3
  <2>11. f[1] = ss[1]
    <3>1. 1 \in 1..n
      BY <2>4
    <3>2. f[1] = f[1 - 1] \o ss[1] /\ ss[1] \in Seq(S)
      BY <2>5, <2>10, <3>1
    <3>3. f[1 - 1] = <<>>
      BY <2>9
    <3>4. f[1] = <<>> \o ss[1]
      BY <3>2, <3>3
    <3> QED
      BY <3>2, <3>4, ConcatEmptySeq
  <2>12. PICK h : h = [i \in 1..n |-> f[i]]
    OBVIOUS
  <2>13. h = [i \in 1..n |-> IF i = 1 THEN ss[i] ELSE h[i - 1] \o ss[i]]
    <3>1. ASSUME NEW i \in 1..n, i # 1 PROVE f[i] = h[i - 1] \o ss[i]
      <4>1. i - 1 \in 1..n
        BY <2>4, <3>1
      <4> QED
        BY <2>10, <2>12, <4>1, Zenon
    <3> QED
      BY <2>11, <2>12, <3>1
  <2>14. c = [i \in 1..n |-> IF i = 1 THEN ss[i] ELSE c[i - 1] \o ss[i]]
    BY <2>2, <2>3, <2>13, Zenon
  <2>15. PICK P : P = {k \in 0..n : k = 0 \/ c[k] = f[k]}
    OBVIOUS
  <2>16. 0 \in P
    BY <2>4, <2>15
  <2>17. ASSUME NEW k \in 1..n, k - 1 \in P PROVE k \in P
    <3>1. CASE k = 1
      BY <2>4, <2>11, <2>14, <2>15, <3>1
    <3>2. CASE k # 1
      <4>1. c[k - 1] = f[k - 1]
        BY <2>15, <2>17, <3>2
      <4>2. c[k] = c[k - 1] \o ss[k]
        BY <2>14, <3>2
      <4>3. f[k] = f[k - 1] \o ss[k]
        BY <2>10
      <4>4. k \in 0..n
        BY <2>4
      <4> QED
        BY <2>15, <4>1, <4>2, <4>3, <4>4
    <3> QED
      BY <3>1, <3>2
  <2>18. \A k \in 0..n : k \in P
    BY <2>8, <2>16, <2>17, UpTo
  <2>19. c[n] = f[n]
    BY <2>4, <2>15, <2>18
  <2> QED
    BY <2>1, <2>3, <2>9, <2>10, <2>19
<1> QED
  BY <1>1, <1>2

LEMMA FlattenType ==
  ASSUME NEW S, NEW ss \in Seq(Seq(S))
  PROVE  FlattenSeq(ss) \in Seq(S)
  <1>1. PICK r : r \in [0..Len(ss) -> Seq(S)] /\ FlattenSeq(ss) = r[Len(ss)]
    BY Flattenings
  <1>2. Len(ss) \in 0..Len(ss)
    BY LenProperties
  <1> QED
    BY <1>1, <1>2

LEMMA FlattenEmpty == FlattenSeq(<<>>) = <<>>
  BY DEF FlattenSeq

LEMMA FlattenAppend ==
  ASSUME NEW S, NEW ss \in Seq(Seq(S)), NEW s \in Seq(S)
  PROVE  FlattenSeq(Append(ss, s)) = FlattenSeq(ss) \o s
<1>1. PICK n : n = Len(ss) /\ n \in Nat
  BY LenProperties
<1>2. PICK tt : tt = Append(ss, s)
  OBVIOUS
<1>3. tt \in Seq(Seq(S)) /\ Len(tt) = n + 1 /\ tt[n + 1] = s /\ \A k \in 1..n : tt[k] = ss[k]
  BY <1>1, <1>2, AppendProperties
<1>4. PICK r : /\ r \in [0..n -> Seq(S)] /\ r[0] = <<>> /\ FlattenSeq(ss) = r[n]
               /\ \A k \in 1..n : r[k] = r[k - 1] \o ss[k]
  <2>1. PICK r : /\ r \in [0..Len(ss) -> Seq(S)] /\ r[0] = <<>> /\ FlattenSeq(ss) = r[Len(ss)]
                 /\ \A k \in 1..Len(ss) : r[k] = r[k - 1] \o ss[k]
    BY Flattenings
  <2> QED
    BY <1>1, <2>1
<1>5. PICK q : /\ q \in [0..(n + 1) -> Seq(S)] /\ q[0] = <<>> /\ FlattenSeq(tt) = q[n + 1]
               /\ \A k \in 1..(n + 1) : q[k] = q[k - 1] \o tt[k]
  <2>1. PICK q : /\ q \in [0..Len(tt) -> Seq(S)] /\ q[0] = <<>> /\ FlattenSeq(tt) = q[Len(tt)]
                 /\ \A k \in 1..Len(tt) : q[k] = q[k - 1] \o tt[k]
    BY <1>3, Flattenings
  <2> QED
    BY <1>3, <2>1
<1>6. PICK P : P = {k \in 0..n : r[k] = q[k]}
  OBVIOUS
<1>7. 0 \in P
  BY <1>1, <1>4, <1>5, <1>6
<1>8. ASSUME NEW k \in 1..n, k - 1 \in P PROVE k \in P
  <2>1. r[k] = r[k - 1] \o ss[k]
    BY <1>4
  <2>2. k \in 1..(n + 1) /\ k \in 0..n
    BY <1>1
  <2>3. q[k] = q[k - 1] \o tt[k] /\ tt[k] = ss[k]
    BY <1>3, <1>5, <2>2
  <2>4. r[k - 1] = q[k - 1]
    BY <1>6, <1>8
  <2> QED
    BY <1>6, <2>1, <2>2, <2>3, <2>4
<1>9. \A k \in 0..n : k \in P
  BY <1>1, <1>7, <1>8, UpTo
<1>10. q[n + 1] = q[n] \o s
  <2>1. n + 1 \in 1..(n + 1) /\ (n + 1) - 1 = n
    BY <1>1
  <2> QED
    BY <1>3, <1>5, <2>1
<1>11. q[n] = r[n]
  BY <1>1, <1>6, <1>9
<1> QED
  BY <1>2, <1>4, <1>5, <1>10, <1>11

LEMMA FlattenOne ==
  ASSUME NEW S, NEW s \in Seq(S)
  PROVE  FlattenSeq(<<s>>) = s
<1>1. <<>> \in Seq(Seq(S))
  BY EmptySeq
<1>2. <<s>> = Append(<<>>, s)
  OBVIOUS
<1>3. FlattenSeq(Append(<<>>, s)) = FlattenSeq(<<>>) \o s
  BY <1>1, FlattenAppend
<1> QED
  BY <1>2, <1>3, FlattenEmpty, ConcatEmptySeq

------------------------------------------------------------------------------
\* The text after its first n words, and beginnings of texts.
LEMMA AfterIs ==
  ASSUME NEW t \in Text, NEW n \in Nat
  PROVE  /\ After(t, n) \in Text
         /\ Len(After(t, n)) = IF n <= Len(t) THEN Len(t) - n ELSE 0
         /\ n >= Len(t) => After(t, n) = <<>>
         /\ \A k \in 1..(Len(t) - n) : After(t, n)[k] = t[n + k]
         /\ After(t, 0) = t
<1>1. Len(t) \in Nat /\ \A k \in 1..Len(t) : t[k] \in Word
  BY DEF Text
<1>2. \A k \in (n + 1)..Len(t) : t[k] \in Word
  BY <1>1
<1>3. /\ SubSeq(t, n + 1, Len(t)) \in Seq(Word)
      /\ Len(SubSeq(t, n + 1, Len(t))) = IF n + 1 <= Len(t) THEN Len(t) - (n + 1) + 1 ELSE 0
      /\ \A i \in 1..(Len(t) - (n + 1) + 1) : SubSeq(t, n + 1, Len(t))[i] = t[(n + 1) + i - 1]
  <2>1. n + 1 \in Int /\ Len(t) \in Int
    BY <1>1
  <2> QED
    BY <1>2, <2>1, SubSeqProperties
<1>4. \A k \in 1..(Len(t) - n) : SubSeq(t, n + 1, Len(t))[k] = t[n + k]
  <2> TAKE k \in 1..(Len(t) - n)
  <2>1. k \in 1..(Len(t) - (n + 1) + 1) /\ (n + 1) + k - 1 = n + k
    BY <1>1
  <2> QED
    BY <1>3, <2>1
<1>5. n >= Len(t) => SubSeq(t, n + 1, Len(t)) = <<>>
  BY <1>1, <1>3, EmptySeq
<1>6. SubSeq(t, 0 + 1, Len(t)) = t
  BY SubSeqFull DEF Text
<1> QED
  BY <1>1, <1>3, <1>4, <1>5, <1>6 DEF After, Text

LEMMA FirstIs ==
  ASSUME NEW t \in Text, NEW n \in 0..Len(t)
  PROVE  /\ SubSeq(t, 1, n) \in Text /\ Len(SubSeq(t, 1, n)) = n
         /\ \A k \in 1..n : SubSeq(t, 1, n)[k] = t[k]
         /\ IsPrefix(SubSeq(t, 1, n), t)
         /\ SubSeq(t, 1, n) \o After(t, n) = t
<1>1. Len(t) \in Nat /\ \A k \in 1..Len(t) : t[k] \in Word
  BY DEF Text
<1>2. n \in Int /\ \A k \in 1..n : t[k] \in Word
  BY <1>1
<1>3. /\ SubSeq(t, 1, n) \in Seq(Word) /\ Len(SubSeq(t, 1, n)) = n
      /\ \A k \in 1..n : SubSeq(t, 1, n)[k] = t[k]
  BY <1>2, SubSeqProperties
<1>4. SubSeq(t, 1, n) \o SubSeq(t, n + 1, Len(t)) = SubSeq(t, 1, Len(t))
  <2>1. 1 \in 1..(Len(t) + 1) /\ n \in (1 - 1)..Len(t) /\ Len(t) \in n..Len(t)
    BY <1>1
  <2> QED
    BY <2>1, ConcatAdjacentSubSeq, Zenon DEF Text
<1>5. SubSeq(t, 1, Len(t)) = t
  BY SubSeqFull DEF Text
<1>6. SubSeq(SubSeq(t, 1, n), 1, n) = SubSeq(t, 1, n)
  BY <1>3, SubSeqFull
<1>7. n <= Len(t) /\ SubSeq(t, 1, n) \in Text
  BY <1>1, <1>3 DEF Text
<1>8. IsPrefix(SubSeq(t, 1, n), t)
  BY <1>3, <1>6, <1>7 DEF IsPrefix
<1>9. SubSeq(t, 1, n) \o After(t, n) = t
  BY <1>4, <1>5, Zenon DEF After
<1> QED
  BY <1>3, <1>7, <1>8, <1>9

LEMMA PrefixIs ==
  ASSUME NEW s \in Text, NEW t \in Text, IsPrefix(s, t)
  PROVE  /\ Len(s) \in 0..Len(t) /\ s = SubSeq(t, 1, Len(s))
         /\ s \o After(t, Len(s)) = t
         /\ \A k \in 1..Len(s) : s[k] = t[k]
<1>1. Len(s) \in 0..Len(t)
  BY DEF IsPrefix, Text
<1>2. s = SubSeq(t, 1, Len(s))
  BY SubSeqFull DEF IsPrefix, Text
<1> QED
  BY <1>1, <1>2, FirstIs

LEMMA PrefixOfConcat ==
  ASSUME NEW s \in Text, NEW t \in Text, NEW u \in Text
  PROVE  /\ IsPrefix(s, s \o u)
         /\ IsPrefix(s, t) => IsPrefix(s, t \o u)
         /\ After(s \o u, Len(s)) = u
<1>1. ASSUME NEW a \in Text, NEW b \in Text, NEW n \in 0..Len(a) PROVE SubSeq(a \o b, 1, n) = SubSeq(a, 1, n)
  <2>1. CASE n = 0
    BY <2>1, SubSeqEmpty
  <2>2. CASE n # 0
    <3>1. n \in 1..Len(a) /\ 1 \in 1..Len(a)
      BY <2>2
    <3> QED
      BY <3>1, SubSeqOfConcat1 DEF Text
  <2> QED
    BY <2>1, <2>2
<1>2. Len(s \o u) = Len(s) + Len(u) /\ Len(t \o u) = Len(t) + Len(u) /\ Len(s) \in Nat /\ Len(t) \in Nat /\ Len(u) \in Nat
  BY ConcatProperties DEF Text
<1>3. IsPrefix(s, s \o u)
  <2>1. SubSeq(s \o u, 1, Len(s)) = SubSeq(s, 1, Len(s))
    BY <1>1, <1>2
  <2> QED
    BY <1>2, <2>1 DEF IsPrefix
<1>4. ASSUME IsPrefix(s, t) PROVE IsPrefix(s, t \o u)
  <2>1. Len(s) \in 0..Len(t) /\ SubSeq(s, 1, Len(s)) = SubSeq(t, 1, Len(s))
    BY <1>2, <1>4 DEF IsPrefix
  <2>2. SubSeq(t \o u, 1, Len(s)) = SubSeq(t, 1, Len(s))
    BY <1>1, <2>1
  <2> QED
    BY <1>2, <2>1, <2>2 DEF IsPrefix
<1>5. s \o u \in Text
  BY TextOps
<1>6. SubSeq(s \o u, 1, Len(s)) = s
  <2>1. SubSeq(s \o u, 1, Len(s)) = SubSeq(s, 1, Len(s))
    BY <1>1, <1>2
  <2> QED
    BY <2>1, SubSeqFull DEF Text
<1>7. Len(s) \in 0..Len(s \o u)
  BY <1>2
<1>8. s \o After(s \o u, Len(s)) = s \o u
  BY <1>5, <1>6, <1>7, FirstIs
<1>9. After(s \o u, Len(s)) \in Text
  BY <1>2, <1>5, AfterIs
<1>10. After(s \o u, Len(s)) = u
  BY <1>8, <1>9, ConcatSimplifications DEF Text
<1> QED
  BY <1>3, <1>4, <1>10

------------------------------------------------------------------------------
\* What is h, n times, begins with h and grows.
LEMMA Repeated ==
  ASSUME NEW h \in Text, h # <<>>, NEW n \in Nat \ {0}
  PROVE  /\ FlattenSeq([k \in 1..n |-> h]) \in Text
         /\ Len(FlattenSeq([k \in 1..n |-> h])) >= Len(h) + n - 1
         /\ SubSeq(FlattenSeq([k \in 1..n |-> h]), 1, Len(h)) = h
<1>1. PICK hh : hh = [k \in 1..n |-> h]
  OBVIOUS
<1>2. hh \in Seq(Text) /\ Len(hh) = n /\ \A k \in 1..n : hh[k] = h
  <2>1. n \in Nat /\ hh \in [1..n -> Text]
    BY <1>1
  <2>2. hh \in Seq(Text)
    BY <2>1, SeqDef
  <2> QED
    BY <1>1, <2>1, <2>2, LenProperties
<1>3. PICK r : /\ r \in [0..n -> Text] /\ r[0] = <<>> /\ FlattenSeq(hh) = r[n]
               /\ \A k \in 1..n : r[k] = r[k - 1] \o hh[k]
  <2>1. PICK r : /\ r \in [0..Len(hh) -> Seq(Word)] /\ r[0] = <<>> /\ FlattenSeq(hh) = r[Len(hh)]
                 /\ \A k \in 1..Len(hh) : r[k] = r[k - 1] \o hh[k]
    BY <1>2, Flattenings DEF Text
  <2> QED
    BY <1>2, <2>1 DEF Text
<1>4. Len(h) \in Nat \ {0}
  BY EmptySeq DEF Text
<1>5. PICK P : P = {k \in 0..n : k = 0 \/ (Len(r[k]) >= Len(h) + k - 1 /\ SubSeq(r[k], 1, Len(h)) = h)}
  OBVIOUS
<1>6. 0 \in P
  BY <1>5
<1>7. ASSUME NEW k \in 1..n, k - 1 \in P PROVE k \in P
  <2>0. k \in 0..n /\ k - 1 \in 0..n
    OBVIOUS
  <2>5. r[k] = r[k - 1] \o hh[k] /\ hh[k] = h
    BY <1>2, <1>3
  <2>1. k \in 0..n /\ r[k - 1] \in Text /\ r[k] = r[k - 1] \o h
    BY <1>3, <2>0, <2>5
  <2>2. Len(r[k]) = Len(r[k - 1]) + Len(h) /\ Len(r[k - 1]) \in Nat
    BY <2>1, ConcatProperties DEF Text
  <2>3. CASE k = 1
    <3>1. r[k] = h
      <4>1. r[k - 1] = <<>>
        BY <1>3, <2>3
      <4> QED
        BY <2>1, <4>1, ConcatEmptySeq DEF Text
    <3>2. SubSeq(h, 1, Len(h)) = h
      BY SubSeqFull DEF Text
    <3>3. Len(h) >= Len(h) + k - 1
      BY <1>4, <2>3
    <3> QED
      BY <1>5, <2>1, <3>1, <3>2, <3>3
  <2>4. CASE k # 1
    <3>1. Len(r[k - 1]) >= Len(h) + (k - 1) - 1 /\ SubSeq(r[k - 1], 1, Len(h)) = h
      BY <1>5, <1>7, <2>4
    <3>2. Len(r[k]) >= Len(h) + k - 1
      BY <1>4, <2>2, <3>1
    <3>3. SubSeq(r[k - 1] \o h, 1, Len(h)) = SubSeq(r[k - 1], 1, Len(h))
      <4>1. 1 \in 1..Len(r[k - 1]) /\ Len(h) \in 1..Len(r[k - 1])
        BY <1>4, <2>2, <2>4, <3>1
      <4> QED
        BY <2>1, <4>1, SubSeqOfConcat1 DEF Text
    <3> QED
      BY <1>5, <2>1, <3>1, <3>2, <3>3
  <2> QED
    BY <2>3, <2>4
<1>8. \A k \in 0..n : k \in P
  BY <1>6, <1>7, UpTo
<1>9. n \in 0..n /\ n # 0
  OBVIOUS
<1>10. Len(r[n]) >= Len(h) + n - 1 /\ SubSeq(r[n], 1, Len(h)) = h /\ r[n] \in Text
  BY <1>3, <1>5, <1>8, <1>9
<1> QED
  BY <1>1, <1>3, <1>10

\* strip_history removes nothing from a text that does not begin with the history, and
\* all of a text that is the history.
LEMMA StripHistoryIs ==
  ASSUME NEW t \in Text, NEW h \in Text
  PROVE  /\ StripHistory(t, h) \in Text
         /\ h = <<>> \/ ~IsPrefix(h, t) => StripHistory(t, h) = t
         /\ h # <<>> /\ h = t => StripHistory(t, h) = <<>>
<1> DEFINE Times(n) == FlattenSeq([k \in 1..n |-> h])
           K == {k \in 0..Len(t) : IsPrefix(Times(k), t)}
           n == IF h = <<>> THEN 0 ELSE Max(K)
<1>1. StripHistory(t, h) = After(t, n * Len(h))
  BY DEF StripHistory
<1>2. Len(t) \in Nat /\ Len(h) \in Nat
  BY DEF Text
<1>3. 0 \in K
  <2>1. Times(0) = <<>>
    <3>1. [k \in 1..0 |-> h] = <<>>
      <4>1. [k \in 1..0 |-> h] \in Seq(Text)
        <5>1. [k \in 1..0 |-> h] \in [1..0 -> Text]
          OBVIOUS
        <5> QED
          BY <5>1, SeqDef
      <4>2. Len([k \in 1..0 |-> h]) = 0
        BY <4>1, LenProperties
      <4> QED
        BY <4>1, <4>2, EmptySeq
    <3> QED
      BY <3>1, FlattenEmpty
  <2>2. SubSeq(<<>>, 1, 0) = <<>> /\ SubSeq(t, 1, 0) = <<>>
    BY SubSeqEmpty
  <2>3. Len(<<>>) = 0
    BY EmptySeq
  <2>4. IsPrefix(<<>>, t)
    BY <1>2, <2>2, <2>3 DEF IsPrefix
  <2> QED
    BY <1>2, <2>1, <2>4
<1>4. h # <<>> => Max(K) \in K /\ \A k \in K : k <= Max(K)
  <2>1. K \subseteq 0..Len(t) /\ K # {}
    BY <1>3
  <2> HIDE DEF K
  <2> QED
    BY <1>2, <2>1, GreatestOf
<1>5. n \in Nat
  BY <1>4
<1>6. n * Len(h) \in Nat
  <2> HIDE DEF n
  <2> QED
    BY <1>2, <1>5
<1>7. StripHistory(t, h) \in Text
  <2> HIDE DEF n
  <2> QED
    BY <1>1, <1>6, AfterIs
<1>8. ASSUME h = <<>> \/ ~IsPrefix(h, t) PROVE StripHistory(t, h) = t
  <2>1. n = 0
    <3>1. SUFFICES ASSUME h # <<>>, Max(K) # 0 PROVE FALSE
      OBVIOUS
    <3>2. PICK m : m = Max(K)
      OBVIOUS
    <3>3. m \in Nat \ {0} /\ IsPrefix(Times(m), t)
      BY <1>4, <3>1, <3>2
    <3>4. Times(m) \in Text /\ Len(Times(m)) >= Len(h) /\ SubSeq(Times(m), 1, Len(h)) = h
      <4>1. Len(Times(m)) >= Len(h) + m - 1
        BY <3>1, <3>3, Repeated
      <4>2. Times(m) \in Text /\ SubSeq(Times(m), 1, Len(h)) = h
        BY <3>1, <3>3, Repeated
      <4> HIDE DEF Times
      <4>3. Len(Times(m)) \in Nat
        BY <4>2 DEF Text
      <4> QED
        BY <1>2, <3>3, <4>1, <4>2, <4>3
    <3> HIDE DEF Times
    <3>5. Len(h) <= Len(t) /\ \A k \in 1..Len(h) : h[k] = t[k]
      <4>1. Len(Times(m)) \in 0..Len(t) /\ \A k \in 1..Len(Times(m)) : Times(m)[k] = t[k]
        BY <3>3, <3>4, PrefixIs
      <4>2. Len(h) \in 0..Len(Times(m))
        BY <1>2, <3>4, <4>1
      <4>3. \A k \in 1..Len(h) : h[k] = Times(m)[k]
        BY <3>4, <4>2, FirstIs
      <4> QED
        BY <1>2, <4>1, <4>2, <4>3
    <3>6. h = SubSeq(t, 1, Len(h))
      <4>1. Len(h) \in 0..Len(t)
        BY <1>2, <3>5
      <4>2. /\ SubSeq(t, 1, Len(h)) \in Text /\ Len(SubSeq(t, 1, Len(h))) = Len(h)
            /\ \A k \in 1..Len(h) : SubSeq(t, 1, Len(h))[k] = t[k]
        BY <4>1, FirstIs
      <4>3. \A k \in 1..Len(h) : h[k] = SubSeq(t, 1, Len(h))[k]
        BY <3>5, <4>2
      <4> QED
        BY <4>2, <4>3, SeqEqual DEF Text
    <3>7. IsPrefix(h, t)
      <4>1. SubSeq(h, 1, Len(h)) = h
        BY SubSeqFull DEF Text
      <4> QED
        BY <3>5, <3>6, <4>1 DEF IsPrefix
    <3> QED
      BY <1>8, <3>1, <3>7
  <2>2. n * Len(h) = 0
    <3> HIDE DEF n
    <3> QED
      BY <1>2, <2>1
  <2> HIDE DEF n
  <2> QED
    BY <1>1, <2>2, AfterIs
<1>9. ASSUME h # <<>>, h = t PROVE StripHistory(t, h) = <<>>
  <2>1. 1 \in K
    <3>1. Times(1) = h
      <4>1. [k \in 1..1 |-> h] = <<h>>
        OBVIOUS
      <4> QED
        BY <4>1, FlattenOne DEF Text
    <3>2. IsPrefix(h, t)
      BY <1>2, <1>9 DEF IsPrefix
    <3>3. Len(t) >= 1
      BY <1>2, <1>9, EmptySeq DEF Text
    <3> QED
      BY <1>2, <3>1, <3>2, <3>3
  <2>2. n * Len(h) >= Len(t)
    <3>1. n >= 1 /\ n \in Nat
      BY <1>4, <1>5, <1>9, <2>1
    <3> HIDE DEF n
    <3>2. PICK m \in Nat : n = 1 + m
      <4>1. n = 1 + (n - 1) /\ n - 1 \in Nat
        BY <3>1
      <4> QED
        BY <4>1
    <3>3. n * Len(h) = Len(h) + m * Len(h) /\ m * Len(h) \in Nat
      BY <1>2, <3>2
    <3> QED
      BY <1>2, <1>9, <3>3
  <2> HIDE DEF n
  <2> QED
    BY <1>1, <1>6, <2>2, AfterIs
<1> QED
  BY <1>7, <1>8, <1>9

LEMMA AppliedType ==
  ASSUME NEW t \in Text, NEW op \in Operations, NEW h \in Text
  PROVE  Applied(t, op, h) \in Text
<1>1. op[1] \in {"append", "replace", "string"} /\ op[2] \in Text
  BY DEF Operations
<1>2. t \o op[2] \in Text
  BY <1>1, TextOps
<1>3. StripHistory(op[2], h) \in Text
  BY <1>1, StripHistoryIs
<1> QED
  BY <1>1, <1>2, <1>3 DEF Applied

\* The texts that Patched goes through.
LEMMA Patchings ==
  \A t \in Text : \A ops \in Seq(Operations) : \A hist \in Text :
    \E r : /\ r \in [0..Len(ops) -> Text] /\ r[0] = t /\ Patched(t, ops, hist) = r[Len(ops)]
          /\ \A k \in 1..Len(ops) : r[k] = Applied(r[k - 1], ops[k], hist)
<1> SUFFICES ASSUME NEW t \in Text, NEW ops \in Seq(Operations), NEW hist \in Text
             PROVE  \E r : /\ r \in [0..Len(ops) -> Text] /\ r[0] = t /\ Patched(t, ops, hist) = r[Len(ops)]
                          /\ \A k \in 1..Len(ops) : r[k] = Applied(r[k - 1], ops[k], hist)
  OBVIOUS
<1> DEFINE r == CHOOSE r : r = [k \in 0..Len(ops) |-> IF k = 0 THEN t ELSE Applied(r[k - 1], ops[k], hist)]
<1>1. Patched(t, ops, hist) = r[Len(ops)]
  BY DEF Patched
<1>2. r = CHOOSE h : h = [k \in 0..Len(ops) |-> IF k = 0 THEN t ELSE Applied(h[k - 1], ops[k], hist)]
  OBVIOUS
<1> HIDE DEF r
<1>3. PICK n : n = Len(ops)
  OBVIOUS
<1>4. n \in Nat
  BY <1>3, LenProperties
<1>5. \A k \in 1..n : ops[k] \in Operations
  BY <1>3 DEF Text
<1>6. PICK g : g = [k \in 1..n |-> [s \in Text |-> Applied(s, ops[k], hist)]]
  OBVIOUS
<1>7. g \in [1..n -> [Text -> Text]]
  BY <1>5, <1>6, AppliedType
<1>8. t \in Text
  OBVIOUS
<1>9. PICK f \in [0..n -> Text] : f[0] = t /\ \A k \in 1..n : f[k] = g[k][f[k - 1]]
  <2>1. \A b \in Text : \A m \in Nat : \A h \in [1..m -> [Text -> Text]] :
          \E f \in [0..m -> Text] : f[0] = b /\ \A k \in 1..m : f[k] = h[k][f[k - 1]]
    <3>1. StepsOver(Text)
      BY StepsExist
    <3> QED
      BY <3>1 DEF StepsOver
  <2>2. \A h \in [1..n -> [Text -> Text]] :
          \E f \in [0..n -> Text] : f[0] = t /\ \A k \in 1..n : f[k] = h[k][f[k - 1]]
    BY <1>4, <1>8, <2>1
  <2> QED
    BY <1>7, <2>2
<1>10. f = [k \in 0..n |-> IF k = 0 THEN t ELSE Applied(f[k - 1], ops[k], hist)]
  <2>1. ASSUME NEW k \in 1..n PROVE f[k] = Applied(f[k - 1], ops[k], hist)
    <3>1. k - 1 \in 0..n
      BY <1>4
    <3>2. f[k - 1] \in Text
      BY <1>9, <3>1
    <3>3. g[k][f[k - 1]] = Applied(f[k - 1], ops[k], hist)
      BY <1>6, <3>2
    <3> QED
      BY <1>9, <3>3
  <2>2. \A k \in 0..n : k # 0 => k \in 1..n
    BY <1>4
  <2> QED
    BY <1>9, <2>1, <2>2
<1>11. r = [k \in 0..n |-> IF k = 0 THEN t ELSE Applied(r[k - 1], ops[k], hist)]
  BY <1>2, <1>3, <1>10
<1>12. r[0] = t /\ \A k \in 1..n : r[k] = Applied(r[k - 1], ops[k], hist)
  BY <1>4, <1>11
<1>13. PICK P : P = {k \in 0..n : r[k] \in Text}
  OBVIOUS
<1>14. 0 \in P /\ \A k \in 1..n : k - 1 \in P => k \in P
  BY <1>4, <1>5, <1>8, <1>12, <1>13, AppliedType
<1>15. \A k \in 0..n : k \in P
  BY <1>4, <1>14, UpTo
<1>16. r \in [0..n -> Text]
  BY <1>11, <1>13, <1>15
<1> QED
  BY <1>1, <1>3, <1>12, <1>16

\* A reader that compares with the history h reads what another reads, unless the answer
\* begins with h.
LEMMA PatchedIs ==
  ASSUME NEW t \in Text, NEW ops \in Seq(Operations), NEW h \in Text
  PROVE  /\ Patched(t, ops, h) \in Text
         /\ Patched(t, ops, h) = Patched(t, ops, <<>>) \/ (h # <<>> /\ IsPrefix(h, Patched(t, ops, <<>>)))
<1>1. <<>> \in Text /\ Len(ops) \in Nat /\ \A k \in 1..Len(ops) : ops[k] \in Operations
  BY TextOps, LenProperties
<1>2. PICK n : n = Len(ops) /\ n \in Nat
  BY <1>1
<1>3. PICK r : /\ r \in [0..n -> Text] /\ r[0] = t /\ Patched(t, ops, h) = r[n]
               /\ \A k \in 1..n : r[k] = Applied(r[k - 1], ops[k], h)
  <2>1. \E r : /\ r \in [0..Len(ops) -> Text] /\ r[0] = t /\ Patched(t, ops, h) = r[Len(ops)]
              /\ \A k \in 1..Len(ops) : r[k] = Applied(r[k - 1], ops[k], h)
    BY Patchings
  <2> QED
    BY <1>2, <2>1
<1>4. PICK q : /\ q \in [0..n -> Text] /\ q[0] = t /\ Patched(t, ops, <<>>) = q[n]
               /\ \A k \in 1..n : q[k] = Applied(q[k - 1], ops[k], <<>>)
  <2>1. PICK none : none = <<>>
    OBVIOUS
  <2>2. \E q : /\ q \in [0..Len(ops) -> Text] /\ q[0] = t /\ Patched(t, ops, none) = q[Len(ops)]
              /\ \A k \in 1..Len(ops) : q[k] = Applied(q[k - 1], ops[k], none)
    BY <1>1, <2>1, Patchings
  <2> QED
    BY <1>2, <2>1, <2>2
<1>5. PICK P : P = {k \in 0..n : r[k] = q[k] \/ (h # <<>> /\ IsPrefix(h, q[k]))}
  OBVIOUS
<1>6. 0 \in P
  BY <1>2, <1>3, <1>4, <1>5
<1>7. ASSUME NEW k \in 1..n, k - 1 \in P PROVE k \in P
  <2>1. k \in 0..n /\ k - 1 \in 0..n
    BY <1>2
  <2>2. PICK a, b : a = r[k - 1] /\ b = q[k - 1]
    OBVIOUS
  <2>3. PICK op : op = ops[k]
    OBVIOUS
  <2>4. a \in Text /\ b \in Text /\ op[1] \in {"append", "replace", "string"} /\ op[2] \in Text
    BY <1>1, <1>2, <1>3, <1>4, <2>1, <2>2, <2>3 DEF Operations
  <2>5. r[k] = Applied(a, op, h) /\ q[k] = Applied(b, op, <<>>)
    BY <1>3, <1>4, <2>2, <2>3
  <2>6. a = b \/ (h # <<>> /\ IsPrefix(h, b))
    BY <1>5, <1>7, <2>2
  <2>7. ASSUME h # <<>>, IsPrefix(h, b) PROVE b # <<>>
    <3>1. Len(h) \in Nat \ {0}
      BY <2>7, EmptySeq DEF Text
    <3>2. Len(<<>>) = 0
      BY EmptySeq
    <3> QED
      BY <2>7, <3>1, <3>2 DEF IsPrefix
  <2>8. ASSUME h # <<>>, IsPrefix(h, b) PROVE IsPrefix(h, b \o op[2])
    BY <2>4, <2>8, PrefixOfConcat
  <2>9. StripHistory(op[2], <<>>) = op[2]
    BY <1>1, <2>4, StripHistoryIs
  <2>10. StripHistory(op[2], h) = op[2] \/ (h # <<>> /\ IsPrefix(h, op[2]))
    BY <2>4, StripHistoryIs
  <2>11. CASE op[1] = "append"
    <3>1. r[k] = a \o op[2] /\ q[k] = b \o op[2]
      BY <2>5, <2>11 DEF Applied
    <3> QED
      BY <1>5, <2>1, <2>6, <2>8, <3>1
  <2>12. CASE op[1] = "replace"
    <3>1. r[k] = StripHistory(op[2], h) /\ q[k] = StripHistory(op[2], <<>>)
      BY <2>5, <2>12 DEF Applied
    <3> QED
      BY <1>5, <2>1, <2>9, <2>10, <3>1
  <2>13. CASE op[1] = "string"
    <3>1. /\ r[k] = IF a = <<>> THEN a ELSE a \o op[2]
          /\ q[k] = IF b = <<>> THEN b ELSE b \o op[2]
      BY <2>5, <2>13 DEF Applied
    <3> QED
      BY <1>5, <2>1, <2>6, <2>7, <2>8, <3>1
  <2> QED
    BY <2>4, <2>11, <2>12, <2>13
<1>8. \A k \in 0..n : k \in P
  BY <1>2, <1>6, <1>7, UpTo
<1>9. n \in 0..n /\ r[n] \in Text
  BY <1>2, <1>3
<1> QED
  BY <1>3, <1>4, <1>5, <1>8, <1>9

------------------------------------------------------------------------------
LEMMA SanitizeIs ==
  /\ \A t \in Text : Sanitize(t) \in Text
  /\ Sanitize(<<>>) = <<>>
<1>1. ASSUME NEW t \in Text PROVE Sanitize(t) \in Text
  <2>1. PICK r : r \in [0..Len(t) -> Reading] /\ Sanitize(t) = r[Len(t)].out
    BY Readings
  <2>2. Len(t) \in 0..Len(t)
    BY DEF Text
  <2>3. r[Len(t)] \in Reading
    BY <2>1, <2>2
  <2> QED
    BY <2>1, <2>3 DEF Reading
<1>2. Sanitize(<<>>) = <<>>
  <2>1. PICK t : t = <<>>
    OBVIOUS
  <2>2. t \in Text /\ Len(t) = 0
    BY <2>1, TextOps
  <2>3. PICK r : r[0] = NothingRead /\ Sanitize(t) = r[Len(t)].out
    BY <2>2, Readings
  <2> QED
    BY <2>1, <2>2, <2>3 DEF NothingRead
<1> QED
  BY <1>1, <1>2

LEMMA PrefixBy ==
  ASSUME NEW s \in Text, NEW t \in Text, Len(s) <= Len(t), \A k \in 1..Len(s) : s[k] = t[k]
  PROVE  IsPrefix(s, t)
<1>1. Len(s) \in 0..Len(t)
  BY DEF Text
<1>2. /\ SubSeq(t, 1, Len(s)) \in Text /\ Len(SubSeq(t, 1, Len(s))) = Len(s)
      /\ \A k \in 1..Len(s) : SubSeq(t, 1, Len(s))[k] = t[k]
  BY <1>1, FirstIs
<1>3. s = SubSeq(t, 1, Len(s))
  <2>1. \A k \in 1..Len(s) : s[k] = SubSeq(t, 1, Len(s))[k]
    BY <1>2
  <2> QED
    BY <1>2, <2>1, SeqEqual DEF Text
<1>4. SubSeq(s, 1, Len(s)) = s
  BY SubSeqFull DEF Text
<1> QED
  BY <1>3, <1>4 DEF IsPrefix

LEMMA ConcatIs ==
  ASSUME NEW s \in Text, NEW t \in Text
  PROVE  /\ s \o t \in Text /\ Len(s \o t) = Len(s) + Len(t)
         /\ \A k \in 1..Len(s) : (s \o t)[k] = s[k]
         /\ \A k \in 1..Len(t) : (s \o t)[Len(s) + k] = t[k]
<1>1. Len(s) \in Nat /\ Len(t) \in Nat
  BY DEF Text
<1>2. /\ s \o t \in Seq(Word) /\ Len(s \o t) = Len(s) + Len(t)
      /\ \A i \in 1..(Len(s) + Len(t)) : (s \o t)[i] = IF i <= Len(s) THEN s[i] ELSE t[i - Len(s)]
  BY ConcatProperties DEF Text
<1>3. ASSUME NEW k \in 1..Len(s) PROVE (s \o t)[k] = s[k]
  BY <1>1, <1>2
<1>4. ASSUME NEW k \in 1..Len(t) PROVE (s \o t)[Len(s) + k] = t[k]
  <2>1. Len(s) + k \in 1..(Len(s) + Len(t)) /\ ~(Len(s) + k <= Len(s)) /\ (Len(s) + k) - Len(s) = k
    BY <1>1
  <2> QED
    BY <1>2, <2>1
<1> QED
  BY <1>2, <1>3, <1>4 DEF Text

LEMMA TextsAssociate == \A s, t, u \in Text : (s \o t) \o u = s \o (t \o u)
  BY ConcatAssociative DEF Text

------------------------------------------------------------------------------
\* Spaces at the end of a text are nothing to Strip.
AllSpace(u) == \A k \in 1..Len(u) : u[k] = "space"

LEMMA StripIs ==
  ASSUME NEW t \in Text
  PROVE  /\ Strip(t) \in Text /\ Len(Strip(t)) <= Len(t)
         /\ Strip(t) = <<>> <=> AllSpace(t)
<1>1. PICK W : W = {k \in DOMAIN t : t[k] # "space"}
  OBVIOUS
<1>2. Len(t) \in Nat /\ DOMAIN t = 1..Len(t) /\ \A k \in 1..Len(t) : t[k] \in Word
  BY DEF Text
<1>3. AllSpace(t) <=> W = {}
  BY <1>1, <1>2 DEF AllSpace
<1>4. CASE W = {}
  <2>1. Strip(t) = <<>>
    BY <1>1, <1>4 DEF Strip
  <2> QED
    BY <1>2, <1>3, <1>4, <2>1, TextOps, EmptySeq
<1>5. CASE W # {}
  <2>1. Strip(t) = SubSeq(t, Min(W), Max(W))
    BY <1>1, <1>5 DEF Strip
  <2>2. PICK a, b : a = Min(W) /\ b = Max(W)
    OBVIOUS
  <2>3. a \in 1..Len(t)
    <3>1. W \subseteq Nat /\ W \subseteq 1..Len(t)
      BY <1>1, <1>2
    <3>2. a \in W
      BY <1>5, <2>2, <3>1, LeastOf
    <3> QED
      BY <3>1, <3>2
  <2>4. b \in 1..Len(t) /\ a <= b
    <3>1. W \subseteq 0..Len(t) /\ W \subseteq 1..Len(t) /\ W \subseteq Nat
      BY <1>1, <1>2
    <3>2. b \in W /\ \A k \in W : k <= b
      BY <1>2, <1>5, <2>2, <3>1, GreatestOf
    <3>3. a \in W
      BY <1>5, <2>2, <3>1, LeastOf
    <3> QED
      BY <3>1, <3>2, <3>3
  <2>5. a \in Int /\ b \in Int /\ \A k \in a..b : t[k] \in Word
    BY <1>2, <2>3, <2>4
  <2>6. SubSeq(t, a, b) \in Seq(Word) /\ Len(SubSeq(t, a, b)) = b - a + 1
    BY <2>3, <2>4, <2>5, SubSeqProperties
  <2>7. Len(SubSeq(t, a, b)) <= Len(t) /\ SubSeq(t, a, b) # <<>>
    BY <1>2, <2>3, <2>4, <2>6, EmptySeq
  <2> QED
    BY <1>3, <1>5, <2>1, <2>2, <2>6, <2>7 DEF Text
<1> QED
  BY <1>4, <1>5

LEMMA StripSpaces ==
  ASSUME NEW t \in Text, NEW u \in Text, AllSpace(u)
  PROVE  Strip(t \o u) = Strip(t)
<1>1. PICK W : W = {k \in DOMAIN t : t[k] # "space"}
  OBVIOUS
<1>2. Len(t) \in Nat /\ DOMAIN t = 1..Len(t) /\ Len(u) \in Nat
  BY DEF Text
<1>3. PICK x : x = t \o u
  OBVIOUS
<1>4. /\ x \in Text /\ Len(x) = Len(t) + Len(u) /\ DOMAIN x = 1..Len(x)
      /\ \A k \in 1..Len(t) : x[k] = t[k]
      /\ \A k \in 1..Len(u) : x[Len(t) + k] = u[k]
  <2>1. x \in Text
    BY <1>3, ConcatIs
  <2>2. DOMAIN x = 1..Len(x)
    BY <2>1 DEF Text
  <2> QED
    BY <1>3, <2>1, <2>2, ConcatIs
<1>5. ASSUME NEW k \in 1..Len(x), x[k] # "space" PROVE k \in W
  <2>1. CASE k <= Len(t)
    BY <1>1, <1>2, <1>4, <1>5, <2>1
  <2>2. CASE ~(k <= Len(t))
    <3>1. k - Len(t) \in 1..Len(u) /\ Len(t) + (k - Len(t)) = k
      BY <1>2, <1>4, <2>2
    <3>2. x[k] = "space"
      BY <1>4, <3>1 DEF AllSpace
    <3> QED
      BY <1>5, <3>2
  <2> QED
    BY <2>1, <2>2
<1>6. ASSUME NEW k \in W PROVE k \in 1..Len(x) /\ x[k] # "space"
  BY <1>1, <1>2, <1>4
<1>7. W = {k \in DOMAIN x : x[k] # "space"}
  BY <1>4, <1>5, <1>6
<1>8. CASE W = {}
  BY <1>1, <1>3, <1>7, <1>8 DEF Strip
<1>9. CASE W # {}
  <2>1. W \subseteq 0..Len(t) /\ W \subseteq 1..Len(t) /\ W \subseteq Nat
    BY <1>1, <1>2
  <2>2. PICK a, b : a = Min(W) /\ b = Max(W)
    OBVIOUS
  <2>3. a \in 1..Len(t)
    BY <1>9, <2>1, <2>2, LeastOf
  <2>4. b \in 1..Len(t)
    <3>1. b \in W
      BY <1>2, <1>9, <2>1, <2>2, GreatestOf
    <3> QED
      BY <2>1, <3>1
  <2>5. SubSeq(t \o u, a, b) = SubSeq(t, a, b)
    BY <2>3, <2>4, SubSeqOfConcat1 DEF Text
  <2> QED
    BY <1>1, <1>3, <1>7, <1>9, <2>2, <2>5 DEF Strip
<1> QED
  BY <1>8, <1>9

------------------------------------------------------------------------------
\* What comes before the first call stays, whatever becomes of the rest.
LEMMA WithoutType ==
  ASSUME NEW t \in Text, NEW open, NEW close
  PROVE  Without(t, open, close) \in Text /\ Enclosed(t, open, close) \in Enclosure
<1>1. PICK r : r \in [0..Len(t) -> Enclosure] /\ Enclosed(t, open, close) = r[Len(t)]
  BY Enclosures
<1>2. Len(t) \in 0..Len(t)
  BY DEF Text
<1>3. PICK e : e = Enclosed(t, open, close)
  OBVIOUS
<1>4. e \in Enclosure
  BY <1>1, <1>2, <1>3
<1>5. e.out \o e.held \in Text
  BY <1>4, TextOps DEF Enclosure
<1> QED
  BY <1>3, <1>4, <1>5, StripIs DEF Without

LEMMA WithoutCallsIs ==
  ASSUME NEW b \in Text, NEW u \in Text, \A k \in 1..Len(b) : b[k] # "tool"
  PROVE  \E x \in Text : WithoutCalls(b \o u) = Strip(b \o x) /\ WithoutCalls(u) = Strip(x)
<1>1. PICK t : t = b \o u
  OBVIOUS
<1>2. PICK m, n : m = Len(b) /\ n = Len(u) /\ m \in Nat /\ n \in Nat
  BY DEF Text
<1>3. /\ t \in Text /\ Len(t) = m + n
      /\ \A k \in 1..m : t[k] = b[k]
      /\ \A k \in 1..n : t[m + k] = u[k]
  BY <1>1, <1>2, ConcatIs
<1>4. PICK r : /\ r \in [0..(m + n) -> Enclosure] /\ r[0] = NothingHeld /\ Enclosed(t, "tool", "done") = r[m + n]
               /\ \A k \in 1..(m + n) : r[k] = Enclose(r[k - 1], t[k], "tool", "done")
  <2>1. PICK open, close : open = "tool" /\ close = "done"
    OBVIOUS
  <2>3. \A o, c : \E r : /\ r \in [0..Len(t) -> Enclosure] /\ r[0] = NothingHeld /\ Enclosed(t, o, c) = r[Len(t)]
                       /\ \A k \in 1..Len(t) : r[k] = Enclose(r[k - 1], t[k], o, c)
    BY <1>3, Enclosures
  <2>2. \E r : /\ r \in [0..Len(t) -> Enclosure] /\ r[0] = NothingHeld /\ Enclosed(t, open, close) = r[Len(t)]
               /\ \A k \in 1..Len(t) : r[k] = Enclose(r[k - 1], t[k], open, close)
    BY <2>3
  <2> QED
    BY <1>3, <2>1, <2>2
<1>5. PICK q : /\ q \in [0..n -> Enclosure] /\ q[0] = NothingHeld /\ Enclosed(u, "tool", "done") = q[n]
               /\ \A k \in 1..n : q[k] = Enclose(q[k - 1], u[k], "tool", "done")
  <2>1. PICK open, close : open = "tool" /\ close = "done"
    OBVIOUS
  <2>3. \A o, c : \E z : /\ z \in [0..Len(u) -> Enclosure] /\ z[0] = NothingHeld /\ Enclosed(u, o, c) = z[Len(u)]
                       /\ \A k \in 1..Len(u) : z[k] = Enclose(z[k - 1], u[k], o, c)
    BY Enclosures
  <2>2. \E z : /\ z \in [0..Len(u) -> Enclosure] /\ z[0] = NothingHeld /\ Enclosed(u, open, close) = z[Len(u)]
               /\ \A k \in 1..Len(u) : z[k] = Enclose(z[k - 1], u[k], open, close)
    BY <2>3, ZenonT(30)
  <2> QED
    BY <1>2, <2>1, <2>2
<1>6. PICK P : P = {k \in 0..m : r[k].out = SubSeq(b, 1, k) /\ r[k].held = <<>>}
  OBVIOUS
<1>7. 0 \in P
  <2>1. SubSeq(b, 1, 0) = <<>>
    BY SubSeqEmpty
  <2>2. r[0].out = <<>> /\ r[0].held = <<>>
    BY <1>4 DEF NothingHeld
  <2>3. 0 \in 0..m
    BY <1>2
  <2> QED
    BY <1>6, <2>1, <2>2, <2>3
<1>8. ASSUME NEW k \in 1..m, k - 1 \in P PROVE k \in P
  <2>1. PICK s, w : s = r[k - 1] /\ w = t[k]
    OBVIOUS
  <2>2. k \in 1..(m + n) /\ k - 1 \in 0..(m + n) /\ k \in 0..m /\ k - 1 \in 0..m
    BY <1>2
  <2>3. r[k] = Enclose(s, w, "tool", "done") /\ s \in Enclosure /\ w = b[k] /\ w # "tool"
    BY <1>2, <1>3, <1>4, <2>1, <2>2
  <2>4. s.out = SubSeq(b, 1, k - 1) /\ s.held = <<>>
    BY <1>6, <1>8, <2>1
  <2>5. r[k] = [s EXCEPT !.out = Append(@, w)]
    BY <2>3, <2>4 DEF Enclose
  <2>6. r[k].out = Append(s.out, w) /\ r[k].held = <<>>
    BY <2>3, <2>4, <2>5 DEF Enclosure
  <2>7. SubSeq(b, 1, k) = Append(SubSeq(b, 1, k - 1), b[k])
    <3>1. 1 \in 1..Len(b) /\ k \in 1..Len(b)
      BY <1>2
    <3>2. SubSeq(b, 1, k) = SubSeq(b, 1, k - 1) \o <<b[k]>>
      BY <3>1, SubSeqRecursiveSecond DEF Text
    <3>3. SubSeq(b, 1, k - 1) \in Text /\ b[k] \in Word
      <4>1. k - 1 \in 0..Len(b)
        BY <1>2
      <4> QED
        BY <3>1, <4>1, FirstIs DEF Text
    <3> QED
      BY <3>2, <3>3, AppendIsConcat DEF Text
  <2> QED
    BY <1>6, <2>2, <2>3, <2>4, <2>6, <2>7
<1>9. \A k \in 0..m : k \in P
  BY <1>2, <1>7, <1>8, UpTo
<1>10. r[m].out = b /\ r[m].held = <<>>
  <2>1. m \in P
    BY <1>2, <1>9
  <2>2. SubSeq(b, 1, m) = b
    BY <1>2, SubSeqFull DEF Text
  <2> QED
    BY <1>6, <2>1, <2>2
<1>11. PICK Q : Q = {k \in 0..n : r[m + k].out = b \o q[k].out /\ r[m + k].held = q[k].held}
  OBVIOUS
<1>12. 0 \in Q
  <2>1. m + 0 = m /\ b \o <<>> = b
    BY <1>2, ConcatEmptySeq DEF Text
  <2>2. q[0].out = <<>> /\ q[0].held = <<>>
    BY <1>5 DEF NothingHeld
  <2>3. 0 \in 0..n
    BY <1>2
  <2>4. r[m + 0].out = b \o q[0].out /\ r[m + 0].held = q[0].held
    BY <1>10, <2>1, <2>2
  <2> QED
    BY <1>11, <2>3, <2>4
<1>13. ASSUME NEW k \in 1..n, k - 1 \in Q PROVE k \in Q
  <2>1. PICK s, z, w : s = r[m + (k - 1)] /\ z = q[k - 1] /\ w = u[k]
    OBVIOUS
  <2>2. /\ m + k \in 1..(m + n) /\ (m + k) - 1 = m + (k - 1) /\ m + (k - 1) \in 0..(m + n)
        /\ k - 1 \in 0..n /\ k \in 0..n
    BY <1>2
  <2>3. r[m + k] = Enclose(s, w, "tool", "done") /\ s \in Enclosure
    <3>1. r[m + k] = Enclose(r[(m + k) - 1], t[m + k], "tool", "done")
      BY <1>4, <2>2
    <3>2. t[m + k] = w
      BY <1>3, <2>1
    <3> QED
      BY <1>4, <2>1, <2>2, <3>1, <3>2
  <2>4. q[k] = Enclose(z, w, "tool", "done") /\ z \in Enclosure
    BY <1>5, <2>1, <2>2
  <2>5. s.out = b \o z.out /\ s.held = z.held
    BY <1>11, <1>13, <2>1
  <2>6. w \in Word
    BY <1>2, <2>1 DEF Text
  <2>7. CASE w = "tool" \/ (z.held # <<>> /\ w # "done")
    <3>1. r[m + k] = [s EXCEPT !.held = Append(@, w)] /\ q[k] = [z EXCEPT !.held = Append(@, w)]
      BY <2>3, <2>4, <2>5, <2>7 DEF Enclose
    <3>2. r[m + k].out = s.out /\ q[k].out = z.out /\ r[m + k].held = Append(s.held, w) /\ q[k].held = Append(z.held, w)
      BY <2>3, <2>4, <3>1 DEF Enclosure
    <3> QED
      BY <1>11, <2>2, <2>5, <3>2
  <2>8. CASE ~(w = "tool" \/ (z.held # <<>> /\ w # "done")) /\ z.held # <<>>
    <3>1. /\ r[m + k] = [out |-> s.out, held |-> <<>>, closed |-> s.closed + 1]
          /\ q[k] = [out |-> z.out, held |-> <<>>, closed |-> z.closed + 1]
      BY <2>3, <2>4, <2>5, <2>8 DEF Enclose
    <3>2. r[m + k].out = s.out /\ q[k].out = z.out /\ r[m + k].held = <<>> /\ q[k].held = <<>>
      BY <3>1
    <3> QED
      BY <1>11, <2>2, <2>5, <3>2
  <2>9. CASE ~(w = "tool" \/ (z.held # <<>> /\ w # "done")) /\ z.held = <<>>
    <3>1. r[m + k] = [s EXCEPT !.out = Append(@, w)] /\ q[k] = [z EXCEPT !.out = Append(@, w)]
      BY <2>3, <2>4, <2>5, <2>9 DEF Enclose
    <3>2. r[m + k].held = s.held /\ q[k].held = z.held /\ r[m + k].out = Append(s.out, w) /\ q[k].out = Append(z.out, w)
      BY <2>3, <2>4, <3>1 DEF Enclosure
    <3>3. Append(b \o z.out, w) = b \o Append(z.out, w)
      <4>1. z.out \in Text
        BY <2>4 DEF Enclosure
      <4>2. <<w>> \in Text /\ b \o z.out \in Text
        BY <2>6, <4>1, TextOps
      <4>3. Append(b \o z.out, w) = (b \o z.out) \o <<w>> /\ Append(z.out, w) = z.out \o <<w>>
        BY <2>6, <4>1, <4>2, AppendIsConcat DEF Text
      <4>4. (b \o z.out) \o <<w>> = b \o (z.out \o <<w>>)
        BY <4>1, <4>2, TextsAssociate, ZenonT(30)
      <4> QED
        BY <4>3, <4>4
    <3> QED
      BY <1>11, <2>2, <2>5, <3>2, <3>3
  <2> QED
    BY <2>7, <2>8, <2>9
<1>14. \A k \in 0..n : k \in Q
  BY <1>2, <1>12, <1>13, UpTo
<1>15. r[m + n].out = b \o q[n].out /\ r[m + n].held = q[n].held
  <2>1. n \in Q
    BY <1>2, <1>14
  <2> QED
    BY <1>11, <2>1
<1>16. q[n].out \in Text /\ q[n].held \in Text
  <2>1. q[n] \in Enclosure
    BY <1>2, <1>5
  <2> QED
    BY <2>1 DEF Enclosure
<1>17. PICK x : x = q[n].out \o q[n].held
  OBVIOUS
<1>18. x \in Text /\ (b \o q[n].out) \o q[n].held = b \o x
  BY <1>16, <1>17, TextOps, TextsAssociate
<1>19. WithoutCalls(t) = Strip(b \o x)
  BY <1>4, <1>15, <1>18 DEF WithoutCalls, Without
<1>20. WithoutCalls(u) = Strip(x)
  BY <1>5, <1>17 DEF WithoutCalls, Without
<1> QED
  BY <1>1, <1>18, <1>19, <1>20

------------------------------------------------------------------------------
\* What comes before the first call of a text.
CallsOf(t) == {k \in DOMAIN t : t[k] = "tool"}
Before(t) == IF CallsOf(t) = {} THEN t ELSE SubSeq(t, 1, Min(CallsOf(t)) - 1)

LEMMA BeforeIs ==
  ASSUME NEW t \in Text
  PROVE  /\ Before(t) \in Text /\ Len(Before(t)) <= Len(t) /\ \A k \in 1..Len(Before(t)) : Before(t)[k] = t[k]
         /\ \A k \in 1..Len(Before(t)) : Before(t)[k] # "tool"
         /\ Streamable(t) = IF Before(t) = t THEN t ELSE RStrip(Before(t))
         /\ Before(t) # t => Len(Before(t)) < Len(t) /\ t[Len(Before(t)) + 1] = "tool"
         /\ ~OddCalls(t) => WithoutCalls(t) = Strip(Before(t))
<1>1. PICK T : T = CallsOf(t)
  OBVIOUS
<1>2. Len(t) \in Nat /\ DOMAIN t = 1..Len(t)
  BY DEF Text
<1>3. CASE T = {}
  <2>1. Before(t) = t /\ Streamable(t) = t
    BY <1>1, <1>3 DEF Before, Streamable, CallsOf
  <2>2. \A k \in 1..Len(t) : t[k] # "tool"
    BY <1>1, <1>2, <1>3 DEF CallsOf
  <2>3. WithoutCalls(t) = Strip(t)
    <3>1. PICK e : e = <<>>
      OBVIOUS
    <3>2. e \in Text /\ Len(e) = 0 /\ t \o e = t
      BY <3>1, TextOps, EmptySeq, ConcatEmptySeq DEF Text
    <3>3. PICK x \in Text : WithoutCalls(t \o e) = Strip(t \o x) /\ WithoutCalls(e) = Strip(x)
      BY <2>2, <3>2, WithoutCallsIs
    <3>4. WithoutCalls(e) = <<>>
      <4>1. PICK o, c : o = "tool" /\ c = "done"
        OBVIOUS
      <4>2. \A p, q : \E r : r[0] = NothingHeld /\ Enclosed(e, p, q) = r[Len(e)]
        BY <3>2, Enclosures
      <4>3. Enclosed(e, o, c) = NothingHeld
        BY <3>2, <4>2
      <4>4. e \o e = e /\ AllSpace(e)
        BY <3>2, ConcatEmptySeq DEF Text, AllSpace
      <4>5. Strip(e) = <<>>
        BY <3>2, <4>4, StripIs
      <4>6. Enclosed(e, o, c).out = e /\ Enclosed(e, o, c).held = e
        BY <3>1, <4>3 DEF NothingHeld
      <4>7. Without(e, o, c) = Strip(e)
        BY <4>4, <4>6 DEF Without
      <4> QED
        BY <4>1, <4>5, <4>7 DEF WithoutCalls
    <3>5. Strip(t \o x) = Strip(t)
      BY <3>3, <3>4, StripIs, StripSpaces
    <3> QED
      BY <3>2, <3>3, <3>5
  <2> QED
    BY <2>1, <2>2, <2>3
<1>4. CASE T # {}
  <2>1. T \subseteq Nat /\ T \subseteq 1..Len(t)
    BY <1>1, <1>2 DEF CallsOf
  <2>2. PICK m : m = Min(T)
    OBVIOUS
  <2>3. m \in T /\ \A k \in T : m <= k
    BY <1>4, <2>1, <2>2, LeastOf
  <2>4. m \in 1..Len(t) /\ t[m] = "tool" /\ m - 1 \in 0..Len(t)
    BY <1>1, <1>2, <2>1, <2>3 DEF CallsOf
  <2>5. PICK b : b = SubSeq(t, 1, m - 1)
    OBVIOUS
  <2>6. Before(t) = b
    BY <1>1, <1>4, <2>2, <2>5 DEF Before
  <2>7. /\ b \in Text /\ Len(b) = m - 1 /\ \A k \in 1..(m - 1) : b[k] = t[k]
        /\ b \o After(t, m - 1) = t
    BY <2>4, <2>5, FirstIs
  <2>8. ASSUME NEW k \in 1..Len(b) PROVE b[k] # "tool"
    <3>1. k \in 1..Len(t) /\ k < m /\ b[k] = t[k]
      BY <1>2, <2>4, <2>7
    <3>2. ~(k \in T)
      <4>1. ~(m <= k)
        BY <2>4, <3>1
      <4> QED
        BY <2>3, <4>1
    <3> QED
      BY <1>1, <1>2, <3>1, <3>2 DEF CallsOf
  <2>9. Len(b) < Len(t) /\ b # t /\ t[Len(b) + 1] = "tool" /\ Len(b) <= Len(t)
    <3>1. Len(b) + 1 = m
      BY <2>4, <2>7
    <3> QED
      BY <1>2, <2>4, <2>7, <3>1
  <2>10. Streamable(t) = RStrip(b)
    BY <1>1, <1>4, <2>2, <2>5 DEF Streamable, CallsOf
  <2>11. ASSUME ~OddCalls(t) PROVE WithoutCalls(t) = Strip(b)
    <3>1. PICK u : u = After(t, m - 1)
      OBVIOUS
    <3>2. u \in Text
      BY <2>4, <3>1, AfterIs
    <3>3. WithoutCalls(u) = <<>>
      BY <1>1, <1>4, <2>2, <2>11, <3>1 DEF OddCalls, CallsOf
    <3>4. PICK x \in Text : WithoutCalls(b \o u) = Strip(b \o x) /\ WithoutCalls(u) = Strip(x)
      BY <2>7, <2>8, <3>2, WithoutCallsIs
    <3>5. Strip(b \o x) = Strip(b)
      BY <2>7, <3>3, <3>4, StripIs, StripSpaces
    <3> QED
      BY <2>7, <3>1, <3>4, <3>5
  <2>12. \A k \in 1..Len(b) : b[k] = t[k]
    BY <2>7
  <2> QED
    BY <2>6, <2>7, <2>8, <2>9, <2>10, <2>11, <2>12
<1> QED
  BY <1>3, <1>4

\* A text that goes on has the same before its first call, or went on before it.
LEMMA BeforeGrows ==
  ASSUME NEW t \in Text, NEW d \in Text
  PROVE  /\ Before(t) # t => Before(t \o d) = Before(t) /\ Before(t \o d) # t \o d
         /\ Before(t) = t => IsPrefix(t, Before(t \o d))
<1>1. PICK w, b, c : w = t \o d /\ b = Before(t) /\ c = Before(w)
  OBVIOUS
<1>2. Len(t) \in Nat /\ Len(d) \in Nat
  BY DEF Text
<1>3. w \in Text /\ Len(w) = Len(t) + Len(d) /\ \A k \in 1..Len(t) : w[k] = t[k]
  BY <1>1, ConcatIs
<1>4. /\ b \in Text /\ Len(b) <= Len(t) /\ \A k \in 1..Len(b) : b[k] = t[k] /\ b[k] # "tool"
      /\ b # t => Len(b) < Len(t) /\ t[Len(b) + 1] = "tool"
  BY <1>1, BeforeIs
<1>5. /\ c \in Text /\ Len(c) <= Len(w) /\ \A k \in 1..Len(c) : c[k] = w[k] /\ c[k] # "tool"
      /\ c # w => Len(c) < Len(w) /\ w[Len(c) + 1] = "tool"
  BY <1>1, <1>3, BeforeIs
<1>6. Len(b) \in Nat /\ Len(c) \in Nat
  BY <1>4, <1>5 DEF Text
<1>7. ASSUME Len(c) < Len(b) PROVE FALSE
  <2>1. c # w /\ w[Len(c) + 1] = "tool"
    BY <1>2, <1>3, <1>4, <1>5, <1>6, <1>7
  <2>2. Len(c) + 1 \in 1..Len(b) /\ Len(c) + 1 \in 1..Len(t)
    BY <1>2, <1>4, <1>6, <1>7
  <2> QED
    BY <1>3, <1>4, <2>1, <2>2
<1>8. ASSUME b # t PROVE c = b /\ c # w
  <2>1. ~(Len(b) < Len(c))
    <3>1. SUFFICES ASSUME Len(b) < Len(c) PROVE FALSE
      OBVIOUS
    <3>2. Len(b) + 1 \in 1..Len(c) /\ Len(b) + 1 \in 1..Len(t)
      BY <1>2, <1>4, <1>6, <1>8, <3>1
    <3> QED
      BY <1>3, <1>4, <1>5, <1>8, <3>2
  <2>2. Len(b) = Len(c)
    BY <1>6, <1>7, <2>1
  <2>3. \A k \in 1..Len(b) : b[k] = c[k]
    <3> TAKE k \in 1..Len(b)
    <3>1. k \in 1..Len(t) /\ k \in 1..Len(c)
      BY <1>2, <1>4, <1>6, <2>2
    <3> QED
      BY <1>3, <1>4, <1>5, <3>1
  <2>4. b = c
    BY <1>4, <1>5, <2>2, <2>3, SeqEqual DEF Text
  <2>5. Len(c) < Len(w)
    BY <1>2, <1>3, <1>4, <1>6, <1>8, <2>2
  <2> QED
    BY <2>4, <2>5
<1>9. ASSUME b = t PROVE IsPrefix(t, c)
  <2>1. Len(t) <= Len(c)
    BY <1>6, <1>7, <1>9
  <2>2. \A k \in 1..Len(t) : t[k] = c[k]
    <3> TAKE k \in 1..Len(t)
    <3>1. k \in 1..Len(c)
      BY <1>2, <1>6, <2>1
    <3> QED
      BY <1>3, <1>5, <3>1
  <2> QED
    BY <1>5, <2>1, <2>2, PrefixBy
<1> QED
  BY <1>1, <1>8, <1>9

------------------------------------------------------------------------------
\* What a client who offers tools was shown: all that comes before the first call, but
\* for spaces.
Outs == [current : Text, shown : Text, toolStarted : BOOLEAN, open : BOOLEAN]

ToolsShown(o) ==
  /\ IsPrefix(o.shown, Before(o.current)) /\ AllSpace(After(Before(o.current), Len(o.shown)))
  /\ o.toolStarted <=> Before(o.current) # o.current
  /\ ~o.toolStarted => o.shown = o.current
  /\ o.open <=> o.shown # <<>>

LEMMA ToolsShownIs ==
  ASSUME NEW o \in Outs, ToolsShown(o)
  PROVE  /\ Strip(o.shown) = Strip(Before(o.current)) /\ Len(Strip(Before(o.current))) <= Len(o.shown)
         /\ IsPrefix(o.shown, o.current)
<1>1. PICK b, s, c : b = Before(o.current) /\ s = o.shown /\ c = o.current
  OBVIOUS
<1>2. s \in Text /\ c \in Text /\ b \in Text /\ Len(b) <= Len(c) /\ \A k \in 1..Len(b) : b[k] = c[k]
  BY <1>1, BeforeIs DEF Outs
<1>3. IsPrefix(s, b) /\ AllSpace(After(b, Len(s)))
  BY <1>1 DEF ToolsShown
<1>4. /\ Len(s) \in 0..Len(b) /\ s \o After(b, Len(s)) = b /\ \A k \in 1..Len(s) : s[k] = b[k]
  BY <1>2, <1>3, PrefixIs
<1>5. After(b, Len(s)) \in Text
  BY <1>2, <1>4, AfterIs
<1>6. Strip(b) = Strip(s)
  BY <1>2, <1>3, <1>4, <1>5, StripSpaces
<1>7. Len(Strip(s)) <= Len(s)
  BY <1>2, StripIs
<1>8. Len(s) <= Len(c) /\ \A k \in 1..Len(s) : s[k] = c[k]
  BY <1>2, <1>4 DEF Text
<1>9. IsPrefix(s, c)
  BY <1>2, <1>8, PrefixBy
<1> QED
  BY <1>1, <1>6, <1>7, <1>9

\* What ToolsTake shows of delta, and what the front end keeps then.
ToolsPart(o, delta) ==
  LET visible == Streamable(o.current \o delta)
  IN  IF ~o.toolStarted /\ IsPrefix(o.shown, visible) THEN After(visible, Len(o.shown)) ELSE <<>>

ToolsNext(o, delta) ==
  LET current == o.current \o delta
      visible == Streamable(current)
  IN  [current |-> current,
       shown |-> IF ToolsPart(o, delta) = <<>> THEN o.shown ELSE visible,
       open |-> o.open \/ ToolsPart(o, delta) # <<>>,
       toolStarted |-> o.toolStarted \/ visible # current]

LEMMA ToolsShownGrows ==
  ASSUME NEW o \in Outs, ToolsShown(o), NEW delta \in Text
  PROVE  /\ ToolsNext(o, delta) \in Outs /\ ToolsShown(ToolsNext(o, delta)) /\ ToolsPart(o, delta) \in Text
         /\ ToolsNext(o, delta).shown = o.shown \o ToolsPart(o, delta)
<1> PICK current : current = o.current \o delta
  OBVIOUS
<1> PICK visible : visible = Streamable(current)
  OBVIOUS
<1> PICK piece : piece = IF ~o.toolStarted /\ IsPrefix(o.shown, visible)
                         THEN After(visible, Len(o.shown)) ELSE <<>>
  OBVIOUS
<1> PICK n : n = [current |-> current, shown |-> IF piece = <<>> THEN o.shown ELSE visible,
                  open |-> o.open \/ piece # <<>>, toolStarted |-> o.toolStarted \/ visible # current]
  OBVIOUS
<1>18. piece = ToolsPart(o, delta) /\ n = ToolsNext(o, delta)
  BY DEF ToolsPart, ToolsNext
<1>1. PICK b, s, c, bb : b = Before(c) /\ s = o.shown /\ c = o.current /\ bb = Before(current)
  OBVIOUS
<1>2. /\ s \in Text /\ c \in Text /\ b \in Text /\ current \in Text
      /\ o.toolStarted \in BOOLEAN /\ o.open \in BOOLEAN
  BY <1>1, BeforeIs, TextOps DEF Outs
<1>3. /\ bb \in Text /\ Len(bb) <= Len(current) /\ \A k \in 1..Len(bb) : bb[k] = current[k]
      /\ visible = IF bb = current THEN current ELSE RStrip(bb)
      /\ bb # current => Len(bb) < Len(current)
  BY <1>1, <1>2, BeforeIs
<1>4. /\ b # c => bb = b /\ bb # current
      /\ b = c => IsPrefix(c, bb)
  BY <1>1, <1>2, BeforeGrows
<1>5. /\ IsPrefix(s, b) /\ AllSpace(After(b, Len(s)))
      /\ o.toolStarted <=> b # c
      /\ ~o.toolStarted => s = c
      /\ o.open <=> s # <<>>
  BY <1>1 DEF ToolsShown
<1>6. PICK m \in 0..Len(bb) : /\ RStrip(bb) = SubSeq(bb, 1, m) /\ RStrip(bb) \in Text /\ Len(RStrip(bb)) = m
                              /\ \A k \in (m + 1)..Len(bb) : bb[k] = "space"
  BY <1>3, RStripIs
<1>7. Len(bb) \in Nat /\ Len(s) \in Nat /\ m \in Nat
  <2>1. bb \in Seq(Word) /\ s \in Seq(Word)
    BY <1>2, <1>3 DEF Text
  <2>2. Len(bb) \in Nat /\ Len(s) \in Nat
    BY <2>1, LenProperties, SMTT(30)
  <2> QED
    BY <2>2
<1>8. visible \in Text
  <2>1. RStrip(bb) \in Text
    BY <1>6, SMTT(30)
  <2> QED
    BY <1>2, <1>3, <2>1
<1>9. visible # current <=> bb # current
  <2>1. bb # current => Len(visible) < Len(current)
    <3>1. Len(current) \in Nat
      <4>1. current \in Seq(Word)
        BY <1>2 DEF Text
      <4> QED
        BY <4>1, LenProperties
    <3>2. bb # current => visible = RStrip(bb) /\ Len(bb) < Len(current)
      BY <1>3
    <3>3. Len(RStrip(bb)) = m
      BY <1>6
    <3>4. m <= Len(bb)
      BY <1>7
    <3> QED
      BY <1>7, <3>1, <3>2, <3>3, <3>4
  <2>2. ~(Len(current) < Len(current))
    BY <1>2 DEF Text
  <2> QED
    BY <1>3, <2>1, <2>2
<1>10. piece \in Text
  <2>1. After(visible, Len(s)) \in Text
    BY <1>7, <1>8, AfterIs
  <2> QED
    BY <1>1, <2>1, TextOps
<1>11. n.shown = s \o piece
  <2>1. CASE piece = <<>>
    BY <1>1, <1>2, <2>1, ConcatEmptySeq DEF Text
  <2>2. CASE piece # <<>>
    <3>1. IsPrefix(s, visible) /\ piece = After(visible, Len(s))
      BY <1>1, <2>2
    <3> QED
      BY <1>2, <1>8, <2>2, <3>1, PrefixIs, SMTT(30)
  <2> QED
    BY <2>1, <2>2
<1>12. n.shown \in Text
  BY <1>2, <1>10, <1>11, TextOps
<1>13. n \in Outs
  BY <1>2, <1>12 DEF Outs
<1>14. n.current = current /\ (n.toolStarted <=> o.toolStarted \/ bb # current) /\ (n.open <=> o.open \/ piece # <<>>)
  BY <1>9
<1>15. n.toolStarted <=> bb # current
  BY <1>4, <1>5, <1>14
<1>16. n.open <=> n.shown # <<>>
  <2>1. s \o piece = <<>> <=> s = <<>> /\ piece = <<>>
    BY <1>2, <1>10, ConcatEqualIffEmpty DEF Text
  <2> QED
    BY <1>5, <1>11, <1>14, <2>1
<1>17. /\ IsPrefix(n.shown, bb) /\ AllSpace(After(bb, Len(n.shown)))
       /\ ~n.toolStarted => n.shown = current
  <2>1. CASE o.toolStarted
    <3>1. piece = <<>> /\ bb = b /\ n.shown = s
      BY <1>1, <1>4, <1>5, <2>1
    <3> QED
      BY <1>5, <1>14, <2>1, <3>1
  <2>2. CASE ~o.toolStarted
    <3>1. s = c /\ IsPrefix(s, bb)
      BY <1>4, <1>5, <2>2
    <3>2. CASE bb = current
      <4>1. visible = current /\ IsPrefix(s, visible) /\ piece = After(visible, Len(s))
        BY <1>1, <1>3, <2>2, <3>1, <3>2
      <4>2. n.shown = current
        <5>1. s \o After(visible, Len(s)) = visible
          BY <1>2, <1>8, <4>1, PrefixIs
        <5> QED
          BY <1>11, <4>1, <5>1
      <4>3. IsPrefix(current, current)
        BY <1>2 DEF IsPrefix, Text
      <4>4. After(current, Len(current)) = <<>>
        <5>1. Len(current) \in Nat
          BY <1>2 DEF Text
        <5>2. After(current, Len(current)) \in Text /\ Len(After(current, Len(current))) = 0
          <6>1. /\ After(current, Len(current)) \in Text
                /\ Len(After(current, Len(current))) = IF Len(current) <= Len(current) THEN Len(current) - Len(current) ELSE 0
            BY <1>2, <5>1, AfterIs
          <6> QED
            BY <5>1, <6>1
        <5> QED
          BY <5>2, EmptySeq DEF Text
      <4>5. AllSpace(<<>>)
        BY EmptySeq DEF AllSpace
      <4> QED
        BY <3>2, <4>2, <4>3, <4>4, <4>5
    <3>3. CASE bb # current
      <4>1. visible = RStrip(bb) /\ visible = SubSeq(bb, 1, m) /\ Len(visible) = m
        BY <1>3, <1>6, <3>3
      <4>2. IsPrefix(visible, bb) /\ \A k \in 1..m : visible[k] = bb[k]
        BY <1>3, <1>6, <4>1, FirstIs
      <4>3. ASSUME NEW j \in Nat, m <= j PROVE AllSpace(After(bb, j))
        <5>1. ASSUME NEW k \in 1..Len(After(bb, j)) PROVE After(bb, j)[k] = "space"
          <6>1. /\ Len(After(bb, j)) = IF j <= Len(bb) THEN Len(bb) - j ELSE 0
                /\ \A i \in 1..(Len(bb) - j) : After(bb, j)[i] = bb[j + i]
            BY <1>3, <4>3, AfterIs
          <6>2. k \in 1..(Len(bb) - j) /\ j + k \in (m + 1)..Len(bb)
            BY <1>7, <4>3, <6>1, SMTT(30)
          <6> QED
            BY <1>6, <6>1, <6>2
        <5> QED
          BY <5>1 DEF AllSpace
      <4>4. CASE IsPrefix(s, visible)
        <5>1. piece = After(visible, Len(s))
          BY <1>1, <2>2, <4>4
        <5>2. n.shown = visible
          <6>1. s \o After(visible, Len(s)) = visible
            BY <1>2, <1>8, <4>4, PrefixIs
          <6> QED
            BY <1>11, <5>1, <6>1
        <5>3. AllSpace(After(bb, m)) /\ Len(visible) = m
          BY <1>7, <4>1, <4>3
        <5> QED
          BY <1>15, <3>3, <4>2, <5>2, <5>3
      <4>5. CASE ~IsPrefix(s, visible)
        <5>1. n.shown = s
          BY <1>1, <4>5
        <5>2. m <= Len(s)
          <6>1. SUFFICES ASSUME Len(s) < m PROVE FALSE
            BY <1>7, SMTT(30)
          <6>2. \A k \in 1..Len(s) : s[k] = bb[k]
            BY <1>2, <1>3, <3>1, PrefixIs
          <6>3. ASSUME NEW k \in 1..Len(s) PROVE s[k] = visible[k]
            <7>1. k \in 1..m
              BY <1>7, <6>1
            <7> QED
              BY <4>2, <6>2, <7>1
          <6>4. Len(s) <= Len(visible)
            BY <1>7, <4>1, <6>1, SMTT(30)
          <6> QED
            BY <1>2, <1>8, <4>5, <6>3, <6>4, PrefixBy
        <5> QED
          BY <1>7, <1>15, <3>1, <3>3, <4>3, <5>1, <5>2
      <4> QED
        BY <4>4, <4>5, Zenon
    <3> QED
      BY <3>2, <3>3
  <2> QED
    BY <2>1, <2>2
<1>19. n \in Outs /\ ToolsShown(n) /\ piece \in Text /\ n.shown = o.shown \o piece
  BY <1>1, <1>10, <1>11, <1>13, <1>14, <1>15, <1>16, <1>17 DEF ToolsShown
<1> QED
  BY <1>18, <1>19

------------------------------------------------------------------------------
\* Frames one after the other: what a reader of fs knows, and what it knows after f.
FrameSet == [kind : {"begin", "open", "piece", "close", "full", "final", "end", "error"},
             item : Nat, text : Text]

Parses(fs) == \A n \in DOMAIN fs : Fits(SubSeq(fs, 1, n - 1), fs[n])
PieceOf(f) == IF f.kind \in {"open", "piece"} THEN f.text ELSE <<>>
Pieces(fs) == FlattenSeq([k \in DOMAIN fs |-> PieceOf(fs[k])])

Marks == {"full", "final", "end", "error"}

Knows(fs, s) ==
  /\ fs \in Seq(FrameSet) /\ Parses(fs)
  /\ Opened(fs) = s.opened /\ Closed(fs) = s.closed
  /\ \A mark \in Marks : Has(fs, mark) <=> mark \in s.marks
  /\ \A n \in DOMAIN fs : fs[n].kind = "full" => fs[n].text = s.text
  /\ Pieces(fs) = s.text /\ s.text \in Text

Known(opened, closed, marks, text) ==
  [opened |-> opened, closed |-> closed, marks |-> marks, text |-> text]

KnownNext(s, f) ==
  Known(IF f.kind = "open" THEN s.opened \cup {f.item} ELSE s.opened,
        IF f.kind = "close" THEN s.closed \cup {f.item} ELSE s.closed,
        IF f.kind \in Marks THEN s.marks \cup {f.kind} ELSE s.marks, s.text \o PieceOf(f))

MayFollow(s, f) ==
  LET closed == front \in {"chat", "chat search"} \/ s.opened = s.closed
  IN  /\ "error" \notin s.marks
      /\ f.kind = "open" => f.item \notin s.opened /\ Cardinality(s.opened) = f.item
      /\ f.kind \in {"piece", "full", "close"} => f.item \in s.opened \ s.closed
      /\ f.kind = "full" => f.text = s.text
      /\ f.kind \in {"open", "piece"} => "full" \notin s.marks
      /\ f.kind = "final" => closed /\ "final" \notin s.marks
      /\ f.kind = "end" => closed /\ "end" \notin s.marks /\ ("final" \in s.marks \/ front \in Messages)
      /\ f.kind = "error" => ("end" \in s.marks <=> front \in Messages) /\ "final" \notin s.marks

LEMMA PieceType ==
  ASSUME NEW f \in FrameSet
  PROVE  PieceOf(f) \in Text
  BY TextOps DEF PieceOf, FrameSet

LEMMA AppendedFrame ==
  ASSUME NEW fs \in Seq(FrameSet), NEW f \in FrameSet
  PROVE  /\ Append(fs, f) \in Seq(FrameSet)
         /\ DOMAIN Append(fs, f) = DOMAIN fs \cup {Len(fs) + 1}
         /\ Append(fs, f)[Len(fs) + 1] = f
         /\ \A k \in DOMAIN fs : Append(fs, f)[k] = fs[k]
         /\ Opened(Append(fs, f)) = IF f.kind = "open" THEN Opened(fs) \cup {f.item} ELSE Opened(fs)
         /\ Closed(Append(fs, f)) = IF f.kind = "close" THEN Closed(fs) \cup {f.item} ELSE Closed(fs)
         /\ \A kind : Has(Append(fs, f), kind) <=> Has(fs, kind) \/ f.kind = kind
         /\ Pieces(Append(fs, f)) = Pieces(fs) \o PieceOf(f)
         /\ SubSeq(Append(fs, f), 1, Len(fs)) = fs
         /\ \A n \in DOMAIN fs : SubSeq(Append(fs, f), 1, n - 1) = SubSeq(fs, 1, n - 1)
<1>1. PICK gs : gs = Append(fs, f)
  OBVIOUS
<1>2. PICK n : n = Len(fs) /\ n \in Nat
  BY LenProperties
<1>3. /\ gs \in Seq(FrameSet) /\ Len(gs) = n + 1 /\ gs[n + 1] = f
      /\ \A k \in 1..n : gs[k] = fs[k]
      /\ DOMAIN gs = 1..(n + 1) /\ DOMAIN fs = 1..n
  <2>1. gs \in Seq(FrameSet) /\ Len(gs) = n + 1 /\ gs[n + 1] = f /\ \A k \in 1..n : gs[k] = fs[k]
    BY <1>1, <1>2, AppendProperties
  <2> QED
    BY <1>2, <2>1, LenProperties
<1>4. DOMAIN gs = DOMAIN fs \cup {n + 1}
  BY <1>2, <1>3
<1>5. Opened(gs) = IF f.kind = "open" THEN Opened(fs) \cup {f.item} ELSE Opened(fs)
  BY <1>3, <1>4 DEF Opened
<1>6. Closed(gs) = IF f.kind = "close" THEN Closed(fs) \cup {f.item} ELSE Closed(fs)
  BY <1>3, <1>4 DEF Closed
<1>7. \A kind : Has(gs, kind) <=> Has(fs, kind) \/ f.kind = kind
  BY <1>3, <1>4 DEF Has
<1>8. Pieces(gs) = Pieces(fs) \o PieceOf(f)
  <2>1. PICK ps, qs : ps = [k \in DOMAIN fs |-> PieceOf(fs[k])] /\ qs = [k \in DOMAIN gs |-> PieceOf(gs[k])]
    OBVIOUS
  <2>2. ps \in Seq(Text) /\ Len(ps) = n /\ \A k \in 1..n : ps[k] = PieceOf(fs[k])
    <3>1. \A k \in 1..n : fs[k] \in FrameSet
      BY <1>2
    <3>2. ps \in [1..n -> Text]
      BY <1>3, <2>1, <3>1, PieceType
    <3>3. ps \in Seq(Text)
      BY <1>2, <3>2, SeqDef
    <3> QED
      BY <1>2, <1>3, <2>1, <3>2, <3>3, LenProperties
  <2>3. qs \in Seq(Text) /\ Len(qs) = n + 1 /\ \A k \in 1..(n + 1) : qs[k] = PieceOf(gs[k])
    <3>1. \A k \in 1..(n + 1) : gs[k] \in FrameSet
      BY <1>2, <1>3
    <3>2. qs \in [1..(n + 1) -> Text] /\ n + 1 \in Nat
      BY <1>2, <1>3, <2>1, <3>1, PieceType
    <3>3. qs \in Seq(Text)
      BY <3>2, SeqDef
    <3> QED
      BY <1>2, <1>3, <2>1, <3>2, <3>3, LenProperties
  <2>4. PieceOf(f) \in Text
    BY PieceType
  <2>5. qs = Append(ps, PieceOf(f))
    <3>1. PICK rs : rs = Append(ps, PieceOf(f))
      OBVIOUS
    <3>2. /\ rs \in Seq(Text) /\ Len(rs) = n + 1 /\ rs[n + 1] = PieceOf(f)
          /\ \A k \in 1..n : rs[k] = ps[k]
      BY <2>2, <2>4, <3>1, AppendProperties
    <3>3. \A k \in 1..(n + 1) : qs[k] = rs[k]
      <4> TAKE k \in 1..(n + 1)
      <4>1. CASE k = n + 1
        BY <1>3, <2>3, <3>2, <4>1
      <4>2. CASE k # n + 1
        <5>1. k \in 1..n
          BY <1>2, <4>2
        <5> QED
          BY <1>3, <2>2, <2>3, <3>2, <5>1
      <4> QED
        BY <4>1, <4>2
    <3> QED
      BY <2>3, <3>1, <3>2, <3>3, SeqEqual
  <2>6. FlattenSeq(Append(ps, PieceOf(f))) = FlattenSeq(ps) \o PieceOf(f)
    <3>1. ps \in Seq(Seq(Word)) /\ PieceOf(f) \in Seq(Word)
      BY <2>2, <2>4 DEF Text
    <3> QED
      BY <3>1, FlattenAppend
  <2> QED
    BY <2>1, <2>5, <2>6 DEF Pieces
<1>9. SubSeq(gs, 1, n) = fs
  <2>1. \A k \in 1..n : gs[k] \in FrameSet
    BY <1>2, <1>3
  <2>2. /\ SubSeq(gs, 1, n) \in Seq(FrameSet) /\ Len(SubSeq(gs, 1, n)) = n
        /\ \A k \in 1..n : SubSeq(gs, 1, n)[k] = gs[k]
    BY <1>2, <2>1, SubSeqProperties
  <2>3. \A k \in 1..n : SubSeq(gs, 1, n)[k] = fs[k]
    BY <1>3, <2>2
  <2> QED
    BY <1>2, <2>2, <2>3, SeqEqual
<1>10. ASSUME NEW m \in 1..n PROVE SubSeq(gs, 1, m - 1) = SubSeq(fs, 1, m - 1)
  <2>1. m - 1 \in Int /\ \A k \in 1..(m - 1) : k \in 1..n /\ gs[k] = fs[k] /\ fs[k] \in FrameSet
    BY <1>2, <1>3
  <2>2. /\ SubSeq(gs, 1, m - 1) \in Seq(FrameSet)
        /\ Len(SubSeq(gs, 1, m - 1)) = IF 1 <= m - 1 THEN (m - 1) - 1 + 1 ELSE 0
        /\ \A k \in 1..((m - 1) - 1 + 1) : SubSeq(gs, 1, m - 1)[k] = gs[1 + k - 1]
    BY <2>1, SubSeqProperties
  <2>3. /\ SubSeq(fs, 1, m - 1) \in Seq(FrameSet)
        /\ Len(SubSeq(fs, 1, m - 1)) = IF 1 <= m - 1 THEN (m - 1) - 1 + 1 ELSE 0
        /\ \A k \in 1..((m - 1) - 1 + 1) : SubSeq(fs, 1, m - 1)[k] = fs[1 + k - 1]
    BY <2>1, SubSeqProperties
  <2>4. \A k \in 1..Len(SubSeq(gs, 1, m - 1)) : SubSeq(gs, 1, m - 1)[k] = SubSeq(fs, 1, m - 1)[k]
    <3> TAKE k \in 1..Len(SubSeq(gs, 1, m - 1))
    <3>1. k \in 1..((m - 1) - 1 + 1) /\ k \in 1..(m - 1) /\ 1 + k - 1 = k
      BY <2>2
    <3> QED
      BY <2>1, <2>2, <2>3, <3>1
  <2> QED
    BY <2>2, <2>3, <2>4, SeqEqual
<1> QED
  BY <1>1, <1>2, <1>3, <1>4, <1>5, <1>6, <1>7, <1>8, <1>9, <1>10

LEMMA KnowsNext ==
  ASSUME NEW fs, NEW s, Knows(fs, s), NEW f \in FrameSet, MayFollow(s, f),
         f.kind = "begin" => fs = <<>>
  PROVE  Knows(Append(fs, f), KnownNext(s, f))
<1>1. PICK gs, z : gs = Append(fs, f) /\ z = KnownNext(s, f)
  OBVIOUS
<1>2. fs \in Seq(FrameSet) /\ DOMAIN fs = 1..Len(fs) /\ Len(fs) \in Nat
  BY LenProperties DEF Knows
<1>3. /\ gs \in Seq(FrameSet) /\ DOMAIN gs = DOMAIN fs \cup {Len(fs) + 1} /\ gs[Len(fs) + 1] = f
      /\ \A k \in DOMAIN fs : gs[k] = fs[k]
  BY <1>1, <1>2, AppendedFrame
<1>4. /\ z.opened = IF f.kind = "open" THEN s.opened \cup {f.item} ELSE s.opened
      /\ z.closed = IF f.kind = "close" THEN s.closed \cup {f.item} ELSE s.closed
      /\ z.marks = IF f.kind \in Marks THEN s.marks \cup {f.kind} ELSE s.marks
      /\ z.text = s.text \o PieceOf(f)
  BY <1>1 DEF KnownNext, Known
<1>5. Opened(gs) = z.opened /\ Closed(gs) = z.closed
  BY <1>1, <1>2, <1>4, AppendedFrame DEF Knows
<1>6. \A kind : Has(gs, kind) <=> Has(fs, kind) \/ f.kind = kind
  BY <1>1, <1>2, AppendedFrame
<1>7. \A mark \in Marks : Has(gs, mark) <=> mark \in z.marks
  BY <1>4, <1>6 DEF Knows
<1>8. Pieces(gs) = z.text /\ z.text \in Text
  <2>1. Pieces(gs) = Pieces(fs) \o PieceOf(f)
    BY <1>1, <1>2, AppendedFrame
  <2>2. s.text \in Text /\ Pieces(fs) = s.text /\ PieceOf(f) \in Text
    BY PieceType DEF Knows
  <2> QED
    BY <1>4, <2>1, <2>2, TextOps
<1>9. Fits(fs, f)
  <2>1. PICK closed \in BOOLEAN : closed <=> front \in {"chat", "chat search"} \/ s.opened = s.closed
    OBVIOUS
  <2>2. /\ "error" \notin s.marks
        /\ f.kind = "open" => f.item \notin s.opened /\ Cardinality(s.opened) = f.item
        /\ f.kind \in {"piece", "full", "close"} => f.item \in s.opened \ s.closed
        /\ f.kind = "final" => closed /\ "final" \notin s.marks
        /\ f.kind = "end" => closed /\ "end" \notin s.marks /\ ("final" \in s.marks \/ front \in Messages)
        /\ f.kind = "error" => ("end" \in s.marks <=> front \in Messages) /\ "final" \notin s.marks
    BY <2>1 DEF MayFollow
  <2>3. /\ Opened(fs) = s.opened /\ Closed(fs) = s.closed
        /\ Has(fs, "final") <=> "final" \in s.marks
        /\ Has(fs, "end") <=> "end" \in s.marks
        /\ Has(fs, "error") <=> "error" \in s.marks
    BY DEF Knows, Marks
  <2>4. closed <=> front \in {"chat", "chat search"} \/ Opened(fs) = Closed(fs)
    BY <2>1, <2>3
  <2>5. f.kind = "error" => Has(fs, "end") = (front \in Messages)
    <3>1. Has(fs, "end") \in BOOLEAN /\ (front \in Messages) \in BOOLEAN
      BY DEF Has
    <3> QED
      BY <2>2, <2>3, <3>1
  <2> QED
    BY <2>2, <2>3, <2>4, <2>5, Zenon DEF Fits
<1>10. Parses(gs)
  <2>1. ASSUME NEW n \in DOMAIN fs PROVE Fits(SubSeq(gs, 1, n - 1), gs[n])
    <3>1. SubSeq(gs, 1, n - 1) = SubSeq(fs, 1, n - 1) /\ gs[n] = fs[n]
      BY <1>1, <1>2, AppendedFrame
    <3>2. Fits(SubSeq(fs, 1, n - 1), fs[n])
      BY DEF Knows, Parses
    <3> QED
      BY <3>1, <3>2
  <2>2. Fits(SubSeq(gs, 1, (Len(fs) + 1) - 1), gs[Len(fs) + 1])
    <3>1. (Len(fs) + 1) - 1 = Len(fs)
      BY <1>2
    <3>2. SubSeq(gs, 1, Len(fs)) = fs
      BY <1>1, <1>2, AppendedFrame
    <3> QED
      BY <1>3, <1>9, <3>1, <3>2
  <2> QED
    BY <1>3, <2>1, <2>2 DEF Parses
<1>11. ASSUME NEW n \in DOMAIN gs, gs[n].kind = "full" PROVE gs[n].text = z.text
  <2>1. CASE n = Len(fs) + 1
    <3>1. f.kind = "full" /\ f.text = s.text /\ PieceOf(f) = <<>>
      BY <1>3, <1>11, <2>1 DEF MayFollow, PieceOf
    <3>2. s.text \o <<>> = s.text
      BY ConcatEmptySeq DEF Knows, Text
    <3> QED
      BY <1>3, <1>4, <2>1, <3>1, <3>2
  <2>2. CASE n \in DOMAIN fs
    <3>1. fs[n].kind = "full" /\ fs[n].text = s.text /\ gs[n] = fs[n]
      BY <1>3, <1>11, <2>2 DEF Knows
    <3>2. "full" \in s.marks
      BY <2>2, <3>1 DEF Knows, Has, Marks
    <3>3. PieceOf(f) = <<>>
      BY <3>2 DEF MayFollow, PieceOf
    <3>4. s.text \o <<>> = s.text
      BY ConcatEmptySeq DEF Knows, Text
    <3> QED
      BY <1>4, <3>1, <3>3, <3>4
  <2> QED
    BY <1>3, <2>1, <2>2
<1> QED
  BY <1>1, <1>3, <1>5, <1>7, <1>8, <1>10, <1>11 DEF Knows

\* Frames one by one.
LEMMA FramesOneByOne ==
  ASSUME NEW S, NEW fs \in Seq(S)
  PROVE  /\ \A a \in S : fs \o <<a>> = Append(fs, a)
         /\ \A a, b, c \in S : fs \o <<a, b, c>> = Append(Append(Append(fs, a), b), c)
         /\ \A a, b, c, d \in S : fs \o <<a, b, c, d>> = Append(Append(Append(Append(fs, a), b), c), d)
<1>1. SUFFICES ASSUME NEW a \in S, NEW b \in S, NEW c \in S, NEW d \in S
               PROVE  /\ fs \o <<a>> = Append(fs, a)
                      /\ fs \o <<a, b, c>> = Append(Append(Append(fs, a), b), c)
                      /\ fs \o <<a, b, c, d>> = Append(Append(Append(Append(fs, a), b), c), d)
  OBVIOUS
<1>2. fs \o <<a>> = Append(fs, a)
  BY AppendIsConcat
<1>3. <<a>> \in Seq(S) /\ <<a, b>> \in Seq(S) /\ <<a, b, c>> \in Seq(S)
  OBVIOUS
<1>5. /\ <<a, b>> = Append(<<a>>, b) /\ <<a, b, c>> = Append(<<a, b>>, c)
      /\ <<a, b, c, d>> = Append(<<a, b, c>>, d)
  OBVIOUS
<1>4. \A u \in Seq(S) : \A e \in S : fs \o Append(u, e) = Append(fs \o u, e)
  <2> TAKE u \in Seq(S)
  <2> TAKE e \in S
  <2>1. Append(u, e) = u \o <<e>> /\ fs \o u \in Seq(S) /\ <<e>> \in Seq(S)
    BY AppendIsConcat, ConcatProperties
  <2>2. Append(fs \o u, e) = (fs \o u) \o <<e>>
    BY <2>1, AppendIsConcat
  <2> QED
    BY <2>1, <2>2, ConcatAssociative
<1> QED
  BY <1>2, <1>3, <1>4, <1>5

LEMMA FramesAssociate == \A a, b, c \in Seq(FrameSet) : (a \o b) \o c = a \o (b \o c)
  BY ConcatAssociative

LEMMA TwoFrames ==
  ASSUME NEW S, NEW fs \in Seq(S), NEW a \in S, NEW b \in S, NEW p, p = <<a, b>>
  PROVE  fs \o p = Append(Append(fs, a), b)
<1>1. p = Append(<<a>>, b)
  OBVIOUS
<1>2. fs \o <<a>> = Append(fs, a)
  BY AppendIsConcat
<1>3. <<a>> \in Seq(S) /\ <<b>> \in Seq(S) /\ Append(fs, a) \in Seq(S)
  OBVIOUS
<1>4. Append(<<a>>, b) = <<a>> \o <<b>>
  BY <1>3, AppendIsConcat
<1>5. Append(Append(fs, a), b) = Append(fs, a) \o <<b>>
  BY <1>3, AppendIsConcat
<1>6. fs \o (<<a>> \o <<b>>) = (fs \o <<a>>) \o <<b>>
  BY <1>3, ConcatAssociative
<1> QED
  BY <1>1, <1>2, <1>4, <1>5, <1>6

LEMMA FrameTypes ==
  /\ \A kind \in {"begin", "open", "piece", "close", "full", "final", "end", "error"} :
       \A item \in Nat, text \in Text : Frame(kind, item, text) \in FrameSet
  /\ \A kind \in {"begin", "open", "close", "final", "end", "error"} : Mark(kind) \in FrameSet
  BY TextOps DEF Frame, Mark, FrameSet

LEMMA TextEmpty == \A t \in Text : t \o <<>> = t /\ <<>> \o t = t
  BY ConcatEmptySeq DEF Text

\* What is known stays known while the front end is the same.
LEMMA FitsMoves ==
  ASSUME NEW fs, NEW f, front' = front
  PROVE  Fits(fs, f)' <=> Fits(fs, f)
  BY DEF Fits, Has, Opened, Closed, Messages

LEMMA KnowsMoves ==
  ASSUME NEW fs, NEW s, Knows(fs, s), front' = front
  PROVE  Knows(fs, s)'
<1>1. Parses(fs)'
  BY FitsMoves DEF Parses, Knows
<1> QED
  BY <1>1 DEF Knows, Opened, Closed, Has, Pieces, PieceOf, FrameSet, Text

\* What is known after each kind of frame.
LEMMA OpenKnown ==
  ASSUME NEW o, NEW c, NEW m, NEW t \in Text, NEW f, f.kind = "open"
  PROVE  KnownNext(Known(o, c, m, t), f) = Known(o \cup {f.item}, c, m, t \o f.text)
  BY TextEmpty DEF Known, KnownNext, PieceOf, Marks

LEMMA PieceKnown ==
  ASSUME NEW o, NEW c, NEW m, NEW t \in Text, NEW f, f.kind = "piece"
  PROVE  KnownNext(Known(o, c, m, t), f) = Known(o, c, m, t \o f.text)
  BY TextEmpty DEF Known, KnownNext, PieceOf, Marks

LEMMA CloseKnown ==
  ASSUME NEW o, NEW c, NEW m, NEW t \in Text, NEW f, f.kind = "close"
  PROVE  KnownNext(Known(o, c, m, t), f) = Known(o, c \cup {f.item}, m, t)
  BY TextEmpty DEF Known, KnownNext, PieceOf, Marks

LEMMA MarkKnown ==
  ASSUME NEW o, NEW c, NEW m, NEW t \in Text, NEW f, f.kind \in Marks
  PROVE  KnownNext(Known(o, c, m, t), f) = Known(o, c, m \cup {f.kind}, t)
  BY TextEmpty DEF Known, KnownNext, PieceOf, Marks

LEMMA MarkFollows ==
  ASSUME NEW fs, NEW o, NEW c, NEW m, NEW t \in Text, Knows(fs, Known(o, c, m, t)),
         NEW f \in FrameSet, f.kind \in Marks, MayFollow(Known(o, c, m, t), f)
  PROVE  Knows(Append(fs, f), Known(o, c, m \cup {f.kind}, t))
<1>1. Knows(Append(fs, f), KnownNext(Known(o, c, m, t), f))
  BY KnowsNext DEF Marks
<1> QED
  BY <1>1, MarkKnown

LEMMA OpenFollows ==
  ASSUME NEW fs, NEW o, NEW c, NEW m, NEW t \in Text, Knows(fs, Known(o, c, m, t)),
         NEW item \in Nat, NEW text \in Text,
         item \notin o, Cardinality(o) = item, "error" \notin m, "full" \notin m
  PROVE  Knows(Append(fs, Frame("open", item, text)), Known(o \cup {item}, c, m, t \o text))
<1>1. PICK f, s : f = Frame("open", item, text) /\ s = Known(o, c, m, t)
  OBVIOUS
<1>2. f \in FrameSet /\ f.kind = "open" /\ f.item = item /\ f.text = text
  BY <1>1, FrameTypes DEF Frame
<1>3. MayFollow(s, f)
  BY <1>1, <1>2 DEF MayFollow, Known
<1>4. Knows(Append(fs, f), KnownNext(s, f))
  BY <1>1, <1>2, <1>3, KnowsNext
<1> QED
  BY <1>1, <1>2, <1>4, OpenKnown

LEMMA PieceFollows ==
  ASSUME NEW fs, NEW o, NEW c, NEW m, NEW t \in Text, Knows(fs, Known(o, c, m, t)),
         NEW item \in Nat, NEW text \in Text,
         item \in o \ c, "error" \notin m, "full" \notin m
  PROVE  Knows(Append(fs, Frame("piece", item, text)), Known(o, c, m, t \o text))
<1>1. PICK f, s : f = Frame("piece", item, text) /\ s = Known(o, c, m, t)
  OBVIOUS
<1>2. f \in FrameSet /\ f.kind = "piece" /\ f.item = item /\ f.text = text
  BY <1>1, FrameTypes DEF Frame
<1>3. MayFollow(s, f)
  BY <1>1, <1>2 DEF MayFollow, Known
<1>4. Knows(Append(fs, f), KnownNext(s, f))
  BY <1>1, <1>2, <1>3, KnowsNext
<1> QED
  BY <1>1, <1>2, <1>4, PieceKnown

LEMMA CloseFollows ==
  ASSUME NEW fs, NEW o, NEW c, NEW m, NEW t \in Text, Knows(fs, Known(o, c, m, t)),
         NEW item \in Nat, NEW text \in Text,
         item \in o \ c, "error" \notin m
  PROVE  Knows(Append(fs, Frame("close", item, text)), Known(o, c \cup {item}, m, t))
<1>1. PICK f, s : f = Frame("close", item, text) /\ s = Known(o, c, m, t)
  OBVIOUS
<1>2. f \in FrameSet /\ f.kind = "close" /\ f.item = item /\ f.text = text
  BY <1>1, FrameTypes DEF Frame
<1>3. MayFollow(s, f)
  BY <1>1, <1>2 DEF MayFollow, Known
<1>4. Knows(Append(fs, f), KnownNext(s, f))
  BY <1>1, <1>2, <1>3, KnowsNext
<1> QED
  BY <1>1, <1>2, <1>4, CloseKnown

LEMMA FullFollows ==
  ASSUME NEW fs, NEW o, NEW c, NEW m, NEW t \in Text, Knows(fs, Known(o, c, m, t)),
         NEW item \in Nat, NEW text \in Text,
         item \in o \ c, text = t, "error" \notin m
  PROVE  Knows(Append(fs, Frame("full", item, text)), Known(o, c, m \cup {"full"}, t))
<1>1. PICK f, s : f = Frame("full", item, text) /\ s = Known(o, c, m, t)
  OBVIOUS
<1>2. f \in FrameSet /\ f.kind = "full" /\ f.item = item /\ f.text = text
  BY <1>1, FrameTypes DEF Frame
<1>3. MayFollow(s, f)
  BY <1>1, <1>2 DEF MayFollow, Known
<1> QED
  BY <1>1, <1>2, <1>3, MarkFollows DEF Marks

LEMMA FinalFollows ==
  ASSUME NEW fs, NEW o, NEW c, NEW m, NEW t \in Text, Knows(fs, Known(o, c, m, t)),
         front \in {"chat", "chat search"} \/ o = c, "error" \notin m, "final" \notin m
  PROVE  Knows(Append(fs, Mark("final")), Known(o, c, m \cup {"final"}, t))
<1>1. PICK f, s : f = Mark("final") /\ s = Known(o, c, m, t)
  OBVIOUS
<1>2. f \in FrameSet /\ f.kind = "final"
  BY <1>1, FrameTypes DEF Frame, Mark
<1>3. MayFollow(s, f)
  BY <1>1, <1>2 DEF MayFollow, Known
<1> QED
  BY <1>1, <1>2, <1>3, MarkFollows DEF Marks

LEMMA EndFollows ==
  ASSUME NEW fs, NEW o, NEW c, NEW m, NEW t \in Text, Knows(fs, Known(o, c, m, t)),
         front \in {"chat", "chat search"} \/ o = c, "error" \notin m, "end" \notin m,
         "final" \in m \/ front \in Messages
  PROVE  Knows(Append(fs, Mark("end")), Known(o, c, m \cup {"end"}, t))
<1>1. PICK f, s : f = Mark("end") /\ s = Known(o, c, m, t)
  OBVIOUS
<1>2. f \in FrameSet /\ f.kind = "end"
  BY <1>1, FrameTypes DEF Frame, Mark
<1>3. MayFollow(s, f)
  BY <1>1, <1>2 DEF MayFollow, Known
<1> QED
  BY <1>1, <1>2, <1>3, MarkFollows DEF Marks

LEMMA ErrorFollows ==
  ASSUME NEW fs, NEW o, NEW c, NEW m, NEW t \in Text, Knows(fs, Known(o, c, m, t)),
         "error" \notin m, "final" \notin m, "end" \in m <=> front \in Messages
  PROVE  Knows(Append(fs, Mark("error")), Known(o, c, m \cup {"error"}, t))
<1>1. PICK f, s : f = Mark("error") /\ s = Known(o, c, m, t)
  OBVIOUS
<1>2. f \in FrameSet /\ f.kind = "error"
  BY <1>1, FrameTypes DEF Frame, Mark
<1>3. MayFollow(s, f)
  BY <1>1, <1>2 DEF MayFollow, Known
<1> QED
  BY <1>1, <1>2, <1>3, MarkFollows DEF Marks

------------------------------------------------------------------------------
\* The blocks of tool calls: each is opened and closed before the next.
LEMMA BlockFollows ==
  ASSUME NEW fs, NEW n \in Nat, NEW t \in Text, NEW A, A = 0..(n - 1), NEW B, B = 0..n,
         Knows(fs, Known(A, A, {}, t))
  PROVE  Knows(fs \o <<Frame("open", n, <<>>), Frame("piece", n, <<>>), Frame("close", n, <<>>)>>,
               Known(B, B, {}, t))
<1>1. PICK e : e = <<>>
  OBVIOUS
<1>2. e \in Text /\ t \o e = t
  BY <1>1, TextOps, TextEmpty
<1>3. PICK a, b, c : a = Frame("open", n, e) /\ b = Frame("piece", n, e) /\ c = Frame("close", n, e)
  OBVIOUS
<1>4. a \in FrameSet /\ b \in FrameSet /\ c \in FrameSet
  BY <1>2, <1>3, FrameTypes
<1>5. n \notin A /\ A \cup {n} = B /\ n \in B \ A
  OBVIOUS
<1>6. Cardinality(A) = n
  <2>1. CASE n = 0
    <3>1. A = {}
      BY <2>1
    <3> QED
      BY <2>1, <3>1, FS_EmptySet
  <2>2. CASE n # 0
    <3>1. Cardinality(0..(n - 1)) = IF 0 > n - 1 THEN 0 ELSE (n - 1) - 0 + 1
      BY FS_Interval
    <3> QED
      BY <2>2, <3>1
  <2> QED
    BY <2>1, <2>2
<1>7. PICK m : m = {}
  OBVIOUS
<1>8. "error" \notin m /\ "full" \notin m
  BY <1>7
<1>9. Knows(Append(fs, a), Known(B, A, m, t))
  BY <1>2, <1>3, <1>5, <1>6, <1>7, <1>8, OpenFollows
<1>10. Knows(Append(Append(fs, a), b), Known(B, A, m, t))
  BY <1>2, <1>3, <1>5, <1>8, <1>9, PieceFollows
<1>11. Knows(Append(Append(Append(fs, a), b), c), Known(B, B, m, t))
  BY <1>2, <1>3, <1>5, <1>8, <1>10, CloseFollows
<1>12. fs \o <<a, b, c>> = Append(Append(Append(fs, a), b), c)
  <2>1. fs \in Seq(FrameSet)
    BY DEF Knows
  <2> QED
    BY <1>4, <2>1, FramesOneByOne
<1> QED
  BY <1>1, <1>3, <1>7, <1>11, <1>12

LEMMA BlocksType ==
  ASSUME NEW first \in Nat, NEW c \in Nat,
         NEW ss, ss = [k \in 1..c |-> <<Frame("open", first + k - 1, <<>>), Frame("piece", first + k - 1, <<>>),
                                        Frame("close", first + k - 1, <<>>)>>]
  PROVE  ss \in Seq(Seq(FrameSet)) /\ Len(ss) = c /\ FlattenSeq(ss) \in Seq(FrameSet)
<1>1. \A k \in 1..c : ss[k] \in Seq(FrameSet)
  <2> TAKE k \in 1..c
  <2>1. PICK n \in Nat : n = first + k - 1
    OBVIOUS
  <2>2. PICK a, b, d : a = Frame("open", n, <<>>) /\ b = Frame("piece", n, <<>>) /\ d = Frame("close", n, <<>>)
    OBVIOUS
  <2>3. a \in FrameSet /\ b \in FrameSet /\ d \in FrameSet
    BY <2>2, FrameTypes, TextOps
  <2>4. ss[k] = <<a, b, d>>
    BY <2>1, <2>2
  <2> QED
    BY <2>3, <2>4
<1>2. ss \in [1..c -> Seq(FrameSet)]
  <2>1. DOMAIN ss = 1..c /\ ss = [k \in 1..c |-> ss[k]]
    OBVIOUS
  <2> QED
    BY <1>1, <2>1
<1>3. ss \in Seq(Seq(FrameSet))
  <2>1. PICK S : S = Seq(FrameSet)
    OBVIOUS
  <2>2. ss \in [1..c -> S]
    BY <1>2, <2>1
  <2>3. ss \in Seq(S)
    BY <2>2, SeqDef
  <2> QED
    BY <2>1, <2>3
<1>4. Len(ss) = c
  BY <1>2, <1>3, LenProperties
<1>5. FlattenSeq(ss) \in Seq(FrameSet)
  BY <1>3, FlattenType
<1> QED
  BY <1>3, <1>4, <1>5

LEMMA BlocksFollow ==
  ASSUME NEW fs, NEW first \in Nat, NEW t \in Text, NEW c \in Nat,
         Knows(fs, Known(0..(first - 1), 0..(first - 1), {}, t)),
         NEW ss, ss = [k \in 1..c |-> <<Frame("open", first + k - 1, <<>>), Frame("piece", first + k - 1, <<>>),
                                        Frame("close", first + k - 1, <<>>)>>]
  PROVE  /\ FlattenSeq(ss) \in Seq(FrameSet)
         /\ Knows(fs \o FlattenSeq(ss),
                  Known(0..(first + c - 1), 0..(first + c - 1), {}, t))
<1>1. ss \in Seq(Seq(FrameSet)) /\ Len(ss) = c /\ FlattenSeq(ss) \in Seq(FrameSet)
  BY BlocksType
<1>2. \A k \in 1..c : ss[k] \in Seq(FrameSet)
  <2>1. PICK S : S = Seq(FrameSet)
    OBVIOUS
  <2>2. \A k \in 1..c : ss[k] \in S
    BY <1>1, <2>1, ElementOfSeq
  <2> QED
    BY <2>1, <2>2
<1>3. PICK r : /\ r \in [0..Len(ss) -> Seq(FrameSet)] /\ r[0] = <<>> /\ FlattenSeq(ss) = r[Len(ss)]
               /\ \A k \in 1..Len(ss) : r[k] = r[k - 1] \o ss[k]
  BY <1>1, Flattenings
<1>4. /\ r \in [0..c -> Seq(FrameSet)] /\ r[0] = <<>> /\ FlattenSeq(ss) = r[c]
      /\ \A k \in 1..c : r[k] = r[k - 1] \o ss[k]
  BY <1>1, <1>3
<1>5. PICK P : P = {k \in 0..c : Knows(fs \o r[k], Known(0..(first + k - 1), 0..(first + k - 1), {}, t))}
  OBVIOUS
<1>6. fs \in Seq(FrameSet)
  BY DEF Knows
<1>7. 0 \in P
  <2>1. fs \o r[0] = fs
    BY <1>4, <1>6, ConcatEmptySeq
  <2>2. 0..(first + 0 - 1) = 0..(first - 1) /\ 0 \in 0..c
    OBVIOUS
  <2> QED
    BY <1>5, <2>1, <2>2
<1>8. ASSUME NEW k \in 1..c, k - 1 \in P PROVE k \in P
  <2>1. PICK n \in Nat : n = first + k - 1
    OBVIOUS
  <2>2. first + (k - 1) - 1 = n - 1 /\ k \in 0..c /\ k - 1 \in 0..c
    BY <2>1
  <2>3. Knows(fs \o r[k - 1], Known(0..(n - 1), 0..(n - 1), {}, t))
    BY <1>5, <1>8, <2>2
  <2>4. Knows((fs \o r[k - 1]) \o <<Frame("open", n, <<>>), Frame("piece", n, <<>>), Frame("close", n, <<>>)>>,
              Known(0..n, 0..n, {}, t))
    BY <2>3, BlockFollows
  <2>5. ss[k] = <<Frame("open", n, <<>>), Frame("piece", n, <<>>), Frame("close", n, <<>>)>>
    BY <2>1
  <2>6. (fs \o r[k - 1]) \o ss[k] = fs \o r[k]
    <3>1. r[k - 1] \in Seq(FrameSet) /\ ss[k] \in Seq(FrameSet) /\ r[k] = r[k - 1] \o ss[k]
      BY <1>2, <1>4, <2>2
    <3>2. PICK u, v : u = r[k - 1] /\ v = ss[k]
      OBVIOUS
    <3>3. u \in Seq(FrameSet) /\ v \in Seq(FrameSet)
      BY <3>1, <3>2
    <3>4. (fs \o u) \o v = fs \o (u \o v)
      BY <1>6, <3>3, ConcatAssociative
    <3> QED
      BY <3>1, <3>2, <3>4
  <2> QED
    BY <1>5, <2>1, <2>2, <2>4, <2>5, <2>6
<1>9. \A k \in 0..c : k \in P
  BY <1>7, <1>8, UpTo
<1>10. c \in 0..c
  OBVIOUS
<1>11. c \in P /\ r[c] \in Seq(FrameSet)
  BY <1>4, <1>9, <1>10
<1> QED
  BY <1>1, <1>4, <1>5, <1>11

------------------------------------------------------------------------------
\* How streams begin and end.
LEMMA NothingKnown == Knows(<<>>, Known({}, {}, {}, <<>>))
<1>1. PICK e, n, t : e = <<>> /\ n = {} /\ t = <<>>
  OBVIOUS
<1>2. e \in Seq(FrameSet) /\ t \in Text /\ Len(e) = 0 /\ DOMAIN e = {}
  BY <1>1, TextOps, EmptySeq
<1>3. Pieces(e) = t
  <2>1. [k \in DOMAIN e |-> PieceOf(e[k])] = <<>>
    BY <1>2
  <2> QED
    BY <1>1, <2>1, FlattenEmpty DEF Pieces
<1>4. Opened(e) = n /\ Closed(e) = n /\ Parses(e) /\ \A kind : ~Has(e, kind)
  BY <1>1, <1>2 DEF Opened, Closed, Parses, Has
<1>5. Knows(e, Known(n, n, n, t))
  BY <1>1, <1>2, <1>3, <1>4 DEF Knows, Known
<1> QED
  BY <1>1, <1>5

LEMMA PreludeIs ==
  Knows(Prelude(front), Known(IF front \in {"responses", "messages", "responses search"} THEN {0} ELSE {},
                              {}, {}, <<>>))
<1>1. PICK e, n, t : e = <<>> /\ n = {} /\ t = <<>>
  OBVIOUS
<1>2. e \in Seq(FrameSet) /\ t \in Text
  BY <1>1, TextOps
<1>5. Knows(e, Known(n, n, n, t))
  BY <1>1, NothingKnown
<1>6. PICK b, z : b = Mark("begin") /\ z = Mark("open")
  OBVIOUS
<1>7. b \in FrameSet /\ b.kind = "begin" /\ z \in FrameSet /\ z = Frame("open", 0, t)
  BY <1>1, <1>6, FrameTypes DEF Mark, Frame
<1>8. Knows(Append(e, b), Known(n, n, n, t))
  <2>1. MayFollow(Known(n, n, n, t), b)
    BY <1>1, <1>7 DEF MayFollow, Known
  <2>2. PieceOf(b) = t /\ t \o t = t
    BY <1>1, <1>2, <1>7, TextEmpty DEF PieceOf
  <2>3. KnownNext(Known(n, n, n, t), b) = Known(n, n, n, t)
    BY <1>7, <2>2 DEF KnownNext, Known, Marks
  <2> QED
    BY <1>1, <1>5, <1>7, <2>1, <2>3, KnowsNext
<1>9. Knows(Append(Append(e, b), z), Known({0}, n, n, t))
  <2>1. 0 \notin n /\ Cardinality(n) = 0 /\ "error" \notin n /\ "full" \notin n /\ n \cup {0} = {0}
    BY <1>1, FS_EmptySet
  <2>2. Knows(Append(Append(e, b), Frame("open", 0, t)), Known(n \cup {0}, n, n, t \o t))
    BY <1>2, <1>8, <2>1, OpenFollows
  <2>3. t \o t = t
    BY <1>1, <1>2, TextEmpty
  <2> QED
    BY <1>7, <2>1, <2>2, <2>3
<1>10. Append(e, b) = <<b>> /\ Append(Append(e, b), z) = <<b, z>>
  <2>1. <<b>> = Append(<<>>, b)
    OBVIOUS
  <2>2. <<b, z>> = Append(<<b>>, z)
    OBVIOUS
  <2> QED
    BY <1>1, <2>1, <2>2
<1>11. Knows(<<b>>, Known(n, n, n, t)) /\ Knows(<<b, z>>, Known({0}, n, n, t))
  BY <1>8, <1>9, <1>10
<1>12. Prelude(front) = IF front \in {"responses", "messages", "responses search"} THEN <<b, z>>
                        ELSE IF front = "tools" THEN <<b>> ELSE e
  BY <1>1, <1>6 DEF Prelude, MessageStart
<1>13. CASE front \in {"responses", "messages", "responses search"}
  <2>1. Prelude(front) = <<b, z>>
    BY <1>12, <1>13
  <2>2. Knows(Prelude(front), Known({0}, n, n, t))
    BY <1>11, <2>1
  <2> QED
    BY <1>1, <1>5, <1>13, <2>2
<1>14. CASE front \notin {"responses", "messages", "responses search"}
  <2>1. Knows(Prelude(front), Known(n, n, n, t))
    BY <1>5, <1>11, <1>12, <1>14
  <2> QED
    BY <1>1, <1>5, <1>14, <2>1
<1> QED
  BY <1>1, <1>5, <1>13, <1>14

\* A block that was opened is closed.
LEMMA ClosesIfOpen ==
  ASSUME NEW fs, NEW open \in BOOLEAN, NEW t \in Text,
         NEW O, O = IF open THEN {0} ELSE {}, Knows(fs, Known(O, {}, {}, t)),
         NEW a, a = IF open THEN <<Mark("close")>> ELSE <<>>
  PROVE  a \in Seq(FrameSet) /\ Knows(fs \o a, Known(O, O, {}, t))
<1>1. fs \in Seq(FrameSet)
  BY DEF Knows
<1>2. PICK f : f = Mark("close")
  OBVIOUS
<1>3. f \in FrameSet /\ f = Frame("close", 0, <<>>)
  BY <1>2, FrameTypes DEF Mark
<1>4. CASE open
  <2>1. PICK n : n = {}
    OBVIOUS
  <2>2. 0 \in O \ n /\ "error" \notin n /\ n \cup {0} = O
    BY <1>4, <2>1
  <2>3. Knows(Append(fs, f), Known(O, n \cup {0}, n, t))
    BY <1>3, <2>1, <2>2, TextOps, CloseFollows
  <2>4. fs \o <<f>> = Append(fs, f)
    BY <1>1, <1>3, FramesOneByOne
  <2>5. a = <<f>> /\ a \in Seq(FrameSet)
    BY <1>2, <1>3, <1>4
  <2>6. Knows(fs \o a, Known(O, O, n, t))
    BY <2>2, <2>3, <2>4, <2>5
  <2> QED
    BY <2>1, <2>5, <2>6
<1>5. CASE ~open
  <2>1. fs \o <<>> = fs
    BY <1>1, ConcatEmptySeq
  <2> QED
    BY <1>5, <2>1
<1> QED
  BY <1>4, <1>5

LEMMA TwoMarks ==
  \A x, y \in {"begin", "open", "close", "final", "end", "error"} :
    \A fs \in Seq(FrameSet) : fs \o <<Mark(x), Mark(y)>> = Append(Append(fs, Mark(x)), Mark(y))
<1> SUFFICES ASSUME NEW x \in {"begin", "open", "close", "final", "end", "error"},
                    NEW y \in {"begin", "open", "close", "final", "end", "error"}, NEW fs \in Seq(FrameSet)
             PROVE  fs \o <<Mark(x), Mark(y)>> = Append(Append(fs, Mark(x)), Mark(y))
  OBVIOUS
<1>1. PICK a, b : a = Mark(x) /\ b = Mark(y)
  OBVIOUS
<1>2. a \in FrameSet /\ b \in FrameSet
  BY <1>1, FrameTypes
<1>3. PICK p : p = <<a, b>>
  OBVIOUS
<1>4. fs \o p = Append(Append(fs, a), b)
  BY <1>2, <1>3, TwoFrames
<1> QED
  BY <1>1, <1>3, <1>4

\* The last two frames of an answer.
LEMMA FinalAndEnd ==
  ASSUME NEW fs, NEW o, NEW c, NEW m, NEW t \in Text, Knows(fs, Known(o, c, m, t)),
         front \in {"chat", "chat search"} \/ o = c, m \subseteq {"full"}
  PROVE  Knows(fs \o <<Mark("final"), Mark("end")>>, Known(o, c, m \cup {"final", "end"}, t))
<1>1. PICK l : l = m \cup {"final"}
  OBVIOUS
<1>2. "error" \notin m /\ "final" \notin m
  OBVIOUS
<1>3. Knows(Append(fs, Mark("final")), Known(o, c, l, t))
  BY <1>1, <1>2, FinalFollows
<1>4. "error" \notin l /\ "end" \notin l /\ "final" \in l /\ l \cup {"end"} = m \cup {"final", "end"}
  BY <1>1
<1>5. Knows(Append(Append(fs, Mark("final")), Mark("end")), Known(o, c, l \cup {"end"}, t))
  BY <1>3, <1>4, EndFollows
<1>6. fs \o <<Mark("final"), Mark("end")>> = Append(Append(fs, Mark("final")), Mark("end"))
  <2>1. fs \in Seq(FrameSet)
    BY DEF Knows
  <2> QED
    BY <2>1, TwoMarks
<1> QED
  BY <1>4, <1>5, <1>6

\* The end of a stream for a client who offers tools.
LEMMA ToolsEndIs ==
  ASSUME NEW o \in Outs
  PROVE  /\ ToolsEnd(o) \in Seq(FrameSet)
         /\ \A fs : /\ ToolsShown(o) /\ ~OddCalls(o.current)
                    /\ Knows(fs, Known(IF o.open THEN {0} ELSE {}, {}, {}, o.shown))
              => \E A : Knows(fs \o ToolsEnd(o), Known(A, A, {"final", "end"}, o.shown))
<1>1. PICK calls, words, rest, first :
        /\ calls = Calls(o.current) /\ words = WithoutCalls(o.current)
        /\ rest = IF calls > 0 THEN After(words, Len(o.shown)) ELSE <<>>
        /\ first = IF o.open \/ words # <<>> THEN 1 ELSE 0
  OBVIOUS
<1>2. PICK a, b, c, ss, g, d :
        /\ a = IF o.open THEN <<Mark("close")>> ELSE <<>>
        /\ b = IF rest # <<>> /\ ~o.open THEN <<Mark("open")>> ELSE <<>>
        /\ c = IF rest # <<>> THEN <<Frame("piece", 0, rest)>> ELSE <<>>
        /\ ss = [k \in 1..calls |-> <<Frame("open", first + k - 1, <<>>), Frame("piece", first + k - 1, <<>>),
                                      Frame("close", first + k - 1, <<>>)>>]
        /\ g = FlattenSeq(ss) /\ d = <<Mark("final"), Mark("end")>>
  OBVIOUS
<1>3. ToolsEnd(o) = (((a \o b) \o c) \o g) \o d
  BY <1>1, <1>2 DEF ToolsEnd
<1>4. o.current \in Text /\ o.shown \in Text /\ o.open \in BOOLEAN /\ Len(o.shown) \in Nat
  BY DEF Outs, Text
<1>5. calls \in Nat /\ words \in Text
  <2>1. PICK e, h : e = "tool" /\ h = "done"
    OBVIOUS
  <2>2. Enclosed(o.current, e, h) \in Enclosure /\ Without(o.current, e, h) \in Text
    BY <1>4, WithoutType
  <2> QED
    BY <1>1, <2>1, <2>2 DEF Calls, WithoutCalls, Enclosure
<1>6. rest \in Text
  BY <1>1, <1>4, <1>5, AfterIs, TextOps
<1>7. first \in Nat
  BY <1>1
<1>8. a \in Seq(FrameSet) /\ b \in Seq(FrameSet) /\ c \in Seq(FrameSet)
  <2>1. PICK x, y, z : x = Mark("close") /\ y = Mark("open") /\ z = Frame("piece", 0, rest)
    OBVIOUS
  <2>2. x \in FrameSet /\ y \in FrameSet /\ z \in FrameSet
    BY <1>6, <2>1, FrameTypes
  <2>3. a \in {<<x>>, <<>>} /\ b \in {<<y>>, <<>>} /\ c \in {<<z>>, <<>>}
    BY <1>2, <2>1
  <2>4. <<x>> \in Seq(FrameSet) /\ <<y>> \in Seq(FrameSet) /\ <<z>> \in Seq(FrameSet) /\ <<>> \in Seq(FrameSet)
    BY <2>2
  <2> QED
    BY <2>3, <2>4
<1>9. g \in Seq(FrameSet)
  BY <1>2, <1>5, <1>7, BlocksType
<1>10. d \in Seq(FrameSet)
  <2>1. Mark("final") \in FrameSet /\ Mark("end") \in FrameSet
    BY FrameTypes
  <2> QED
    BY <1>2, <2>1
<1>11. ToolsEnd(o) \in Seq(FrameSet)
  BY <1>3, <1>8, <1>9, <1>10, ConcatProperties
<1>12. ASSUME NEW fs, ToolsShown(o), ~OddCalls(o.current),
              Knows(fs, Known(IF o.open THEN {0} ELSE {}, {}, {}, o.shown))
       PROVE  \E A : Knows(fs \o ToolsEnd(o), Known(A, A, {"final", "end"}, o.shown))
  <2>1. /\ Strip(o.shown) = Strip(Before(o.current)) /\ Len(Strip(Before(o.current))) <= Len(o.shown)
        /\ o.open <=> o.shown # <<>>
    BY <1>12, ToolsShownIs DEF ToolsShown
  <2>2. words = Strip(o.shown) /\ Len(words) <= Len(o.shown)
    BY <1>1, <1>4, <1>12, <2>1, BeforeIs
  <2>3. rest = <<>>
    BY <1>1, <1>4, <1>5, <2>2, AfterIs
  <2>4. ~o.open => words = <<>>
    <3>1. SUFFICES ASSUME o.shown = <<>> PROVE words = <<>>
      BY <2>1
    <3>2. AllSpace(o.shown)
      BY <1>4, <3>1, EmptySeq DEF AllSpace
    <3> QED
      BY <1>4, <2>2, <3>2, StripIs
  <2>5. first = IF o.open THEN 1 ELSE 0
    BY <1>1, <1>4, <2>4
  <2>6. b = <<>> /\ c = <<>>
    BY <1>2, <2>3
  <2>7. (a \o b) \o c = a
    BY <1>8, <2>6, ConcatEmptySeq
  <2>8. fs \in Seq(FrameSet)
    BY <1>12 DEF Knows
  <2>9. PICK A : A = 0..(first - 1)
    OBVIOUS
  <2>10. A = IF o.open THEN {0} ELSE {}
    <3>1. CASE o.open
      <4>1. first - 1 = 0 /\ 0..0 = {0}
        BY <2>5, <3>1
      <4> QED
        BY <2>9, <3>1, <4>1
    <3>2. CASE ~o.open
      <4>1. first - 1 = 0 - 1 /\ 0..(0 - 1) = {}
        BY <2>5, <3>2
      <4> QED
        BY <2>9, <3>2, <4>1
    <3> QED
      BY <3>1, <3>2
  <2>11. Knows(fs \o a, Known(A, A, {}, o.shown))
    <3>1. Knows(fs, Known(A, {}, {}, o.shown))
      BY <1>12, <2>10
    <3> QED
      BY <1>2, <1>4, <2>10, <3>1, ClosesIfOpen
  <2>12. PICK x, B : x = fs \o a /\ B = 0..(first + calls - 1)
    OBVIOUS
  <2>13. Knows(x \o g, Known(B, B, {}, o.shown))
    <3>1. Knows(x, Known(0..(first - 1), 0..(first - 1), {}, o.shown))
      BY <2>9, <2>11, <2>12
    <3> QED
      BY <1>2, <1>4, <1>5, <1>7, <2>12, <3>1, BlocksFollow
  <2>14. Knows((x \o g) \o d, Known(B, B, {} \cup {"final", "end"}, o.shown))
    <3>1. {} \subseteq {"full"}
      OBVIOUS
    <3> QED
      BY <1>2, <1>4, <2>13, <3>1, FinalAndEnd
  <2>15. (x \o g) \o d = fs \o ToolsEnd(o)
    <3>1. x \in Seq(FrameSet) /\ a \o g \in Seq(FrameSet)
      BY <1>8, <1>9, <2>8, <2>12, ConcatProperties
    <3>2. x \o g = fs \o (a \o g)
      BY <1>8, <1>9, <2>8, <2>12, FramesAssociate
    <3>3. (fs \o (a \o g)) \o d = fs \o ((a \o g) \o d)
      BY <1>10, <2>8, <3>1, FramesAssociate
    <3> QED
      BY <1>3, <2>7, <3>2, <3>3
  <2>16. {} \cup {"final", "end"} = {"final", "end"}
    OBVIOUS
  <2> QED
    BY <2>14, <2>15, <2>16
<1> QED
  BY <1>11, <1>12

\* What a client of a stream was shown.
ShownOf(o) == IF front = "tools" THEN o.shown ELSE o.current

LEMMA LastOfChat ==
  ASSUME NEW o \in Outs, front = "chat"
  PROVE  /\ LastFrames(o) \in Seq(FrameSet)
         /\ \A fs : Knows(fs, Known(IF o.open THEN {0} ELSE {}, {}, {}, o.current))
              => Knows(fs \o LastFrames(o), Known({0}, {}, {"final", "end"}, o.current))
<1>1. PICK a, d, n, e : /\ a = IF o.open THEN <<>> ELSE <<Mark("open")>>
                        /\ d = <<Mark("final"), Mark("end")>> /\ n = {} /\ e = <<>>
  OBVIOUS
<1>2. LastFrames(o) = a \o d
  <2>1. LastFrames(o) = (IF o.open THEN <<>> ELSE <<Mark("open")>>) \o <<Mark("final"), Mark("end")>>
    BY DEF LastFrames
  <2> QED
    BY <1>1, <2>1
<1>3. PICK f : f = Mark("open")
  OBVIOUS
<1>4. f \in FrameSet /\ f = Frame("open", 0, e) /\ Mark("final") \in FrameSet /\ Mark("end") \in FrameSet
  BY <1>1, <1>3, FrameTypes DEF Mark
<1>5. e \in Text /\ o.current \in Text /\ o.current \o e = o.current /\ o.open \in BOOLEAN
  BY <1>1, TextOps, TextEmpty DEF Outs
<1>6. a \in Seq(FrameSet) /\ d \in Seq(FrameSet)
  <2>1. a \in {e, <<f>>} /\ e \in Seq(FrameSet) /\ <<f>> \in Seq(FrameSet)
    BY <1>1, <1>3, <1>4
  <2>2. d \in Seq(FrameSet)
    BY <1>1, <1>4
  <2> QED
    BY <2>1, <2>2
<1>7. LastFrames(o) \in Seq(FrameSet)
  BY <1>2, <1>6, ConcatProperties
<1>8. ASSUME NEW fs, Knows(fs, Known(IF o.open THEN {0} ELSE {}, {}, {}, o.current))
      PROVE  Knows(fs \o LastFrames(o), Known({0}, {}, {"final", "end"}, o.current))
  <2>1. fs \in Seq(FrameSet)
    BY <1>8 DEF Knows
  <2>2. Knows(fs \o a, Known({0}, n, n, o.current))
    <3>1. CASE o.open
      <4>1. fs \o a = fs
        BY <1>1, <2>1, <3>1, ConcatEmptySeq
      <4> QED
        BY <1>1, <1>8, <3>1, <4>1
    <3>2. CASE ~o.open
      <4>1. fs \o <<f>> = Append(fs, f)
        BY <1>4, <2>1, FramesOneByOne
      <4>2. 0 \notin n /\ Cardinality(n) = 0 /\ "error" \notin n /\ "full" \notin n /\ n \cup {0} = {0}
        BY <1>1, FS_EmptySet
      <4>3. Knows(fs, Known(n, n, n, o.current))
        BY <1>1, <1>8, <3>2
      <4>4. Knows(Append(fs, Frame("open", 0, e)), Known(n \cup {0}, n, n, o.current \o e))
        <5>1. PICK t \in Text : t = o.current
          BY <1>5
        <5>2. Knows(fs, Known(n, n, n, t))
          BY <4>3, <5>1
        <5>3. Knows(Append(fs, Frame("open", 0, e)), Known(n \cup {0}, n, n, t \o e))
          BY <1>5, <4>2, <5>2, OpenFollows
        <5> QED
          BY <5>1, <5>3
      <4>5. a = <<f>>
        BY <1>1, <1>3, <3>2
      <4>6. Knows(Append(fs, f), Known({0}, n, n, o.current))
        BY <1>4, <1>5, <4>2, <4>4
      <4> QED
        BY <4>1, <4>5, <4>6
    <3> QED
      BY <1>5, <3>1, <3>2
  <2>3. n \subseteq {"full"} /\ n \cup {"final", "end"} = {"final", "end"}
    BY <1>1
  <2>4. Knows((fs \o a) \o d, Known({0}, n, n \cup {"final", "end"}, o.current))
    <3>1. front \in {"chat", "chat search"}
      OBVIOUS
    <3>2. PICK x : x = fs \o a
      OBVIOUS
    <3>3. Knows(x \o <<Mark("final"), Mark("end")>>, Known({0}, n, n \cup {"final", "end"}, o.current))
      BY <1>5, <2>2, <2>3, <3>1, <3>2, FinalAndEnd
    <3> QED
      BY <1>1, <3>2, <3>3
  <2>5. (fs \o a) \o d = fs \o (a \o d)
    BY <1>6, <2>1, FramesAssociate
  <2> QED
    BY <1>1, <1>2, <2>3, <2>4, <2>5
<1> QED
  BY <1>7, <1>8

LEMMA LastOfResponses ==
  ASSUME NEW o \in Outs, front = "responses"
  PROVE  /\ LastFrames(o) \in Seq(FrameSet)
         /\ \A fs : Knows(fs, Known({0}, {}, {}, o.current))
              => Knows(fs \o LastFrames(o), Known({0}, {0}, {"full", "final", "end"}, o.current))
<1>1. PICK a, b, c, d : /\ a = Frame("full", 0, o.current) /\ b = Mark("close")
                        /\ c = Mark("final") /\ d = Mark("end")
  OBVIOUS
<1>2. LastFrames(o) = <<a, b, c, d>>
  BY <1>1 DEF LastFrames
<1>3. o.current \in Text
  BY DEF Outs
<1>4. a \in FrameSet /\ b \in FrameSet /\ c \in FrameSet /\ d \in FrameSet
  BY <1>1, <1>3, FrameTypes
<1>5. b = Frame("close", 0, <<>>) /\ <<>> \in Text
  BY <1>1, TextOps DEF Mark
<1>6. ASSUME NEW fs, Knows(fs, Known({0}, {}, {}, o.current))
      PROVE  Knows(fs \o LastFrames(o), Known({0}, {0}, {"full", "final", "end"}, o.current))
  <2>1. fs \in Seq(FrameSet)
    BY <1>6 DEF Knows
  <2>2. PICK n, z, m : n = {} /\ z = {0} /\ m = n \cup {"full"}
    OBVIOUS
  <2>3. 0 \in z \ n /\ n \cup {0} = z /\ "error" \notin n
    BY <2>2
  <2>4. Knows(Append(fs, a), Known(z, n, m, o.current))
    BY <1>1, <1>3, <1>6, <2>2, <2>3, FullFollows
  <2>5. "error" \notin m /\ m \subseteq {"full"} /\ m \cup {"final", "end"} = {"full", "final", "end"}
    BY <2>2
  <2>6. Knows(Append(Append(fs, a), b), Known(z, n \cup {0}, m, o.current))
    BY <1>3, <1>5, <2>3, <2>4, <2>5, CloseFollows
  <2>7. PICK x : x = Append(Append(fs, a), b)
    OBVIOUS
  <2>8. Knows(x, Known(z, z, m, o.current))
    BY <2>3, <2>6, <2>7
  <2>9. Knows(x \o <<Mark("final"), Mark("end")>>, Known(z, z, m \cup {"final", "end"}, o.current))
    BY <1>3, <2>5, <2>8, FinalAndEnd
  <2>10. x \o <<Mark("final"), Mark("end")>> = Append(Append(x, c), d)
    <3>1. x \in Seq(FrameSet)
      BY <2>8 DEF Knows
    <3> QED
      BY <1>1, <3>1, TwoMarks
  <2>11. fs \o <<a, b, c, d>> = Append(Append(Append(Append(fs, a), b), c), d)
    BY <1>4, <2>1, FramesOneByOne
  <2> QED
    BY <1>2, <2>2, <2>5, <2>7, <2>9, <2>10, <2>11
<1>7. LastFrames(o) \in Seq(FrameSet)
  BY <1>2, <1>4
<1> QED
  BY <1>6, <1>7

LEMMA LastOfMessages ==
  ASSUME NEW o \in Outs, front = "messages"
  PROVE  /\ LastFrames(o) \in Seq(FrameSet)
         /\ \A fs : Knows(fs, Known({0}, {}, {}, o.current))
              => Knows(fs \o LastFrames(o), Known({0}, {0}, {"final", "end"}, o.current))
<1>1. PICK b, c, d : b = Mark("close") /\ c = Mark("final") /\ d = Mark("end")
  OBVIOUS
<1>2. LastFrames(o) = <<b, c, d>>
  BY <1>1 DEF LastFrames
<1>3. o.current \in Text
  BY DEF Outs
<1>4. b \in FrameSet /\ c \in FrameSet /\ d \in FrameSet
  BY <1>1, FrameTypes
<1>5. b = Frame("close", 0, <<>>) /\ <<>> \in Text
  BY <1>1, TextOps DEF Mark
<1>6. ASSUME NEW fs, Knows(fs, Known({0}, {}, {}, o.current))
      PROVE  Knows(fs \o LastFrames(o), Known({0}, {0}, {"final", "end"}, o.current))
  <2>1. fs \in Seq(FrameSet)
    BY <1>6 DEF Knows
  <2>2. PICK n, z : n = {} /\ z = {0}
    OBVIOUS
  <2>3. 0 \in z \ n /\ n \cup {0} = z /\ "error" \notin n
    BY <2>2
  <2>4. n \subseteq {"full"} /\ n \cup {"final", "end"} = {"final", "end"}
    BY <2>2
  <2>5. Knows(Append(fs, b), Known(z, n \cup {0}, n, o.current))
    BY <1>3, <1>5, <1>6, <2>2, <2>3, CloseFollows
  <2>6. PICK x : x = Append(fs, b)
    OBVIOUS
  <2>7. Knows(x, Known(z, z, n, o.current))
    BY <2>3, <2>5, <2>6
  <2>8. Knows(x \o <<Mark("final"), Mark("end")>>, Known(z, z, n \cup {"final", "end"}, o.current))
    BY <1>3, <2>4, <2>7, FinalAndEnd
  <2>9. x \o <<Mark("final"), Mark("end")>> = Append(Append(x, c), d)
    <3>1. x \in Seq(FrameSet)
      BY <2>7 DEF Knows
    <3> QED
      BY <1>1, <3>1, TwoMarks
  <2>10. fs \o <<b, c, d>> = Append(Append(Append(fs, b), c), d)
    BY <1>4, <2>1, FramesOneByOne
  <2> QED
    BY <1>2, <2>2, <2>4, <2>6, <2>8, <2>9, <2>10
<1>7. LastFrames(o) \in Seq(FrameSet)
  BY <1>2, <1>4
<1> QED
  BY <1>6, <1>7

\* The end of an answer, for the clients of each front end.
LEMMA LastFramesAre ==
  ASSUME NEW o \in Outs, front \in Messages \cup {"chat", "responses"},
         front \in {"responses", "messages"} => o.open
  PROVE  /\ LastFrames(o) \in Seq(FrameSet)
         /\ \A fs : /\ Knows(fs, Known(IF o.open THEN {0} ELSE {}, {}, {}, ShownOf(o)))
                    /\ front = "tools" => ToolsShown(o) /\ ~OddCalls(o.current)
              => \E A, B, m : /\ Knows(fs \o LastFrames(o), Known(A, B, m, ShownOf(o)))
                              /\ "final" \in m /\ "end" \in m
<1>1. PICK m, l : m = {"final", "end"} /\ l = {"full", "final", "end"}
  OBVIOUS
<1>2. "final" \in m /\ "end" \in m /\ "final" \in l /\ "end" \in l
  BY <1>1
<1>3. CASE front = "chat"
  BY <1>1, <1>2, <1>3, LastOfChat DEF ShownOf
<1>4. CASE front = "responses"
  BY <1>1, <1>2, <1>4, LastOfResponses DEF ShownOf
<1>5. CASE front = "messages"
  BY <1>1, <1>2, <1>5, LastOfMessages DEF ShownOf
<1>6. CASE front = "tools"
  <2>1. LastFrames(o) = ToolsEnd(o) /\ ShownOf(o) = o.shown
    BY <1>6 DEF LastFrames, ShownOf
  <2> QED
    BY <1>1, <1>2, <1>6, <2>1, ToolsEndIs
<1> QED
  BY <1>3, <1>4, <1>5, <1>6 DEF Messages

\* A stream that breaks off.
LEMMA ErrorFramesAre ==
  ASSUME NEW open \in BOOLEAN, NEW t \in Text,
         Knows(frames, Known(IF open THEN {0} ELSE {}, {}, {}, t))
  PROVE  /\ ErrorFrames \in Seq(FrameSet)
         /\ \E A, B, m : Knows(frames \o ErrorFrames, Known(A, B, m, t)) /\ "final" \notin m
<1>1. PICK O, n, a, x, y : /\ O = IF open THEN {0} ELSE {}
                           /\ n = {}
                           /\ a = IF open THEN <<Mark("close")>> ELSE <<>>
                           /\ x = Mark("end") /\ y = Mark("error")
  OBVIOUS
<1>2. frames \in Seq(FrameSet) /\ Opened(frames) = O /\ Closed(frames) = n
  BY <1>1 DEF Knows, Known
<1>3. x \in FrameSet /\ y \in FrameSet
  BY <1>1, FrameTypes
<1>4. Knows(frames, Known(O, n, n, t))
  BY <1>1
<1>5. a \in Seq(FrameSet) /\ Knows(frames \o a, Known(O, O, n, t))
  BY <1>1, <1>4, ClosesIfOpen
<1>6. "final" \notin n /\ "error" \notin n /\ "end" \notin n
  BY <1>1
<1>7. CASE front \in Messages
  <2>1. O # n <=> open
    BY <1>1
  <2>2. ErrorFrames = (IF Opened(frames) # Closed(frames) THEN <<Mark("close")>> ELSE <<>>)
                      \o <<Mark("end"), Mark("error")>>
    BY <1>7 DEF ErrorFrames
  <2>3. ErrorFrames = a \o <<x, y>>
    BY <1>1, <1>2, <2>1, <2>2
  <2>4. <<x, y>> \in Seq(FrameSet)
    BY <1>3
  <2>5. PICK f, m, l : f = frames \o a /\ m = n \cup {"end"} /\ l = m \cup {"error"}
    OBVIOUS
  <2>6. Knows(Append(f, x), Known(O, O, m, t))
    BY <1>1, <1>5, <1>6, <1>7, <2>5, EndFollows
  <2>7. "error" \notin m /\ "final" \notin m /\ "end" \in m /\ "final" \notin l
    BY <1>6, <2>5
  <2>8. Knows(Append(Append(f, x), y), Known(O, O, l, t))
    BY <1>1, <1>7, <2>5, <2>6, <2>7, ErrorFollows
  <2>9. frames \o ErrorFrames = Append(Append(f, x), y)
    <3>1. f \in Seq(FrameSet) /\ (frames \o a) \o <<x, y>> = frames \o (a \o <<x, y>>)
      BY <1>2, <1>5, <2>4, <2>5, FramesAssociate, ConcatProperties
    <3>2. f \o <<x, y>> = Append(Append(f, x), y)
      BY <1>1, <3>1, TwoMarks
    <3> QED
      BY <2>3, <2>5, <3>1, <3>2
  <2>10. ErrorFrames \in Seq(FrameSet)
    BY <1>5, <2>3, <2>4, ConcatProperties
  <2> QED
    BY <2>7, <2>8, <2>9, <2>10
<1>8. CASE front \notin Messages
  <2>1. ErrorFrames = <<y>>
    BY <1>1, <1>8 DEF ErrorFrames
  <2>2. PICK m : m = n \cup {"error"}
    OBVIOUS
  <2>3. Knows(Append(frames, y), Known(O, n, m, t)) /\ "final" \notin m
    BY <1>1, <1>4, <1>6, <1>8, <2>2, ErrorFollows
  <2>4. frames \o <<y>> = Append(frames, y)
    BY <1>2, <1>3, FramesOneByOne
  <2>5. <<y>> \in Seq(FrameSet)
    BY <1>3
  <2> QED
    BY <2>1, <2>3, <2>4, <2>5
<1> QED
  BY <1>7, <1>8

\* The answer of a search.
SearchBlocks == IF front = "responses search" THEN {0} ELSE {}

LEMMA SearchedFramesAre ==
  ASSUME front \in Searches, NEW t \in Text, NEW fs,
         Knows(fs, Known(SearchBlocks, {}, {}, <<>>))
  PROVE  \E A, B, m : Knows(fs \o SearchedFrames(t), Known(A, B, m, t)) /\ "final" \in m /\ "end" \in m
<1>1. PICK n, e, m, l : /\ n = {} /\ e = <<>>
                        /\ m = {"final", "end"} /\ l = {"full", "final", "end"}
  OBVIOUS
<1>2. e \in Text /\ e \o t = t /\ t \o e = t /\ t \in Text
  BY <1>1, TextOps, TextEmpty
<1>3. fs \in Seq(FrameSet)
  BY DEF Knows
<1>4. "error" \notin n /\ "full" \notin n /\ n \subseteq {"full"} /\ n \cup m = m
  BY <1>1
<1>7. "final" \in m /\ "end" \in m /\ "final" \in l /\ "end" \in l
  BY <1>1
<1>5. CASE front = "chat search"
  <2>1. PICK a : a = Frame("open", 0, t)
    OBVIOUS
  <2>2. a \in FrameSet
    BY <2>1, FrameTypes
  <2>3. 0 \notin n /\ Cardinality(n) = 0 /\ n \cup {0} = {0}
    BY <1>1, FS_EmptySet
  <2>4. Knows(fs, Known(n, n, n, e))
    BY <1>1, <1>5 DEF SearchBlocks
  <2>5. Knows(Append(fs, a), Known(n \cup {0}, n, n, e \o t))
    <3>1. Knows(Append(fs, Frame("open", 0, t)), Known(n \cup {0}, n, n, e \o t))
      <4>1. 0 \notin n /\ Cardinality(n) = 0 /\ "error" \notin n /\ "full" \notin n
        BY <1>4, <2>3
      <4>2. e \in Text /\ t \in Text
        BY <1>2
      <4> QED
        BY <2>4, <4>1, <4>2, OpenFollows
    <3> QED
      BY <2>1, <3>1
  <2>6. PICK x : x = Append(fs, a)
    OBVIOUS
  <2>7. Knows(x, Known({0}, n, n, t))
    BY <1>2, <2>3, <2>5, <2>6
  <2>8. Knows(x \o <<Mark("final"), Mark("end")>>, Known({0}, n, n \cup {"final", "end"}, t))
    BY <1>2, <1>4, <1>5, <2>7, FinalAndEnd
  <2>9. x \o <<Mark("final"), Mark("end")>> = Append(Append(x, Mark("final")), Mark("end"))
    <3>1. x \in Seq(FrameSet)
      BY <2>7 DEF Knows
    <3> QED
      BY <3>1, TwoMarks
  <2>10. fs \o <<a, Mark("final"), Mark("end")>> = Append(Append(Append(fs, a), Mark("final")), Mark("end"))
    <3>1. PICK q, r : q = Mark("final") /\ r = Mark("end")
      OBVIOUS
    <3>2. q \in FrameSet /\ r \in FrameSet
      BY <3>1, FrameTypes
    <3>3. fs \o <<a, q, r>> = Append(Append(Append(fs, a), q), r)
      BY <1>3, <2>2, <3>2, FramesOneByOne
    <3> QED
      BY <3>1, <3>3
  <2>11. SearchedFrames(t) = <<a, Mark("final"), Mark("end")>>
    BY <1>5, <2>1 DEF SearchedFrames
  <2>12. Knows(fs \o SearchedFrames(t), Known({0}, n, m, t))
    BY <1>1, <1>4, <2>6, <2>8, <2>9, <2>10, <2>11
  <2> QED
    BY <1>7, <2>12
<1>6. CASE front = "responses search"
  <2>1. PICK a, b, c, d, g : /\ a = Mark("close") /\ b = Frame("open", 1, e) /\ c = Frame("piece", 1, t)
                             /\ d = Frame("full", 1, t) /\ g = Frame("close", 1, e)
    OBVIOUS
  <2>2. PICK z, o : z = {0} /\ o = {0, 1}
    OBVIOUS
  <2>3. a \in FrameSet /\ b \in FrameSet /\ c \in FrameSet /\ d \in FrameSet /\ g \in FrameSet
    BY <1>2, <2>1, FrameTypes
  <2>24. a = Frame("close", 0, e)
    BY <1>1, <2>1 DEF Mark
  <2>4. /\ 0 \in z \ n /\ n \cup {0} = z /\ 1 \notin z /\ Cardinality(z) = 1 /\ z \cup {1} = o
        /\ 1 \in o \ z
    <3>1. 0 \in z \ n /\ n \cup {0} = z
      BY <1>1, <2>2
    <3>2. 1 \notin z /\ z \cup {1} = o /\ 1 \in o \ z
      BY <2>2
    <3>3. Cardinality(z) = 1
      BY <2>2, FS_Singleton
    <3> QED
      BY <3>1, <3>2, <3>3
  <2>5. Knows(fs, Known(z, n, n, e))
    BY <1>1, <1>6, <2>2 DEF SearchBlocks
  <2>6. Knows(Append(fs, a), Known(z, n \cup {0}, n, e))
    BY <1>2, <1>4, <2>4, <2>5, <2>24, CloseFollows
  <2>7. PICK f2 : f2 = Append(Append(fs, a), b)
    OBVIOUS
  <2>8. Knows(f2, Known(o, z, n, e))
    <3>1. Knows(Append(fs, a), Known(z, z, n, e))
      BY <2>4, <2>6
    <3>2. PICK x : x = Append(fs, a)
      OBVIOUS
    <3>3. e \o e = e
      BY <1>2, TextEmpty, <1>1
    <3>4. Knows(Append(x, Frame("open", 1, e)), Known(z \cup {1}, z, n, e \o e))
      BY <1>2, <1>4, <2>4, <3>1, <3>2, OpenFollows
    <3> QED
      BY <2>1, <2>4, <2>7, <3>2, <3>3, <3>4
  <2>9. PICK p, h : /\ p = IF t = <<>> THEN <<>> ELSE <<c>>
                    /\ h = f2 \o p
    OBVIOUS
  <2>10. p \in Seq(FrameSet) /\ f2 \in Seq(FrameSet)
    <3>1. c \in FrameSet
      BY <2>3
    <3>2. <<>> \in Seq(FrameSet) /\ <<c>> \in Seq(FrameSet)
      BY <3>1
    <3>3. f2 \in Seq(FrameSet)
      BY <2>8 DEF Knows
    <3>4. p = <<>> \/ p = <<c>>
      BY <2>9
    <3> QED
      BY <3>2, <3>3, <3>4
  <2>11. Knows(h, Known(o, z, n, t))
    <3>1. CASE t = <<>>
      <4>1. h = f2
        BY <2>9, <2>10, <3>1, ConcatEmptySeq
      <4> QED
        BY <1>1, <2>8, <3>1, <4>1
    <3>2. CASE t # <<>>
      <4>1. p = <<c>> /\ f2 \o <<c>> = Append(f2, c)
        BY <2>3, <2>9, <2>10, <3>2, FramesOneByOne
      <4>2. Knows(Append(f2, Frame("piece", 1, t)), Known(o, z, n, e \o t))
        BY <1>2, <1>4, <2>4, <2>8, PieceFollows
      <4> QED
        BY <1>2, <2>1, <2>9, <4>1, <4>2
    <3> QED
      BY <3>1, <3>2
  <2>12. PICK k : k = n \cup {"full"}
    OBVIOUS
  <2>13. "error" \notin k /\ k \subseteq {"full"} /\ k \cup {"final", "end"} = l
    BY <1>1, <2>12
  <2>14. Knows(Append(h, d), Known(o, z, k, t))
    BY <1>2, <1>4, <2>1, <2>4, <2>11, <2>12, FullFollows
  <2>15. PICK x : x = Append(Append(h, d), g)
    OBVIOUS
  <2>16. Knows(x, Known(o, o, k, t))
    <3>1. Knows(Append(Append(h, d), Frame("close", 1, e)), Known(o, z \cup {1}, k, t))
      BY <1>2, <2>4, <2>13, <2>14, CloseFollows
    <3>2. z \cup {1} = o
      BY <2>4
    <3> QED
      BY <2>1, <2>15, <3>1, <3>2
  <2>17. Knows(x \o <<Mark("final"), Mark("end")>>, Known(o, o, k \cup {"final", "end"}, t))
    BY <1>2, <2>13, <2>16, FinalAndEnd
  <2>18. PICK q, r : q = Mark("final") /\ r = Mark("end")
    OBVIOUS
  <2>19. q \in FrameSet /\ r \in FrameSet
    BY <2>18, FrameTypes
  <2>20. x \o <<q, r>> = h \o <<d, g, q, r>>
    <3>1. x \in Seq(FrameSet) /\ h \in Seq(FrameSet)
      BY <2>11, <2>16 DEF Knows
    <3>2. x \o <<q, r>> = Append(Append(x, q), r)
      BY <2>18, <3>1, TwoMarks
    <3>3. h \o <<d, g, q, r>> = Append(Append(Append(Append(h, d), g), q), r)
      BY <2>3, <2>19, <3>1, FramesOneByOne
    <3> QED
      BY <2>15, <3>2, <3>3
  <2>21. SearchedFrames(t) = (<<a, b>> \o p) \o <<d, g, q, r>>
    <3>1. SearchedFrames(t) = <<Mark("close"), Frame("open", 1, <<>>)>>
                              \o (IF t = <<>> THEN <<>> ELSE <<Frame("piece", 1, t)>>)
                              \o <<Frame("full", 1, t), Frame("close", 1, <<>>), Mark("final"), Mark("end")>>
      BY <1>6 DEF SearchedFrames
    <3> QED
      BY <1>1, <2>1, <2>9, <2>18, <3>1
  <2>22. fs \o SearchedFrames(t) = h \o <<d, g, q, r>>
    <3>1. PICK v, w : v = <<a, b>> /\ w = <<d, g, q, r>>
      OBVIOUS
    <3>2. a \in FrameSet /\ b \in FrameSet /\ d \in FrameSet /\ g \in FrameSet
      BY <2>3
    <3>3. v \in Seq(FrameSet) /\ w \in Seq(FrameSet)
      BY <2>19, <3>1, <3>2
    <3>4. fs \o v = f2
      BY <1>3, <2>7, <3>1, <3>2, TwoFrames
    <3>5. v \o p \in Seq(FrameSet)
      BY <2>10, <3>3, ConcatProperties
    <3>6. fs \o ((v \o p) \o w) = (fs \o (v \o p)) \o w
      BY <1>3, <3>3, <3>5, FramesAssociate
    <3>7. fs \o (v \o p) = (fs \o v) \o p
      BY <1>3, <2>10, <3>3, FramesAssociate
    <3> QED
      BY <2>9, <2>21, <3>1, <3>4, <3>6, <3>7
  <2>23. Knows(fs \o SearchedFrames(t), Known(o, o, l, t))
    BY <2>13, <2>17, <2>18, <2>20, <2>22
  <2> QED
    BY <1>7, <2>23
<1> QED
  BY <1>5, <1>6 DEF Searches

------------------------------------------------------------------------------
\* A request at any time.
TypeOfText ==
  /\ front \in Searches \cup Messages \cup {"chat", "responses"} /\ asStream \in BOOLEAN
  /\ history \in Seq(Text \ {<<>>})
  /\ ttStep \in {"start", "asking", "refused", "reading", "closing", "searching", "raising", "over"}
  /\ parse \in [raw : Text, text : Text, index : Nat, skipped : Text] /\ out \in Outs
  /\ frames \in Seq(FrameSet) /\ whole \in Text /\ ending \in {"none", "complete", "failed"}
  /\ search \in [seen : BOOLEAN, answer : Text, over : BOOLEAN, last : Text, hits : Nat, finished : BOOLEAN]
  /\ replays \in Seq(Text \ {<<>>}) /\ said \in Text /\ plain \in BOOLEAN /\ sent \in Nat

\* Which front ends go which way.
WaysInv ==
  /\ ttStep \in {"asking", "refused", "reading", "closing"} => front \notin Searches
  /\ ttStep = "searching" => front \in Searches
  /\ ttStep = "over" <=> ending # "none"
  /\ ttStep = "start" => out.current = <<>> /\ out.shown = <<>> /\ (out.open <=> front \in {"responses", "messages"})
  /\ front \in {"responses", "messages"} => out.open
  /\ front \in Searches => out.current = <<>> /\ ~out.open

ToolsInv == asStream /\ front = "tools" => ToolsShown(out)

\* What the client of a stream knows: until the answer ends every frame was one that may
\* follow, and its pieces are what was shown.
OpenBlocks == IF out.open \/ front = "responses search" THEN {0} ELSE {}
ClientKnows == Knows(frames, Known(OpenBlocks, {}, {}, ShownOf(out)))
OddTools == front = "tools" /\ OddCalls(out.current)

FramesInv ==
  /\ ~asStream \/ ttStep = "start" => frames = <<>>
  /\ asStream /\ ttStep \notin {"start", "over"} => ClientKnows
  /\ asStream /\ ttStep = "over" /\ ~(ending = "complete" /\ OddTools) =>
       \E A, B, m, t : /\ Knows(frames, Known(A, B, m, t))
                       /\ ending = "complete" => "final" \in m /\ "end" \in m
                       /\ ending = "failed" => "final" \notin m
                       /\ ending = "failed" \/ front \notin Searches => t = ShownOf(out)
  /\ ~asStream /\ ending = "complete" /\ front \notin Searches => whole = WholeAnswer(out)

\* The earlier messages that upstream still repeats are those that are still expected.
ReplaysInv ==
  /\ ttStep \in {"start", "asking", "refused"} =>
       parse = Fresh /\ replays = <<>> /\ said = <<>> /\ sent = 0 /\ plain
  /\ parse.text = Sanitize(parse.raw) /\ parse.index <= Len(history)
  /\ replays # <<>> => sent = 0 /\ parse.index + Len(replays) = Len(history)
  /\ \A k \in 1..Len(replays) : replays[k] = history[parse.index + k]
  /\ front \in Searches => replays = <<>>
  /\ front \notin Searches /\ sent = 0 => parse.raw = <<>> /\ said = <<>>
  /\ ttStep = "reading" /\ sent = 0 /\ parse.index = Len(history) /\ history # <<>> =>
       parse.skipped = history[Len(history)]

\* What was read is what was said, or one message that is the whole history.
Unread == parse.raw = <<>> /\ said # <<>> /\ history = <<said>> /\ parse.skipped = said /\ sent > 0

SaidInv ==
  front \notin Searches /\ plain =>
    /\ parse.raw = said \/ Unread
    /\ ttStep # "closing" /\ ending # "complete" => out.current = parse.text
    /\ ttStep = "closing" \/ ending = "complete" => Sanitize(said) = <<>> \/ out.current = Sanitize(said)

TextInv == TypeOfText /\ WaysInv /\ ToolsInv /\ FramesInv /\ ReplaysInv /\ SaidInv

\* The front end takes what was read.
LEMMA TakeTools ==
  ASSUME TypeOfText, front' = front, ToolsShown(out), ClientKnows, front = "tools",
         NEW delta \in Text, ToolsTake(delta)
  PROVE  /\ out' \in Outs /\ out'.current = out.current \o delta /\ ToolsShown(out)' /\ ClientKnows'
<1>1. PICK current, visible, part :
        current = out.current \o delta /\ visible = Streamable(current) /\ part = ToolsPart(out, delta)
  OBVIOUS
<1>2. PICK a, b : /\ a = IF part # <<>> /\ ~out.open THEN <<Mark("open")>> ELSE <<>>
                  /\ b = IF part # <<>> THEN <<Frame("piece", 0, part)>> ELSE <<>>
  OBVIOUS
<1>3. /\ out' = [current |-> current, shown |-> IF part = <<>> THEN out.shown ELSE visible,
                 open |-> out.open \/ part # <<>>, toolStarted |-> out.toolStarted \/ visible # current]
      /\ frames' = (frames \o a) \o b
  BY <1>1, <1>2 DEF ToolsTake, ToolsPart
<1>4. out \in Outs
  BY DEF TypeOfText
<1>5. out' \in Outs /\ ToolsShown(out') /\ part \in Text /\ out'.shown = out.shown \o part
  <2>1. PICK n : n = ToolsNext(out, delta)
    OBVIOUS
  <2>2. n \in Outs /\ ToolsShown(n) /\ part \in Text /\ n.shown = out.shown \o part
    BY <1>1, <1>4, <2>1, ToolsShownGrows
  <2>3. out' = n
    BY <1>1, <1>3, <2>1 DEF ToolsNext
  <2> QED
    BY <2>2, <2>3
<1>6. out'.open = (out.open \/ part # <<>>)
  BY <1>3
<1>7. PICK n, e, z, s : /\ n = {} /\ e = <<>> /\ z = {0}
                        /\ s = out.shown
  OBVIOUS
<1>8. s \in Text /\ e \in Text /\ s \o e = s /\ out.open \in BOOLEAN /\ frames \in Seq(FrameSet)
  BY <1>4, <1>7, TextOps, TextEmpty DEF TypeOfText, Outs
<1>9. Knows(frames, Known(IF out.open THEN z ELSE n, n, n, s))
  BY <1>7 DEF ClientKnows, OpenBlocks, ShownOf
<1>10. 0 \notin n /\ Cardinality(n) = 0 /\ n \cup {0} = z /\ 0 \in z \ n /\ "error" \notin n /\ "full" \notin n
  <2>1. Cardinality(n) = 0
    BY <1>7, FS_EmptySet
  <2> QED
    BY <1>7, <2>1
<1>11. Knows(frames', Known(IF out'.open THEN z ELSE n, n, n, out'.shown))
  <2>1. CASE part = <<>>
    <3>1. a = <<>> /\ b = <<>> /\ out'.open = out.open
      BY <1>2, <1>6, <1>8, <2>1
    <3>2. frames' = frames
      BY <1>3, <1>8, <3>1, ConcatEmptySeq
    <3>3. out'.shown = s
      BY <1>3, <1>7, <2>1
    <3> QED
      BY <1>9, <3>1, <3>2, <3>3
  <2>2. CASE part # <<>>
    <3>1. PICK f, x, y : f = Mark("open") /\ x = Frame("piece", 0, part) /\ y = frames \o a
      OBVIOUS
    <3>2. f \in FrameSet /\ x \in FrameSet /\ f = Frame("open", 0, e)
      BY <1>5, <1>7, <3>1, FrameTypes DEF Mark
    <3>3. Knows(y, Known(z, n, n, s))
      <4>1. CASE out.open
        <5>1. a = <<>>
          BY <1>2, <4>1
        <5>2. y = frames
          BY <1>8, <3>1, <5>1, ConcatEmptySeq
        <5> QED
          BY <1>9, <4>1, <5>2
      <4>2. CASE ~out.open
        <5>1. a = <<f>>
          BY <1>2, <2>2, <3>1, <4>2
        <5>2. y = Append(frames, f)
          BY <1>8, <3>1, <3>2, <5>1, FramesOneByOne
        <5>3. Knows(frames, Known(n, n, n, s))
          BY <1>9, <4>2
        <5>4. Knows(Append(frames, Frame("open", 0, e)), Known(n \cup {0}, n, n, s \o e))
          <6>1. 0 \notin n /\ Cardinality(n) = 0 /\ "error" \notin n /\ "full" \notin n
            BY <1>10
          <6>2. s \in Text /\ e \in Text
            BY <1>8
          <6> QED
            BY <5>3, <6>1, <6>2, OpenFollows
        <5> QED
          BY <1>8, <1>10, <3>2, <5>2, <5>4
      <4> QED
        BY <1>8, <4>1, <4>2
    <3>4. Knows(Append(y, Frame("piece", 0, part)), Known(z, n, n, s \o part))
      BY <1>5, <1>8, <1>10, <3>3, PieceFollows
    <3>5. frames' = Append(y, x)
      <4>1. b = <<x>> /\ y \in Seq(FrameSet)
        BY <1>2, <2>2, <3>1, <3>3 DEF Knows
      <4> QED
        BY <1>3, <3>1, <3>2, <4>1, FramesOneByOne
    <3>6. out'.open /\ out'.shown = s \o part
      BY <1>5, <1>6, <1>7, <2>2
    <3> QED
      BY <3>1, <3>4, <3>5, <3>6
  <2> QED
    BY <2>1, <2>2
<1>12. Knows(frames', Known(OpenBlocks', {}, {}, ShownOf(out)'))
  BY <1>7, <1>11 DEF OpenBlocks, ShownOf
<1>13. ClientKnows'
  <2>1. PICK fs, s1 : fs = frames' /\ s1 = Known(OpenBlocks', {}, {}, ShownOf(out)')
    OBVIOUS
  <2>2. Knows(fs, s1)'
    BY <1>12, <2>1, KnowsMoves
  <2> QED
    BY <2>1, <2>2 DEF ClientKnows
<1>14. out'.current = out.current \o delta
  BY <1>1, <1>3
<1>15. ToolsShown(out)'
  BY <1>5 DEF ToolsShown
<1> QED
  BY <1>5, <1>13, <1>14, <1>15

LEMMA TakePieces ==
  ASSUME TypeOfText, front' = front, ClientKnows, front \notin Searches \cup {"tools"},
         NEW delta \in Text, PiecesTake(delta)
  PROVE  /\ out' \in Outs /\ out'.current = out.current \o delta /\ out'.open /\ ClientKnows'
<1>1. PICK n, z, s : n = {} /\ z = {0} /\ s = out.current
  OBVIOUS
<1>2. s \in Text /\ out.open \in BOOLEAN /\ frames \in Seq(FrameSet) /\ out \in Outs
  BY <1>1 DEF TypeOfText, Outs
<1>3. out' = [out EXCEPT !.current = @ \o delta, !.open = TRUE]
  BY DEF PiecesTake
<1>4. out' \in Outs /\ out'.current = s \o delta /\ out'.open = TRUE
  <2>1. s \o delta \in Text
    BY <1>2, TextOps
  <2>2. out = [current |-> s, shown |-> out.shown, toolStarted |-> out.toolStarted, open |-> out.open]
        /\ out.shown \in Text /\ out.toolStarted \in BOOLEAN
    BY <1>1, <1>2 DEF Outs
  <2>3. out' = [current |-> s \o delta, shown |-> out.shown, toolStarted |-> out.toolStarted, open |-> TRUE]
    BY <1>1, <1>3, <2>2
  <2> QED
    BY <2>1, <2>2, <2>3 DEF Outs
<1>5. Knows(frames, Known(IF out.open THEN z ELSE n, n, n, s))
  BY <1>1 DEF ClientKnows, OpenBlocks, ShownOf, Searches
<1>6. 0 \notin n /\ Cardinality(n) = 0 /\ n \cup {0} = z /\ 0 \in z \ n /\ "error" \notin n /\ "full" \notin n
  <2>1. Cardinality(n) = 0
    BY <1>1, FS_EmptySet
  <2> QED
    BY <1>1, <2>1
<1>7. frames' = Append(frames, Frame(IF out.open THEN "piece" ELSE "open", 0, delta))
  BY DEF PiecesTake
<1>8. Knows(frames', Known(z, n, n, s \o delta))
  <2>1. CASE out.open
    <3>1. Knows(frames, Known(z, n, n, s))
      BY <1>5, <2>1
    <3>2. Knows(Append(frames, Frame("piece", 0, delta)), Known(z, n, n, s \o delta))
      BY <1>2, <1>6, <3>1, PieceFollows
    <3> QED
      BY <1>7, <2>1, <3>2
  <2>2. CASE ~out.open
    <3>1. Knows(frames, Known(n, n, n, s))
      BY <1>5, <2>2
    <3>2. 0 \notin n /\ Cardinality(n) = 0 /\ "error" \notin n /\ "full" \notin n
      BY <1>6
    <3>3. Knows(Append(frames, Frame("open", 0, delta)), Known(n \cup {0}, n, n, s \o delta))
      BY <1>2, <3>1, <3>2, OpenFollows
    <3> QED
      BY <1>6, <1>7, <2>2, <3>3
  <2> QED
    BY <1>2, <2>1, <2>2
<1>9. Knows(frames', Known(OpenBlocks', {}, {}, ShownOf(out)'))
  BY <1>1, <1>4, <1>8 DEF OpenBlocks, ShownOf
<1>10. ClientKnows'
  <2>1. PICK fs, s1 : fs = frames' /\ s1 = Known(OpenBlocks', {}, {}, ShownOf(out)')
    OBVIOUS
  <2>2. Knows(fs, s1)'
    BY <1>9, <2>1, KnowsMoves
  <2> QED
    BY <2>1, <2>2 DEF ClientKnows
<1> QED
  BY <1>1, <1>4, <1>10

\* What a client knows stays as it is while its front end and its frames do.
LEMMA ClientStill ==
  ASSUME UNCHANGED <<front, out, frames>>, ClientKnows
  PROVE  ClientKnows'
<1>1. PICK fs, s : fs = frames /\ s = Known(OpenBlocks, {}, {}, ShownOf(out))
  OBVIOUS
<1>2. Knows(fs, s)'
  BY <1>1, KnowsMoves DEF ClientKnows
<1>3. OpenBlocks' = OpenBlocks /\ ShownOf(out)' = ShownOf(out)
  BY DEF OpenBlocks, ShownOf
<1> QED
  BY <1>1, <1>2, <1>3 DEF ClientKnows

LEMMA TakeIs ==
  ASSUME TypeOfText, WaysInv, ToolsInv, UNCHANGED <<front, asStream>>, front \notin Searches,
         asStream => ClientKnows, ~asStream => frames = <<>>,
         NEW delta \in Text, Take(delta)
  PROVE  /\ out' \in Outs /\ out'.current = out.current \o delta /\ frames' \in Seq(FrameSet)
         /\ out.open => out'.open
         /\ ToolsInv' /\ (asStream => ClientKnows') /\ (~asStream => frames' = <<>>)
<1>1. out \in Outs /\ frames \in Seq(FrameSet) /\ asStream \in BOOLEAN
  BY DEF TypeOfText
<1>2. CASE delta = <<>>
  <2>1. out' = out /\ frames' = frames
    BY <1>2 DEF Take
  <2>2. out.current \o delta = out.current
    BY <1>1, <1>2, TextEmpty DEF Outs
  <2>3. ToolsInv'
    BY <2>1 DEF ToolsInv, ToolsShown
  <2> QED
    BY <1>1, <2>1, <2>2, <2>3, ClientStill
<1>3. CASE delta # <<>>
  <2>1. \/ ~asStream /\ out' = [out EXCEPT !.current = @ \o delta] /\ UNCHANGED frames
        \/ asStream /\ front = "tools" /\ ToolsTake(delta)
        \/ asStream /\ front # "tools" /\ PiecesTake(delta)
    BY <1>3 DEF Take
  <2>2. CASE ~asStream /\ out' = [out EXCEPT !.current = @ \o delta] /\ UNCHANGED frames
    <3>1. out.current \o delta \in Text
      BY <1>1, TextOps DEF Outs
    <3>2. /\ out = [current |-> out.current, shown |-> out.shown, toolStarted |-> out.toolStarted, open |-> out.open]
          /\ out.shown \in Text /\ out.toolStarted \in BOOLEAN /\ out.open \in BOOLEAN
      BY <1>1 DEF Outs
    <3>3. out' = [current |-> out.current \o delta, shown |-> out.shown, toolStarted |-> out.toolStarted,
                  open |-> out.open]
      BY <2>2, <3>2
    <3>4. out' \in Outs /\ out'.current = out.current \o delta /\ out'.open = out.open
      BY <3>1, <3>2, <3>3 DEF Outs
    <3>5. ToolsInv'
      BY <2>2 DEF ToolsInv
    <3> QED
      BY <1>1, <2>2, <3>4, <3>5
  <2>3. CASE asStream /\ front = "tools" /\ ToolsTake(delta)
    <3>1. ToolsShown(out)
      BY <2>3 DEF ToolsInv
    <3>2. out' \in Outs /\ out'.current = out.current \o delta /\ ToolsShown(out)' /\ ClientKnows'
      BY <2>3, <3>1, TakeTools
    <3>3. out.open => out'.open
      <4>1. out' = ToolsNext(out, delta)
        BY <2>3 DEF ToolsTake, ToolsNext, ToolsPart
      <4> QED
        BY <4>1 DEF ToolsNext
    <3>4. frames' \in Seq(FrameSet)
      BY <3>2 DEF ClientKnows, Knows
    <3>5. ToolsInv'
      BY <3>2 DEF ToolsInv
    <3> QED
      BY <2>3, <3>2, <3>3, <3>4, <3>5
  <2>4. CASE asStream /\ front # "tools" /\ PiecesTake(delta)
    <3>1. out' \in Outs /\ out'.current = out.current \o delta /\ out'.open /\ ClientKnows'
      BY <2>4, TakePieces
    <3>2. frames' \in Seq(FrameSet)
      BY <3>1 DEF ClientKnows, Knows, FrameSet, Text
    <3>3. ToolsInv'
      BY <2>4 DEF ToolsInv
    <3> QED
      BY <2>4, <3>1, <3>2, <3>3
  <2> QED
    BY <2>1, <2>2, <2>3, <2>4
<1> QED
  BY <1>2, <1>3

------------------------------------------------------------------------------
\* The steps that tell the client nothing.
LEMMA FramesStill ==
  ASSUME FramesInv, WaysInv, ToolsInv, UNCHANGED <<front, asStream, out, frames, ending>>,
         ttStep \notin {"start", "over"}, ttStep' \notin {"start", "over"}
  PROVE  FramesInv' /\ ToolsInv'
<1>1. ending = "none"
  BY DEF WaysInv
<1>2. asStream => ClientKnows'
  BY ClientStill DEF FramesInv
<1>3. ~asStream => frames' = <<>>
  BY DEF FramesInv
<1>4. FramesInv'
  BY <1>1, <1>2, <1>3 DEF FramesInv
<1>5. ToolsInv'
  BY DEF ToolsInv, ToolsShown
<1> QED
  BY <1>4, <1>5

LEMMA BreaksKeeps ==
  ASSUME TextInv, Breaks
  PROVE  TextInv'
<1> USE DEF request, accounts, told, upstreamWords
<1>1. /\ TypeOfText /\ WaysInv /\ ToolsInv /\ FramesInv /\ ReplaysInv /\ SaidInv
      /\ ttStep = "reading" /\ ttStep' = "raising"
      /\ UNCHANGED <<front, asStream, history, parse, out, frames, whole, ending, search, replays, said, plain, sent>>
  BY DEF TextInv, Breaks
<1>2. TypeOfText'
  BY <1>1 DEF TypeOfText
<1>3. WaysInv'
  BY <1>1 DEF WaysInv
<1>4. FramesInv' /\ ToolsInv'
  BY <1>1, FramesStill
<1>5. ReplaysInv'
  BY <1>1 DEF ReplaysInv
<1>6. SaidInv'
  BY <1>1 DEF SaidInv, Unread
<1> QED
  BY <1>2, <1>3, <1>4, <1>5, <1>6 DEF TextInv

LEMMA EndsEarlyKeeps ==
  ASSUME TextInv, EndsEarly
  PROVE  TextInv'
<1> USE DEF request, accounts, told, upstreamWords
<1>1. /\ TypeOfText /\ WaysInv /\ ToolsInv /\ FramesInv /\ ReplaysInv /\ SaidInv
      /\ ttStep = "reading" /\ ttStep' = "closing" /\ plain' = (plain /\ replays = <<>> /\ history # <<said>>)
      /\ UNCHANGED <<front, asStream, history, parse, out, frames, whole, ending, search, replays, said, sent>>
  BY DEF TextInv, EndsEarly
<1>2. TypeOfText'
  <2>1. plain' \in BOOLEAN
    BY <1>1
  <2> QED
    BY <1>1, <2>1 DEF TypeOfText
<1>3. WaysInv'
  BY <1>1 DEF WaysInv
<1>4. FramesInv' /\ ToolsInv'
  BY <1>1, FramesStill
<1>5. ReplaysInv'
  BY <1>1 DEF ReplaysInv
<1>6. SaidInv'
  <2>1. SUFFICES ASSUME front' \notin Searches, plain'
                 PROVE  parse'.raw = said' /\ out'.current = Sanitize(said')
    BY <1>1 DEF SaidInv, WaysInv
  <2>2. front \notin Searches /\ plain /\ history # <<said>>
    BY <1>1, <2>1
  <2>3. parse.raw = said /\ out.current = parse.text
    BY <1>1, <2>2 DEF SaidInv, Unread, WaysInv
  <2> QED
    BY <1>1, <2>3 DEF ReplaysInv
<1> QED
  BY <1>2, <1>3, <1>4, <1>5, <1>6 DEF TextInv

LEMMA RecoverKeeps ==
  ASSUME TextInv, Recover
  PROVE  TextInv'
<1> USE DEF request, accounts, told, upstreamWords
<1>1. /\ TypeOfText /\ WaysInv /\ ToolsInv /\ FramesInv /\ ReplaysInv /\ SaidInv
      /\ ttStep = "refused" /\ ttStep' \in {"raising", "asking"}
      /\ UNCHANGED <<front, asStream, history, parse, out, frames, whole, ending, search, replays, said, plain, sent>>
  BY DEF TextInv, Recover
<1>2. TypeOfText'
  BY <1>1 DEF TypeOfText
<1>3. WaysInv'
  BY <1>1 DEF WaysInv
<1>4. FramesInv' /\ ToolsInv'
  BY <1>1, FramesStill
<1>5. ReplaysInv'
  BY <1>1 DEF ReplaysInv
<1>6. SaidInv'
  BY <1>1 DEF SaidInv, Unread
<1> QED
  BY <1>2, <1>3, <1>4, <1>5, <1>6 DEF TextInv

LEMMA OthersRenewKeeps ==
  ASSUME TextInv, NEW a \in TextAccount, OthersRenew(a)
  PROVE  TextInv'
<1> USE DEF request, accounts, told, upstreamWords
<1>1. /\ TypeOfText /\ WaysInv /\ ToolsInv /\ FramesInv /\ ReplaysInv /\ SaidInv
      /\ ttStep = "refused" /\ ttStep' = ttStep
      /\ UNCHANGED <<front, asStream, history, parse, out, frames, whole, ending, search, replays, said, plain, sent>>
  BY DEF TextInv, OthersRenew
<1>2. TypeOfText'
  BY <1>1 DEF TypeOfText
<1>3. WaysInv'
  BY <1>1 DEF WaysInv
<1>4. FramesInv' /\ ToolsInv'
  BY <1>1, FramesStill
<1>5. ReplaysInv'
  BY <1>1 DEF ReplaysInv
<1>6. SaidInv'
  BY <1>1 DEF SaidInv, Unread
<1> QED
  BY <1>2, <1>3, <1>4, <1>5, <1>6 DEF TextInv

LEMMA AskKeeps ==
  ASSUME TextInv, Ask
  PROVE  TextInv'
<1> USE DEF request, accounts, told, upstreamWords
<1>1. /\ TypeOfText /\ WaysInv /\ ToolsInv /\ FramesInv /\ ReplaysInv /\ SaidInv
      /\ ttStep = "asking"
      /\ UNCHANGED <<front, asStream, history, out, frames, whole, ending, search>>
  BY DEF TextInv, Ask
<1>2. parse = Fresh /\ replays = <<>> /\ said = <<>> /\ sent = 0 /\ plain
  BY <1>1 DEF ReplaysInv
<1>3. /\ parse' = Fresh /\ said' = <<>> /\ sent' = 0 /\ plain'
      /\ \/ ttStep' = "reading" /\ replays' \in {<<>>, history}
         \/ ttStep' \in {"raising", "refused"} /\ replays' = <<>>
  BY <1>2 DEF Ask
<1>4. <<>> \in Text /\ <<>> \in Seq(Text \ {<<>>}) /\ Len(<<>>) = 0 /\ Len(history) \in Nat
  <2>1. Len(history) \in Nat
    BY <1>1, LenProperties DEF TypeOfText
  <2> QED
    BY <2>1, TextOps, EmptySeq
<1>5. TypeOfText'
  <2>1. replays' \in Seq(Text \ {<<>>})
    BY <1>1, <1>3, <1>4 DEF TypeOfText
  <2>2. plain' \in BOOLEAN
    BY <1>3 DEF Ask, TypeOfText, TextInv
  <2>3. Fresh \in [raw : Text, text : Text, index : Nat, skipped : Text]
    BY <1>4 DEF Fresh
  <2> QED
    BY <1>1, <1>3, <1>4, <2>1, <2>2, <2>3 DEF TypeOfText
<1>6. WaysInv'
  BY <1>1, <1>3 DEF WaysInv
<1>7. FramesInv' /\ ToolsInv'
  BY <1>1, <1>3, FramesStill
<1>8. parse'.raw = <<>> /\ parse'.text = <<>> /\ parse'.index = 0 /\ parse'.skipped = <<>>
  BY <1>3 DEF Fresh
<1>9. ReplaysInv'
  <2>1. replays' # <<>> => replays' = history' /\ ttStep' = "reading"
    BY <1>1, <1>3
  <2>2. \A k \in 1..Len(replays') : replays'[k] = history'[0 + k]
    <3>1. CASE replays' = <<>>
      BY <1>4, <3>1
    <3>2. CASE replays' = history'
      <4> TAKE k \in 1..Len(replays')
      <4>1. 0 + k = k
        BY <1>1, <1>4, <3>2
      <4> QED
        BY <3>2, <4>1
    <3> QED
      BY <2>1, <3>1, <3>2
  <2>3. 0 <= Len(history') /\ (replays' # <<>> => 0 + Len(replays') = Len(history'))
    BY <1>1, <1>4, <2>1
  <2>4. Len(history') = 0 => history' = <<>>
    BY <1>1, EmptySeq DEF TypeOfText
  <2>5. Sanitize(<<>>) = <<>>
    BY SanitizeIs
  <2>6. front' \notin Searches
    BY <1>1 DEF WaysInv
  <2> QED
    BY <1>3, <1>8, <2>1, <2>2, <2>3, <2>4, <2>5, <2>6 DEF ReplaysInv
<1>10. SaidInv'
  <2>1. ttStep # "closing" /\ ending # "complete"
    BY <1>1 DEF WaysInv
  <2>2. front \notin Searches /\ plain => out.current = parse.text
    BY <1>1, <2>1 DEF SaidInv
  <2>3. front \notin Searches => out.current = <<>>
    BY <1>2, <2>2 DEF Fresh
  <2> QED
    BY <1>1, <1>3, <1>8, <2>1, <2>3 DEF SaidInv
<1> QED
  BY <1>5, <1>6, <1>7, <1>9, <1>10 DEF TextInv

------------------------------------------------------------------------------
\* The steps that begin or end an answer.
LEMMA BeginKeeps ==
  ASSUME TextInv, Begin
  PROVE  TextInv'
<1> USE DEF request, accounts, told, upstreamWords
<1>1. /\ TypeOfText /\ WaysInv /\ ToolsInv /\ FramesInv /\ ReplaysInv /\ SaidInv
      /\ ttStep = "start" /\ frames' = IF asStream THEN Prelude(front) ELSE <<>>
      /\ UNCHANGED <<front, asStream, history, parse, out, whole, ending, search, replays, said, plain, sent>>
  BY DEF TextInv, Begin
<1>2. /\ ttStep' \in {"asking", "raising", "searching"}
      /\ ttStep' = "asking" <=> front \notin Searches
  BY DEF Begin
<1>3. ending = "none" /\ out.current = <<>> /\ out.shown = <<>> /\ (out.open <=> front \in {"responses", "messages"})
  BY <1>1 DEF WaysInv
<1>4. Knows(Prelude(front), Known(OpenBlocks, {}, {}, ShownOf(out)))
  <2>1. ShownOf(out) = <<>>
    BY <1>3 DEF ShownOf
  <2>2. OpenBlocks = IF front \in {"responses", "messages", "responses search"} THEN {0} ELSE {}
    BY <1>3 DEF OpenBlocks
  <2> QED
    BY <2>1, <2>2, PreludeIs
<1>5. asStream => ClientKnows'
  <2>1. SUFFICES ASSUME asStream PROVE ClientKnows'
    OBVIOUS
  <2>2. PICK fs, s : fs = Prelude(front) /\ s = Known(OpenBlocks, {}, {}, ShownOf(out))
    OBVIOUS
  <2>3. Knows(fs, s)'
    BY <1>1, <1>4, <2>2, KnowsMoves
  <2>4. OpenBlocks' = OpenBlocks /\ ShownOf(out)' = ShownOf(out) /\ frames' = fs
    BY <1>1, <2>1, <2>2 DEF OpenBlocks, ShownOf
  <2> QED
    BY <2>2, <2>3, <2>4 DEF ClientKnows
<1>6. frames' \in Seq(FrameSet)
  <2>1. Prelude(front) \in Seq(FrameSet)
    BY <1>4 DEF Knows
  <2>2. <<>> \in Seq(FrameSet)
    OBVIOUS
  <2> QED
    BY <1>1, <2>1, <2>2
<1>7. TypeOfText'
  BY <1>1, <1>2, <1>6 DEF TypeOfText
<1>8. WaysInv'
  BY <1>1, <1>2, <1>3 DEF WaysInv
<1>9. FramesInv' /\ ToolsInv'
  <2>1. ToolsInv'
    BY <1>1 DEF ToolsInv, ToolsShown
  <2>2. asStream' = asStream /\ ttStep' \notin {"start", "over"} /\ ending' = "none"
    BY <1>1, <1>2, <1>3
  <2>3. ~asStream => frames' = <<>>
    BY <1>1
  <2>4. FramesInv'
    BY <1>5, <2>2, <2>3 DEF FramesInv
  <2> QED
    BY <2>1, <2>4
<1>10. ReplaysInv'
  BY <1>1, <1>2 DEF ReplaysInv
<1>11. SaidInv'
  BY <1>1, <1>2, <1>3 DEF SaidInv, Unread
<1> QED
  BY <1>7, <1>8, <1>9, <1>10, <1>11 DEF TextInv

LEMMA WholeType ==
  ASSUME NEW o, o.current \in Text
  PROVE  WholeAnswer(o) \in Text
<1>1. PICK a, b : a = "tool" /\ b = "done"
  OBVIOUS
<1>2. Without(o.current, a, b) \in Text
  BY WithoutType
<1> QED
  BY <1>1, <1>2 DEF WholeAnswer, WithoutCalls

LEMMA CloseKeeps ==
  ASSUME TextInv, Close
  PROVE  TextInv'
<1> USE DEF request, accounts, told, upstreamWords
<1>1. /\ TypeOfText /\ WaysInv /\ ToolsInv /\ FramesInv /\ ReplaysInv /\ SaidInv
      /\ ttStep = "closing" /\ frames' = (IF asStream THEN frames \o LastFrames(out) ELSE <<>>)
      /\ ending' = "complete" /\ ttStep' = "over" /\ whole' = (IF asStream THEN <<>> ELSE WholeAnswer(out))
      /\ UNCHANGED <<front, asStream, history, parse, out, search, replays, said, plain, sent>>
  BY DEF TextInv, Close, Complete
<1>2. front \in Messages \cup {"chat", "responses"} /\ out \in Outs /\ front \notin Searches
  BY <1>1 DEF WaysInv, TypeOfText
<1>3. front \in {"responses", "messages"} => out.open
  BY <1>1 DEF WaysInv
<1>4. LastFrames(out) \in Seq(FrameSet)
  BY <1>2, <1>3, LastFramesAre
<1>5. frames' \in Seq(FrameSet) /\ whole' \in Text
  <2>1. frames \in Seq(FrameSet) /\ frames \o LastFrames(out) \in Seq(FrameSet) /\ <<>> \in Seq(FrameSet)
    BY <1>1, <1>4, ConcatProperties DEF TypeOfText
  <2>2. WholeAnswer(out) \in Text /\ <<>> \in Text
    BY <1>2, WholeType, TextOps DEF Outs
  <2> QED
    BY <1>1, <2>1, <2>2
<1>6. TypeOfText'
  BY <1>1, <1>5 DEF TypeOfText
<1>7. WaysInv'
  BY <1>1 DEF WaysInv
<1>8. ToolsInv'
  BY <1>1 DEF ToolsInv, ToolsShown
<1>9. ASSUME asStream, ~OddTools
      PROVE  \E A, B, m, t : /\ Knows(frames, Known(A, B, m, t))'
                             /\ "final" \in m /\ "end" \in m /\ t = ShownOf(out)
  <2>1. Knows(frames, Known(IF out.open THEN {0} ELSE {}, {}, {}, ShownOf(out)))
    BY <1>1, <1>2, <1>9 DEF FramesInv, ClientKnows, OpenBlocks, Searches
  <2>2. front = "tools" => ToolsShown(out) /\ ~OddCalls(out.current)
    BY <1>1, <1>9 DEF ToolsInv, OddTools
  <2>3. PICK A, B, m : /\ Knows(frames \o LastFrames(out), Known(A, B, m, ShownOf(out)))
                       /\ "final" \in m /\ "end" \in m
    BY <1>2, <1>3, <2>1, <2>2, LastFramesAre
  <2>4. PICK fs, t : fs = frames \o LastFrames(out) /\ t = ShownOf(out)
    OBVIOUS
  <2>5. PICK s : s = Known(A, B, m, t)
    OBVIOUS
  <2>6. Knows(fs, s)'
    BY <1>1, <2>3, <2>4, <2>5, KnowsMoves
  <2>7. frames' = fs
    BY <1>1, <1>9, <2>4
  <2>8. Knows(frames, Known(A, B, m, t))'
    BY <2>5, <2>6, <2>7 DEF Known
  <2> QED
    BY <2>3, <2>4, <2>8
<1>10. FramesInv'
  <2>1. OddTools' <=> OddTools
    BY <1>1 DEF OddTools, OddCalls, WithoutCalls, Without
  <2>2. ShownOf(out)' = ShownOf(out) /\ WholeAnswer(out)' = WholeAnswer(out)
    BY <1>1 DEF ShownOf, WholeAnswer, Messages
  <2>3. asStream' /\ ~OddTools' =>
          \E A, B, m, t : /\ Knows(frames, Known(A, B, m, t))'
                          /\ "final" \in m /\ "end" \in m /\ t = ShownOf(out)'
    BY <1>1, <1>9, <2>1, <2>2
  <2>4. ~asStream' => frames' = <<>> /\ whole' = WholeAnswer(out)'
    BY <1>1, <2>2
  <2> QED
    BY <1>1, <2>3, <2>4 DEF FramesInv
<1>11. ReplaysInv'
  BY <1>1 DEF ReplaysInv
<1>12. SaidInv'
  BY <1>1 DEF SaidInv, Unread
<1> QED
  BY <1>6, <1>7, <1>8, <1>10, <1>11, <1>12 DEF TextInv

LEMMA TextFailsKeeps ==
  ASSUME TextInv, TextFails
  PROVE  TextInv'
<1> USE DEF request, accounts, told, upstreamWords
<1>1. /\ TypeOfText /\ WaysInv /\ ToolsInv /\ FramesInv /\ ReplaysInv /\ SaidInv
      /\ ttStep = "raising" /\ ttStep' = "over" /\ ending' = "failed"
      /\ frames' = (IF frames = <<>> THEN <<>> ELSE frames \o ErrorFrames)
      /\ UNCHANGED <<front, asStream, history, parse, out, whole, search, replays, said, plain, sent>>
  BY DEF TextInv, TextFails
<1>2. ASSUME asStream
      PROVE  /\ frames' \in Seq(FrameSet)
             /\ \E A, B, m, t : Knows(frames, Known(A, B, m, t))' /\ "final" \notin m /\ t = ShownOf(out)
  <2>1. ClientKnows /\ frames \in Seq(FrameSet)
    BY <1>1, <1>2 DEF FramesInv, TypeOfText
  <2>2. PICK open \in BOOLEAN : open <=> out.open \/ front = "responses search"
    OBVIOUS
  <2>3. PICK t : t = ShownOf(out)
    OBVIOUS
  <2>4. t \in Text /\ Knows(frames, Known(IF open THEN {0} ELSE {}, {}, {}, t))
    <3>1. t \in Text
      BY <1>1, <2>3 DEF TypeOfText, Outs, ShownOf
    <3> QED
      BY <2>1, <2>2, <2>3, <3>1 DEF ClientKnows, OpenBlocks
  <2>5. /\ ErrorFrames \in Seq(FrameSet)
        /\ \E A, B, m : Knows(frames \o ErrorFrames, Known(A, B, m, t)) /\ "final" \notin m
    BY <2>4, ErrorFramesAre
  <2>6. PICK fs : fs = frames'
    OBVIOUS
  <2>7. \E A, B, m : Knows(fs, Known(A, B, m, t)) /\ "final" \notin m
    <3>1. CASE frames = <<>>
      <4>1. fs = frames /\ "final" \notin {}
        BY <1>1, <2>6, <3>1
      <4> QED
        BY <2>4, <4>1
    <3>2. CASE frames # <<>>
      BY <1>1, <2>5, <2>6, <3>2
    <3> QED
      BY <3>1, <3>2
  <2>8. PICK A, B, m : Knows(fs, Known(A, B, m, t)) /\ "final" \notin m
    BY <2>7
  <2>9. PICK s : s = Known(A, B, m, t)
    OBVIOUS
  <2>10. Knows(fs, s)'
    BY <1>1, <2>8, <2>9, KnowsMoves
  <2>11. Knows(frames, Known(A, B, m, t))'
    BY <2>6, <2>9, <2>10 DEF Known
  <2>12. frames' \in Seq(FrameSet)
    BY <2>6, <2>8 DEF Knows
  <2> QED
    BY <2>3, <2>8, <2>11, <2>12
<1>3. ~asStream => frames' = <<>>
  BY <1>1 DEF FramesInv
<1>4. frames' \in Seq(FrameSet)
  <2>1. <<>> \in Seq(FrameSet) /\ asStream \in BOOLEAN
    BY <1>1 DEF TypeOfText
  <2> QED
    BY <1>2, <1>3, <2>1
<1>5. TypeOfText'
  BY <1>1, <1>4 DEF TypeOfText
<1>6. WaysInv'
  BY <1>1 DEF WaysInv
<1>7. ToolsInv'
  BY <1>1 DEF ToolsInv, ToolsShown
<1>8. FramesInv'
  <2>1. ShownOf(out)' = ShownOf(out)
    BY <1>1 DEF ShownOf
  <2>2. asStream' => \E A, B, m, t : Knows(frames, Known(A, B, m, t))' /\ "final" \notin m /\ t = ShownOf(out)'
    BY <1>1, <1>2, <2>1
  <2> QED
    BY <1>1, <1>3, <2>2 DEF FramesInv
<1>9. ReplaysInv'
  BY <1>1 DEF ReplaysInv
<1>10. SaidInv'
  BY <1>1 DEF SaidInv, Unread, WaysInv
<1> QED
  BY <1>5, <1>6, <1>7, <1>8, <1>9, <1>10 DEF TextInv

------------------------------------------------------------------------------
\* The search.
SearchState == [seen : BOOLEAN, answer : Text, over : BOOLEAN, last : Text, hits : Nat, finished : BOOLEAN]
Payloads == [kind : {"message"}, text : Text] \cup [kind : {"patch"}, ops : Seq(Operations)]

LEMMA PayloadsAre == Payload \subseteq Payloads
  BY TextAssumption DEF TextAssumption, Payloads, Operations

LEMMA SayingType ==
  ASSUME TypeOfText, NEW p \in Payloads
  PROVE  Saying(p) \in Text
<1>1. CASE p.kind = "patch"
  <2>1. p.ops \in Seq(Operations) /\ said \in Text /\ <<>> \in Text
    BY <1>1, TextOps DEF Payloads, TypeOfText
  <2>2. PICK e : e = <<>>
    OBVIOUS
  <2>3. Patched(said, p.ops, e) \in Text
    BY <2>1, <2>2, PatchedIs
  <2> QED
    BY <1>1, <2>2, <2>3 DEF Saying
<1>2. CASE p.kind = "message"
  BY <1>2 DEF Saying, Payloads, TypeOfText
<1> QED
  BY <1>1, <1>2 DEF Payloads

LEMMA WeighedType ==
  ASSUME NEW s \in SearchState, NEW hits \in Nat
  PROVE  [s EXCEPT !.hits = hits, !.last = s.answer] \in SearchState
<1>1. PICK a : a = [s EXCEPT !.hits = hits]
  OBVIOUS
<1>2. a \in SearchState /\ a.answer = s.answer
  BY <1>1 DEF SearchState
<1>3. s.answer \in Text
  BY DEF SearchState
<1>4. [a EXCEPT !.last = s.answer] \in SearchState
  BY <1>2, <1>3 DEF SearchState
<1>5. [s EXCEPT !.hits = hits, !.last = s.answer] = [a EXCEPT !.last = s.answer]
  BY <1>1
<1> QED
  BY <1>4, <1>5

LEMMA SearchFailsKeeps ==
  ASSUME TextInv, SearchFails
  PROVE  TextInv'
<1> USE DEF request, accounts, told, upstreamWords
<1>1. /\ TypeOfText /\ WaysInv /\ ToolsInv /\ FramesInv /\ ReplaysInv /\ SaidInv
      /\ ttStep = "searching" /\ ttStep' = "raising"
      /\ UNCHANGED <<front, asStream, history, parse, out, frames, whole, ending, search, replays, said, plain, sent>>
  BY DEF TextInv, SearchFails
<1>2. TypeOfText'
  BY <1>1 DEF TypeOfText
<1>3. WaysInv'
  BY <1>1 DEF WaysInv
<1>4. FramesInv' /\ ToolsInv'
  BY <1>1, FramesStill
<1>5. ReplaysInv'
  BY <1>1 DEF ReplaysInv
<1>6. SaidInv'
  BY <1>1 DEF SaidInv, WaysInv
<1> QED
  BY <1>2, <1>3, <1>4, <1>5, <1>6 DEF TextInv

LEMMA SearchGrowsKeeps ==
  ASSUME TextInv, NEW p \in Payload, SearchGrows(p)
  PROVE  TextInv'
<1> USE DEF request, accounts, told, upstreamWords
<1>1. /\ TypeOfText /\ WaysInv /\ ToolsInv /\ FramesInv /\ ReplaysInv /\ SaidInv
      /\ ttStep = "searching" /\ ttStep' = ttStep /\ said' = Saying(p)
      /\ UNCHANGED <<front, asStream, history, parse, out, frames, whole, ending, replays, plain, sent>>
  BY DEF TextInv, SearchGrows
<1>2. TypeOfText'
  <2>1. said' \in Text
    BY <1>1, PayloadsAre, SayingType
  <2>2. search' \in SearchState
    <3>1. PICK f \in BOOLEAN : search' = [search EXCEPT !.finished = f]
      BY DEF SearchGrows
    <3> QED
      BY <1>1, <3>1 DEF TypeOfText, SearchState
  <2> QED
    BY <1>1, <2>1, <2>2 DEF TypeOfText, SearchState
<1>3. WaysInv'
  BY <1>1 DEF WaysInv
<1>4. FramesInv' /\ ToolsInv'
  BY <1>1, FramesStill
<1>5. front \in Searches
  BY <1>1 DEF WaysInv
<1>6. ReplaysInv'
  BY <1>1, <1>5 DEF ReplaysInv
<1>7. SaidInv'
  BY <1>1, <1>5 DEF SaidInv
<1> QED
  BY <1>2, <1>3, <1>4, <1>6, <1>7 DEF TextInv

LEMMA SearchAnswersIs ==
  ASSUME TextInv, ttStep = "searching", UNCHANGED <<front, asStream, out>>,
         NEW s \in SearchState, SearchAnswers(s)
  PROVE  /\ frames' \in Seq(FrameSet) /\ whole' \in Text /\ ending' = "complete" /\ ttStep' = "over"
         /\ FramesInv' /\ ToolsInv'
<1>1. TypeOfText /\ WaysInv /\ ToolsInv /\ FramesInv
  BY DEF TextInv
<1>2. front \in Searches /\ out.current = <<>> /\ ~out.open
  BY <1>1 DEF WaysInv
<1>3. PICK t : t = Sanitize(s.answer)
  OBVIOUS
<1>4. t \in Text
  <2>1. s.answer \in Text
    BY DEF SearchState
  <2> QED
    BY <1>3, <2>1, SanitizeIs
<1>5. PICK o : o = [out EXCEPT !.current = t]
  OBVIOUS
<1>6. o.current = t
  <2>1. out \in Outs
    BY <1>1 DEF TypeOfText
  <2> QED
    BY <1>5, <2>1 DEF Outs
<1>7. /\ frames' = (IF asStream THEN frames \o SearchedFrames(t) ELSE <<>>)
      /\ ending' = "complete" /\ ttStep' = "over" /\ whole' = (IF asStream THEN <<>> ELSE WholeAnswer(o))
  BY <1>3, <1>5 DEF SearchAnswers, Complete
<1>8. whole' \in Text
  BY <1>4, <1>6, <1>7, WholeType, TextOps
<1>9. ASSUME asStream
      PROVE  /\ frames' \in Seq(FrameSet)
             /\ \E A, B, m : Knows(frames, Known(A, B, m, t))' /\ "final" \in m /\ "end" \in m
  <2>1. ClientKnows
    BY <1>1, <1>9 DEF FramesInv
  <2>2. OpenBlocks = SearchBlocks /\ ShownOf(out) = <<>>
    <3>1. front # "tools"
      BY <1>2 DEF Searches
    <3> QED
      BY <1>2, <3>1 DEF OpenBlocks, SearchBlocks, ShownOf
  <2>3. Knows(frames, Known(SearchBlocks, {}, {}, <<>>))
    BY <2>1, <2>2 DEF ClientKnows
  <2>4. PICK fs : fs = frames \o SearchedFrames(t)
    OBVIOUS
  <2>5. PICK A, B, m : Knows(fs, Known(A, B, m, t)) /\ "final" \in m /\ "end" \in m
    BY <1>2, <1>4, <2>3, <2>4, SearchedFramesAre
  <2>6. PICK z : z = Known(A, B, m, t)
    OBVIOUS
  <2>7. Knows(fs, z)'
    BY <2>5, <2>6, KnowsMoves
  <2>8. frames' = fs
    BY <1>7, <1>9, <2>4
  <2>9. Knows(frames, Known(A, B, m, t))'
    BY <2>6, <2>7, <2>8 DEF Known
  <2>10. frames' \in Seq(FrameSet)
    BY <2>5, <2>8 DEF Knows
  <2> QED
    BY <2>5, <2>9, <2>10
<1>10. frames' \in Seq(FrameSet)
  <2>1. <<>> \in Seq(FrameSet) /\ asStream \in BOOLEAN
    BY <1>1 DEF TypeOfText
  <2> QED
    BY <1>7, <1>9, <2>1
<1>11. FramesInv'
  <2>1. front' \in Searches /\ asStream' = asStream
    BY <1>2
  <2>2. ~asStream' => frames' = <<>>
    BY <1>7
  <2>3. asStream' => \E A, B, m, x : Knows(frames, Known(A, B, m, x))' /\ "final" \in m /\ "end" \in m
    BY <1>9
  <2> QED
    BY <1>7, <2>1, <2>2, <2>3 DEF FramesInv
<1>12. ToolsInv'
  BY <1>1 DEF ToolsInv, ToolsShown
<1> QED
  BY <1>7, <1>8, <1>10, <1>11, <1>12

LEMMA LookAtSearchKeeps ==
  ASSUME TextInv, LookAtSearch
  PROVE  TextInv'
<1> USE DEF request, accounts, told, upstreamWords
<1>1. /\ TypeOfText /\ WaysInv /\ ToolsInv /\ FramesInv /\ ReplaysInv /\ SaidInv
      /\ ttStep = "searching" /\ sent' = sent + 1
      /\ UNCHANGED <<front, asStream, history, parse, out, replays, said, plain>>
  BY DEF TextInv, LookAtSearch
<1>2. front \in Searches /\ sent' \in Nat
  BY <1>1 DEF WaysInv, TypeOfText
<1>3. PICK s \in {[search EXCEPT !.seen = TRUE, !.answer = CleanedAnswer(said), !.over = search.finished], search} :
        \/ search' = s /\ SearchAnswers(s)
        \/ /\ \E hits \in {s.hits + 1, 0} : search' = [s EXCEPT !.hits = hits, !.last = s.answer]
           /\ UNCHANGED <<told, ttStep>>
        \/ search' = s /\ UNCHANGED <<told, ttStep>>
  BY DEF LookAtSearch
<1>4. search \in SearchState /\ CleanedAnswer(said) \in Text
  <2>1. PICK a, b : a = "cite" /\ b = "end"
    OBVIOUS
  <2>2. said \in Text
    BY <1>1 DEF TypeOfText
  <2>3. Without(said, a, b) \in Text
    BY <2>2, WithoutType
  <2> QED
    BY <1>1, <2>1, <2>3 DEF TypeOfText, SearchState, CleanedAnswer
<1>5. s \in SearchState
  BY <1>3, <1>4 DEF SearchState
<1>6. ReplaysInv' /\ SaidInv'
  <2>1. ttStep' \in {"searching", "over"}
    BY <1>1, <1>3 DEF SearchAnswers, Complete
  <2>2. ReplaysInv'
    <3>1. replays = <<>>
      BY <1>1, <1>2 DEF ReplaysInv
    <3> QED
      BY <1>1, <1>2, <2>1, <3>1 DEF ReplaysInv
  <2> QED
    BY <1>1, <1>2, <2>2 DEF SaidInv
<1>7. CASE search' = s /\ SearchAnswers(s)
  <2>1. /\ frames' \in Seq(FrameSet) /\ whole' \in Text /\ ending' = "complete" /\ ttStep' = "over"
        /\ FramesInv' /\ ToolsInv'
    BY <1>1, <1>5, <1>7, SearchAnswersIs
  <2>2. TypeOfText'
    BY <1>1, <1>2, <1>5, <1>7, <2>1 DEF TypeOfText, SearchState
  <2>3. WaysInv'
    BY <1>1, <2>1 DEF WaysInv
  <2> QED
    BY <1>6, <2>1, <2>2, <2>3 DEF TextInv
<1>8. CASE search' \in SearchState /\ UNCHANGED <<told, ttStep>>
  <2>1. TypeOfText'
    BY <1>1, <1>2, <1>8 DEF TypeOfText, SearchState
  <2>2. WaysInv'
    BY <1>1, <1>8 DEF WaysInv
  <2>3. FramesInv' /\ ToolsInv'
    BY <1>1, <1>8, FramesStill
  <2> QED
    BY <1>6, <2>1, <2>2, <2>3 DEF TextInv
<1>9. ASSUME NEW hits \in {s.hits + 1, 0} PROVE [s EXCEPT !.hits = hits, !.last = s.answer] \in SearchState
  <2>1. hits \in Nat
    BY <1>5 DEF SearchState
  <2> QED
    BY <1>5, <2>1, WeighedType
<1> QED
  BY <1>3, <1>5, <1>7, <1>8, <1>9

LEMMA SearchTimeUpKeeps ==
  ASSUME TextInv, SearchTimeUp
  PROVE  TextInv'
<1> USE DEF request, accounts, told, upstreamWords
<1>1. /\ TypeOfText /\ WaysInv /\ ToolsInv /\ FramesInv /\ ReplaysInv /\ SaidInv
      /\ ttStep = "searching"
      /\ UNCHANGED <<front, asStream, history, parse, out, search, replays, said, plain, sent>>
      /\ \/ SearchAnswers(search)
         \/ ttStep' = "raising" /\ UNCHANGED told
  BY DEF TextInv, SearchTimeUp
<1>2. front \in Searches
  BY <1>1 DEF WaysInv
<1>3. CASE SearchAnswers(search)
  <2>1. search \in SearchState
    BY <1>1 DEF TypeOfText, SearchState
  <2>2. /\ frames' \in Seq(FrameSet) /\ whole' \in Text /\ ending' = "complete" /\ ttStep' = "over"
        /\ FramesInv' /\ ToolsInv'
    BY <1>1, <1>3, <2>1, SearchAnswersIs
  <2>3. TypeOfText'
    BY <1>1, <2>2 DEF TypeOfText
  <2>4. WaysInv'
    BY <1>1, <2>2 DEF WaysInv
  <2>5. ReplaysInv' /\ SaidInv'
    BY <1>1, <1>2, <2>2 DEF ReplaysInv, SaidInv
  <2> QED
    BY <2>2, <2>3, <2>4, <2>5 DEF TextInv
<1>4. CASE ttStep' = "raising" /\ UNCHANGED told
  <2>1. TypeOfText'
    BY <1>1, <1>4 DEF TypeOfText
  <2>2. WaysInv'
    BY <1>1, <1>4 DEF WaysInv
  <2>3. FramesInv' /\ ToolsInv'
    BY <1>1, <1>4, FramesStill
  <2>4. ReplaysInv' /\ SaidInv'
    BY <1>1, <1>2, <1>4 DEF ReplaysInv, SaidInv
  <2> QED
    BY <2>1, <2>2, <2>3, <2>4 DEF TextInv
<1> QED
  BY <1>1, <1>3, <1>4

------------------------------------------------------------------------------
\* Reading what upstream sends.
LEMMA HistoryIs ==
  ASSUME TypeOfText
  PROVE  /\ HistoryText \in Text /\ (history = <<>> => HistoryText = <<>>)
         /\ \A t \in Text : history = <<t>> => HistoryText = t /\ Len(history) = 1 /\ history[1] = t
<1>1. history \in Seq(Seq(Word))
  BY DEF TypeOfText, Text
<1>2. HistoryText \in Text
  BY <1>1, FlattenType DEF HistoryText, Text
<1>3. history = <<>> => HistoryText = <<>>
  BY FlattenEmpty DEF HistoryText
<1>4. ASSUME NEW t \in Text, history = <<t>>
      PROVE  HistoryText = t /\ Len(history) = 1 /\ history[1] = t
  BY <1>4, FlattenOne DEF HistoryText, Text
<1> QED
  BY <1>2, <1>3, <1>4

LEMMA RawType ==
  ASSUME TypeOfText, NEW p \in Payloads
  PROVE  AssistantRaw(p) \in Text
<1>1. HistoryText \in Text /\ parse.raw \in Text
  BY HistoryIs DEF TypeOfText
<1>2. CASE p.kind = "patch"
  <2>1. p.ops \in Seq(Operations)
    BY <1>2 DEF Payloads
  <2>2. Patched(parse.raw, p.ops, HistoryText) \in Text
    BY <1>1, <2>1, PatchedIs
  <2> QED
    BY <1>2, <2>2 DEF AssistantRaw
<1>3. CASE p.kind = "message"
  <2>1. p.text \in Text
    BY <1>3 DEF Payloads
  <2>2. StripHistory(p.text, HistoryText) \in Text
    BY <1>1, <2>1, StripHistoryIs
  <2> QED
    BY <1>1, <1>3, <2>2 DEF AssistantRaw
<1> QED
  BY <1>2, <1>3 DEF Payloads

\* A payload that is no repetition of an earlier message.
LEMMA ReadIs ==
  ASSUME TextInv, ttStep = "reading", UNCHANGED <<front, asStream, ttStep, ending>>,
         NEW p \in Payloads, ~IsReplay(p), Read(p)
  PROVE  /\ parse' = [raw |-> AssistantRaw(p), text |-> Sanitize(AssistantRaw(p)), index |-> parse.index,
                      skipped |-> IF Sanitize(AssistantRaw(p)) = parse.text THEN parse.skipped ELSE <<>>]
         /\ AssistantRaw(p) \in Text /\ parse' \in [raw : Text, text : Text, index : Nat, skipped : Text]
         /\ out' \in Outs /\ (out.open => out'.open) /\ frames' \in Seq(FrameSet) /\ FramesInv' /\ ToolsInv'
         /\ out.current = parse.text /\ (parse'.text = parse.text \/ IsPrefix(parse.text, parse'.text))
              => out'.current = parse'.text
<1>1. TypeOfText /\ WaysInv /\ ToolsInv /\ FramesInv
  BY DEF TextInv
<1>2. PICK raw, text : raw = AssistantRaw(p) /\ text = Sanitize(raw)
  OBVIOUS
<1>3. raw \in Text /\ text \in Text /\ parse.text \in Text /\ parse.skipped \in Text /\ parse.index \in Nat
      /\ <<>> \in Text /\ out.current \in Text
  BY <1>1, <1>2, RawType, SanitizeIs, TextOps DEF TypeOfText, Outs
<1>4. PICK delta : delta = IF text = parse.text THEN <<>>
                           ELSE IF IsPrefix(parse.text, text) THEN After(text, Len(parse.text)) ELSE text
  OBVIOUS
<1>5. /\ parse' = [raw |-> raw, text |-> text, index |-> parse.index,
                   skipped |-> IF text = parse.text THEN parse.skipped ELSE <<>>]
      /\ Take(delta)
  BY <1>2, <1>4 DEF Read
<1>6. delta \in Text
  <2>1. Len(parse.text) \in Nat
    BY <1>3, LenProperties DEF Text
  <2>2. After(text, Len(parse.text)) \in Text
    BY <1>3, <2>1, AfterIs
  <2> QED
    BY <1>3, <1>4, <2>2
<1>7. front \notin Searches /\ ending = "none"
  BY <1>1 DEF WaysInv
<1>8. (asStream => ClientKnows) /\ (~asStream => frames = <<>>)
  BY <1>1 DEF FramesInv
<1>9. /\ out' \in Outs /\ out'.current = out.current \o delta /\ frames' \in Seq(FrameSet)
      /\ out.open => out'.open
      /\ ToolsInv' /\ (asStream => ClientKnows') /\ (~asStream => frames' = <<>>)
  BY <1>1, <1>5, <1>6, <1>7, <1>8, TakeIs
<1>10. FramesInv'
  BY <1>7, <1>9 DEF FramesInv
<1>11. ASSUME out.current = parse.text, parse'.text = parse.text \/ IsPrefix(parse.text, parse'.text)
       PROVE  out'.current = parse'.text
  <2>1. parse'.text = text
    BY <1>5
  <2>2. CASE text = parse.text
    <3>1. out.current \o delta = out.current
      BY <1>3, <1>4, <2>2, TextEmpty
    <3> QED
      BY <1>9, <1>11, <2>1, <2>2, <3>1
  <2>3. CASE text # parse.text
    <3>1. IsPrefix(parse.text, text) /\ delta = After(text, Len(parse.text))
      BY <1>4, <1>11, <2>1, <2>3
    <3>2. parse.text \o delta = text
      BY <1>3, <3>1, PrefixIs
    <3> QED
      BY <1>9, <1>11, <2>1, <3>2
  <2> QED
    BY <2>2, <2>3
<1>12. parse' \in [raw : Text, text : Text, index : Nat, skipped : Text]
  BY <1>3, <1>5
<1> QED
  BY <1>2, <1>3, <1>5, <1>9, <1>10, <1>11, <1>12

\* What was read of a plain answer, when more is said that is not like the history.
LEMMA HeardIs ==
  ASSUME TypeOfText, ReplaysInv, ttStep = "reading", front \notin Searches, parse.raw = said \/ Unread,
         NEW p \in Payloads, ~IsReplay(p), IsPrefix(said, Saying(p)), ~LikeHistory(p)
  PROVE  \/ AssistantRaw(p) = Saying(p) /\ parse.raw = said
         \/ /\ AssistantRaw(p) = <<>> /\ parse.text = <<>>
            /\ Saying(p) # <<>> /\ history = <<Saying(p)>> /\ parse.skipped = Saying(p)
<1>1. /\ HistoryText \in Text /\ (history = <<>> => HistoryText = <<>>)
      /\ \A t \in Text : history = <<t>> => HistoryText = t /\ Len(history) = 1 /\ history[1] = t
  BY HistoryIs
<1>2. said \in Text /\ sent \in Nat /\ parse.index \in Nat
  BY DEF TypeOfText
<1>3. /\ parse.text = Sanitize(parse.raw) /\ parse.index <= Len(history)
      /\ sent = 0 => parse.raw = <<>>
      /\ sent = 0 /\ parse.index = Len(history) /\ history # <<>> => parse.skipped = history[Len(history)]
  BY DEF ReplaysInv
<1>4. history # <<>> /\ IsPrefix(HistoryText, Saying(p)) =>
        sent = 0 /\ p.kind = "message" /\ history = <<p.text>>
  BY DEF LikeHistory
<1>5. parse.raw = said
  <2>1. SUFFICES ASSUME Unread PROVE FALSE
    OBVIOUS
  <2>2. history = <<said>> /\ sent > 0
    BY <2>1 DEF Unread
  <2>3. HistoryText = said /\ history # <<>>
    BY <1>1, <1>2, <2>2
  <2> QED
    BY <1>2, <1>4, <2>2, <2>3
<1>6. CASE p.kind = "patch"
  <2>1. PICK ops, h, e : ops = p.ops /\ h = HistoryText /\ e = <<>>
    OBVIOUS
  <2>2. ops \in Seq(Operations)
    BY <1>6, <2>1 DEF Payloads
  <2>3. Patched(said, ops, h) = Patched(said, ops, e) \/ (h # <<>> /\ IsPrefix(h, Patched(said, ops, e)))
    BY <1>1, <1>2, <2>1, <2>2, PatchedIs
  <2>4. AssistantRaw(p) = Patched(said, ops, h) /\ Saying(p) = Patched(said, ops, e)
    BY <1>5, <1>6, <2>1 DEF AssistantRaw, Saying
  <2>5. ~(h # <<>> /\ IsPrefix(h, Saying(p)))
    BY <1>1, <1>4, <1>6, <2>1
  <2> QED
    BY <1>5, <2>3, <2>4, <2>5
<1>7. CASE p.kind = "message"
  <2>1. CASE p.text = <<>>
    <3>1. AssistantRaw(p) = parse.raw /\ Saying(p) = said
      BY <1>7, <2>1 DEF AssistantRaw, Saying
    <3> QED
      BY <1>5, <3>1
  <2>2. CASE p.text # <<>>
    <3>1. PICK t, h : t = p.text /\ h = HistoryText
      OBVIOUS
    <3>2. t \in Text /\ h \in Text
      BY <1>1, <1>7, <3>1 DEF Payloads
    <3>3. AssistantRaw(p) = StripHistory(t, h) /\ Saying(p) = t
      BY <1>7, <2>2, <3>1 DEF AssistantRaw, Saying
    <3>4. CASE h = <<>> \/ ~IsPrefix(h, t)
      <4>1. StripHistory(t, h) = t
        BY <3>2, <3>4, StripHistoryIs
      <4> QED
        BY <1>5, <3>3, <4>1
    <3>5. CASE h # <<>> /\ IsPrefix(h, t)
      <4>1. sent = 0 /\ history = <<t>>
        BY <1>1, <1>4, <3>1, <3>3, <3>5
      <4>2. h = t /\ Len(history) = 1 /\ history[1] = t /\ history # <<>>
        BY <1>1, <3>1, <3>2, <3>5, <4>1
      <4>3. StripHistory(t, h) = <<>>
        BY <3>2, <3>5, <4>2, StripHistoryIs
      <4>4. parse.raw = <<>> /\ parse.text = <<>>
        BY <1>3, <4>1, SanitizeIs
      <4>5. parse.index = 1
        <5>1. ~(parse.index < 1 /\ t = history[parse.index + 1])
          BY <1>7, <2>2, <3>1, <4>2, <4>4 DEF IsReplay
        <5>2. parse.index = 0 => history[parse.index + 1] = t
          BY <4>2
        <5> QED
          BY <1>2, <1>3, <4>2, <5>1, <5>2
      <4>6. parse.skipped = t
        BY <1>3, <4>1, <4>2, <4>5
      <4> QED
        BY <2>2, <3>1, <3>3, <4>1, <4>3, <4>4, <4>6
    <3> QED
      BY <3>4, <3>5
  <2> QED
    BY <2>1, <2>2
<1> QED
  BY <1>6, <1>7 DEF Payloads

LEMMA ReplayKeeps ==
  ASSUME TextInv, Replay
  PROVE  TextInv'
<1> USE DEF request, accounts, told, upstreamWords
<1>1. /\ TypeOfText /\ WaysInv /\ ToolsInv /\ FramesInv /\ ReplaysInv /\ SaidInv
      /\ ttStep = "reading" /\ ttStep' = ttStep /\ replays # <<>> /\ replays' = Tail(replays)
      /\ UNCHANGED <<front, asStream, history, whole, ending, search, said, plain, sent>>
  BY DEF TextInv, Replay
<1>2. PICK m, p : m = Head(replays) /\ p = [kind |-> "message", text |-> m]
  OBVIOUS
<1>3. Read(p)
  BY <1>2 DEF Replay
<1>4. /\ Len(replays) \in Nat /\ Len(replays) > 0 /\ m = replays[1] /\ m \in Text \ {<<>>}
      /\ replays' \in Seq(Text \ {<<>>}) /\ Len(replays') = Len(replays) - 1
      /\ \A k \in 1..Len(replays') : replays'[k] = replays[k + 1]
  <2>1. replays \in Seq(Text \ {<<>>}) /\ replays # <<>>
    BY <1>1 DEF TypeOfText
  <2>2. Head(replays) = replays[1] /\ Head(replays) \in Text \ {<<>>} /\ Tail(replays) \in Seq(Text \ {<<>>})
        /\ Len(Tail(replays)) = Len(replays) - 1 /\ \A k \in 1..Len(Tail(replays)) : Tail(replays)[k] = replays[k + 1]
    BY <2>1, HeadTailProperties
  <2>3. Len(replays) \in Nat /\ Len(replays) > 0
    BY <2>1, EmptySeq, LenProperties
  <2> QED
    BY <1>1, <1>2, <2>2, <2>3
<1>5. parse.index \in Nat /\ Len(history) \in Nat /\ out \in Outs /\ frames \in Seq(FrameSet)
  BY <1>1, LenProperties DEF TypeOfText
<1>6. /\ sent = 0 /\ parse.index + Len(replays) = Len(history) /\ parse.raw = <<>> /\ said = <<>>
      /\ parse.text = <<>>
      /\ \A k \in 1..Len(replays) : replays[k] = history[parse.index + k]
  <2>1. front \notin Searches
    BY <1>1 DEF WaysInv
  <2>2. Sanitize(<<>>) = <<>>
    BY SanitizeIs
  <2> QED
    BY <1>1, <2>1, <2>2 DEF ReplaysInv
<1>7. m = history[parse.index + 1] /\ parse.index < Len(history)
  BY <1>4, <1>5, <1>6
<1>8. IsReplay(p)
  BY <1>2, <1>4, <1>6, <1>7 DEF IsReplay
<1>9. /\ parse' = [raw |-> <<>>, text |-> <<>>, index |-> parse.index + 1,
                   skipped |-> IF parse.index + 1 = Len(history) THEN m ELSE <<>>]
      /\ UNCHANGED <<out, frames>>
  BY <1>2, <1>3, <1>8 DEF Read
<1>10. parse'.raw = <<>> /\ parse'.text = <<>> /\ parse'.index = parse.index + 1
       /\ (parse.index + 1 = Len(history) => parse'.skipped = m)
  BY <1>9
<1>11. TypeOfText'
  <2>1. parse' \in [raw : Text, text : Text, index : Nat, skipped : Text]
    BY <1>4, <1>5, <1>9, TextOps
  <2> QED
    BY <1>1, <1>4, <1>9, <2>1 DEF TypeOfText
<1>12. WaysInv'
  BY <1>1, <1>9 DEF WaysInv
<1>13. FramesInv' /\ ToolsInv'
  BY <1>1, <1>9, FramesStill
<1>14. ReplaysInv'
  <2>1. Sanitize(<<>>) = <<>> /\ front \notin Searches
    BY <1>1, SanitizeIs DEF WaysInv
  <2>2. \A k \in 1..Len(replays') : replays'[k] = history[parse'.index + k]
    <3> TAKE k \in 1..Len(replays')
    <3>1. k + 1 \in 1..Len(replays) /\ replays'[k] = replays[k + 1]
      BY <1>4
    <3>2. parse.index + (k + 1) = parse'.index + k
      BY <1>5, <1>10
    <3> QED
      BY <1>6, <3>1, <3>2
  <2>3. parse'.index <= Len(history) /\ parse'.index + Len(replays') = Len(history)
    <3>1. Len(replays') = Len(replays) - 1 /\ Len(replays) \in Nat /\ Len(replays) > 0
      BY <1>4
    <3>2. parse.index + Len(replays) = Len(history) /\ parse'.index = parse.index + 1
      BY <1>6, <1>10
    <3> QED
      BY <1>5, <3>1, <3>2
  <2>4. parse'.index = Len(history) => parse'.skipped = history[Len(history)]
    BY <1>7, <1>10
  <2> QED
    BY <1>1, <1>6, <1>10, <2>1, <2>2, <2>3, <2>4 DEF ReplaysInv
<1>15. SaidInv'
  <2>1. ending = "none"
    BY <1>1 DEF WaysInv
  <2>2. front \notin Searches /\ plain => out.current = <<>>
    BY <1>1, <1>6, <2>1 DEF SaidInv
  <2> QED
    BY <1>1, <1>6, <1>9, <1>10, <2>1, <2>2 DEF SaidInv
<1> QED
  BY <1>11, <1>12, <1>13, <1>14, <1>15 DEF TextInv

LEMMA HearKeeps ==
  ASSUME TextInv, NEW p \in Payload, Hear(p)
  PROVE  TextInv'
<1> USE DEF request, accounts, told, upstreamWords
<1>1. /\ TypeOfText /\ WaysInv /\ ToolsInv /\ FramesInv /\ ReplaysInv /\ SaidInv
      /\ ttStep = "reading" /\ ttStep' = ttStep /\ replays = <<>> /\ replays' = replays /\ Read(p)
      /\ said' = Saying(p) /\ sent' = sent + 1
      /\ plain' = (plain /\ IsPrefix(said, said') /\ IsPrefix(Sanitize(said), Sanitize(said')) /\ ~LikeHistory(p))
      /\ UNCHANGED <<front, asStream, history, whole, ending, search>>
  BY DEF TextInv, Hear
<1>2. p \in Payloads
  BY PayloadsAre
<1>3. front \notin Searches /\ ending = "none"
  BY <1>1 DEF WaysInv
<1>4. said' \in Text /\ sent' \in Nat /\ sent' > 0 /\ plain' \in BOOLEAN
      /\ parse.index \in Nat /\ Len(history) \in Nat /\ history \in Seq(Text \ {<<>>})
  <2>1. said' \in Text
    BY <1>1, <1>2, SayingType
  <2>2. history \in Seq(Text \ {<<>>}) /\ sent \in Nat /\ plain \in BOOLEAN /\ parse.index \in Nat
    BY <1>1 DEF TypeOfText
  <2> QED
    BY <1>1, <2>1, <2>2, LenProperties
<1>5. plain /\ front \notin Searches =>
        (parse.raw = said \/ Unread) /\ out.current = parse.text
  BY <1>1, <1>3 DEF SaidInv
<1>6. parse.text = Sanitize(parse.raw) /\ parse.index <= Len(history) /\ replays' = <<>> /\ Len(replays') = 0
  BY <1>1 DEF ReplaysInv
<1>7. CASE IsReplay(p)
  <2>1. p.kind = "message" /\ p.text # <<>> /\ parse.index < Len(history)
        /\ p.text = history[parse.index + 1] /\ parse.text = <<>> /\ parse.raw = <<>>
    BY <1>7 DEF IsReplay
  <2>2. PICK m : m = p.text
    OBVIOUS
  <2>3. m \in Text /\ m # <<>>
    BY <1>2, <2>1, <2>2 DEF Payloads
  <2>4. /\ parse' = [raw |-> <<>>, text |-> <<>>, index |-> parse.index + 1,
                     skipped |-> IF parse.index + 1 = Len(history) THEN m ELSE <<>>]
        /\ UNCHANGED <<out, frames>>
    BY <1>1, <1>7, <2>2 DEF Read
  <2>5. said' = m
    BY <1>1, <2>1, <2>2 DEF Saying
  <2>6. parse' \in [raw : Text, text : Text, index : Nat, skipped : Text]
    BY <1>4, <2>3, <2>4, TextOps
  <2>7. TypeOfText'
    BY <1>1, <1>4, <2>4, <2>6 DEF TypeOfText
  <2>8. WaysInv'
    BY <1>1, <2>4 DEF WaysInv
  <2>9. FramesInv' /\ ToolsInv'
    BY <1>1, <2>4, FramesStill
  <2>10. ReplaysInv'
    <3>1. parse'.text = Sanitize(parse'.raw)
      BY <2>4, SanitizeIs
    <3>2. parse'.index <= Len(history)
      BY <1>4, <2>1, <2>4
    <3> QED
      BY <1>1, <1>3, <1>4, <1>6, <3>1, <3>2 DEF ReplaysInv
  <2>11. ASSUME plain' PROVE out'.current = parse'.text /\ Unread'
    <3>1. \E k \in DOMAIN history : Saying(p) = history[k]
      BY <1>1, <1>4, <2>1, <2>2, <2>5
    <3>2. history # <<>>
      BY <1>4, <2>1, EmptySeq
    <3>3. history = <<m>>
      BY <1>1, <2>2, <2>11, <3>1, <3>2 DEF LikeHistory
    <3>4. parse.index = 0 /\ Len(history) = 1
      BY <1>4, <2>1, <3>3
    <3>5. parse'.raw = <<>> /\ parse'.text = <<>> /\ parse'.skipped = m
      BY <2>4, <3>4
    <3> QED
      BY <1>1, <1>3, <1>4, <1>5, <2>1, <2>3, <2>4, <2>5, <2>11, <3>3, <3>5 DEF Unread
  <2>12. SaidInv'
    BY <1>1, <1>3, <2>11 DEF SaidInv
  <2> QED
    BY <2>7, <2>8, <2>9, <2>10, <2>12 DEF TextInv
<1>8. CASE ~IsReplay(p)
  <2>1. /\ parse' = [raw |-> AssistantRaw(p), text |-> Sanitize(AssistantRaw(p)), index |-> parse.index,
                     skipped |-> IF Sanitize(AssistantRaw(p)) = parse.text THEN parse.skipped ELSE <<>>]
        /\ AssistantRaw(p) \in Text /\ parse' \in [raw : Text, text : Text, index : Nat, skipped : Text]
        /\ out' \in Outs /\ (out.open => out'.open) /\ frames' \in Seq(FrameSet) /\ FramesInv' /\ ToolsInv'
        /\ out.current = parse.text /\ (parse'.text = parse.text \/ IsPrefix(parse.text, parse'.text))
             => out'.current = parse'.text
    BY <1>1, <1>2, <1>8, ReadIs
  <2>2. PICK raw : raw = AssistantRaw(p)
    OBVIOUS
  <2>3. /\ parse'.raw = raw /\ parse'.text = Sanitize(raw) /\ parse'.index = parse.index
        /\ parse'.text = parse.text => parse'.skipped = parse.skipped
    BY <2>1, <2>2
  <2>4. TypeOfText'
    BY <1>1, <1>4, <2>1 DEF TypeOfText
  <2>5. WaysInv'
    BY <1>1, <1>3, <2>1 DEF WaysInv
  <2>6. ReplaysInv'
    BY <1>1, <1>3, <1>4, <1>6, <2>3 DEF ReplaysInv
  <2>7. ASSUME plain' PROVE out'.current = parse'.text /\ (parse'.raw = said' \/ Unread')
    <3>1. plain /\ IsPrefix(said, Saying(p)) /\ IsPrefix(Sanitize(said), Sanitize(Saying(p))) /\ ~LikeHistory(p)
      BY <1>1, <2>7
    <3>2. (parse.raw = said \/ Unread) /\ out.current = parse.text
      BY <1>3, <1>5, <3>1
    <3>3. \/ raw = Saying(p) /\ parse.raw = said
          \/ /\ raw = <<>> /\ parse.text = <<>>
             /\ Saying(p) # <<>> /\ history = <<Saying(p)>> /\ parse.skipped = Saying(p)
      BY <1>1, <1>2, <1>3, <1>8, <2>2, <3>1, <3>2, HeardIs
    <3>4. CASE raw = Saying(p) /\ parse.raw = said
      <4>1. IsPrefix(parse.text, parse'.text)
        BY <1>6, <2>3, <3>1, <3>4
      <4> QED
        BY <1>1, <2>1, <2>3, <3>2, <3>4, <4>1
    <3>5. CASE /\ raw = <<>> /\ parse.text = <<>>
               /\ Saying(p) # <<>> /\ history = <<Saying(p)>> /\ parse.skipped = Saying(p)
      <4>1. parse'.text = parse.text
        BY <2>3, <3>5, SanitizeIs
      <4>2. parse'.raw = <<>> /\ parse'.skipped = Saying(p)
        BY <2>3, <3>5, <4>1
      <4>3. Unread'
        BY <1>1, <1>4, <3>5, <4>2 DEF Unread
      <4> QED
        BY <2>1, <3>2, <4>1, <4>3
    <3> QED
      BY <3>3, <3>4, <3>5
  <2>8. SaidInv'
    BY <1>1, <1>3, <2>7 DEF SaidInv
  <2> QED
    BY <2>1, <2>4, <2>5, <2>6, <2>8 DEF TextInv
<1> QED
  BY <1>7, <1>8

LEMMA DoneKeeps ==
  ASSUME TextInv, Done
  PROVE  TextInv'
<1> USE DEF request, accounts, told, upstreamWords
<1>1. /\ TypeOfText /\ WaysInv /\ ToolsInv /\ FramesInv /\ ReplaysInv /\ SaidInv
      /\ ttStep = "reading" /\ ttStep' = "closing"
      /\ UNCHANGED <<front, asStream, history, parse, whole, ending, search, replays, said, plain, sent>>
  BY DEF TextInv, Done
<1>2. PICK rest : rest = IF parse.text = <<>> THEN Sanitize(parse.skipped) ELSE <<>>
  OBVIOUS
<1>3. Take(rest)
  BY <1>2 DEF Done
<1>4. parse.skipped \in Text /\ out.current \in Text /\ <<>> \in Text /\ said \in Text
  BY <1>1, TextOps DEF TypeOfText, Outs
<1>5. rest \in Text
  BY <1>2, <1>4, SanitizeIs
<1>6. front \notin Searches /\ ending = "none"
  BY <1>1 DEF WaysInv
<1>7. (asStream => ClientKnows) /\ (~asStream => frames = <<>>)
  BY <1>1 DEF FramesInv
<1>8. /\ out' \in Outs /\ out'.current = out.current \o rest /\ frames' \in Seq(FrameSet)
      /\ out.open => out'.open
      /\ ToolsInv' /\ (asStream => ClientKnows') /\ (~asStream => frames' = <<>>)
  BY <1>1, <1>3, <1>5, <1>6, <1>7, TakeIs
<1>9. FramesInv'
  BY <1>1, <1>6, <1>8 DEF FramesInv
<1>10. TypeOfText'
  BY <1>1, <1>8 DEF TypeOfText
<1>11. WaysInv'
  BY <1>1, <1>6, <1>8 DEF WaysInv
<1>12. ReplaysInv'
  BY <1>1 DEF ReplaysInv
<1>13. SaidInv'
  <2>1. ASSUME plain PROVE Sanitize(said) = <<>> \/ out'.current = Sanitize(said)
    <3>1. (parse.raw = said \/ Unread) /\ out.current = parse.text /\ parse.text = Sanitize(parse.raw)
      BY <1>1, <1>6, <2>1 DEF SaidInv, ReplaysInv
    <3>2. CASE parse.raw = said
      <4>1. parse.text # <<>> => out'.current = out.current
        BY <1>2, <1>4, <1>8, TextEmpty
      <4> QED
        BY <3>1, <3>2, <4>1
    <3>3. CASE Unread
      <4>1. parse.raw = <<>> /\ parse.skipped = said
        BY <3>3 DEF Unread
      <4>2. parse.text = <<>>
        BY <3>1, <4>1, SanitizeIs
      <4>3. out'.current = <<>> \o rest /\ rest = Sanitize(said)
        BY <1>2, <1>8, <3>1, <4>1, <4>2
      <4> QED
        BY <1>5, <4>3, TextEmpty
    <3> QED
      BY <3>1, <3>2, <3>3
  <2>2. plain' = plain /\ Unread' = Unread
    BY <1>1 DEF Unread
  <2> QED
    BY <1>1, <1>6, <2>1, <2>2 DEF SaidInv
<1> QED
  BY <1>8, <1>9, <1>10, <1>11, <1>12, <1>13 DEF TextInv

------------------------------------------------------------------------------
\* Every step.
LEMMA TextUnchangedKeeps ==
  ASSUME TextInv, UNCHANGED ttVars
  PROVE  TextInv'
<1>1. /\ TypeOfText /\ WaysInv /\ ToolsInv /\ FramesInv /\ ReplaysInv /\ SaidInv
      /\ UNCHANGED <<front, asStream, history, ttStep, parse, out, frames, whole, ending, search, replays, said,
                     plain, sent>>
  BY DEF TextInv, ttVars, request, told, upstreamWords
<1>2. TypeOfText'
  BY <1>1 DEF TypeOfText
<1>3. WaysInv'
  BY <1>1 DEF WaysInv
<1>4. ToolsInv'
  BY <1>1 DEF ToolsInv, ToolsShown
<1>5. FramesInv'
  <2>1. asStream /\ ttStep \notin {"start", "over"} => ClientKnows'
    BY <1>1, ClientStill DEF FramesInv
  <2>2. ShownOf(out)' = ShownOf(out) /\ OddTools' = OddTools /\ WholeAnswer(out)' = WholeAnswer(out)
    BY <1>1 DEF ShownOf, OddTools, WholeAnswer
  <2>3. ASSUME asStream, ttStep = "over", ~(ending = "complete" /\ OddTools)
        PROVE  \E A, B, m, t : /\ Knows(frames, Known(A, B, m, t))'
                               /\ ending = "complete" => "final" \in m /\ "end" \in m
                               /\ ending = "failed" => "final" \notin m
                               /\ ending = "failed" \/ front \notin Searches => t = ShownOf(out)
    <3>1. PICK A, B, m, t : /\ Knows(frames, Known(A, B, m, t))
                            /\ ending = "complete" => "final" \in m /\ "end" \in m
                            /\ ending = "failed" => "final" \notin m
                            /\ ending = "failed" \/ front \notin Searches => t = ShownOf(out)
      BY <1>1, <2>3 DEF FramesInv
    <3>2. PICK fs, s : fs = frames /\ s = Known(A, B, m, t)
      OBVIOUS
    <3>3. Knows(fs, s)'
      BY <1>1, <3>1, <3>2, KnowsMoves
    <3>4. Knows(frames, Known(A, B, m, t))'
      BY <1>1, <3>2, <3>3 DEF Known
    <3> QED
      BY <3>1, <3>4
  <2>4. /\ ~asStream \/ ttStep = "start" => frames = <<>>
        /\ ~asStream /\ ending = "complete" /\ front \notin Searches => whole = WholeAnswer(out)
    BY <1>1 DEF FramesInv
  <2> QED
    BY <1>1, <2>1, <2>2, <2>3, <2>4 DEF FramesInv
<1>6. ReplaysInv'
  BY <1>1 DEF ReplaysInv
<1>7. SaidInv'
  BY <1>1 DEF SaidInv, Unread
<1> QED
  BY <1>2, <1>3, <1>4, <1>5, <1>6, <1>7 DEF TextInv

LEMMA TextInitKeeps == TextInit => TextInv
<1> SUFFICES ASSUME TextInit PROVE TextInv
  OBVIOUS
<1>1. /\ ttStep = "start" /\ parse = Fresh /\ frames = <<>> /\ whole = <<>> /\ ending = "none"
      /\ replays = <<>> /\ said = <<>> /\ plain = TRUE /\ sent = 0
      /\ out = [current |-> <<>>, shown |-> <<>>, toolStarted |-> FALSE, open |-> front \in {"responses", "messages"}]
      /\ search = [seen |-> FALSE, answer |-> <<>>, over |-> FALSE, last |-> <<>>, hits |-> 0, finished |-> FALSE]
  BY DEF TextInit
<1>2. PICK r \in Requests : front = r.front /\ asStream = r.stream /\ history = r.history
  BY DEF TextInit
<1>3. /\ front \in Searches \cup Messages \cup {"chat", "responses"} /\ asStream \in BOOLEAN
      /\ history \in Seq(Text \ {<<>>})
  BY <1>2, TextAssumption DEF TextAssumption
<1>4. <<>> \in Text /\ Sanitize(<<>>) = <<>> /\ frames \in Seq(FrameSet) /\ replays \in Seq(Text \ {<<>>})
  BY <1>1, TextOps, SanitizeIs
<1>5. parse \in [raw : Text, text : Text, index : Nat, skipped : Text]
  BY <1>1, <1>4 DEF Fresh
<1>6. out \in Outs /\ out.current = <<>> /\ out.shown = <<>> /\ (out.open <=> front \in {"responses", "messages"})
      /\ out.toolStarted = FALSE
  <2>1. (front \in {"responses", "messages"}) \in BOOLEAN
    OBVIOUS
  <2> QED
    BY <1>1, <1>4, <2>1 DEF Outs
<1>7. search \in SearchState
  BY <1>1, <1>4 DEF SearchState
<1>8. TypeOfText
  BY <1>1, <1>3, <1>4, <1>5, <1>6, <1>7 DEF TypeOfText, SearchState
<1>9. WaysInv
  <2>1. ttStep = "start" /\ ending = "none"
    BY <1>1
  <2>2. front \in Searches => ~out.open
    <3>1. front \in Searches => front \notin {"responses", "messages"}
      BY DEF Searches
    <3> QED
      BY <1>6, <3>1
  <2> QED
    BY <1>6, <2>1, <2>2 DEF WaysInv
<1>10. ToolsInv
  <2>1. PICK e : e = <<>>
    OBVIOUS
  <2>2. e \in Text /\ Before(e) \in Text /\ Len(Before(e)) <= Len(e)
    BY <1>4, <2>1, BeforeIs
  <2>3. Len(e) = 0
    BY <2>1, EmptySeq
  <2>4. Before(e) = e
    BY <2>1, <2>2, <2>3, EmptySeq DEF Text
  <2>5. IsPrefix(e, e)
    BY <2>2, <2>3, PrefixBy
  <2>6. After(e, 0) = e /\ AllSpace(e)
    BY <2>2, <2>3, AfterIs DEF AllSpace
  <2>7. front = "tools" => ToolsShown(out)
    <3>1. front = "tools" => ~out.open
      BY <1>6
    <3> QED
      BY <1>6, <2>1, <2>3, <2>4, <2>5, <2>6, <3>1 DEF ToolsShown
  <2> QED
    BY <2>7 DEF ToolsInv
<1>11. FramesInv
  BY <1>1 DEF FramesInv
<1>12. ReplaysInv
  <2>1. parse.raw = <<>> /\ parse.text = <<>> /\ parse.index = 0
    BY <1>1 DEF Fresh
  <2>2. 0 <= Len(history)
    BY <1>3, LenProperties
  <2>3. Len(replays) = 0
    BY <1>1, EmptySeq
  <2> QED
    BY <1>1, <1>4, <2>1, <2>2, <2>3 DEF ReplaysInv
<1>13. SaidInv
  BY <1>1, <1>6 DEF SaidInv, Fresh
<1> QED
  BY <1>8, <1>9, <1>10, <1>11, <1>12, <1>13 DEF TextInv

LEMMA TextStepKeeps == TextInv /\ [TextNext]_ttVars => TextInv'
<1> SUFFICES ASSUME TextInv, [TextNext]_ttVars PROVE TextInv'
  OBVIOUS
<1>1. CASE UNCHANGED ttVars
  BY <1>1, TextUnchangedKeeps
<1>2. CASE Begin
  BY <1>2, BeginKeeps
<1>3. CASE Ask
  BY <1>3, AskKeeps
<1>4. CASE Recover
  BY <1>4, RecoverKeeps
<1>5. CASE Replay
  BY <1>5, ReplayKeeps
<1>6. CASE Done
  BY <1>6, DoneKeeps
<1>7. CASE EndsEarly
  BY <1>7, EndsEarlyKeeps
<1>8. CASE Close
  BY <1>8, CloseKeeps
<1>9. CASE Breaks
  BY <1>9, BreaksKeeps
<1>10. CASE TextFails
  BY <1>10, TextFailsKeeps
<1>11. ASSUME NEW p \in Payload, Hear(p) PROVE TextInv'
  BY <1>11, HearKeeps
<1>12. ASSUME NEW p \in Payload, SearchGrows(p) PROVE TextInv'
  BY <1>12, SearchGrowsKeeps
<1>13. CASE LookAtSearch
  BY <1>13, LookAtSearchKeeps
<1>14. CASE SearchTimeUp
  BY <1>14, SearchTimeUpKeeps
<1>15. CASE SearchFails
  BY <1>15, SearchFailsKeeps
<1>16. ASSUME NEW a \in TextAccount, OthersRenew(a) PROVE TextInv'
  BY <1>16, OthersRenewKeeps
<1> QED
  BY <1>1, <1>2, <1>3, <1>4, <1>5, <1>6, <1>7, <1>8, <1>9, <1>10, <1>11, <1>12, <1>13, <1>14, <1>15, <1>16
  DEF TextNext

LEMMA TextInvariance == TextSpec => []TextInv
  BY TextInitKeeps, TextStepKeeps, PTL DEF TextSpec

------------------------------------------------------------------------------
\* What the client has.
LEMMA StripTwice ==
  ASSUME NEW t \in Text
  PROVE  Strip(Strip(t)) = Strip(t)
<1>1. PICK W : W = {k \in DOMAIN t : t[k] # "space"}
  OBVIOUS
<1>2. Len(t) \in Nat /\ DOMAIN t = 1..Len(t) /\ \A k \in 1..Len(t) : t[k] \in Word
  BY DEF Text
<1>3. CASE W = {}
  <2>1. Strip(t) = <<>>
    BY <1>1, <1>3 DEF Strip
  <2>2. Len(<<>>) = 0 /\ <<>> \in Text
    BY TextOps, EmptySeq
  <2>3. AllSpace(<<>>)
    BY <2>2 DEF AllSpace
  <2> QED
    BY <2>1, <2>2, <2>3, StripIs
<1>4. CASE W # {}
  <2>1. PICK a, b, u : a = Min(W) /\ b = Max(W) /\ u = SubSeq(t, a, b)
    OBVIOUS
  <2>2. Strip(t) = u
    BY <1>1, <1>4, <2>1 DEF Strip
  <2>3. W \subseteq 0..Len(t) /\ W \subseteq 1..Len(t) /\ W \subseteq Nat
    BY <1>1, <1>2
  <2>4. a \in W /\ b \in W /\ \A k \in W : k <= b
    BY <1>2, <1>4, <2>1, <2>3, LeastOf, GreatestOf
  <2>5. a \in 1..Len(t) /\ b \in 1..Len(t) /\ a <= b /\ a \in Int /\ b \in Int /\ t[a] # "space" /\ t[b] # "space"
    BY <1>1, <2>3, <2>4
  <2>6. PICK n : n = b - a + 1
    OBVIOUS
  <2>7. n \in Nat \ {0} /\ a + 1 - 1 = a /\ a + n - 1 = b
    BY <1>2, <2>5, <2>6
  <2>8. u \in Seq(Word) /\ Len(u) = n /\ \A k \in 1..n : u[k] = t[a + k - 1]
    <3>1. \A k \in a..b : t[k] \in Word
      BY <1>2, <2>5
    <3>2. /\ SubSeq(t, a, b) \in Seq(Word) /\ Len(SubSeq(t, a, b)) = b - a + 1
          /\ \A k \in 1..(b - a + 1) : SubSeq(t, a, b)[k] = t[a + k - 1]
      BY <2>5, <3>1, SubSeqProperties
    <3> QED
      BY <2>1, <2>6, <3>2
  <2>9. PICK V : V = {k \in DOMAIN u : u[k] # "space"}
    OBVIOUS
  <2>10. V \subseteq 1..n /\ V \subseteq 0..n /\ V \subseteq Nat
    BY <2>7, <2>8, <2>9
  <2>11. 1 \in V /\ n \in V
    <3>1. 1 \in 1..n /\ n \in 1..n /\ DOMAIN u = 1..n
      BY <2>7, <2>8
    <3>2. u[1] = t[a] /\ u[n] = t[b]
      BY <2>7, <2>8, <3>1
    <3> QED
      BY <2>5, <2>9, <3>1, <3>2
  <2>12. Min(V) = 1
    <3>1. PICK x : x = Min(V)
      OBVIOUS
    <3>2. x \in V /\ x <= 1
      BY <2>10, <2>11, <3>1, LeastOf
    <3> QED
      BY <2>7, <2>10, <3>1, <3>2
  <2>13. Max(V) = n
    <3>1. PICK x : x = Max(V)
      OBVIOUS
    <3>2. x \in V /\ n <= x
      BY <2>7, <2>10, <2>11, <3>1, GreatestOf
    <3> QED
      BY <2>7, <2>10, <3>1, <3>2
  <2>14. Strip(u) = SubSeq(u, 1, n)
    <3>1. Strip(u) = SubSeq(u, Min(V), Max(V))
      BY <2>9, <2>11 DEF Strip
    <3> QED
      BY <2>12, <2>13, <3>1
  <2>15. SubSeq(u, 1, n) = u
    <3>1. u \in Text
      BY <2>8 DEF Text
    <3>2. After(u, 0) = u
      BY <3>1, AfterIs
    <3> QED
      BY <2>8, <3>2 DEF After
  <2> QED
    BY <2>2, <2>14, <2>15
<1> QED
  BY <1>3, <1>4

\* What a client of a stream was told, and by what it can tell how it ended.
LEMMA ToldIs ==
  ASSUME TextInv, asStream, ~(ending = "complete" /\ OddTools)
  PROVE  \E A, B, m, t : /\ Knows(frames, Known(A, B, m, t)) /\ Told = t
                         /\ ending = "complete" => "final" \in m /\ "end" \in m
                         /\ ending = "failed" => "final" \notin m
                         /\ ending = "failed" \/ (ending = "complete" /\ front \notin Searches) => t = ShownOf(out)
<1>1. TypeOfText /\ WaysInv /\ FramesInv
  BY DEF TextInv
<1>2. Told = Pieces(frames)
  BY DEF Told, Pieces, PieceOf
<1>3. \A A, B, m, t : Knows(frames, Known(A, B, m, t)) => Pieces(frames) = t
  BY DEF Knows, Known
<1>4. CASE ttStep = "start"
  <2>1. frames = <<>> /\ ending = "none"
    BY <1>1, <1>4 DEF FramesInv, WaysInv
  <2>2. Knows(<<>>, Known({}, {}, {}, <<>>))
    BY NothingKnown
  <2>3. Knows(frames, Known({}, {}, {}, <<>>))
    BY <2>1, <2>2
  <2>4. Told = <<>>
    BY <1>2, <1>3, <2>3
  <2> QED
    BY <2>1, <2>3, <2>4
<1>5. CASE ttStep \notin {"start", "over"}
  <2>1. ClientKnows /\ ending = "none"
    BY <1>1, <1>5 DEF FramesInv, WaysInv
  <2>2. Knows(frames, Known(OpenBlocks, {}, {}, ShownOf(out)))
    BY <2>1 DEF ClientKnows
  <2> QED
    BY <1>2, <1>3, <2>1, <2>2
<1>6. CASE ttStep = "over"
  <2>1. ending \in {"complete", "failed"}
    BY <1>1, <1>6 DEF TypeOfText, WaysInv
  <2> QED
    BY <1>1, <1>2, <1>3, <1>6, <2>1 DEF FramesInv
<1> QED
  BY <1>4, <1>5, <1>6

LEMMA FramesParseHolds ==
  ASSUME TextInv
  PROVE  FramesParse
<1>1. TypeOfText /\ WaysInv /\ FramesInv
  BY DEF TextInv
<1>2. SUFFICES ASSUME ~OddTools
               PROVE  /\ Parses(frames)
                      /\ \A n \in DOMAIN frames : frames[n].kind = "full" => frames[n].text = Told
                      /\ ending = "complete" /\ asStream => Has(frames, "final") /\ Has(frames, "end")
                      /\ ending = "failed" => ~Has(frames, "final")
  BY DEF FramesParse, Parses, OddTools
<1>3. CASE asStream
  <2>1. PICK A, B, m, t : /\ Knows(frames, Known(A, B, m, t)) /\ Told = t
                          /\ ending = "complete" => "final" \in m /\ "end" \in m
                          /\ ending = "failed" => "final" \notin m
    BY <1>2, <1>3, ToldIs
  <2>2. /\ Parses(frames) /\ \A mark \in Marks : Has(frames, mark) <=> mark \in m
        /\ \A n \in DOMAIN frames : frames[n].kind = "full" => frames[n].text = t
    BY <2>1 DEF Knows, Known
  <2>3. "final" \in Marks /\ "end" \in Marks
    BY DEF Marks
  <2> QED
    BY <2>1, <2>2, <2>3
<1>4. CASE ~asStream
  <2>1. frames = <<>>
    BY <1>1, <1>4 DEF FramesInv
  <2>2. DOMAIN frames = {}
    BY <2>1
  <2> QED
    BY <1>4, <2>2 DEF Parses, Has
<1> QED
  BY <1>1, <1>3, <1>4 DEF TypeOfText

LEMMA TextIsToldHolds ==
  ASSUME TextInv
  PROVE  TextIsTold
<1>1. TypeOfText /\ WaysInv /\ ToolsInv /\ FramesInv /\ ReplaysInv /\ SaidInv
  BY DEF TextInv
<1>2. SUFFICES ASSUME front \notin Searches, plain, front = "tools" /\ asStream => ~OddCalls(Sanitize(said))
               PROVE  /\ ending = "complete" /\ Sanitize(said) # <<>> => Same(Told, Meant)
                      /\ ending = "failed" /\ asStream => IsPrefix(Told, Sanitize(said))
  BY DEF TextIsTold
<1>3. PICK c, s : c = out.current /\ s = Sanitize(said)
  OBVIOUS
<1>4. c \in Text /\ s \in Text /\ out \in Outs /\ asStream \in BOOLEAN
  BY <1>1, <1>3, SanitizeIs DEF TypeOfText, Outs
<1>5. ASSUME ending = "complete", s # <<>> PROVE Same(Told, Meant)
  <2>1. c = s
    BY <1>1, <1>2, <1>3, <1>5 DEF SaidInv
  <2>2. Meant = IF front = "tools" \/ (front = "messages" /\ ~asStream) THEN WithoutCalls(c) ELSE c
    BY <1>3, <2>1 DEF Meant
  <2>3. CASE asStream
    <3>1. ~OddTools
      BY <1>2, <1>3, <2>1, <2>3 DEF OddTools
    <3>2. Told = ShownOf(out)
      BY <1>2, <1>5, <2>3, <3>1, ToldIs
    <3>3. CASE front = "tools"
      <4>1. ToolsShown(out) /\ ~OddCalls(c)
        BY <1>1, <1>2, <1>3, <2>1, <2>3, <3>3 DEF ToolsInv
      <4>2. Told = out.shown /\ Meant = WithoutCalls(c)
        BY <2>2, <3>2, <3>3 DEF ShownOf
      <4>3. WithoutCalls(c) = Strip(Before(c)) /\ Before(c) \in Text
        BY <1>4, <4>1, BeforeIs
      <4>4. Strip(out.shown) = Strip(Before(c))
        BY <1>3, <1>4, <4>1, ToolsShownIs
      <4>5. Strip(Meant) = Strip(Before(c))
        BY <4>2, <4>3, StripTwice
      <4> QED
        BY <3>3, <4>2, <4>4, <4>5 DEF Same, Messages
    <3>4. CASE front # "tools"
      <4>1. Told = c /\ Meant = c
        BY <1>3, <2>2, <2>3, <3>2, <3>4 DEF ShownOf
      <4> QED
        BY <4>1 DEF Same
    <3> QED
      BY <3>3, <3>4
  <2>4. CASE ~asStream
    <3>1. Told = WholeAnswer(out)
      BY <1>1, <1>2, <1>5, <2>4 DEF Told, FramesInv
    <3>2. Told = Meant
      BY <1>3, <2>2, <2>4, <3>1 DEF WholeAnswer, Messages
    <3> QED
      BY <3>2 DEF Same
  <2> QED
    BY <1>4, <2>3, <2>4
<1>6. ASSUME ending = "failed", asStream PROVE IsPrefix(Told, s)
  <2>1. Told = ShownOf(out)
    <3>1. ~(ending = "complete" /\ OddTools)
      BY <1>6
    <3>2. PICK A, B, m, t : /\ Knows(frames, Known(A, B, m, t)) /\ Told = t
                            /\ ending = "failed" \/ (ending = "complete" /\ front \notin Searches) => t = ShownOf(out)
      BY <1>6, <3>1, ToldIs
    <3> QED
      BY <1>6, <3>2
  <2>2. c = parse.text /\ (parse.raw = said \/ Unread) /\ parse.text = Sanitize(parse.raw)
    BY <1>1, <1>2, <1>3, <1>6 DEF SaidInv, ReplaysInv, WaysInv
  <2>3. c = s \/ c = <<>>
    BY <1>3, <2>2, SanitizeIs DEF Unread
  <2>4. IsPrefix(Told, c) /\ Told \in Text
    <3>1. CASE front = "tools"
      <4>1. ToolsShown(out) /\ out.shown \in Text
        BY <1>1, <1>4, <1>6, <3>1 DEF ToolsInv, Outs
      <4>2. IsPrefix(out.shown, c)
        BY <1>3, <1>4, <4>1, ToolsShownIs
      <4> QED
        BY <2>1, <3>1, <4>1, <4>2 DEF ShownOf
    <3>2. CASE front # "tools"
      <4>1. IsPrefix(c, c)
        BY <1>4, PrefixBy
      <4> QED
        BY <1>3, <1>4, <2>1, <3>2, <4>1 DEF ShownOf
    <3> QED
      BY <3>1, <3>2
  <2>5. CASE c = s
    BY <2>4, <2>5
  <2>6. CASE c = <<>>
    <3>1. Told = <<>>
      <4>1. Len(Told) \in 0..Len(c) /\ Len(c) = 0
        BY <1>4, <2>4, <2>6, PrefixIs, EmptySeq
      <4> QED
        BY <2>4, <4>1, EmptySeq DEF Text
    <3>2. Len(<<>>) = 0 /\ Len(s) \in Nat /\ <<>> \in Text
      BY <1>4, EmptySeq, TextOps, LenProperties DEF Text
    <3> QED
      BY <1>4, <3>1, <3>2, PrefixBy
  <2> QED
    BY <2>3, <2>5, <2>6
<1> QED
  BY <1>3, <1>5, <1>6

\* However the account and its token change, whatever upstream sends, breaks off or repeats,
\* a strict client of any front end parses its stream: the frames of stream_events and of
\* the response and chat generators open and close their blocks in order, repeat only what
\* they told, and say that the answer is complete exactly when it is.
THEOREM FramesAlwaysParse == TextSpec => []FramesParse
  BY TextInvariance, FramesParseHolds, PTL

\* A client that is told its answer is whole has what upstream said, nothing of the history
\* and nothing twice, and one that is told of an error has the beginning of it: for any
\* messages and patches of any length (iter_conversation_payloads, stream_text_deltas and
\* the front ends).
THEOREM TextIsAlwaysTold == TextSpec => []TextIsTold
  BY TextInvariance, TextIsToldHolds, PTL
==============================================================================
