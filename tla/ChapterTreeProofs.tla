------------------------- MODULE ChapterTreeProofs -------------------------
(***************************************************************************)
(* Proofs about ChapterTree, for any number of sections, any titles and    *)
(* any sequence of structure operations: the section index keeps           *)
(* describing the headings, an operation moves one subtree, and an undo in *)
(* its window restores the outline to the letter.                          *)
(*                                                                         *)
(* The headings and the tree are edited apart, by position in the one and  *)
(* by id in the other.  The argument is that the preorder walk of the tree *)
(* of an outline is the outline (PreorderIs), that a subtree cut out and   *)
(* put in elsewhere is the same subtree in both (Attaching, Apart), and    *)
(* that an index rebuilt from headings and their tree describes them.      *)
(***************************************************************************)
EXTENDS ChapterTree, FiniteSetTheorems, WellFoundedInduction, NaturalsInduction,
        SequenceTheorems, TLAPS

(* Sequences, numbers and least members.                                      *)

\* A set of natural numbers has a least one, and a bounded set a greatest.
LEMMA LeastOfAll ==
  ASSUME NEW B, B \subseteq Nat, B # {}
  PROVE  \E m \in B : \A k \in B : m <= k
<1>1. PICK m \in B : \A k \in B : ~ (<<k, m>> \in OpToRel(<, Nat))
  BY WFMin, NatLessThanWellFounded
<1>2. ASSUME NEW k \in B PROVE m <= k
  <2>1. k < m => <<k, m>> \in OpToRel(<, Nat)
    BY SMT DEF OpToRel
  <2>2. ~(k < m)
    BY <1>1, <2>1, Zenon
  <2> QED BY <2>2
<1> QED BY <1>2

LEMMA MinIsLeast ==
  ASSUME NEW B, B \subseteq Nat, B # {}
  PROVE  Min(B) \in B /\ \A k \in B : Min(B) <= k
BY LeastOfAll DEF Min

LEMMA GreatestNumber ==
  ASSUME NEW n \in Nat, NEW B, B \subseteq 0..n, B # {}
  PROVE  \E m \in B : \A k \in B : m >= k
<1> DEFINE D == {d \in 0..n : n - d \in B}
<1>0. D \subseteq Nat
  OBVIOUS
<1>1. D # {}
  <2>1. PICK k \in B : TRUE
    OBVIOUS
  <2>2. n - k \in 0..n /\ n - (n - k) = k
    BY <2>1
  <2>3. n - k \in D
    BY <2>1, <2>2
  <2> QED BY <2>3
<1>2. PICK d \in D : \A e \in D : d <= e
  BY <1>0, <1>1, LeastOfAll
<1>3. ASSUME NEW k \in B PROVE n - d >= k
  <2>1. n - k \in 0..n /\ n - (n - k) = k
    OBVIOUS
  <2>2. n - k \in D
    BY <2>1
  <2> QED BY <1>2, <2>1, <2>2
<1> QED BY <1>2, <1>3

LEMMA MaxIsGreatest ==
  ASSUME NEW n \in Nat, NEW B, B \subseteq 0..n, B # {}
  PROVE  Max(B) \in B /\ \A k \in B : Max(B) >= k
BY GreatestNumber DEF Max

\* Induction on a natural number up to a bound.
LEMMA CountUp ==
  ASSUME NEW n \in Nat, NEW P, 0 \in P,
         \A k \in 0..n : k < n /\ k \in P => k + 1 \in P
  PROVE  \A k \in 0..n : k \in P
<1> DEFINE B == (0..n) \ P
<1> SUFFICES ASSUME B # {} PROVE FALSE
  OBVIOUS
<1>0. B \subseteq Nat
  OBVIOUS
<1>1. PICK m \in B : \A k \in B : m <= k
  BY <1>0, LeastOfAll
<1>2. m \in 0..n /\ m \notin P /\ m # 0
  BY <1>1
<1>3. m - 1 \in 0..n /\ m - 1 < n /\ m - 1 + 1 = m /\ ~(m <= m - 1)
  BY <1>2
<1>4. m - 1 \in P
  BY <1>1, <1>3
<1> QED BY <1>2, <1>3, <1>4

-----------------------------------------------------------------------------
(* The headings: where parents are and subtrees end.                          *)

LEMMA HeadingFields ==
  ASSUME NEW doc \in Seq(Heading)
  PROVE  /\ Len(doc) \in Nat /\ DOMAIN doc = 1..Len(doc)
         /\ \A k \in 1..Len(doc) : /\ doc[k] \in Heading /\ doc[k].level \in Nat
                                   /\ doc[k].level # 0
                                   /\ doc[k].id \in Sections_ /\ doc[k].id \in Nat /\ doc[k].id # 0
<1>1. \A k \in 1..Len(doc) : doc[k] \in Heading
  OBVIOUS
<1>2. MaxSections \in Nat
  BY TreeAssumption
<1>3. \A h \in Heading : /\ h.level \in Nat /\ h.level # 0
                         /\ h.id \in Sections_ /\ h.id \in Nat /\ h.id # 0
  BY <1>2 DEF Heading, MaxHeadingLevel, Sections_
<1> QED BY <1>1, <1>3

\* The parent of the heading at i is before it and of a smaller level, and
\* everything in between is not.
IsParentAt(doc, i, p) ==
  /\ p \in 0..(i - 1) /\ (p # 0 => doc[p].level < doc[i].level)
  /\ \A j \in (p + 1)..(i - 1) : doc[j].level >= doc[i].level

LEMMA ParentIs ==
  ASSUME NEW doc \in Seq(Heading), NEW i \in 1..Len(doc)
  PROVE  IsParentAt(doc, i, ParentHeading(doc, i))
<1> DEFINE B == {0} \cup {j \in 1..(i - 1) : doc[j].level < doc[i].level}
<1>0. \A k \in 1..Len(doc) : doc[k].level \in Nat
  BY HeadingFields
<1>1. i - 1 \in Nat /\ B \subseteq 0..(i - 1) /\ B # {} /\ i \in Nat
  BY HeadingFields
<1>2. Max(B) \in B /\ \A k \in B : Max(B) >= k
  BY <1>1, MaxIsGreatest
<1>3. ParentHeading(doc, i) = Max(B)
  BY DEF ParentHeading
<1> HIDE DEF B
<1>4. ASSUME NEW j \in (Max(B) + 1)..(i - 1) PROVE doc[j].level >= doc[i].level
  <2>0. PICK m \in 0..(i - 1) : m = Max(B)
    BY <1>1, <1>2
  <2>1. j \in 1..(i - 1) /\ j \in 1..Len(doc) /\ ~(m >= j)
    BY <1>1, <2>0
  <2>2. j \notin B
    BY <1>2, <2>0, <2>1
  <2> QED BY <1>0, <2>1, <2>2 DEF B
<1>5. Max(B) # 0 => doc[Max(B)].level < doc[i].level
  BY <1>2 DEF B
<1> QED BY <1>1, <1>2, <1>3, <1>4, <1>5 DEF IsParentAt

LEMMA ParentOnly ==
  ASSUME NEW doc \in Seq(Heading), NEW i \in 1..Len(doc), NEW p, IsParentAt(doc, i, p)
  PROVE  ParentHeading(doc, i) = p
<1>1. IsParentAt(doc, i, ParentHeading(doc, i))
  BY ParentIs
<1>2. i \in Nat /\ p \in Nat /\ ParentHeading(doc, i) \in Nat /\ Len(doc) \in Nat
  BY <1>1, HeadingFields DEF IsParentAt
<1>3. \A k \in 1..Len(doc) : doc[k].level \in Nat
  BY HeadingFields
<1>4. ~(p < ParentHeading(doc, i))
  BY <1>1, <1>2, <1>3 DEF IsParentAt
<1>5. ~(ParentHeading(doc, i) < p)
  BY <1>1, <1>2, <1>3 DEF IsParentAt
<1> QED BY <1>2, <1>4, <1>5

\* The subtree of the heading at i ends at e.
IsEndAt(doc, i, e) ==
  /\ e \in (i + 1)..(Len(doc) + 1) /\ (e <= Len(doc) => doc[e].level <= doc[i].level)
  /\ \A j \in (i + 1)..(e - 1) : doc[j].level > doc[i].level

LEMMA EndIs ==
  ASSUME NEW doc \in Seq(Heading), NEW i \in 1..Len(doc)
  PROVE  IsEndAt(doc, i, BlockEnd(doc, i))
<1> DEFINE B == {Len(doc) + 1} \cup {j \in (i + 1)..Len(doc) : doc[j].level <= doc[i].level}
<1>0. \A k \in 1..Len(doc) : doc[k].level \in Nat
  BY HeadingFields
<1>1. Len(doc) \in Nat /\ i \in Nat /\ B \subseteq Nat /\ B # {} /\ B \subseteq (i + 1)..(Len(doc) + 1)
  BY HeadingFields
<1>2. Min(B) \in B /\ \A k \in B : Min(B) <= k
  BY <1>1, MinIsLeast
<1>3. BlockEnd(doc, i) = Min(B)
  BY DEF BlockEnd
<1> HIDE DEF B
<1>4. ASSUME NEW j \in (i + 1)..(Min(B) - 1) PROVE doc[j].level > doc[i].level
  <2>0. PICK m \in (i + 1)..(Len(doc) + 1) : m = Min(B)
    BY <1>1, <1>2
  <2>1. j \in (i + 1)..Len(doc) /\ j \in 1..Len(doc) /\ ~(m <= j)
    BY <1>1, <2>0
  <2>2. j \notin B
    BY <1>2, <2>0, <2>1
  <2> QED BY <1>0, <2>1, <2>2 DEF B
<1>5. Min(B) <= Len(doc) => doc[Min(B)].level <= doc[i].level
  BY <1>1, <1>2 DEF B
<1> QED BY <1>1, <1>2, <1>3, <1>4, <1>5 DEF IsEndAt

LEMMA EndOnly ==
  ASSUME NEW doc \in Seq(Heading), NEW i \in 1..Len(doc), NEW e, IsEndAt(doc, i, e)
  PROVE  BlockEnd(doc, i) = e
<1>1. IsEndAt(doc, i, BlockEnd(doc, i))
  BY EndIs
<1>2. i \in Nat /\ e \in Nat /\ BlockEnd(doc, i) \in Nat /\ Len(doc) \in Nat
  BY <1>1, HeadingFields DEF IsEndAt
<1>3. \A k \in 1..Len(doc) : doc[k].level \in Nat
  BY HeadingFields
<1>4. ~(e < BlockEnd(doc, i))
  BY <1>1, <1>2, <1>3, SMTT(30) DEF IsEndAt
<1>5. ~(BlockEnd(doc, i) < e)
  BY <1>1, <1>2, <1>3 DEF IsEndAt
<1> QED BY <1>2, <1>4, <1>5

-----------------------------------------------------------------------------
(* Cutting a subtree out and putting one in.                                  *)

LEMMA Joined ==
  ASSUME NEW S, NEW a \in Seq(S), NEW b \in Seq(S)
  PROVE  /\ a \o b \in Seq(S) /\ Len(a \o b) = Len(a) + Len(b)
         /\ Len(a) \in Nat /\ Len(b) \in Nat
         /\ \A k \in 1..(Len(a) + Len(b)) :
              (a \o b)[k] = IF k <= Len(a) THEN a[k] ELSE b[k - Len(a)]
OBVIOUS

LEMMA Segment ==
  ASSUME NEW S, NEW s \in Seq(S), NEW a \in 1..(Len(s) + 1), NEW b \in (a - 1)..Len(s)
  PROVE  /\ SubSeq(s, a, b) \in Seq(S) /\ Len(SubSeq(s, a, b)) = b - a + 1
         /\ \A k \in 1..(b - a + 1) : SubSeq(s, a, b)[k] = s[a + k - 1]
<1>1. Len(s) \in Nat /\ a \in Nat /\ b \in Int
  OBVIOUS
<1>2. \A k \in a..b : k \in 1..Len(s)
  BY <1>1
<1> QED BY <1>1, <1>2

LEMMA BlockIs ==
  ASSUME NEW doc \in Seq(Heading), NEW i \in 1..Len(doc)
  PROVE  /\ Block(doc, i) \in Seq(Heading) /\ Len(Block(doc, i)) = BlockEnd(doc, i) - i
         /\ \A k \in 1..(BlockEnd(doc, i) - i) : Block(doc, i)[k] = doc[i + k - 1]
<1>1. BlockEnd(doc, i) \in (i + 1)..(Len(doc) + 1) /\ i \in Nat /\ Len(doc) \in Nat
  BY EndIs, HeadingFields DEF IsEndAt
<1> DEFINE e == BlockEnd(doc, i)
<1> HIDE DEF e
<1>2. e \in (i + 1)..(Len(doc) + 1)
  BY <1>1 DEF e
<1>3. Block(doc, i) = SubSeq(doc, i, e - 1)
  BY DEF Block, e
<1>4. i \in 1..(Len(doc) + 1) /\ e - 1 \in (i - 1)..Len(doc) /\ (e - 1) - i + 1 = e - i
  BY <1>1, <1>2
<1> QED BY <1>3, <1>4, Segment DEF e

LEMMA CutIs ==
  ASSUME NEW doc \in Seq(Heading), NEW i \in 1..Len(doc)
  PROVE  /\ CutBlock(doc, i) \in Seq(Heading)
         /\ Len(CutBlock(doc, i)) = Len(doc) - (BlockEnd(doc, i) - i)
         /\ \A k \in 1..Len(CutBlock(doc, i)) :
              CutBlock(doc, i)[k] = IF k < i THEN doc[k] ELSE doc[k + (BlockEnd(doc, i) - i)]
<1> DEFINE e == BlockEnd(doc, i)
           a == SubSeq(doc, 1, i - 1)
           b == SubSeq(doc, e, Len(doc))
<1>1. e \in (i + 1)..(Len(doc) + 1) /\ i \in Nat /\ Len(doc) \in Nat
  BY EndIs, HeadingFields DEF IsEndAt
<1> HIDE DEF e
<1>2. /\ 1 \in 1..(Len(doc) + 1) /\ i - 1 \in (1 - 1)..Len(doc) /\ (i - 1) - 1 + 1 = i - 1
      /\ e \in 1..(Len(doc) + 1) /\ Len(doc) \in (e - 1)..Len(doc)
  BY <1>1
<1>3. a \in Seq(Heading) /\ Len(a) = i - 1 /\ \A k \in 1..(i - 1) : a[k] = doc[1 + k - 1]
  BY <1>2, Segment
<1>4. /\ b \in Seq(Heading) /\ Len(b) = Len(doc) - e + 1
      /\ \A k \in 1..(Len(doc) - e + 1) : b[k] = doc[e + k - 1]
  BY <1>2, Segment
<1>5. CutBlock(doc, i) = a \o b
  BY DEF CutBlock, e
<1> HIDE DEF a, b
<1>6. /\ a \o b \in Seq(Heading) /\ Len(a \o b) = Len(a) + Len(b)
      /\ \A k \in 1..(Len(a) + Len(b)) : (a \o b)[k] = IF k <= Len(a) THEN a[k] ELSE b[k - Len(a)]
  BY <1>3, <1>4, Joined
<1>7. Len(a) + Len(b) = Len(doc) - (e - i)
  BY <1>1, <1>3, <1>4
<1>8. ASSUME NEW k \in 1..(Len(doc) - (e - i))
      PROVE  (a \o b)[k] = IF k < i THEN doc[k] ELSE doc[k + (e - i)]
  <2>0. (a \o b)[k] = IF k <= Len(a) THEN a[k] ELSE b[k - Len(a)]
    BY <1>6, <1>7
  <2>1. CASE k < i
    <3>1. k <= Len(a) /\ k \in 1..(i - 1) /\ 1 + k - 1 = k
      BY <1>1, <1>3, <2>1
    <3> QED BY <1>3, <2>0, <2>1, <3>1
  <2>2. CASE ~(k < i)
    <3>1. ~(k <= Len(a)) /\ k - Len(a) \in 1..(Len(doc) - e + 1) /\ e + (k - Len(a)) - 1 = k + (e - i)
      BY <1>1, <1>3, <2>2
    <3> QED BY <1>4, <2>0, <2>2, <3>1
  <2> QED BY <2>1, <2>2
<1>9. Len(CutBlock(doc, i)) = Len(doc) - (e - i)
  BY <1>5, <1>6, <1>7
<1> QED BY <1>5, <1>6, <1>8, <1>9 DEF e

LEMMA SpliceIs ==
  ASSUME NEW doc \in Seq(Heading), NEW at \in 1..(Len(doc) + 1), NEW block \in Seq(Heading)
  PROVE  /\ Splice(doc, at, block) \in Seq(Heading)
         /\ Len(Splice(doc, at, block)) = Len(doc) + Len(block)
         /\ \A k \in 1..(Len(doc) + Len(block)) :
              Splice(doc, at, block)[k] =
                IF k < at THEN doc[k]
                ELSE IF k < at + Len(block) THEN block[k - at + 1] ELSE doc[k - Len(block)]
<1> DEFINE a == SubSeq(doc, 1, at - 1)
           b == SubSeq(doc, at, Len(doc))
           c == a \o block
           n == Len(doc)
           m == Len(block)
<1>1. n \in Nat /\ m \in Nat /\ at \in Nat /\ at \in 1..(n + 1)
  BY HeadingFields
<1>2. /\ 1 \in 1..(n + 1) /\ at - 1 \in (1 - 1)..n /\ (at - 1) - 1 + 1 = at - 1
      /\ at \in 1..(n + 1) /\ n \in (at - 1)..n
  BY <1>1
<1>3. a \in Seq(Heading) /\ Len(a) = at - 1 /\ \A k \in 1..(at - 1) : a[k] = doc[1 + k - 1]
  BY <1>2, Segment
<1>4. b \in Seq(Heading) /\ Len(b) = n - at + 1 /\ \A k \in 1..(n - at + 1) : b[k] = doc[at + k - 1]
  BY <1>2, Segment
<1>5. Splice(doc, at, block) = c \o b
  BY DEF Splice
<1> HIDE DEF a, b
<1>6. /\ c \in Seq(Heading) /\ Len(c) = Len(a) + m
      /\ \A k \in 1..(Len(a) + m) : c[k] = IF k <= Len(a) THEN a[k] ELSE block[k - Len(a)]
  BY <1>3, Joined
<1> HIDE DEF c
<1>0. c \in Seq(Heading) /\ b \in Seq(Heading)
  BY <1>4, <1>6
<1>7. /\ c \o b \in Seq(Heading) /\ Len(c \o b) = Len(c) + Len(b)
      /\ \A k \in 1..(Len(c) + Len(b)) : (c \o b)[k] = IF k <= Len(c) THEN c[k] ELSE b[k - Len(c)]
  BY <1>0, Joined
<1> HIDE DEF n, m
<1>8. Len(c) = at - 1 + m /\ Len(c) + Len(b) = n + m
  <2>1. Len(c) = Len(a) + m /\ Len(a) = at - 1 /\ Len(b) = n - at + 1
    BY <1>3, <1>4, <1>6
  <2> QED BY <1>1, <2>1
<1>9. ASSUME NEW k \in 1..(n + m)
      PROVE  (c \o b)[k] = IF k < at THEN doc[k]
                             ELSE IF k < at + m THEN block[k - at + 1] ELSE doc[k - m]
  <2>0. (c \o b)[k] = IF k <= Len(c) THEN c[k] ELSE b[k - Len(c)]
    BY <1>7, <1>8
  <2>1. CASE k < at
    <3>1. k <= Len(a) /\ k <= Len(c) /\ k \in 1..(at - 1) /\ k \in 1..(Len(a) + m) /\ 1 + k - 1 = k
      BY <1>1, <1>3, <1>8, <2>1
    <3> QED BY <1>3, <1>6, <2>0, <2>1, <3>1
  <2>2. CASE ~(k < at) /\ k < at + m
    <3>1. ~(k <= Len(a)) /\ k <= Len(c) /\ k \in 1..(Len(a) + m) /\ k - Len(a) = k - at + 1
      BY <1>1, <1>3, <1>8, <2>2
    <3> QED BY <1>6, <2>0, <2>2, <3>1
  <2>3. CASE ~(k < at) /\ ~(k < at + m)
    <3>1. ~(k <= Len(c)) /\ k - Len(c) \in 1..(n - at + 1) /\ at + (k - Len(c)) - 1 = k - m
      BY <1>1, <1>8, <2>3
    <3> QED BY <1>4, <2>0, <2>3, <3>1
  <2> QED BY <2>1, <2>2, <2>3
<1>10. Len(Splice(doc, at, block)) = n + m
  BY <1>5, <1>7, <1>8
<1> QED BY <1>5, <1>7, <1>9, <1>10 DEF n, m

\* Two sequences of the same length and entries are one.
LEMMA SameEntries ==
  ASSUME NEW S, NEW T, NEW s \in Seq(S), NEW t \in Seq(T), Len(s) = Len(t),
         \A k \in 1..Len(s) : s[k] = t[k]
  PROVE  s = t
OBVIOUS

\* No section has two headings, and a heading is at most one level below the
\* one before it.
Distinct(doc) == \A j, k \in DOMAIN doc : doc[j].id = doc[k].id => j = k

LevelBefore(doc, k) == IF k = 1 THEN 0 ELSE doc[k - 1].level

Proper(doc) == \A k \in DOMAIN doc : doc[k].level <= LevelBefore(doc, k) + 1

LEMMA PositionIs ==
  ASSUME NEW doc \in Seq(Heading), Distinct(doc)
  PROVE  /\ \A k \in 1..Len(doc) : PositionOf(doc, doc[k].id) = k /\ doc[k].id \in IdsOf(doc)
         /\ \A x \in IdsOf(doc) : PositionOf(doc, x) \in 1..Len(doc) /\ doc[PositionOf(doc, x)].id = x
         /\ \A x : x \notin IdsOf(doc) => PositionOf(doc, x) = 0
         /\ IdsOf(doc) \subseteq Sections_ /\ 0 \notin IdsOf(doc)
<1>0. Len(doc) \in Nat /\ DOMAIN doc = 1..Len(doc) /\ \A k \in 1..Len(doc) : doc[k].id \in Sections_ /\ doc[k].id # 0
  BY HeadingFields
<1>1. \A k \in 1..Len(doc) : doc[k].id \in IdsOf(doc)
  BY <1>0 DEF IdsOf, ToSet
<1>2. \A x \in IdsOf(doc) : \E k \in 1..Len(doc) : doc[k].id = x
  BY <1>0 DEF IdsOf, ToSet
<1>3. ASSUME NEW k \in 1..Len(doc) PROVE PositionOf(doc, doc[k].id) = k
  <2> DEFINE B == {0} \cup {i \in DOMAIN doc : doc[i].id = doc[k].id}
  <2>1. B = {0, k}
    BY <1>0 DEF Distinct
  <2>2. k \in Nat /\ B \subseteq 0..Len(doc) /\ B # {}
    BY <1>0, <2>1
  <2>3. Max(B) \in B /\ \A j \in B : Max(B) >= j
    BY <1>0, <2>2, MaxIsGreatest
  <2>4. PositionOf(doc, doc[k].id) = Max(B)
    BY DEF PositionOf
  <2> HIDE DEF B
  <2> QED BY <2>1, <2>2, <2>3, <2>4
<1>4. ASSUME NEW x, x \notin IdsOf(doc) PROVE PositionOf(doc, x) = 0
  <2> DEFINE B == {0} \cup {i \in DOMAIN doc : doc[i].id = x}
  <2>1. B = {0}
    BY <1>0, <1>1, <1>4
  <2>2. B \subseteq 0..0 /\ B # {} /\ 0 \in Nat
    BY <2>1
  <2>3. Max(B) \in B
    BY <2>2, MaxIsGreatest
  <2>4. PositionOf(doc, x) = Max(B)
    BY DEF PositionOf
  <2> HIDE DEF B
  <2> QED BY <2>1, <2>3, <2>4
<1>5. \A x \in IdsOf(doc) : x \in Sections_ /\ x # 0
  BY <1>0, <1>2
<1> QED BY <1>1, <1>2, <1>3, <1>4, <1>5

\* Headings outside a subtree keep their parent when it is cut out.
LEMMA CutParents ==
  ASSUME NEW doc \in Seq(Heading), NEW i \in 1..Len(doc), NEW k \in 1..Len(CutBlock(doc, i))
  PROVE  HeadingParent(CutBlock(doc, i), k)
           = HeadingParent(doc, IF k < i THEN k ELSE k + (BlockEnd(doc, i) - i))
<1> DEFINE rest == CutBlock(doc, i)
           e == BlockEnd(doc, i)
           b == e - i
           from(j) == IF j < i THEN j ELSE j + b
           p == ParentHeading(doc, from(k))
<1>1. IsEndAt(doc, i, e)
  BY EndIs
<1>2. /\ i \in Nat /\ Len(doc) \in Nat /\ e \in Nat /\ b \in Nat /\ i < e /\ e <= Len(doc) + 1
      /\ i + b = e
  BY <1>1, HeadingFields DEF IsEndAt
<1>3. /\ rest \in Seq(Heading) /\ Len(rest) = Len(doc) - b
      /\ \A j \in 1..Len(rest) : rest[j] = doc[from(j)]
  BY CutIs
<1>4. /\ \A j \in 1..Len(doc) : doc[j].level \in Nat
      /\ \A j \in 1..Len(rest) : from(j) \in 1..Len(doc)
      /\ k \in Nat /\ k \in 1..Len(rest) /\ from(k) \in 1..Len(doc) /\ from(k) \in Nat
  BY <1>2, <1>3, HeadingFields, SMTT(30)
<1>5. IsParentAt(doc, from(k), p)
  BY <1>4, ParentIs
<1> HIDE DEF rest, e, b, p
<1>6. p \in 0..(from(k) - 1) /\ from(k) \in Nat /\ p \in Nat
  BY <1>4, <1>5 DEF IsParentAt
<1>7. p < i \/ p >= e
  <2> SUFFICES ASSUME p >= i, p < e PROVE FALSE
    BY <1>2, <1>6
  <2>1. k >= i /\ from(k) = k + b /\ from(k) >= e
    BY <1>2, <1>4, <1>6
  <2>2. doc[p].level >= doc[i].level /\ doc[p].level \in Nat /\ doc[i].level \in Nat /\ p # 0
    BY <1>1, <1>2, <1>4, <1>6, SMTT(30) DEF IsEndAt
  <2>3. from(k) \in 1..Len(doc) /\ e \in 1..Len(doc) /\ doc[e].level <= doc[i].level
    BY <1>1, <1>2, <1>4, <2>1 DEF IsEndAt
  <2>4. doc[p].level < doc[from(k)].level /\ doc[from(k)].level \in Nat /\ doc[e].level \in Nat
    BY <1>4, <1>5, <2>2, <2>3 DEF IsParentAt
  <2>5. CASE from(k) = e
    BY <2>2, <2>3, <2>4, <2>5
  <2>6. CASE from(k) > e
    <3>1. doc[e].level >= doc[from(k)].level
      BY <1>5, <1>6, <2>1, <2>6, <1>2 DEF IsParentAt
    <3> QED BY <2>2, <2>3, <2>4, <3>1, SMTT(30)
  <2> QED BY <2>1, <2>5, <2>6, <1>2, <1>6
<1> DEFINE q == IF p < i THEN p ELSE p - b
<1>8. q \in 0..(k - 1) /\ (q # 0 => q \in 1..Len(rest) /\ from(q) = p /\ p # 0) /\ (q = 0 => p = 0)
  BY <1>2, <1>3, <1>4, <1>6, <1>7
<1>9. IsParentAt(rest, k, q)
  <2>1. k \in 1..Len(rest)
    BY DEF rest
  <2>2. rest[k] = doc[from(k)]
    BY <1>3, <2>1
  <2>3. q # 0 => rest[q].level < rest[k].level
    BY <1>3, <1>5, <1>8, <2>2 DEF IsParentAt
  <2>4. ASSUME NEW j \in (q + 1)..(k - 1) PROVE rest[j].level >= rest[k].level
    <3>1. j \in 1..Len(rest) /\ from(j) \in (p + 1)..(from(k) - 1)
      BY <1>2, <1>4, <1>6, <1>7, <1>8, <2>1, <1>3
    <3> QED BY <1>3, <1>5, <2>2, <3>1 DEF IsParentAt
  <2> QED BY <1>8, <2>3, <2>4 DEF IsParentAt
<1>10. ParentHeading(rest, k) = q
  BY <1>3, <1>9, ParentOnly DEF rest
<1>11. HeadingParent(rest, k) = HeadingParent(doc, from(k))
  BY <1>3, <1>8, <1>10 DEF HeadingParent, p
<1> QED BY <1>11 DEF rest, b, e

\* Inside the subtree, too, apart from its first heading.
LEMMA BlockParents ==
  ASSUME NEW doc \in Seq(Heading), NEW i \in 1..Len(doc)
  PROVE  /\ HeadingParent(Block(doc, i), 1) = 0
         /\ \A k \in 2..(BlockEnd(doc, i) - i) :
              HeadingParent(Block(doc, i), k) = HeadingParent(doc, i + k - 1)
<1> DEFINE blk == Block(doc, i)
           e == BlockEnd(doc, i)
           b == e - i
<1>1. IsEndAt(doc, i, e)
  BY EndIs
<1>2. /\ i \in Nat /\ Len(doc) \in Nat /\ e \in Nat /\ b \in Nat /\ i < e /\ e <= Len(doc) + 1
      /\ i + b = e
  BY <1>1, HeadingFields DEF IsEndAt
<1>3. blk \in Seq(Heading) /\ Len(blk) = b /\ \A k \in 1..b : blk[k] = doc[i + k - 1]
  BY BlockIs
<1> HIDE DEF blk, e, b
<1>4. HeadingParent(blk, 1) = 0
  <2>1. 1 \in 1..Len(blk) /\ IsParentAt(blk, 1, 0)
    BY <1>2, <1>3 DEF IsParentAt
  <2>2. ParentHeading(blk, 1) = 0
    BY <1>3, <2>1, ParentOnly
  <2> QED BY <2>2 DEF HeadingParent
<1>5. ASSUME NEW k \in 2..b PROVE HeadingParent(blk, k) = HeadingParent(doc, i + k - 1)
  <2> DEFINE p == ParentHeading(doc, i + k - 1)
             q == p - i + 1
  <2>1. i + k - 1 \in 1..Len(doc) /\ k \in Nat /\ i + k - 1 \in (i + 1)..(e - 1)
    BY <1>2
  <2>2. IsParentAt(doc, i + k - 1, p)
    BY <2>1, ParentIs
  <2> HIDE DEF p
  <2>3. p \in 0..(i + k - 2)
    BY <1>2, <2>1, <2>2 DEF IsParentAt
  <2>4. ~(p < i)
    <3> SUFFICES ASSUME p < i PROVE FALSE
      OBVIOUS
    <3>1. i \in (p + 1)..(i + k - 2)
      BY <1>2, <2>1, <2>3
    <3>2. doc[i].level >= doc[i + k - 1].level
      BY <1>2, <2>1, <2>2, <3>1 DEF IsParentAt
    <3>3. doc[i + k - 1].level > doc[i].level
      BY <1>1, <2>1 DEF IsEndAt
    <3>4. doc[i].level \in Nat /\ doc[i + k - 1].level \in Nat
      BY <2>1, HeadingFields
    <3> QED BY <3>2, <3>3, <3>4
  <2>5. q \in 1..(k - 1) /\ q \in 1..b /\ i + q - 1 = p /\ p # 0 /\ q # 0
    BY <1>2, <2>1, <2>3, <2>4
  <2>6. IsParentAt(blk, k, q)
    <3>1. k \in 1..b
      BY <2>1
    <3>2. blk[k] = doc[i + k - 1] /\ blk[q] = doc[p]
      BY <1>3, <2>5, <3>1
    <3>3. ASSUME NEW j \in (q + 1)..(k - 1) PROVE blk[j].level >= blk[k].level
      <4>1. j \in 1..b /\ i + j - 1 \in (p + 1)..((i + k - 1) - 1)
        BY <1>2, <2>1, <2>3, <2>5
      <4> QED BY <1>3, <2>2, <3>2, <4>1 DEF IsParentAt
    <3>4. q \in 0..(k - 1) /\ blk[q].level < blk[k].level
      BY <2>2, <2>5, <3>2 DEF IsParentAt
    <3> QED BY <3>3, <3>4 DEF IsParentAt
  <2>7. k \in 1..Len(blk)
    BY <1>3, <2>1
  <2> HIDE DEF q
  <2>8. ParentHeading(blk, k) = q
    BY <1>3, <2>6, <2>7, ParentOnly
  <2>9. blk[q].id = doc[p].id
    BY <1>3, <2>5
  <2> QED BY <2>5, <2>8, <2>9 DEF HeadingParent, p
<1> QED BY <1>4, <1>5 DEF blk, e, b

Outline(doc) == doc \in Seq(Heading) /\ Distinct(doc) /\ Proper(doc)

\* The root is at 0, above the first level, and has the whole outline under it.
LevelAt(doc, p) == IF p = 0 THEN 0 ELSE doc[p].level
IdAt(doc, p) == IF p = 0 THEN 0 ELSE doc[p].id
EndAt(doc, p) == IF p = 0 THEN Len(doc) + 1 ELSE BlockEnd(doc, p)

LEMMA EndAtIs ==
  ASSUME NEW doc \in Seq(Heading), NEW p \in 0..Len(doc)
  PROVE  /\ p \in Nat /\ EndAt(doc, p) \in (p + 1)..(Len(doc) + 1) /\ LevelAt(doc, p) \in Nat
         /\ \A j \in (p + 1)..(EndAt(doc, p) - 1) : doc[j].level > LevelAt(doc, p)
         /\ EndAt(doc, p) <= Len(doc) => doc[EndAt(doc, p)].level <= LevelAt(doc, p)
<1>1. /\ Len(doc) \in Nat
      /\ \A k \in 1..Len(doc) : doc[k].level \in Nat /\ doc[k].level # 0
  BY HeadingFields
<1>2. CASE p = 0
  BY <1>1, <1>2 DEF EndAt, LevelAt
<1>3. CASE p # 0
  <2>1. p \in 1..Len(doc) /\ IsEndAt(doc, p, BlockEnd(doc, p))
    BY <1>1, <1>3, EndIs
  <2> QED BY <1>1, <1>3, <2>1 DEF EndAt, LevelAt, IsEndAt
<1> QED BY <1>2, <1>3

\* A parent is one level up.
LEMMA Stepped ==
  ASSUME NEW doc \in Seq(Heading), Proper(doc), NEW i \in 1..Len(doc)
  PROVE  doc[i].level = LevelAt(doc, ParentHeading(doc, i)) + 1
<1> DEFINE p == ParentHeading(doc, i)
<1>1. /\ Len(doc) \in Nat /\ DOMAIN doc = 1..Len(doc) /\ i \in Nat
      /\ \A k \in 1..Len(doc) : doc[k].level \in Nat /\ doc[k].level # 0
  BY HeadingFields
<1>2. IsParentAt(doc, i, p)
  BY ParentIs
<1> HIDE DEF p
<1>3. p \in 0..(i - 1) /\ LevelAt(doc, p) \in Nat /\ LevelAt(doc, p) < doc[i].level
  BY <1>1, <1>2 DEF IsParentAt, LevelAt
<1>4. p + 1 \in 1..Len(doc) /\ doc[p + 1].level <= LevelAt(doc, p) + 1
  <2>1. p + 1 \in 1..Len(doc)
    BY <1>1, <1>3
  <2>2. LevelBefore(doc, p + 1) = LevelAt(doc, p)
    BY <1>1, <1>3 DEF LevelBefore, LevelAt
  <2> QED BY <1>1, <2>1, <2>2 DEF Proper
<1>5. doc[p + 1].level >= doc[i].level
  <2>1. CASE p + 1 = i
    BY <1>1, <2>1
  <2>2. CASE p + 1 # i
    <3>1. p + 1 \in (p + 1)..(i - 1)
      BY <1>1, <1>3, <2>2
    <3> QED BY <1>2, <3>1 DEF IsParentAt
  <2> QED BY <2>1, <2>2
<1> QED BY <1>1, <1>3, <1>4, <1>5 DEF p

\* The children of the heading at p are the headings one level below it in its
\* subtree.
LEMMA ChildIs ==
  ASSUME NEW doc \in Seq(Heading), Proper(doc), NEW p \in 0..Len(doc), NEW c \in 1..Len(doc)
  PROVE  ParentHeading(doc, c) = p
           <=> c \in (p + 1)..(EndAt(doc, p) - 1) /\ doc[c].level = LevelAt(doc, p) + 1
<1>1. /\ Len(doc) \in Nat /\ c \in Nat
      /\ \A k \in 1..Len(doc) : doc[k].level \in Nat
  BY HeadingFields
<1> DEFINE e == EndAt(doc, p)
<1>2. /\ p \in Nat /\ e \in (p + 1)..(Len(doc) + 1) /\ LevelAt(doc, p) \in Nat
      /\ \A j \in (p + 1)..(e - 1) : doc[j].level > LevelAt(doc, p)
      /\ e <= Len(doc) => doc[e].level <= LevelAt(doc, p)
  BY EndAtIs
<1> HIDE DEF e
<1>3. ASSUME ParentHeading(doc, c) = p
      PROVE  c \in (p + 1)..(e - 1) /\ doc[c].level = LevelAt(doc, p) + 1
  <2>1. IsParentAt(doc, c, p)
    BY <1>3, ParentIs
  <2>2. doc[c].level = LevelAt(doc, p) + 1
    BY <1>3, Stepped
  <2>3. ~(c >= e)
    <3> SUFFICES ASSUME c >= e PROVE FALSE
      OBVIOUS
    <3>1. e \in 1..Len(doc) /\ doc[e].level <= LevelAt(doc, p)
      BY <1>1, <1>2
    <3>2. doc[e].level >= doc[c].level
      <4>1. CASE e = c
        BY <1>1, <4>1
      <4>2. CASE e # c
        <5>1. e \in (p + 1)..(c - 1)
          BY <1>1, <1>2, <4>2
        <5> QED BY <2>1, <5>1 DEF IsParentAt
      <4> QED BY <4>1, <4>2
    <3> QED BY <1>1, <1>2, <2>2, <3>1, <3>2
  <2> QED BY <1>1, <1>2, <2>1, <2>2, <2>3 DEF IsParentAt
<1>4. ASSUME c \in (p + 1)..(e - 1), doc[c].level = LevelAt(doc, p) + 1
      PROVE  ParentHeading(doc, c) = p
  <2>1. \A j \in (p + 1)..(c - 1) : j \in (p + 1)..(e - 1) /\ j \in 1..Len(doc)
    BY <1>1, <1>2, <1>4
  <2>2. \A j \in (p + 1)..(c - 1) : doc[j].level >= doc[c].level
    BY <1>1, <1>2, <1>4, <2>1
  <2>3. p \in 0..(c - 1) /\ (p # 0 => doc[p].level < doc[c].level)
    BY <1>1, <1>2, <1>4 DEF LevelAt
  <2>4. IsParentAt(doc, c, p)
    BY <2>2, <2>3 DEF IsParentAt
  <2> QED BY <2>4, ParentOnly
<1> QED BY <1>3, <1>4 DEF e

LEMMA ParentId ==
  ASSUME NEW doc \in Seq(Heading), Distinct(doc), NEW p \in 0..Len(doc), NEW c \in 1..Len(doc)
  PROVE  /\ HeadingParent(doc, c) = IdAt(doc, p) <=> ParentHeading(doc, c) = p
         /\ HeadingParent(doc, c) \in {0} \cup IdsOf(doc)
<1>1. /\ Len(doc) \in Nat /\ DOMAIN doc = 1..Len(doc)
      /\ \A k \in 1..Len(doc) : doc[k].id # 0
  BY HeadingFields
<1>2. ParentHeading(doc, c) \in 0..Len(doc) /\ ParentHeading(doc, c) \in 0..(c - 1)
  BY <1>1, ParentIs DEF IsParentAt
<1>3. \A k \in 1..Len(doc) : doc[k].id \in IdsOf(doc)
  BY PositionIs
<1> QED BY <1>1, <1>2, <1>3 DEF HeadingParent, IdAt, Distinct

\* Every heading under p is in the subtree of a child of p.
LEMMA ChildAround ==
  ASSUME NEW doc \in Seq(Heading), Proper(doc), NEW p \in 0..Len(doc),
         NEW m \in (p + 1)..(EndAt(doc, p) - 1)
  PROVE  \E c \in (p + 1)..m : /\ c \in 1..Len(doc) /\ ParentHeading(doc, c) = p
                               /\ m < BlockEnd(doc, c)
<1>1. /\ Len(doc) \in Nat /\ DOMAIN doc = 1..Len(doc)
      /\ \A k \in 1..Len(doc) : doc[k].level \in Nat
  BY HeadingFields
<1> DEFINE e == EndAt(doc, p)
<1>2. /\ p \in Nat /\ e \in (p + 1)..(Len(doc) + 1) /\ LevelAt(doc, p) \in Nat
      /\ \A j \in (p + 1)..(e - 1) : doc[j].level > LevelAt(doc, p)
  BY EndAtIs
<1>3. m \in (p + 1)..(e - 1) /\ m \in Nat
  BY <1>2
<1> HIDE DEF e
<1> DEFINE B == {c \in (p + 1)..m : doc[c].level = LevelAt(doc, p) + 1}
<1>4. p + 1 \in B
  <2>1. p + 1 \in 1..Len(doc) /\ p + 1 \in (p + 1)..m /\ p + 1 \in (p + 1)..(e - 1)
    BY <1>1, <1>2, <1>3
  <2>2. LevelBefore(doc, p + 1) = LevelAt(doc, p)
    BY <1>2 DEF LevelBefore, LevelAt
  <2>3. doc[p + 1].level <= LevelAt(doc, p) + 1
    BY <1>1, <2>1, <2>2 DEF Proper
  <2> QED BY <1>1, <1>2, <2>1, <2>3
<1>5. PICK c \in B : \A k \in B : c >= k
  <2>1. B \subseteq 0..m /\ B # {}
    BY <1>2, <1>3, <1>4
  <2> HIDE DEF B
  <2> QED BY <1>3, <2>1, GreatestNumber
<1>6. c \in (p + 1)..m /\ c \in 1..Len(doc) /\ c \in (p + 1)..(e - 1) /\ doc[c].level = LevelAt(doc, p) + 1
  BY <1>1, <1>2, <1>3, <1>5
<1>7. ParentHeading(doc, c) = p
  BY <1>6, ChildIs DEF e
<1>8. m < BlockEnd(doc, c)
  <2> SUFFICES ASSUME ~(m < BlockEnd(doc, c)) PROVE FALSE
    OBVIOUS
  <2> DEFINE f == BlockEnd(doc, c)
  <2>1. IsEndAt(doc, c, f)
    BY <1>6, EndIs
  <2>2. f \in (c + 1)..m /\ f \in (p + 1)..(e - 1) /\ f \in 1..Len(doc) /\ f > c
    BY <1>1, <1>2, <1>3, <1>6, <2>1 DEF IsEndAt
  <2>3. doc[f].level <= LevelAt(doc, p) + 1 /\ doc[f].level > LevelAt(doc, p)
    BY <1>2, <1>6, <2>1, <2>2 DEF IsEndAt
  <2> HIDE DEF f
  <2>4. f \in B
    BY <1>1, <1>2, <1>3, <1>6, <2>2, <2>3
  <2> QED BY <1>5, <1>6, <2>2, <2>4
<1> QED BY <1>6, <1>7, <1>8

-----------------------------------------------------------------------------
(* Lists of children.                                                         *)

\* s lists the sections whose parent is p, in the order of the document.
Lists(s, doc, p) ==
  /\ s \in Seq(Sections_)
  /\ \A j \in 1..Len(s) : s[j] \in IdsOf(doc) /\ ParentOf(doc, s[j]) = p
  /\ \A x \in IdsOf(doc) : ParentOf(doc, x) = p => \E j \in 1..Len(s) : s[j] = x
  /\ \A j, k \in 1..Len(s) : j < k => PositionOf(doc, s[j]) < PositionOf(doc, s[k])

\* There is one such list.
LEMMA OneList ==
  ASSUME NEW doc \in Seq(Heading), Distinct(doc), NEW p, NEW s, NEW t, Lists(s, doc, p), Lists(t, doc, p)
  PROVE  s = t
<1> DEFINE at == [x \in IdsOf(doc) |-> PositionOf(doc, x)]
<1>0. at \in [IdsOf(doc) -> Nat]
  BY PositionIs, HeadingFields
<1>1. /\ s \in Seq(Sections_) /\ t \in Seq(Sections_)
      /\ Len(s) \in Nat /\ Len(t) \in Nat
  BY DEF Lists
<1>2. /\ \A j \in 1..Len(s) : s[j] \in IdsOf(doc) /\ \E k \in 1..Len(t) : t[k] = s[j]
      /\ \A j \in 1..Len(t) : t[j] \in IdsOf(doc) /\ \E k \in 1..Len(s) : s[k] = t[j]
  BY DEF Lists
<1>3. /\ \A j, k \in 1..Len(s) : j < k => at[s[j]] < at[s[k]]
      /\ \A j, k \in 1..Len(t) : j < k => at[t[j]] < at[t[k]]
  BY <1>2 DEF Lists
<1>4. \A x, y \in IdsOf(doc) : at[x] = at[y] => x = y
  BY PositionIs
<1> HIDE DEF at
<1>8. /\ \A j \in 1..Len(s) : at[s[j]] \in Nat
      /\ \A j \in 1..Len(t) : at[t[j]] \in Nat
  BY <1>0, <1>2
<1> DEFINE Bad == {j \in Nat \ {0} : /\ j \in 1..Len(s) \/ j \in 1..Len(t)
                                     /\ ~(j \in 1..Len(s) /\ j \in 1..Len(t) /\ s[j] = t[j])}
<1>5. Bad = {}
  <2> SUFFICES ASSUME Bad # {} PROVE FALSE
    OBVIOUS
  <2>1. PICK j \in Bad : \A k \in Bad : j <= k
    <3>1. Bad \subseteq Nat OBVIOUS
    <3> HIDE DEF Bad
    <3> QED BY <3>1, LeastOfAll
  <2>2. \A k \in 1..(j - 1) : k \in 1..Len(s) /\ k \in 1..Len(t) /\ s[k] = t[k]
    <3> SUFFICES ASSUME NEW k \in 1..(j - 1) PROVE k \in 1..Len(s) /\ k \in 1..Len(t) /\ s[k] = t[k]
      OBVIOUS
    <3>1. j \in Nat /\ k \in Nat \ {0} /\ k < j
      BY <2>1
    <3>2. k \notin Bad
      BY <2>1, <3>1
    <3>3. k \in 1..Len(s) \/ k \in 1..Len(t)
      BY <1>1, <2>1, <3>1
    <3> QED BY <3>1, <3>2, <3>3
  <2>3. j \in Nat \ {0}
    OBVIOUS
  \* The j-th of the one is further on in the other.
  <2>4. ASSUME j \in 1..Len(s) PROVE j \in 1..Len(t) /\ at[t[j]] <= at[s[j]]
    <3>1. PICK k \in 1..Len(t) : t[k] = s[j]
      BY <1>2, <2>4
    <3>2. k >= j
      <4> SUFFICES ASSUME k < j PROVE FALSE
        BY <1>1, <2>3, <3>1
      <4>1. k \in 1..(j - 1) /\ k \in 1..Len(s) /\ s[k] = s[j]
        BY <2>2, <2>3, <3>1
      <4>2. at[s[k]] < at[s[j]]
        BY <1>3, <2>4, <4>1
      <4> QED BY <1>8, <2>4, <4>1, <4>2
    <3>3. j \in 1..Len(t)
      BY <1>1, <2>3, <3>1, <3>2
    <3>4. k = j \/ at[t[j]] < at[t[k]]
      BY <1>1, <1>3, <2>3, <3>1, <3>2, <3>3
    <3> QED BY <1>8, <2>4, <3>1, <3>3, <3>4
  <2>5. ASSUME j \in 1..Len(t) PROVE j \in 1..Len(s) /\ at[s[j]] <= at[t[j]]
    <3>1. PICK k \in 1..Len(s) : s[k] = t[j]
      BY <1>2, <2>5
    <3>2. k >= j
      <4> SUFFICES ASSUME k < j PROVE FALSE
        BY <1>1, <2>3, <3>1
      <4>1. k \in 1..(j - 1) /\ k \in 1..Len(t) /\ t[k] = t[j]
        BY <2>2, <2>3, <3>1
      <4>2. at[t[k]] < at[t[j]]
        BY <1>3, <2>5, <4>1
      <4> QED BY <1>8, <2>5, <4>1, <4>2
    <3>3. j \in 1..Len(s)
      BY <1>1, <2>3, <3>1, <3>2
    <3>4. k = j \/ at[s[j]] < at[s[k]]
      BY <1>1, <1>3, <2>3, <3>1, <3>2, <3>3
    <3> QED BY <1>8, <2>5, <3>1, <3>3, <3>4
  <2>6. j \in 1..Len(s) /\ j \in 1..Len(t)
    BY <2>1, <2>4, <2>5
  <2>7. at[s[j]] = at[t[j]]
    BY <1>8, <2>4, <2>5, <2>6
  <2>8. s[j] = t[j]
    BY <1>2, <1>4, <2>6, <2>7
  <2> QED BY <2>1, <2>6, <2>8
<1>7. Len(s) = Len(t)
  <2>1. Len(s) <= Len(t)
    <3> SUFFICES ASSUME Len(t) < Len(s) PROVE FALSE BY <1>1
    <3>1. Len(s) \in Bad BY <1>1
    <3> QED BY <1>5, <3>1
  <2>2. Len(t) <= Len(s)
    <3> SUFFICES ASSUME Len(s) < Len(t) PROVE FALSE BY <1>1
    <3>1. Len(t) \in Bad BY <1>1
    <3> QED BY <1>5, <3>1
  <2> QED BY <1>1, <2>1, <2>2
<1>6. \A k \in 1..Len(s) : s[k] = t[k]
  BY <1>1, <1>5
<1> QED BY <1>1, <1>7, <1>6, SameEntries

LEMMA Listed ==
  ASSUME NEW doc, Outline(doc), NEW p \in 0..Len(doc), NEW s, Lists(s, doc, IdAt(doc, p))
  PROVE  /\ Len(s) \in Nat /\ DOMAIN s = 1..Len(s)
         /\ \A j \in 1..Len(s) :
              LET c == PositionOf(doc, s[j])
              IN /\ c \in 1..Len(doc) /\ doc[c].id = s[j] /\ ParentHeading(doc, c) = p
                 /\ c \in (p + 1)..(EndAt(doc, p) - 1) /\ doc[c].level = LevelAt(doc, p) + 1
         /\ \A c \in 1..Len(doc) : ParentHeading(doc, c) = p =>
              \E j \in 1..Len(s) : PositionOf(doc, s[j]) = c
         /\ \A j, k \in 1..Len(s) : j < k => PositionOf(doc, s[j]) < PositionOf(doc, s[k])
<1>0. doc \in Seq(Heading) /\ Distinct(doc) /\ Proper(doc)
  BY DEF Outline
<1>1. Len(s) \in Nat /\ DOMAIN s = 1..Len(s)
  BY DEF Lists
<1>2. ASSUME NEW j \in 1..Len(s), NEW c, c = PositionOf(doc, s[j])
      PROVE  /\ c \in 1..Len(doc) /\ doc[c].id = s[j] /\ ParentHeading(doc, c) = p
             /\ c \in (p + 1)..(EndAt(doc, p) - 1) /\ doc[c].level = LevelAt(doc, p) + 1
  <2>1. s[j] \in IdsOf(doc) /\ HeadingParent(doc, c) = IdAt(doc, p)
    BY <1>2 DEF Lists, ParentOf
  <2>2. c \in 1..Len(doc) /\ doc[c].id = s[j]
    BY <1>0, <1>2, <2>1, PositionIs
  <2>3. ParentHeading(doc, c) = p
    BY <1>0, <2>1, <2>2, ParentId
  <2> QED BY <1>0, <2>2, <2>3, ChildIs
<1>3. ASSUME NEW c \in 1..Len(doc), ParentHeading(doc, c) = p
      PROVE  \E j \in 1..Len(s) : PositionOf(doc, s[j]) = c
  <2>1. doc[c].id \in IdsOf(doc) /\ PositionOf(doc, doc[c].id) = c
    BY <1>0, PositionIs
  <2>2. HeadingParent(doc, c) = IdAt(doc, p)
    BY <1>0, <1>3, ParentId
  <2>3. PICK j \in 1..Len(s) : s[j] = doc[c].id
    BY <2>1, <2>2 DEF Lists, ParentOf
  <2> QED BY <2>1, <2>3
<1>4. \A j, k \in 1..Len(s) : j < k => PositionOf(doc, s[j]) < PositionOf(doc, s[k])
  BY DEF Lists
<1> QED BY <1>1, <1>2, <1>3, <1>4

\* The subtree of p is p and the subtrees of its children, one after the other.
LEMMA Chain ==
  ASSUME NEW doc, Outline(doc), NEW p \in 0..Len(doc), NEW s, Lists(s, doc, IdAt(doc, p))
  PROVE  /\ Len(s) = 0 => EndAt(doc, p) = p + 1
         /\ Len(s) > 0 => /\ PositionOf(doc, s[1]) = p + 1
                          /\ BlockEnd(doc, PositionOf(doc, s[Len(s)])) = EndAt(doc, p)
         /\ \A j \in 1..(Len(s) - 1) :
              BlockEnd(doc, PositionOf(doc, s[j])) = PositionOf(doc, s[j + 1])
<1> DEFINE e == EndAt(doc, p)
           m == Len(s)
           c == [j \in 1..m |-> PositionOf(doc, s[j])]
<1>0. doc \in Seq(Heading) /\ Distinct(doc) /\ Proper(doc)
  BY DEF Outline
<1>1. /\ Len(doc) \in Nat /\ p \in Nat /\ m \in Nat
      /\ \A k \in 1..Len(doc) : doc[k].level \in Nat
  BY <1>0, HeadingFields, Listed
<1>2. /\ e \in (p + 1)..(Len(doc) + 1) /\ LevelAt(doc, p) \in Nat
      /\ \A j \in (p + 1)..(e - 1) : doc[j].level > LevelAt(doc, p)
      /\ e <= Len(doc) => doc[e].level <= LevelAt(doc, p)
  BY <1>0, EndAtIs
<1>3. /\ \A j \in 1..m : /\ c[j] \in 1..Len(doc) /\ c[j] \in (p + 1)..(e - 1)
                         /\ doc[c[j]].level = LevelAt(doc, p) + 1
      /\ \A k \in 1..Len(doc) : ParentHeading(doc, k) = p => \E j \in 1..m : c[j] = k
      /\ \A j, k \in 1..m : j < k => c[j] < c[k]
  BY Listed
<1>4. \A k \in (p + 1)..(e - 1) :
        \E j \in 1..m : c[j] \in (p + 1)..k /\ k < BlockEnd(doc, c[j])
  <2> SUFFICES ASSUME NEW k \in (p + 1)..(e - 1)
               PROVE  \E j \in 1..m : c[j] \in (p + 1)..k /\ k < BlockEnd(doc, c[j])
    OBVIOUS
  <2>1. PICK d \in (p + 1)..k : d \in 1..Len(doc) /\ ParentHeading(doc, d) = p /\ k < BlockEnd(doc, d)
    BY <1>0, ChildAround
  <2> QED BY <1>3, <2>1
<1> HIDE DEF e, m, c
<1>5. m = 0 => e = p + 1
  <2> SUFFICES ASSUME m = 0, e # p + 1 PROVE FALSE
    OBVIOUS
  <2>1. p + 1 \in (p + 1)..(e - 1)
    BY <1>1, <1>2
  <2> QED BY <1>4, <2>1
<1>6. m > 0 => c[1] = p + 1
  <2> SUFFICES ASSUME m > 0 PROVE c[1] = p + 1
    OBVIOUS
  <2>1. p + 1 \in (p + 1)..(e - 1) /\ 1 \in 1..m
    BY <1>1, <1>2, <1>3
  <2>2. PICK j \in 1..m : c[j] \in (p + 1)..(p + 1)
    BY <1>4, <2>1
  <2> QED BY <1>1, <1>3, <2>1, <2>2
\* What lies between a child and the next is in the subtree of the former.
<1>7. ASSUME NEW j \in 1..m, NEW k \in (c[j] + 1)..(e - 1), j = m \/ k < c[j + 1]
      PROVE  k < BlockEnd(doc, c[j])
  <2>0. k \in (p + 1)..(e - 1) /\ c[j] \in Nat /\ k \in Nat /\ c[j] < k
    BY <1>1, <1>2, <1>3
  <2>1. PICK i \in 1..m : c[i] \in (p + 1)..k /\ k < BlockEnd(doc, c[i])
    BY <1>4, <2>0
  <2>2. ~(i > j)
    <3> SUFFICES ASSUME i > j PROVE FALSE
      OBVIOUS
    <3>1. j + 1 \in 1..m /\ j # m
      BY <1>1
    <3>2. k < c[j + 1] /\ c[j + 1] \in Nat /\ c[i] \in Nat /\ c[i] <= k
      BY <1>3, <1>7, <2>0, <2>1, <3>1
    <3>3. i = j + 1 \/ c[j + 1] < c[i]
      BY <1>1, <1>3, <3>1
    <3> QED BY <2>0, <3>2, <3>3
  <2>3. ~(i < j)
    <3> SUFFICES ASSUME i < j PROVE FALSE
      OBVIOUS
    <3>1. c[i] < c[j] /\ c[i] \in Nat
      BY <1>3
    <3>2. IsEndAt(doc, c[i], BlockEnd(doc, c[i]))
      BY <1>0, <1>3, EndIs
    <3>3. c[j] \in (c[i] + 1)..(BlockEnd(doc, c[i]) - 1)
      BY <1>1, <1>3, <2>0, <2>1, <3>1, <3>2, SMTT(30) DEF IsEndAt
    <3>4. doc[c[j]].level > doc[c[i]].level
      BY <3>2, <3>3 DEF IsEndAt
    <3>5. doc[c[i]].level = LevelAt(doc, p) + 1 /\ doc[c[j]].level = LevelAt(doc, p) + 1
      BY <1>3
    <3> QED BY <1>2, <3>4, <3>5
  <2>4. i = j
    BY <1>1, <2>2, <2>3
  <2> QED BY <2>1, <2>4
<1>8. ASSUME NEW j \in 1..m, NEW f \in (c[j] + 1)..e, j = m => f = e, j # m => f = c[j + 1]
      PROVE  BlockEnd(doc, c[j]) = f
  <2>1. IsEndAt(doc, c[j], BlockEnd(doc, c[j])) /\ c[j] \in 1..Len(doc)
    BY <1>0, <1>3, EndIs
  <2>2. \A k \in (c[j] + 1)..(f - 1) : k < BlockEnd(doc, c[j])
    <3> SUFFICES ASSUME NEW k \in (c[j] + 1)..(f - 1) PROVE k < BlockEnd(doc, c[j])
      OBVIOUS
    <3>1. k \in (c[j] + 1)..(e - 1) /\ (j = m \/ k < c[j + 1])
      BY <1>1, <1>2, <1>3, <1>8
    <3> QED BY <1>7, <3>1
  <2>3. \A k \in (c[j] + 1)..(f - 1) : doc[k].level > doc[c[j]].level
    <3> SUFFICES ASSUME NEW k \in (c[j] + 1)..(f - 1) PROVE doc[k].level > doc[c[j]].level
      OBVIOUS
    <3>1. k < BlockEnd(doc, c[j])
      BY <2>2
    <3>2. k \in (c[j] + 1)..(BlockEnd(doc, c[j]) - 1)
      BY <1>1, <1>2, <2>1, <3>1 DEF IsEndAt
    <3> QED BY <2>1, <3>2 DEF IsEndAt
  <2>4. f <= Len(doc) => doc[f].level <= doc[c[j]].level
    <3>1. CASE j = m
      <4>1. f = e /\ doc[c[j]].level = LevelAt(doc, p) + 1
        BY <1>3, <1>8, <3>1
      <4>2. e <= Len(doc) => e \in 1..Len(doc)
        BY <1>1, <1>2
      <4> QED BY <1>1, <1>2, <4>1, <4>2
    <3>2. CASE j # m
      <4>1. j + 1 \in 1..m
        BY <1>1, <3>2
      <4> QED BY <1>2, <1>3, <1>8, <3>2, <4>1, SMTT(30)
    <3> QED BY <3>1, <3>2
  <2>5. f \in (c[j] + 1)..(Len(doc) + 1)
    BY <1>1, <1>2, <2>1
  <2>6. IsEndAt(doc, c[j], f)
    BY <2>3, <2>4, <2>5 DEF IsEndAt
  <2> QED BY <1>0, <2>1, <2>6, EndOnly
<1>9. ASSUME NEW j \in 1..(m - 1) PROVE BlockEnd(doc, c[j]) = c[j + 1]
  <2>1. j \in 1..m /\ j + 1 \in 1..m /\ j # m /\ j < j + 1
    BY <1>1
  <2>2. c[j + 1] \in (c[j] + 1)..e
    BY <1>1, <1>2, <1>3, <2>1
  <2> QED BY <1>8, <2>1, <2>2
<1>10. m > 0 => BlockEnd(doc, c[m]) = e
  <2> SUFFICES ASSUME m > 0 PROVE BlockEnd(doc, c[m]) = e
    OBVIOUS
  <2>1. m \in 1..m
    BY <1>1
  <2>2. e \in (c[m] + 1)..e
    BY <1>1, <1>2, <1>3, <2>1
  <2> QED BY <1>8, <2>1, <2>2
<1>11. \A j \in 1..m : c[j] = PositionOf(doc, s[j])
  BY DEF c
<1>12. m > 0 => PositionOf(doc, s[1]) = p + 1 /\ BlockEnd(doc, PositionOf(doc, s[m])) = e
  BY <1>1, <1>6, <1>10, <1>11
<1>13. \A j \in 1..(m - 1) : BlockEnd(doc, PositionOf(doc, s[j])) = PositionOf(doc, s[j + 1])
  <2> SUFFICES ASSUME NEW j \in 1..(m - 1)
               PROVE  BlockEnd(doc, PositionOf(doc, s[j])) = PositionOf(doc, s[j + 1])
    OBVIOUS
  <2>1. j \in 1..m /\ j + 1 \in 1..m
    BY <1>1
  <2> QED BY <1>9, <1>11, <2>1
<1> QED BY <1>5, <1>12, <1>13 DEF e, m

\* Sequences put together one after the other.
Joins(c, seqs, n) ==
  /\ c = [i \in 1..n |-> c[i]]
  /\ \A i \in 1..n : c[i] = IF i = 1 THEN seqs[i] ELSE c[i - 1] \o seqs[i]

LEMMA FlattenIs ==
  ASSUME NEW n \in Nat \ {0}, NEW seqs, Len(seqs) = n, NEW c, Joins(c, seqs, n)
  PROVE  FlattenSeq(seqs) = c[n]
<1> DEFINE Fits(f) == f = [i \in 1..Len(seqs) |-> IF i = 1 THEN seqs[i] ELSE f[i - 1] \o seqs[i]]
           F == CHOOSE f : Fits(f)
<1>1. FlattenSeq(seqs) = F[n]
  BY DEF FlattenSeq
<1>2. Fits(c)
  BY DEF Joins
<1>3. Fits(F)
  <2> HIDE DEF Fits
  <2> QED BY <1>2
<1> HIDE DEF F
<1> DEFINE P == {i \in 0..n : i = 0 \/ F[i] = c[i]}
<1>4. ASSUME NEW k \in 0..n, k < n, k \in P PROVE k + 1 \in P
  <2>1. k + 1 \in 1..n /\ k + 1 \in 0..n /\ (k + 1 = 1 <=> k = 0) /\ (k + 1) - 1 = k
    BY <1>4
  <2>2. F[k + 1] = IF k + 1 = 1 THEN seqs[k + 1] ELSE F[k] \o seqs[k + 1]
    BY <1>3, <2>1
  <2>3. c[k + 1] = IF k + 1 = 1 THEN seqs[k + 1] ELSE c[k] \o seqs[k + 1]
    BY <2>1 DEF Joins
  <2> QED BY <1>4, <2>1, <2>2, <2>3
<1>5. 0 \in P
  OBVIOUS
<1> HIDE DEF P
<1>6. \A k \in 0..n : k \in P
  BY <1>4, <1>5, CountUp
<1> QED BY <1>1, <1>6 DEF P

\* The sections below p, in the order of the document.
Stretch(doc, a, b) == [k \in 1..(b - a) |-> doc[a + k - 1].id]
Under(doc, p) == Stretch(doc, p + 1, EndAt(doc, p))

LEMMA FilledIn ==
  ASSUME NEW S, NEW f, NEW n, n \in Nat, f \in [1..n -> S]
  PROVE  f \in Seq(S) /\ Len(f) = n
OBVIOUS

LEMMA StretchIs ==
  ASSUME NEW doc \in Seq(Heading), NEW a \in 1..(Len(doc) + 1), NEW b \in a..(Len(doc) + 1)
  PROVE  /\ Stretch(doc, a, b) \in Seq(Sections_) /\ Len(Stretch(doc, a, b)) = b - a
         /\ \A k \in 1..(b - a) : Stretch(doc, a, b)[k] = doc[a + k - 1].id
<1>1. /\ Len(doc) \in Nat /\ a \in Nat /\ b \in Nat /\ b - a \in Nat
      /\ \A k \in 1..Len(doc) : doc[k].id \in Sections_
  BY HeadingFields
<1>2. \A k \in 1..(b - a) : a + k - 1 \in 1..Len(doc)
  BY <1>1
<1>3. \A k \in 1..(b - a) : doc[a + k - 1].id \in Sections_
  BY <1>1, <1>2
<1>4. Stretch(doc, a, b) \in [1..(b - a) -> Sections_]
  BY <1>3 DEF Stretch
<1>5. Stretch(doc, a, b) \in Seq(Sections_) /\ Len(Stretch(doc, a, b)) = b - a
  BY <1>1, <1>4, FilledIn
<1> QED BY <1>5 DEF Stretch

LEMMA StretchesJoin ==
  ASSUME NEW doc \in Seq(Heading), NEW a \in 1..(Len(doc) + 1), NEW b \in a..(Len(doc) + 1),
         NEW d \in b..(Len(doc) + 1)
  PROVE  Stretch(doc, a, b) \o Stretch(doc, b, d) = Stretch(doc, a, d)
<1> DEFINE s == Stretch(doc, a, b)
           t == Stretch(doc, b, d)
           u == Stretch(doc, a, d)
<1>1. /\ Len(doc) \in Nat /\ a \in Nat /\ b \in Nat /\ d \in Nat /\ a <= b /\ b <= d
      /\ b \in 1..(Len(doc) + 1) /\ d \in a..(Len(doc) + 1)
  BY HeadingFields
<1>2. s \in Seq(Sections_) /\ Len(s) = b - a /\ \A k \in 1..(b - a) : s[k] = doc[a + k - 1].id
  BY StretchIs
<1>3. t \in Seq(Sections_) /\ Len(t) = d - b /\ \A k \in 1..(d - b) : t[k] = doc[b + k - 1].id
  BY <1>1, StretchIs
<1>4. u \in Seq(Sections_) /\ Len(u) = d - a /\ \A k \in 1..(d - a) : u[k] = doc[a + k - 1].id
  BY <1>1, StretchIs
<1> HIDE DEF s, t, u
<1>5. /\ s \o t \in Seq(Sections_) /\ Len(s \o t) = Len(s) + Len(t)
      /\ \A k \in 1..(Len(s) + Len(t)) : (s \o t)[k] = IF k <= Len(s) THEN s[k] ELSE t[k - Len(s)]
  BY <1>2, <1>3, Joined
<1>6. Len(s \o t) = d - a
  BY <1>1, <1>2, <1>3, <1>5
<1>7. ASSUME NEW k \in 1..(d - a) PROVE (s \o t)[k] = u[k]
  <2>0. (s \o t)[k] = IF k <= b - a THEN s[k] ELSE t[k - (b - a)]
    BY <1>1, <1>2, <1>3, <1>5, SMTT(30)
  <2>1. CASE k <= b - a
    <3>1. k \in 1..(b - a)
      BY <1>1, <2>1
    <3> QED BY <1>2, <1>4, <2>0, <2>1, <3>1
  <2>2. CASE ~(k <= b - a)
    <3>1. k - (b - a) \in 1..(d - b) /\ b + (k - (b - a)) - 1 = a + k - 1
      BY <1>1, <2>2
    <3> QED BY <1>3, <1>4, <2>0, <2>2, <3>1
  <2> QED BY <2>1, <2>2
<1>8. s \o t = u
  <2>1. \A k \in 1..Len(s \o t) : (s \o t)[k] = u[k]
    BY <1>6, <1>7
  <2> QED BY <1>4, <1>5, <1>6, <2>1, SameEntries
<1> QED BY <1>8 DEF s, t, u

\* The walk below p, when the walks below its children are what they should be.
LEMMA WalkStep ==
  ASSUME NEW doc, Outline(doc), NEW p \in 0..Len(doc), NEW s, Lists(s, doc, IdAt(doc, p)),
         NEW w, \A k \in 1..Len(s) : w[s[k]] = Under(doc, PositionOf(doc, s[k]))
  PROVE  FlattenSeq([k \in DOMAIN s |-> <<s[k]>> \o w[s[k]]]) = Under(doc, p)
<1> DEFINE e == EndAt(doc, p)
           m == Len(s)
           c == [j \in 1..m |-> PositionOf(doc, s[j])]
           f == [j \in 1..m |-> BlockEnd(doc, c[j])]
           seqs == [k \in DOMAIN s |-> <<s[k]>> \o w[s[k]]]
<1>0. doc \in Seq(Heading) /\ Distinct(doc) /\ Proper(doc)
  BY DEF Outline
<1>1. /\ Len(doc) \in Nat /\ p \in Nat /\ m \in Nat /\ DOMAIN s = 1..m
      /\ \A k \in 1..Len(doc) : doc[k].level \in Nat /\ doc[k].id \in Sections_
  <2>1. m \in Nat /\ DOMAIN s = 1..m
    BY Listed
  <2> QED BY <1>0, <2>1, HeadingFields
<1>2. e \in (p + 1)..(Len(doc) + 1)
  BY <1>0, EndAtIs
<1>3. \A j \in 1..m : /\ c[j] \in 1..Len(doc) /\ doc[c[j]].id = s[j] /\ c[j] \in (p + 1)..(e - 1)
                      /\ f[j] \in (c[j] + 1)..(Len(doc) + 1)
  <2> SUFFICES ASSUME NEW j \in 1..m
               PROVE /\ c[j] \in 1..Len(doc) /\ doc[c[j]].id = s[j] /\ c[j] \in (p + 1)..(e - 1)
                     /\ f[j] \in (c[j] + 1)..(Len(doc) + 1)
    OBVIOUS
  <2>1. c[j] \in 1..Len(doc) /\ doc[c[j]].id = s[j] /\ c[j] \in (p + 1)..(e - 1)
    BY Listed
  <2>2. f[j] = BlockEnd(doc, c[j])
    OBVIOUS
  <2> HIDE DEF c, f
  <2>3. IsEndAt(doc, c[j], f[j])
    BY <1>0, <2>1, <2>2, EndIs
  <2> QED BY <2>1, <2>3 DEF IsEndAt
<1>4. /\ m = 0 => e = p + 1
      /\ m > 0 => c[1] = p + 1 /\ f[m] = e
      /\ \A j \in 1..(m - 1) : f[j] = c[j + 1]
  BY Chain, <1>1
<1>5. \A j \in 1..m : w[s[j]] = Stretch(doc, c[j] + 1, f[j])
  <2> SUFFICES ASSUME NEW j \in 1..m PROVE w[s[j]] = Stretch(doc, c[j] + 1, f[j])
    OBVIOUS
  <2>1. w[s[j]] = Under(doc, c[j]) /\ f[j] = BlockEnd(doc, c[j])
    OBVIOUS
  <2>2. c[j] # 0
    <3>1. c[j] \in 1..Len(doc)
      BY <1>3
    <3> HIDE DEF c
    <3> QED BY <1>1, <3>1
  <2> HIDE DEF c, f
  <2> QED BY <2>1, <2>2 DEF Under, EndAt
<1>6. DOMAIN seqs = 1..m /\ \A j \in 1..m : seqs[j] = <<s[j]>> \o w[s[j]]
  BY <1>1
<1> HIDE DEF e, c, f
<1>7. ASSUME NEW j \in 1..m PROVE seqs[j] = Stretch(doc, c[j], f[j])
  <2> DEFINE a == c[j]
             b == f[j]
  <2>1. a \in 1..Len(doc) /\ b \in (a + 1)..(Len(doc) + 1) /\ doc[a].id = s[j] /\ s[j] \in Sections_
    BY <1>1, <1>3
  <2> HIDE DEF a, b
  <2>2. <<s[j]>> = Stretch(doc, a, a + 1)
    <3>1. a \in Nat /\ (a + 1) - a = 1 /\ a + 1 - 1 = a
      BY <2>1
    <3>2. Stretch(doc, a, a + 1) = [k \in 1..1 |-> doc[a + k - 1].id]
      BY <3>1 DEF Stretch
    <3> QED BY <2>1, <3>1, <3>2
  <2>3. a \in 1..(Len(doc) + 1) /\ a + 1 \in a..(Len(doc) + 1) /\ b \in (a + 1)..(Len(doc) + 1)
    BY <1>1, <2>1
  <2>4. Stretch(doc, a, a + 1) \o Stretch(doc, a + 1, b) = Stretch(doc, a, b)
    BY <1>0, <2>3, StretchesJoin
  <2> QED BY <1>5, <1>6, <2>2, <2>4 DEF a, b
<1>8. CASE m = 0
  <2>1. seqs = << >>
    BY <1>6, <1>8
  <2>2. FlattenSeq(seqs) = << >>
    BY <2>1 DEF FlattenSeq
  <2>3. Under(doc, p) = << >>
    <3>1. e - (p + 1) = 0
      BY <1>1, <1>2, <1>4, <1>8
    <3>2. Under(doc, p) = [k \in 1..0 |-> doc[(p + 1) + k - 1].id]
      BY <3>1 DEF Under, Stretch, e
    <3> QED BY <3>2
  <2> QED BY <2>2, <2>3
<1>9. CASE m # 0
  <2> DEFINE C == [j \in 1..m |-> Stretch(doc, p + 1, f[j])]
  <2>1. ASSUME NEW j \in 1..m
        PROVE  C[j] = IF j = 1 THEN seqs[j] ELSE C[j - 1] \o seqs[j]
    <3>1. CASE j = 1
      BY <1>1, <1>4, <1>7, <1>9, <3>1, SMTT(30)
    <3>2. CASE j # 1
      <4>1. j - 1 \in 1..m /\ j - 1 \in 1..(m - 1) /\ (j - 1) + 1 = j
        BY <1>1, <3>2
      <4>2. f[j - 1] = c[j]
        BY <1>4, <4>1
      <4>3. p + 1 \in 1..(Len(doc) + 1) /\ c[j] \in (p + 1)..(Len(doc) + 1) /\ f[j] \in c[j]..(Len(doc) + 1)
        BY <1>1, <1>2, <1>3
      <4>4. Stretch(doc, p + 1, c[j]) \o Stretch(doc, c[j], f[j]) = Stretch(doc, p + 1, f[j])
        BY <1>0, <4>3, StretchesJoin
      <4> QED BY <1>7, <3>2, <4>1, <4>2, <4>4
    <3> QED BY <3>1, <3>2
  <2>2. Joins(C, seqs, m)
    BY <2>1 DEF Joins
  <2>3. Len(seqs) = m
    BY <1>1, <1>6
  <2>4. C[m] = Under(doc, p)
    BY <1>1, <1>4, <1>9 DEF Under, e
  <2> HIDE DEF C, seqs, m
  <2>5. FlattenSeq(seqs) = C[m]
    <3>1. m \in Nat \ {0}
      BY <1>1, <1>9
    <3> QED BY <2>2, <2>3, <3>1, FlattenIs
  <2> QED BY <2>4, <2>5 DEF seqs
<1> QED BY <1>8, <1>9

Tree(kids, doc) ==
  /\ DOMAIN kids = {0} \cup IdsOf(doc)
  /\ \A x \in {0} \cup IdsOf(doc) : Lists(kids[x], doc, x)

LEMMA TreeAt ==
  ASSUME NEW doc, Outline(doc)
  PROVE  /\ \A p \in 0..Len(doc) : /\ IdAt(doc, p) \in {0} \cup IdsOf(doc)
                                   /\ PositionOf(doc, IdAt(doc, p)) = p
         /\ \A x \in {0} \cup IdsOf(doc) : /\ PositionOf(doc, x) \in 0..Len(doc)
                                           /\ IdAt(doc, PositionOf(doc, x)) = x
<1>1. doc \in Seq(Heading) /\ Distinct(doc)
  BY DEF Outline
<1>2. Len(doc) \in Nat
  BY <1>1, HeadingFields
<1> QED BY <1>1, <1>2, PositionIs DEF IdAt

\* The tree of an outline, walked in preorder, gives its sections in the order
\* of the document.
LEMMA PreorderIs ==
  ASSUME NEW doc, Outline(doc), NEW kids, Tree(kids, doc)
  PROVE  Preorder(kids) = [k \in DOMAIN doc |-> doc[k].id]
<1> DEFINE D == DOMAIN kids
           Fits(f) == f = [p \in D |-> FlattenSeq([k \in DOMAIN kids[p] |-> <<kids[p][k]>> \o f[kids[p][k]]])]
           W == CHOOSE f : Fits(f)
           w == [x \in D |-> Under(doc, PositionOf(doc, x))]
<1>0. doc \in Seq(Heading) /\ Distinct(doc) /\ Proper(doc) /\ D = {0} \cup IdsOf(doc)
  BY DEF Outline, Tree
<1>1. \A x \in D : Lists(kids[x], doc, x)
  BY DEF Tree
<1>2. \A x \in D : \A k \in 1..Len(kids[x]) :
        /\ kids[x][k] \in D /\ kids[x][k] \in IdsOf(doc)
        /\ PositionOf(doc, kids[x][k]) > PositionOf(doc, x)
        /\ PositionOf(doc, kids[x][k]) \in 1..Len(doc)
  <2> SUFFICES ASSUME NEW x \in D, NEW k \in 1..Len(kids[x])
               PROVE  /\ kids[x][k] \in D /\ kids[x][k] \in IdsOf(doc)
                      /\ PositionOf(doc, kids[x][k]) > PositionOf(doc, x)
                      /\ PositionOf(doc, kids[x][k]) \in 1..Len(doc)
    OBVIOUS
  <2> DEFINE p == PositionOf(doc, x)
             s == kids[x]
  <2>1. p \in 0..Len(doc) /\ IdAt(doc, p) = x
    BY <1>0, TreeAt
  <2>2. Lists(s, doc, IdAt(doc, p))
    BY <1>1, <2>1
  <2>3. s[k] \in IdsOf(doc)
    BY <2>2 DEF Lists
  <2> HIDE DEF p
  <2>4. PositionOf(doc, s[k]) \in 1..Len(doc) /\ PositionOf(doc, s[k]) \in (p + 1)..(EndAt(doc, p) - 1)
    BY <2>1, <2>2, Listed
  <2>5. p \in Nat /\ PositionOf(doc, s[k]) > p
    BY <1>0, <2>1, <2>4, EndAtIs
  <2> QED BY <1>0, <2>3, <2>4, <2>5 DEF p
<1>3. ASSUME NEW f, NEW x \in D, \A k \in 1..Len(kids[x]) : f[kids[x][k]] = w[kids[x][k]]
      PROVE  FlattenSeq([k \in DOMAIN kids[x] |-> <<kids[x][k]>> \o f[kids[x][k]]]) = w[x]
  <2> DEFINE p == PositionOf(doc, x)
             s == kids[x]
  <2>1. p \in 0..Len(doc) /\ IdAt(doc, p) = x
    BY <1>0, TreeAt
  <2>2. Lists(s, doc, IdAt(doc, p))
    BY <1>1, <2>1
  <2>3. \A k \in 1..Len(s) : f[s[k]] = Under(doc, PositionOf(doc, s[k]))
    BY <1>2, <1>3
  <2>4. w[x] = Under(doc, p)
    OBVIOUS
  <2> HIDE DEF p, s
  <2>5. FlattenSeq([k \in DOMAIN s |-> <<s[k]>> \o f[s[k]]]) = Under(doc, p)
    BY <2>1, <2>2, <2>3, WalkStep
  <2> QED BY <2>4, <2>5 DEF s
<1>4. Fits(w)
  BY <1>3
<1> HIDE DEF w
<1>5. Fits(W)
  <2> HIDE DEF Fits
  <2> QED BY <1>4
<1>6. Preorder(kids) = W[0]
  BY DEF Preorder
<1> HIDE DEF W
<1> DEFINE Bad == {p \in 0..Len(doc) : W[IdAt(doc, p)] # w[IdAt(doc, p)]}
<1>7. Bad = {}
  <2> SUFFICES ASSUME Bad # {} PROVE FALSE
    OBVIOUS
  <2>1. PICK p \in Bad : \A q \in Bad : p >= q
    <3>1. Bad \subseteq 0..Len(doc) /\ Len(doc) \in Nat
      BY <1>0, HeadingFields
    <3> HIDE DEF Bad
    <3> QED BY <3>1, GreatestNumber
  <2> DEFINE x == IdAt(doc, p)
  <2>2. p \in 0..Len(doc) /\ x \in D /\ PositionOf(doc, x) = p /\ W[x] # w[x]
    BY <1>0, <2>1, TreeAt
  <2>3. \A k \in 1..Len(kids[x]) : W[kids[x][k]] = w[kids[x][k]]
    <3> SUFFICES ASSUME NEW k \in 1..Len(kids[x]) PROVE W[kids[x][k]] = w[kids[x][k]]
      OBVIOUS
    <3> DEFINE q == PositionOf(doc, kids[x][k])
    <3>1. q > p /\ q \in 1..Len(doc) /\ kids[x][k] \in D
      BY <1>2, <2>2
    <3>2. q \notin Bad
      <4>1. p \in Nat /\ q \in Nat /\ ~(p >= q)
        BY <1>0, <2>2, <3>1, HeadingFields
      <4> HIDE DEF q, Bad
      <4> QED BY <2>1, <4>1
    <3>3. q \in 0..Len(doc) /\ IdAt(doc, q) = kids[x][k]
      BY <1>0, <3>1, TreeAt
    <3> QED BY <3>2, <3>3
  <2> HIDE DEF x, Bad
  <2>4. W[x] = FlattenSeq([k \in DOMAIN kids[x] |-> <<kids[x][k]>> \o W[kids[x][k]]])
    BY <1>5, <2>2
  <2>5. FlattenSeq([k \in DOMAIN kids[x] |-> <<kids[x][k]>> \o W[kids[x][k]]]) = w[x]
    BY <1>3, <2>2, <2>3
  <2> QED BY <2>2, <2>4, <2>5
<1>8. W[0] = w[0]
  <2>1. 0 \in 0..Len(doc) /\ IdAt(doc, 0) = 0
    BY <1>0, HeadingFields DEF IdAt
  <2> QED BY <1>7, <2>1
<1>9. w[0] = [k \in DOMAIN doc |-> doc[k].id]
  <2>1. PositionOf(doc, 0) = 0 /\ 0 \in D
    BY <1>0, PositionIs
  <2>2. w[0] = Under(doc, 0)
    BY <2>1 DEF w
  <2>3. Len(doc) \in Nat /\ DOMAIN doc = 1..Len(doc) /\ EndAt(doc, 0) - (0 + 1) = Len(doc)
    BY <1>0, HeadingFields DEF EndAt
  <2>4. Under(doc, 0) = [k \in 1..Len(doc) |-> doc[(0 + 1) + k - 1].id]
    BY <2>3 DEF Under, Stretch
  <2>5. \A k \in 1..Len(doc) : (0 + 1) + k - 1 = k
    BY <2>3
  <2> QED BY <2>2, <2>3, <2>4, <2>5
<1> QED BY <1>6, <1>8, <1>9

\* The outline falls into a subtree and the rest: nothing but the parent of the
\* subtree's first heading is different in the two.
Apart(doc, rest, blk) ==
  /\ IdsOf(doc) = IdsOf(rest) \cup IdsOf(blk) /\ IdsOf(rest) \cap IdsOf(blk) = {}
  /\ blk[1].id \in IdsOf(blk)
  /\ \A x \in IdsOf(rest) : ParentOf(rest, x) = ParentOf(doc, x)
  /\ \A x \in IdsOf(blk) : x # blk[1].id =>
       ParentOf(blk, x) = ParentOf(doc, x) /\ ParentOf(doc, x) \in IdsOf(blk)
  /\ ParentOf(blk, blk[1].id) = 0 /\ ParentOf(doc, blk[1].id) \in {0} \cup IdsOf(rest)
  /\ \A x, y \in IdsOf(rest) :
       PositionOf(rest, x) < PositionOf(rest, y) <=> PositionOf(doc, x) < PositionOf(doc, y)
  /\ \A x, y \in IdsOf(blk) :
       PositionOf(blk, x) < PositionOf(blk, y) <=> PositionOf(doc, x) < PositionOf(doc, y)

LEMMA CutPositions ==
  ASSUME NEW doc \in Seq(Heading), Distinct(doc), NEW i \in 1..Len(doc)
  PROVE  LET rest == CutBlock(doc, i)
             blk  == Block(doc, i)
             b    == BlockEnd(doc, i) - i
         IN /\ Distinct(rest) /\ Distinct(blk)
            /\ \A x \in IdsOf(rest) :
                 /\ x \in IdsOf(doc) /\ x \notin IdsOf(blk)
                 /\ PositionOf(rest, x) < i => PositionOf(doc, x) = PositionOf(rest, x)
                 /\ ~(PositionOf(rest, x) < i) => PositionOf(doc, x) = PositionOf(rest, x) + b
            /\ \A x \in IdsOf(blk) :
                 x \in IdsOf(doc) /\ PositionOf(doc, x) = i + PositionOf(blk, x) - 1
            /\ \A x \in IdsOf(doc) : x \in IdsOf(rest) \/ x \in IdsOf(blk)
<1> DEFINE rest == CutBlock(doc, i)
           blk == Block(doc, i)
           e == BlockEnd(doc, i)
           b == e - i
           n == Len(doc)
           from(j) == IF j < i THEN j ELSE j + b
<1>1. /\ i \in Nat /\ n \in Nat /\ e \in Nat /\ b \in Nat /\ i < e /\ e <= n + 1
      /\ i + b = e /\ b >= 1 /\ DOMAIN doc = 1..n
  BY EndIs, HeadingFields DEF IsEndAt
<1>2. /\ rest \in Seq(Heading) /\ Len(rest) = n - b /\ DOMAIN rest = 1..(n - b)
      /\ \A j \in 1..(n - b) : rest[j] = doc[from(j)]
  <2>1. /\ rest \in Seq(Heading) /\ Len(rest) = n - b
        /\ \A j \in 1..Len(rest) : rest[j] = doc[from(j)]
    BY CutIs
  <2> QED BY <1>1, <2>1
<1>3. blk \in Seq(Heading) /\ Len(blk) = b /\ DOMAIN blk = 1..b /\ \A k \in 1..b : blk[k] = doc[i + k - 1]
  <2>1. /\ blk \in Seq(Heading) /\ Len(blk) = b
        /\ \A k \in 1..b : blk[k] = doc[i + k - 1]
    BY BlockIs
  <2> QED BY <1>1, <2>1
<1> HIDE DEF rest, blk, e, b, n
<1>4. \A j \in 1..(n - b) : /\ j \in Nat /\ from(j) \in 1..n /\ (j < i => from(j) = j)
                            /\ (~(j < i) => from(j) = j + b)
  BY <1>1
<1>5. \A j \in 1..b : j \in Nat /\ i + j - 1 \in 1..n
  BY <1>1
<1>6. Distinct(rest)
  <2> SUFFICES ASSUME NEW j \in 1..(n - b), NEW k \in 1..(n - b), rest[j].id = rest[k].id
               PROVE  j = k
    BY <1>2 DEF Distinct
  <2>1. from(j) = from(k)
    <3>1. doc[from(j)].id = doc[from(k)].id /\ from(j) \in DOMAIN doc /\ from(k) \in DOMAIN doc
      BY <1>1, <1>2, <1>4
    <3> HIDE DEF from
    <3> QED BY <3>1 DEF Distinct
  <2> QED BY <1>1, <1>4, <2>1
<1>7. Distinct(blk)
  <2> SUFFICES ASSUME NEW j \in 1..b, NEW k \in 1..b, blk[j].id = blk[k].id
               PROVE  j = k
    BY <1>3 DEF Distinct
  <2>1. i + j - 1 = i + k - 1
    <3>1. doc[i + j - 1].id = doc[i + k - 1].id /\ i + j - 1 \in DOMAIN doc /\ i + k - 1 \in DOMAIN doc
      BY <1>1, <1>3, <1>5
    <3> QED BY <3>1 DEF Distinct
  <2> QED BY <1>1, <1>5, <2>1
<1>8. \A k \in 1..n : PositionOf(doc, doc[k].id) = k /\ doc[k].id \in IdsOf(doc)
  BY PositionIs DEF n
<1>9. ASSUME NEW x \in IdsOf(rest), NEW j, j = PositionOf(rest, x)
      PROVE  /\ x \in IdsOf(doc) /\ x \notin IdsOf(blk)
             /\ j < i => PositionOf(doc, x) = j
             /\ ~(j < i) => PositionOf(doc, x) = j + b
  <2>1. j \in 1..(n - b) /\ rest[j].id = x
    BY <1>2, <1>6, <1>9, PositionIs
  <2>2. from(j) \in 1..n /\ doc[from(j)].id = x
    BY <1>2, <1>4, <2>1
  <2>3. PositionOf(doc, x) = from(j) /\ x \in IdsOf(doc)
    BY <1>8, <2>2
  <2>4. x \notin IdsOf(blk)
    <3> SUFFICES ASSUME x \in IdsOf(blk) PROVE FALSE
      OBVIOUS
    <3>1. PICK k \in 1..b : blk[k].id = x
      BY <1>3, <1>7, PositionIs
    <3>2. PositionOf(doc, x) = i + k - 1
      BY <1>3, <1>5, <1>8, <3>1
    <3> QED BY <1>1, <1>4, <1>5, <2>1, <2>3, <3>1, <3>2
  <2> QED BY <1>4, <2>1, <2>3, <2>4
<1>10. ASSUME NEW x \in IdsOf(blk)
       PROVE  x \in IdsOf(doc) /\ PositionOf(doc, x) = i + PositionOf(blk, x) - 1
  <2> DEFINE k == PositionOf(blk, x)
  <2>1. k \in 1..b /\ blk[k].id = x
    BY <1>3, <1>7, PositionIs
  <2> QED BY <1>3, <1>5, <1>8, <2>1
<1>11. ASSUME NEW x \in IdsOf(doc) PROVE x \in IdsOf(rest) \/ x \in IdsOf(blk)
  <2> DEFINE k == PositionOf(doc, x)
  <2>1. k \in 1..n /\ doc[k].id = x
    BY PositionIs DEF n
  <2> HIDE DEF k
  <2>2. CASE k < i
    <3>1. k \in 1..(n - b) /\ from(k) = k
      BY <1>1, <2>1, <2>2
    <3>2. rest[k].id = x
      BY <1>2, <2>1, <3>1
    <3> QED BY <1>2, <1>6, <3>1, <3>2, PositionIs
  <2>3. CASE k >= e
    <3>1. k - b \in 1..(n - b) /\ from(k - b) = k
      BY <1>1, <2>1, <2>3
    <3>2. rest[k - b].id = x
      BY <1>2, <2>1, <3>1
    <3> QED BY <1>2, <1>6, <3>1, <3>2, PositionIs
  <2>4. CASE k >= i /\ k < e
    <3>1. k - i + 1 \in 1..b /\ i + (k - i + 1) - 1 = k
      BY <1>1, <2>1, <2>4
    <3>2. blk[k - i + 1].id = x
      BY <1>3, <2>1, <3>1
    <3> QED BY <1>3, <1>7, <3>1, <3>2, PositionIs
  <2> QED BY <1>1, <2>1, <2>2, <2>3, <2>4
<1>12. \A x \in IdsOf(rest) :
         /\ x \in IdsOf(doc) /\ x \notin IdsOf(blk)
         /\ PositionOf(rest, x) < i => PositionOf(doc, x) = PositionOf(rest, x)
         /\ ~(PositionOf(rest, x) < i) => PositionOf(doc, x) = PositionOf(rest, x) + b
  BY <1>9
<1> QED BY <1>6, <1>7, <1>10, <1>11, <1>12 DEF rest, blk, b, e

LEMMA CutShape ==
  ASSUME NEW doc, Outline(doc), NEW i \in 1..Len(doc)
  PROVE  Outline(CutBlock(doc, i)) /\ Apart(doc, CutBlock(doc, i), Block(doc, i))
<1> DEFINE rest == CutBlock(doc, i)
           blk == Block(doc, i)
           e == BlockEnd(doc, i)
           b == e - i
           n == Len(doc)
           from(j) == IF j < i THEN j ELSE j + b
<1>0. doc \in Seq(Heading) /\ Distinct(doc) /\ Proper(doc)
  BY DEF Outline
<1>1. /\ i \in Nat /\ n \in Nat /\ e \in Nat /\ b \in Nat /\ i < e /\ e <= n + 1
      /\ i + b = e /\ b >= 1 /\ DOMAIN doc = 1..n
      /\ e <= n => doc[e].level <= doc[i].level
      /\ \A k \in 1..n : doc[k].level \in Nat
  BY <1>0, EndIs, HeadingFields, SMTT(30) DEF IsEndAt
<1>2. /\ rest \in Seq(Heading) /\ Len(rest) = n - b /\ DOMAIN rest = 1..(n - b)
      /\ \A j \in 1..(n - b) : rest[j] = doc[from(j)]
  <2>1. /\ rest \in Seq(Heading) /\ Len(rest) = n - b
        /\ \A j \in 1..Len(rest) : rest[j] = doc[from(j)]
    BY <1>0, CutIs
  <2> QED BY <1>1, <2>1
<1>3. blk \in Seq(Heading) /\ Len(blk) = b /\ DOMAIN blk = 1..b /\ \A k \in 1..b : blk[k] = doc[i + k - 1]
  <2>1. /\ blk \in Seq(Heading) /\ Len(blk) = b
        /\ \A k \in 1..b : blk[k] = doc[i + k - 1]
    BY <1>0, BlockIs
  <2> QED BY <1>1, <2>1
<1>4. /\ Distinct(rest) /\ Distinct(blk)
      /\ \A x \in IdsOf(rest) :
           /\ x \in IdsOf(doc) /\ x \notin IdsOf(blk)
           /\ PositionOf(rest, x) < i => PositionOf(doc, x) = PositionOf(rest, x)
           /\ ~(PositionOf(rest, x) < i) => PositionOf(doc, x) = PositionOf(rest, x) + b
      /\ \A x \in IdsOf(blk) :
           x \in IdsOf(doc) /\ PositionOf(doc, x) = i + PositionOf(blk, x) - 1
      /\ \A x \in IdsOf(doc) : x \in IdsOf(rest) \/ x \in IdsOf(blk)
  BY <1>0, CutPositions
<1>5. /\ \A k \in 1..(n - b) : HeadingParent(rest, k) = HeadingParent(doc, from(k))
      /\ HeadingParent(blk, 1) = 0
      /\ \A k \in 2..b : HeadingParent(blk, k) = HeadingParent(doc, i + k - 1)
  BY <1>0, <1>2, CutParents, BlockParents
<1> HIDE DEF rest, blk, e, b, n
<1>19. /\ \A j \in 1..(n - b) : j < i => rest[j] = doc[j]
       /\ \A j \in 1..(n - b) : ~(j < i) => rest[j] = doc[j + b]
  BY <1>2
<1>6. Proper(rest)
  <2> SUFFICES ASSUME NEW k \in 1..(n - b) PROVE rest[k].level <= LevelBefore(rest, k) + 1
    BY <1>2 DEF Proper
  <2>1. CASE k < i
    <3>1. k \in 1..n /\ rest[k] = doc[k] /\ (k # 1 => rest[k - 1] = doc[k - 1])
      BY <1>1, <1>2, <2>1
    <3> QED BY <1>0, <1>1, <3>1 DEF Proper, LevelBefore
  <2>2. CASE k > i
    <3>0. /\ k + b \in 1..n /\ k # 1 /\ k + b # 1 /\ ~(k < i)
          /\ k - 1 \in 1..(n - b) /\ ~(k - 1 < i) /\ (k - 1) + b = (k + b) - 1
      BY <1>1, <2>2
    <3>1. rest[k] = doc[k + b] /\ rest[k - 1] = doc[(k + b) - 1]
      BY <1>19, <3>0
    <3>2. doc[k + b].level <= LevelBefore(doc, k + b) + 1
      BY <1>0, <1>1, <3>0 DEF Proper
    <3> QED BY <3>0, <3>1, <3>2 DEF LevelBefore
  <2>3. CASE k = i
    <3>0. e \in 1..n /\ k + b = e /\ ~(k < i) /\ (k # 1 => k - 1 \in 1..(n - b) /\ k - 1 < i)
      BY <1>1, <2>3
    <3>1. e \in 1..n /\ rest[k] = doc[e] /\ (k # 1 => rest[k - 1] = doc[k - 1])
      BY <1>19, <3>0
    <3>2. LevelBefore(rest, k) = LevelBefore(doc, i)
      BY <2>3, <3>1 DEF LevelBefore
    <3>3. doc[i].level <= LevelBefore(doc, i) + 1 /\ LevelBefore(doc, i) \in Nat
      <4>1. i \in 1..n /\ (i # 1 => i - 1 \in 1..n)
        BY <1>1, <3>1 DEF n
      <4> QED BY <1>0, <1>1, <4>1 DEF Proper, LevelBefore
    <3>4. i \in 1..n
      BY DEF n
    <3> QED BY <1>1, <3>1, <3>2, <3>3, <3>4
  <2> QED BY <1>1, <2>1, <2>2, <2>3
<1>7. Outline(rest)
  BY <1>2, <1>4, <1>6 DEF Outline
<1>8. IdsOf(doc) = IdsOf(rest) \cup IdsOf(blk) /\ IdsOf(rest) \cap IdsOf(blk) = {}
  BY <1>4
<1>9. blk[1].id \in IdsOf(blk) /\ PositionOf(blk, blk[1].id) = 1
  BY <1>1, <1>3, <1>4, PositionIs
<1>10. \A x \in IdsOf(rest) : PositionOf(rest, x) \in 1..(n - b)
  BY <1>2, <1>4, PositionIs
<1>11. \A x \in IdsOf(blk) : PositionOf(blk, x) \in 1..b /\ blk[PositionOf(blk, x)].id = x
  BY <1>3, <1>4, PositionIs
<1>12. ASSUME NEW x \in IdsOf(rest) PROVE ParentOf(rest, x) = ParentOf(doc, x)
  BY <1>4, <1>5, <1>10 DEF ParentOf
<1>13. ASSUME NEW x \in IdsOf(blk), x # blk[1].id
       PROVE  ParentOf(blk, x) = ParentOf(doc, x) /\ ParentOf(doc, x) \in IdsOf(blk)
  <2> DEFINE k == PositionOf(blk, x)
  <2>1. k \in 2..b
    BY <1>1, <1>11, <1>13
  <2>2. ParentOf(blk, x) = ParentOf(doc, x)
    BY <1>4, <1>5, <2>1 DEF ParentOf
  <2>3. ParentOf(blk, x) \in IdsOf(blk)
    <3>1. k \in 1..Len(blk) /\ k \in Nat /\ k > 1
      BY <1>1, <1>3, <2>1
    <3> HIDE DEF k
    <3>2. IsParentAt(blk, k, ParentHeading(blk, k))
      BY <1>3, <3>1, ParentIs
    <3>3. blk[k].level > blk[1].level
      <4>1. IsEndAt(doc, i, e)
        BY <1>0, EndIs DEF e
      <4>2. i + k - 1 \in (i + 1)..(e - 1) /\ blk[k] = doc[i + k - 1] /\ blk[1] = doc[i] /\ i + k - 1 \in 1..n
        BY <1>1, <1>3, <3>1
      <4> QED BY <4>1, <4>2 DEF IsEndAt
    <3>4. ParentHeading(blk, k) # 0
      <4> SUFFICES ASSUME ParentHeading(blk, k) = 0 PROVE FALSE
        OBVIOUS
      <4>1. 1 \in (0 + 1)..(k - 1)
        BY <3>1
      <4>2. blk[1].level >= blk[k].level
        BY <3>2, <4>1 DEF IsParentAt
      <4>3. blk[1].level \in Nat /\ blk[k].level \in Nat
        <5>1. 1 \in 1..Len(blk)
          BY <1>1, <1>3
        <5> QED BY <1>3, <3>1, <5>1, HeadingFields
      <4> QED BY <3>3, <4>2, <4>3
    <3>5. ParentHeading(blk, k) \in 1..Len(blk)
      BY <1>1, <1>3, <3>1, <3>2, <3>4 DEF IsParentAt
    <3>6. HeadingParent(blk, k) \in IdsOf(blk)
      BY <1>3, <1>4, <3>4, <3>5, PositionIs DEF HeadingParent
    <3> QED BY <3>6 DEF ParentOf, k
  <2> QED BY <2>2, <2>3
<1>14. ParentOf(blk, blk[1].id) = 0
  BY <1>5, <1>9 DEF ParentOf
<1>15. ParentOf(doc, blk[1].id) \in {0} \cup IdsOf(rest)
  <2> DEFINE p == ParentHeading(doc, i)
  <2>1. PositionOf(doc, blk[1].id) = i
    BY <1>1, <1>4, <1>9
  <2>2. p \in 0..(i - 1)
    BY <1>0, ParentIs DEF IsParentAt
  <2>3. CASE p = 0
    BY <2>1, <2>3 DEF ParentOf, HeadingParent
  <2>4. CASE p # 0
    <3>1. p \in 1..(n - b) /\ p < i
      <4>1. i \in 1..n
        BY DEF n
      <4> HIDE DEF p
      <4> QED BY <1>1, <2>2, <2>4, <4>1
    <3>2. rest[p].id = doc[p].id
      BY <1>2, <3>1
    <3>3. rest[p].id \in IdsOf(rest)
      BY <1>2, <1>4, <3>1, PositionIs
    <3> QED BY <2>1, <2>4, <3>2, <3>3 DEF ParentOf, HeadingParent
  <2> QED BY <2>3, <2>4
<1>16. ASSUME NEW x \in IdsOf(rest), NEW y \in IdsOf(rest)
       PROVE  PositionOf(rest, x) < PositionOf(rest, y) <=> PositionOf(doc, x) < PositionOf(doc, y)
  <2> DEFINE j == PositionOf(rest, x)
             k == PositionOf(rest, y)
  <2>1. /\ j \in 1..(n - b) /\ k \in 1..(n - b)
        /\ (j < i => PositionOf(doc, x) = j) /\ (~(j < i) => PositionOf(doc, x) = j + b)
        /\ (k < i => PositionOf(doc, y) = k) /\ (~(k < i) => PositionOf(doc, y) = k + b)
    BY <1>4, <1>10
  <2> HIDE DEF j, k
  <2>2. j < k <=> PositionOf(doc, x) < PositionOf(doc, y)
    BY <1>1, <2>1
  <2> QED BY <2>2 DEF j, k
<1>17. ASSUME NEW x \in IdsOf(blk), NEW y \in IdsOf(blk)
       PROVE  PositionOf(blk, x) < PositionOf(blk, y) <=> PositionOf(doc, x) < PositionOf(doc, y)
  <2> DEFINE j == PositionOf(blk, x)
             k == PositionOf(blk, y)
  <2>1. /\ j \in 1..b /\ k \in 1..b
        /\ PositionOf(doc, x) = i + j - 1 /\ PositionOf(doc, y) = i + k - 1
    BY <1>4, <1>11
  <2> HIDE DEF j, k
  <2>2. j < k <=> PositionOf(doc, x) < PositionOf(doc, y)
    BY <1>1, <2>1
  <2> QED BY <2>2 DEF j, k
<1>18. Apart(doc, rest, blk)
  BY <1>8, <1>9, <1>12, <1>13, <1>14, <1>15, <1>16, <1>17 DEF Apart
<1> QED BY <1>7, <1>18 DEF rest, blk

LEMMA EntryInserted ==
  ASSUME NEW S, NEW s \in Seq(S), NEW at \in 1..(Len(s) + 1), NEW e \in S
  PROVE  /\ InsertAt(s, at, e) \in Seq(S) /\ Len(InsertAt(s, at, e)) = Len(s) + 1
         /\ \A k \in 1..(Len(s) + 1) :
              InsertAt(s, at, e)[k] = IF k < at THEN s[k] ELSE IF k = at THEN e ELSE s[k - 1]
<1> DEFINE n == Len(s)
           a == SubSeq(s, 1, at - 1)
           b == SubSeq(s, at, n)
           c == a \o <<e>>
<1>1. n \in Nat /\ at \in Nat /\ at \in 1..(n + 1)
  OBVIOUS
<1>2. /\ 1 \in 1..(n + 1) /\ at - 1 \in (1 - 1)..n /\ (at - 1) - 1 + 1 = at - 1
      /\ at \in 1..(n + 1) /\ n \in (at - 1)..n
  BY <1>1
<1>3. a \in Seq(S) /\ Len(a) = at - 1 /\ \A k \in 1..(at - 1) : a[k] = s[1 + k - 1]
  BY <1>2, Segment
<1>4. b \in Seq(S) /\ Len(b) = n - at + 1 /\ \A k \in 1..(n - at + 1) : b[k] = s[at + k - 1]
  BY <1>2, Segment
<1>5. InsertAt(s, at, e) = c \o b
  BY DEF InsertAt
<1> HIDE DEF a, b
<1>6. c \in Seq(S) /\ Len(c) = at /\ c[at] = e /\ \A k \in 1..(at - 1) : c[k] = a[k]
  BY <1>1, <1>3
<1> HIDE DEF c
<1>0. c \in Seq(S) /\ b \in Seq(S)
  BY <1>4, <1>6
<1>7. /\ c \o b \in Seq(S) /\ Len(c \o b) = Len(c) + Len(b)
      /\ \A k \in 1..(Len(c) + Len(b)) : (c \o b)[k] = IF k <= Len(c) THEN c[k] ELSE b[k - Len(c)]
  BY <1>0, Joined
<1> HIDE DEF n
<1>8. Len(c) + Len(b) = n + 1
  BY <1>1, <1>4, <1>6
<1>9. ASSUME NEW k \in 1..(n + 1)
      PROVE  (c \o b)[k] = IF k < at THEN s[k] ELSE IF k = at THEN e ELSE s[k - 1]
  <2>0. (c \o b)[k] = IF k <= at THEN c[k] ELSE b[k - at]
    BY <1>6, <1>7, <1>8
  <2>1. CASE k < at
    <3>1. k <= at /\ k \in 1..(at - 1) /\ 1 + k - 1 = k
      BY <1>1, <2>1
    <3> QED BY <1>3, <1>6, <2>0, <2>1, <3>1
  <2>2. CASE k = at
    BY <1>1, <1>6, <2>0, <2>2
  <2>3. CASE k > at
    <3>1. ~(k <= at) /\ ~(k < at) /\ k # at /\ k - at \in 1..(n - at + 1) /\ at + (k - at) - 1 = k - 1
      BY <1>1, <2>3
    <3> QED BY <1>4, <2>0, <3>1
  <2>4. k < at \/ k = at \/ k > at
    BY <1>1
  <2> QED BY <2>1, <2>2, <2>3, <2>4, Zenon
<1>10. Len(InsertAt(s, at, e)) = n + 1
  BY <1>5, <1>7, <1>8
<1> QED BY <1>5, <1>7, <1>9, <1>10 DEF n

\* A list t that is the list s of sections with the section e in place at.
TakesIn(t, s, at, e) ==
  /\ t \in Seq(Sections_) /\ Len(t) = Len(s) + 1
  /\ \A k \in 1..(Len(s) + 1) :
       t[k] = IF k < at THEN s[k] ELSE IF k = at THEN e ELSE s[k - 1]

LEMMA SectionTakenIn ==
  ASSUME NEW s \in Seq(Sections_), NEW at \in 1..(Len(s) + 1), NEW e \in Sections_
  PROVE  TakesIn(InsertAt(s, at, e), s, at, e)
BY EntryInserted DEF TakesIn

LEMMA EntryRemoved ==
  ASSUME NEW S, NEW s \in Seq(S), NEW at \in 1..Len(s)
  PROVE  /\ RemoveAt(s, at) \in Seq(S) /\ Len(RemoveAt(s, at)) = Len(s) - 1
         /\ \A k \in 1..(Len(s) - 1) : RemoveAt(s, at)[k] = IF k < at THEN s[k] ELSE s[k + 1]
<1> DEFINE n == Len(s)
           a == SubSeq(s, 1, at - 1)
           b == SubSeq(s, at + 1, n)
<1>1. n \in Nat /\ at \in Nat /\ at \in 1..n
  OBVIOUS
<1>2. /\ 1 \in 1..(n + 1) /\ at - 1 \in (1 - 1)..n /\ (at - 1) - 1 + 1 = at - 1
      /\ at + 1 \in 1..(n + 1) /\ n \in ((at + 1) - 1)..n /\ n - (at + 1) + 1 = n - at
  BY <1>1
<1>3. a \in Seq(S) /\ Len(a) = at - 1 /\ \A k \in 1..(at - 1) : a[k] = s[1 + k - 1]
  BY <1>2, Segment
<1>6. /\ b \in Seq(S) /\ Len(b) = n - (at + 1) + 1
      /\ \A k \in 1..(n - (at + 1) + 1) : b[k] = s[(at + 1) + k - 1]
  BY <1>2, Segment
<1>4. b \in Seq(S) /\ Len(b) = n - at /\ \A k \in 1..(n - at) : b[k] = s[(at + 1) + k - 1]
  BY <1>2, <1>6
<1>5. RemoveAt(s, at) = a \o b
  BY DEF RemoveAt
<1> HIDE DEF a, b
<1>7. /\ a \o b \in Seq(S) /\ Len(a \o b) = Len(a) + Len(b)
      /\ \A k \in 1..(Len(a) + Len(b)) : (a \o b)[k] = IF k <= Len(a) THEN a[k] ELSE b[k - Len(a)]
  BY <1>3, <1>4, Joined
<1> HIDE DEF n
<1>8. Len(a) + Len(b) = n - 1
  BY <1>1, <1>3, <1>4
<1>9. ASSUME NEW k \in 1..(n - 1) PROVE (a \o b)[k] = IF k < at THEN s[k] ELSE s[k + 1]
  <2>0. (a \o b)[k] = IF k <= at - 1 THEN a[k] ELSE b[k - (at - 1)]
    BY <1>3, <1>7, <1>8
  <2>1. CASE k < at
    <3>1. k <= at - 1 /\ k \in 1..(at - 1) /\ 1 + k - 1 = k
      BY <1>1, <2>1
    <3> QED BY <1>3, <2>0, <2>1, <3>1
  <2>2. CASE ~(k < at)
    <3>1. ~(k <= at - 1) /\ k - (at - 1) \in 1..(n - at) /\ (at + 1) + (k - (at - 1)) - 1 = k + 1
      BY <1>1, <2>2
    <3> QED BY <1>4, <2>0, <2>2, <3>1
  <2> QED BY <2>1, <2>2
<1>10. Len(RemoveAt(s, at)) = n - 1
  BY <1>5, <1>7, <1>8
<1> QED BY <1>5, <1>7, <1>9, <1>10 DEF n

-----------------------------------------------------------------------------
(* The tree: a subtree is taken out and put in.                               *)

\* The lists of these sections are those of the outline; none of the others
\* has a section of the outline in it.
Partial(kids, doc) ==
  /\ \A x \in {0} \cup IdsOf(doc) : x \in DOMAIN kids /\ Lists(kids[x], doc, x)
  /\ \A x \in DOMAIN kids : x \notin {0} \cup IdsOf(doc) =>
       \A j \in 1..Len(kids[x]) : kids[x][j] \notin IdsOf(doc)

LEMMA ParentInIs ==
  ASSUME NEW doc \in Seq(Heading), Distinct(doc), NEW kids, Partial(kids, doc), NEW x \in IdsOf(doc)
  PROVE  LET p == ParentIn(kids, x)
             k == Place(kids, p, x)
         IN /\ p = ParentOf(doc, x) /\ p \in {0} \cup IdsOf(doc) /\ p \in DOMAIN kids
            /\ Lists(kids[p], doc, p)
            /\ k \in 1..Len(kids[p]) /\ kids[p][k] = x
            /\ \A j \in 1..Len(kids[p]) : kids[p][j] = x => j = k
<1> DEFINE p == ParentIn(kids, x)
           u == ParentOf(doc, x)
<1>1. u \in {0} \cup IdsOf(doc)
  <2>1. PositionOf(doc, x) \in 1..Len(doc)
    BY PositionIs
  <2>2. 0 \in 0..Len(doc)
    BY HeadingFields
  <2> QED BY <2>1, <2>2, ParentId DEF ParentOf
<1>2. u \in DOMAIN kids /\ Lists(kids[u], doc, u)
  BY <1>1 DEF Partial
<1>3. PICK i \in 1..Len(kids[u]) : kids[u][i] = x
  BY <1>2 DEF Lists
<1>4. Contains(kids[u], x)
  BY <1>3 DEF Contains
<1>5. p \in DOMAIN kids /\ Contains(kids[p], x)
  <2> HIDE DEF u
  <2> QED BY <1>2, <1>4 DEF ParentIn
<1>6. p = u
  <2>1. PICK j \in 1..Len(kids[p]) : kids[p][j] = x
    BY <1>5 DEF Contains
  <2> HIDE DEF p, u
  <2>2. p \in {0} \cup IdsOf(doc)
    BY <1>5, <2>1 DEF Partial
  <2>3. Lists(kids[p], doc, p)
    BY <2>2 DEF Partial
  <2> QED BY <2>1, <2>3 DEF Lists, u
<1> HIDE DEF u
<1>7. DOMAIN kids[u] = 1..Len(kids[u]) /\ Len(kids[u]) \in Nat
  BY <1>2 DEF Lists
<1> DEFINE k == Place(kids, u, x)
<1>8. k \in 1..Len(kids[u]) /\ kids[u][k] = x
  BY <1>3, <1>7 DEF Place
<1> HIDE DEF k
<1>9. ASSUME NEW j \in 1..Len(kids[u]), kids[u][j] = x PROVE j = k
  <2>1. PositionOf(doc, x) \in Nat
    BY PositionIs, HeadingFields
  <2>2. ~(j < k) /\ ~(k < j)
    BY <1>2, <1>8, <1>9, <2>1, SMTT(30) DEF Lists
  <2> QED BY <1>7, <1>8, <2>2
<1> QED BY <1>1, <1>2, <1>6, <1>8, <1>9 DEF u, k

\* A list of one outline is one of another that agrees on it.
LEMMA Relisted ==
  ASSUME NEW d1, NEW d2, NEW s, NEW p, Lists(s, d1, p),
         \A j \in 1..Len(s) : s[j] \in IdsOf(d2) /\ ParentOf(d2, s[j]) = p,
         \A x \in IdsOf(d2) : ParentOf(d2, x) = p => x \in IdsOf(d1) /\ ParentOf(d1, x) = p,
         \A x, y \in IdsOf(d1) : x \in IdsOf(d2) /\ y \in IdsOf(d2) /\ PositionOf(d1, x) < PositionOf(d1, y)
                                  => PositionOf(d2, x) < PositionOf(d2, y)
  PROVE  Lists(s, d2, p)
BY DEF Lists

LEMMA TreeIsPartial ==
  ASSUME NEW doc, NEW kids, Tree(kids, doc)
  PROVE  Partial(kids, doc)
BY DEF Tree, Partial

LEMMA Detaching ==
  ASSUME NEW doc, Outline(doc), NEW kids, Tree(kids, doc), NEW rest, Outline(rest),
         NEW blk, Apart(doc, rest, blk)
  PROVE  LET K == Detached(kids, blk[1].id)
         IN /\ DOMAIN K = DOMAIN kids /\ Partial(K, rest)
            /\ \A y \in IdsOf(blk) : Lists(K[y], blk, y)
            /\ \A y \in DOMAIN kids : y # ParentOf(doc, blk[1].id) => K[y] = kids[y]
<1> DEFINE x == blk[1].id
           K == Detached(kids, x)
           p == ParentIn(kids, x)
           k == Place(kids, p, x)
           s == kids[p]
           t == RemoveAt(s, k)
<1>0. doc \in Seq(Heading) /\ Distinct(doc) /\ x \in IdsOf(doc) /\ Partial(kids, doc)
  BY TreeIsPartial DEF Outline, Apart
<1>1. /\ p = ParentOf(doc, x) /\ p \in {0} \cup IdsOf(doc) /\ p \in DOMAIN kids
      /\ Lists(s, doc, p) /\ k \in 1..Len(s) /\ s[k] = x
      /\ \A j \in 1..Len(s) : s[j] = x => j = k
  BY <1>0, ParentInIs
<1>2. /\ x \in IdsOf(blk) /\ p \in {0} \cup IdsOf(rest)
      /\ 0 \notin IdsOf(doc)
  BY <1>0, <1>1, PositionIs DEF Apart
<1>3. DOMAIN K = DOMAIN kids /\ K[p] = t /\ \A y \in DOMAIN kids : y # p => K[y] = kids[y]
  BY <1>1 DEF Detached
<1>4. DOMAIN kids = {0} \cup IdsOf(doc)
  BY DEF Tree
<1> HIDE DEF x, K, p, k
\* What the parent's list is without it.
<1>5. s \in Seq(Sections_) /\ Len(s) \in Nat
  BY <1>1 DEF Lists
<1>6. /\ t \in Seq(Sections_) /\ Len(t) = Len(s) - 1
      /\ \A j \in 1..(Len(s) - 1) : t[j] = IF j < k THEN s[j] ELSE s[j + 1]
  BY <1>1, <1>5, EntryRemoved
<1> HIDE DEF s, t
<1>7. ASSUME NEW j \in 1..Len(t)
      PROVE  \E i \in 1..Len(s) : t[j] = s[i] /\ i # k /\ (j < k => i = j) /\ (~(j < k) => i = j + 1)
  <2>1. CASE j < k
    BY <1>1, <1>5, <1>6, <2>1
  <2>2. CASE ~(j < k)
    BY <1>1, <1>5, <1>6, <2>2
  <2> QED BY <2>1, <2>2
<1>8. ASSUME NEW i \in 1..Len(s), i # k
      PROVE  \E j \in 1..Len(t) : t[j] = s[i]
  <2>1. CASE i < k
    BY <1>1, <1>5, <1>6, <2>1
  <2>2. CASE i > k
    <3>1. i - 1 \in 1..Len(t) /\ i - 1 \in 1..(Len(s) - 1) /\ ~(i - 1 < k) /\ (i - 1) + 1 = i
      BY <1>1, <1>5, <1>6, <2>2
    <3> QED BY <1>6, <3>1
  <2> QED BY <1>1, <1>5, <1>8, <2>1, <2>2
<1>9. ASSUME NEW y \in IdsOf(doc), ParentOf(doc, y) \in {0} \cup IdsOf(rest), y # x
      PROVE  y \in IdsOf(rest) /\ ParentOf(rest, y) = ParentOf(doc, y)
  BY <1>2, <1>9 DEF Apart, x
<1>10. Lists(t, rest, p)
  <2>1. ASSUME NEW j \in 1..Len(t) PROVE t[j] \in IdsOf(rest) /\ ParentOf(rest, t[j]) = p
    <3>1. PICK i \in 1..Len(s) : t[j] = s[i] /\ i # k
      BY <1>7
    <3>2. s[i] # x /\ s[i] \in IdsOf(doc) /\ ParentOf(doc, s[i]) = p
      BY <1>1, <3>1 DEF Lists
    <3> QED BY <1>2, <1>9, <3>1, <3>2
  <2>2. ASSUME NEW y \in IdsOf(rest), ParentOf(rest, y) = p PROVE \E j \in 1..Len(t) : t[j] = y
    <3>1. y \in IdsOf(doc) /\ ParentOf(doc, y) = p /\ y # x
      BY <1>2, <2>2 DEF Apart
    <3>2. PICK i \in 1..Len(s) : s[i] = y
      BY <1>1, <3>1 DEF Lists
    <3>3. i # k
      BY <1>1, <3>1, <3>2
    <3> QED BY <1>8, <3>2, <3>3
  <2>3. ASSUME NEW j \in 1..Len(t), NEW l \in 1..Len(t), j < l
        PROVE  PositionOf(rest, t[j]) < PositionOf(rest, t[l])
    <3>1. PICK i \in 1..Len(s) : t[j] = s[i] /\ (j < k => i = j) /\ (~(j < k) => i = j + 1)
      BY <1>7
    <3>2. PICK h \in 1..Len(s) : t[l] = s[h] /\ (l < k => h = l) /\ (~(l < k) => h = l + 1)
      BY <1>7
    <3>3. i < h
      BY <1>1, <1>5, <1>6, <2>3, <3>1, <3>2
    <3>4. PositionOf(doc, t[j]) < PositionOf(doc, t[l])
      BY <1>1, <3>1, <3>2, <3>3 DEF Lists
    <3> QED BY <2>1, <3>4 DEF Apart
  <2> QED BY <1>6, <2>1, <2>2, <2>3 DEF Lists
<1>11. ASSUME NEW y \in {0} \cup IdsOf(rest) PROVE y \in DOMAIN K /\ Lists(K[y], rest, y)
  <2>1. y \in DOMAIN K
    BY <1>3, <1>4 DEF Apart
  <2>2. CASE y = p
    BY <1>3, <1>10, <2>1, <2>2
  <2>3. CASE y # p
    <3>1. Lists(kids[y], doc, y) /\ K[y] = kids[y]
      BY <1>3, <1>4, <2>1, <2>3 DEF Tree
    <3>2. \A j \in 1..Len(kids[y]) : kids[y][j] \in IdsOf(doc) /\ ParentOf(doc, kids[y][j]) = y
      BY <3>1 DEF Lists
    <3>3. \A j \in 1..Len(kids[y]) : kids[y][j] \in IdsOf(rest) /\ ParentOf(rest, kids[y][j]) = y
      BY <1>1, <1>9, <2>3, <3>2
    <3>4. \A z \in IdsOf(rest) : ParentOf(rest, z) = y => z \in IdsOf(doc) /\ ParentOf(doc, z) = y
      BY DEF Apart
    <3>5. \A a, b \in IdsOf(doc) : a \in IdsOf(rest) /\ b \in IdsOf(rest) /\ PositionOf(doc, a) < PositionOf(doc, b)
                                    => PositionOf(rest, a) < PositionOf(rest, b)
      BY DEF Apart
    <3>6. Lists(kids[y], rest, y)
      BY <3>1, <3>3, <3>4, <3>5, Relisted
    <3> QED BY <2>1, <3>1, <3>6
  <2> QED BY <2>2, <2>3
<1>15. \A z \in IdsOf(rest) : ParentOf(rest, z) \in {0} \cup IdsOf(rest)
  <2>1. rest \in Seq(Heading) /\ Distinct(rest) /\ 0 \in 0..Len(rest)
    BY HeadingFields DEF Outline
  <2> QED BY <2>1, PositionIs, ParentId DEF ParentOf
<1>12. ASSUME NEW y \in IdsOf(blk)
       PROVE  /\ Lists(K[y], blk, y)
              /\ \A j \in 1..Len(K[y]) : K[y][j] \notin IdsOf(rest)
  <2>1. y # p /\ y \in DOMAIN kids /\ y \in IdsOf(doc)
    BY <1>2, <1>4 DEF Apart
  <2>2. Lists(kids[y], doc, y) /\ K[y] = kids[y]
    BY <1>3, <2>1 DEF Tree
  <2>3. \A j \in 1..Len(kids[y]) : kids[y][j] \in IdsOf(doc) /\ ParentOf(doc, kids[y][j]) = y
    BY <2>2 DEF Lists
  <2>11. y \notin {0} \cup IdsOf(rest)
    BY <1>2, <2>1 DEF Apart
  <2>4. \A z \in IdsOf(doc) : ParentOf(doc, z) = y => z \in IdsOf(blk) /\ z # x
    BY <1>1, <1>15, <2>1, <2>11 DEF Apart
  <2>5. \A z \in IdsOf(blk) : z # x => ParentOf(blk, z) = ParentOf(doc, z)
    BY DEF Apart, x
  <2>6. \A j \in 1..Len(kids[y]) : kids[y][j] \in IdsOf(blk) /\ ParentOf(blk, kids[y][j]) = y
    BY <2>3, <2>4, <2>5
  <2>7. \A z \in IdsOf(blk) : ParentOf(blk, z) = y => z \in IdsOf(doc) /\ ParentOf(doc, z) = y
    BY <1>0, <1>2, <2>1, <2>5 DEF Apart, x
  <2>8. \A a, b \in IdsOf(doc) : a \in IdsOf(blk) /\ b \in IdsOf(blk) /\ PositionOf(doc, a) < PositionOf(doc, b)
                                  => PositionOf(blk, a) < PositionOf(blk, b)
    BY DEF Apart
  <2>9. Lists(kids[y], blk, y)
    BY <2>2, <2>6, <2>7, <2>8, Relisted
  <2>10. \A j \in 1..Len(kids[y]) : kids[y][j] \notin IdsOf(rest)
    BY <2>6 DEF Apart
  <2> QED BY <2>2, <2>9, <2>10
<1>13. ASSUME NEW y \in DOMAIN K, y \notin {0} \cup IdsOf(rest)
       PROVE  y \in IdsOf(blk)
  BY <1>3, <1>4, <1>13 DEF Apart
<1>14. Partial(K, rest)
  BY <1>11, <1>12, <1>13 DEF Partial
<1> QED BY <1>1, <1>3, <1>12, <1>14 DEF x, K

LEMMA Attaching ==
  ASSUME NEW rest, Outline(rest), NEW doc, Outline(doc), NEW blk, Apart(doc, rest, blk),
         NEW K, Partial(K, rest), DOMAIN K \cup {blk[1].id} = {0} \cup IdsOf(doc),
         \A y \in IdsOf(blk) : /\ y \in DOMAIN K => Lists(K[y], blk, y)
                               /\ y \notin DOMAIN K => Lists(<<>>, blk, y),
         NEW p, p = ParentOf(doc, blk[1].id), NEW at \in 1..(Len(K[p]) + 1),
         \A j \in 1..Len(K[p]) :
           /\ j < at => PositionOf(doc, K[p][j]) < PositionOf(doc, blk[1].id)
           /\ ~(j < at) => PositionOf(doc, blk[1].id) < PositionOf(doc, K[p][j])
  PROVE  Tree(Attached(K, p, at, blk[1].id), doc)
<1> DEFINE x == blk[1].id
           s == K[p]
           t == InsertAt(s, at, x)
           A == Attached(K, p, at, x)
<1>1. /\ x \in IdsOf(blk) /\ x \in IdsOf(doc) /\ x \notin IdsOf(rest) /\ p \in {0} \cup IdsOf(rest)
      /\ IdsOf(doc) \subseteq Sections_ /\ 0 \notin IdsOf(doc) /\ doc \in Seq(Heading) /\ Distinct(doc)
  <2>1. doc \in Seq(Heading) /\ Distinct(doc)
    BY DEF Outline
  <2> QED BY <2>1, PositionIs DEF Apart
<1>2. /\ DOMAIN A = {0} \cup IdsOf(doc) /\ p \in DOMAIN K /\ A[p] = t
      /\ \A y \in DOMAIN K : y # p => A[y] = K[y]
      /\ \A y \in DOMAIN A : y \notin DOMAIN K => A[y] = <<>>
  <2>1. p \in DOMAIN K
    BY <1>1 DEF Partial
  <2> QED BY <1>1, <2>1 DEF Attached
<1>3. Lists(s, rest, p)
  BY <1>1 DEF Partial
<1>4. \A j \in 1..Len(s) : /\ j < at => PositionOf(doc, s[j]) < PositionOf(doc, x)
                           /\ ~(j < at) => PositionOf(doc, x) < PositionOf(doc, s[j])
  OBVIOUS
<1>5. at \in 1..(Len(s) + 1) /\ p = ParentOf(doc, x)
  OBVIOUS
<1>6. \A y \in IdsOf(blk) : /\ y \in DOMAIN K => Lists(K[y], blk, y)
                            /\ y \notin DOMAIN K => Lists(<<>>, blk, y)
  OBVIOUS
<1>7. \A z \in IdsOf(rest) : ParentOf(rest, z) \in {0} \cup IdsOf(rest)
  <2>1. rest \in Seq(Heading) /\ Distinct(rest) /\ 0 \in 0..Len(rest)
    BY HeadingFields DEF Outline
  <2> QED BY <2>1, PositionIs, ParentId DEF ParentOf
<1>8. \A z \in IdsOf(blk) : z # x => ParentOf(blk, z) = ParentOf(doc, z) /\ ParentOf(doc, z) \in IdsOf(blk)
  BY DEF Apart
<1> HIDE DEF x, s, t, A
<1>9. s \in Seq(Sections_) /\ Len(s) \in Nat
  BY <1>3 DEF Lists
<1>10. /\ t \in Seq(Sections_) /\ Len(t) = Len(s) + 1
       /\ \A k \in 1..(Len(s) + 1) :
            t[k] = IF k < at THEN s[k] ELSE IF k = at THEN x ELSE s[k - 1]
  <2>1. x \in Sections_
    BY <1>1
  <2>2. TakesIn(t, s, at, x)
    BY <1>5, <1>9, <2>1, SectionTakenIn DEF t
  <2> QED BY <2>2 DEF TakesIn
\* The list the subtree is put into.
<1>11. ASSUME NEW k \in 1..Len(t)
       PROVE  \/ k = at /\ t[k] = x
              \/ k < at /\ k \in 1..Len(s) /\ t[k] = s[k]
              \/ at < k /\ k - 1 \in 1..Len(s) /\ t[k] = s[k - 1]
  <2>1. CASE k < at
    BY <1>5, <1>9, <1>10, <2>1
  <2>2. CASE k = at
    BY <1>5, <1>9, <1>10, <2>2
  <2>3. CASE at < k
    BY <1>5, <1>9, <1>10, <2>3
  <2>4. k \in Int /\ at \in Int
    BY <1>5, <1>9, <1>10
  <2>5. k < at \/ k = at \/ at < k
    BY <2>4
  <2> QED BY <2>1, <2>2, <2>3, <2>5, Zenon
<1>12. ASSUME NEW j \in 1..Len(s)
       PROVE  /\ s[j] \in IdsOf(rest) /\ s[j] \in IdsOf(doc)
              /\ ParentOf(rest, s[j]) = p /\ ParentOf(doc, s[j]) = p
  BY <1>3 DEF Lists, Apart
<1>13. ASSUME NEW j \in 1..Len(s) PROVE \E k \in 1..Len(t) : t[k] = s[j]
  <2>1. CASE j < at
    <3>1. j \in 1..(Len(s) + 1) /\ j \in 1..Len(t)
      BY <1>9, <1>10
    <3> QED BY <1>10, <2>1, <3>1
  <2>2. CASE ~(j < at)
    <3>1. j + 1 \in 1..(Len(s) + 1) /\ ~(j + 1 < at) /\ j + 1 # at /\ (j + 1) - 1 = j
      BY <1>5, <1>9, <2>2
    <3> QED BY <1>10, <3>1
  <2> QED BY <2>1, <2>2
<1>14. Lists(t, doc, p)
  <2>1. ASSUME NEW k \in 1..Len(t) PROVE t[k] \in IdsOf(doc) /\ ParentOf(doc, t[k]) = p
    <3>1. CASE t[k] = x
      BY <1>1, <1>5, <3>1
    <3>2. CASE \E j \in 1..Len(s) : t[k] = s[j]
      BY <1>12, <3>2
    <3> QED BY <1>11, <3>1, <3>2
  <2>2. ASSUME NEW y \in IdsOf(doc), ParentOf(doc, y) = p PROVE \E k \in 1..Len(t) : t[k] = y
    <3>1. CASE y = x
      <4>1. at \in 1..(Len(s) + 1) /\ ~(at < at)
        BY <1>5, <1>9
      <4> QED BY <1>10, <3>1, <4>1
    <3>2. CASE y \in IdsOf(blk) /\ y # x
      BY <1>1, <1>8, <2>2, <3>2 DEF Apart
    <3>3. CASE y \in IdsOf(rest)
      <4>1. ParentOf(rest, y) = p
        BY <2>2, <3>3 DEF Apart
      <4>2. PICK j \in 1..Len(s) : s[j] = y
        BY <1>3, <3>3, <4>1 DEF Lists
      <4> QED BY <1>13, <4>2
    <3> QED BY <3>1, <3>2, <3>3 DEF Apart
  <2>3. ASSUME NEW j \in 1..Len(t), NEW k \in 1..Len(t), j < k
        PROVE  PositionOf(doc, t[j]) < PositionOf(doc, t[k])
    <3> DEFINE pos == [y \in IdsOf(doc) |-> PositionOf(doc, y)]
    <3>1. \A y \in IdsOf(doc) : pos[y] = PositionOf(doc, y) /\ pos[y] \in Nat
      BY <1>1, PositionIs, HeadingFields
    <3>2. \A l, h \in 1..Len(s) : l < h => pos[s[l]] < pos[s[h]]
      <4>1. \A l, h \in 1..Len(s) : l < h => PositionOf(rest, s[l]) < PositionOf(rest, s[h])
        BY <1>3 DEF Lists
      <4>2. \A l, h \in 1..Len(s) : l < h => PositionOf(doc, s[l]) < PositionOf(doc, s[h])
        BY <1>12, <4>1 DEF Apart
      <4> QED BY <1>12, <3>1, <4>2
    <3>3. \A l \in 1..Len(s) : (l < at => pos[s[l]] < pos[x]) /\ (~(l < at) => pos[x] < pos[s[l]])
      BY <1>1, <1>4, <1>12, <3>1
    <3> HIDE DEF pos
    <3>4. \A l \in 1..Len(s) : pos[s[l]] \in Nat
      BY <1>12, <3>1
    <3>5. pos[x] \in Nat
      BY <1>1, <3>1
    <3>6. pos[t[j]] < pos[t[k]]
      <4>1. CASE j = at /\ t[j] = x
        BY <1>5, <1>9, <1>11, <2>3, <3>3, <4>1, SMTT(30)
      <4>2. CASE j < at /\ j \in 1..Len(s) /\ t[j] = s[j]
        <5>1. CASE k = at /\ t[k] = x
          BY <3>3, <4>2, <5>1
        <5>2. CASE k < at /\ k \in 1..Len(s) /\ t[k] = s[k]
          BY <2>3, <3>2, <4>2, <5>2
        <5>3. CASE at < k /\ k - 1 \in 1..Len(s) /\ t[k] = s[k - 1]
          <6>1. j < k - 1
            BY <1>5, <4>2, <5>3
          <6> QED BY <3>2, <4>2, <5>3, <6>1
        <5> QED BY <1>11, <5>1, <5>2, <5>3
      <4>3. CASE at < j /\ j - 1 \in 1..Len(s) /\ t[j] = s[j - 1]
        <5>1. k - 1 \in 1..Len(s) /\ t[k] = s[k - 1] /\ j - 1 < k - 1
          BY <1>5, <1>9, <1>11, <2>3, <4>3
        <5> QED BY <3>2, <4>3, <5>1
      <4> QED BY <1>11, <4>1, <4>2, <4>3
    <3> QED BY <2>1, <3>1, <3>6
  <2> QED BY <1>10, <2>1, <2>2, <2>3 DEF Lists
\* The other lists of the rest.
<1>15. ASSUME NEW y \in {0} \cup IdsOf(rest), y # p PROVE Lists(A[y], doc, y)
  <2>1. y \in DOMAIN K /\ Lists(K[y], rest, y) /\ A[y] = K[y]
    BY <1>2, <1>15 DEF Partial
  <2>2. \A j \in 1..Len(K[y]) : K[y][j] \in IdsOf(rest) /\ ParentOf(rest, K[y][j]) = y
    BY <2>1 DEF Lists
  <2>3. \A j \in 1..Len(K[y]) : K[y][j] \in IdsOf(doc) /\ ParentOf(doc, K[y][j]) = y
    BY <2>2 DEF Apart
  <2>4. \A z \in IdsOf(doc) : ParentOf(doc, z) = y => z \in IdsOf(rest)
    <3>1. y \notin IdsOf(blk)
      BY <1>1 DEF Apart
    <3> QED BY <1>5, <1>8, <1>15, <3>1 DEF Apart
  <2>5. \A z \in IdsOf(doc) : ParentOf(doc, z) = y => z \in IdsOf(rest) /\ ParentOf(rest, z) = y
    BY <2>4 DEF Apart
  <2>6. \A a, b \in IdsOf(rest) : a \in IdsOf(doc) /\ b \in IdsOf(doc) /\ PositionOf(rest, a) < PositionOf(rest, b)
                                   => PositionOf(doc, a) < PositionOf(doc, b)
    BY DEF Apart
  <2>7. Lists(K[y], doc, y)
    BY <2>1, <2>3, <2>5, <2>6, Relisted
  <2> QED BY <2>1, <2>7
\* The lists of the subtree.
<1>16. ASSUME NEW y \in IdsOf(blk) PROVE Lists(A[y], doc, y)
  <2>1. y # p /\ y \in IdsOf(doc) /\ y \notin {0} \cup IdsOf(rest)
    BY <1>1 DEF Apart
  <2> DEFINE l == A[y]
  <2>2. Lists(l, blk, y)
    BY <1>2, <1>6, <2>1
  <2> HIDE DEF l
  <2>3. \A j \in 1..Len(l) : l[j] \in IdsOf(blk) /\ ParentOf(blk, l[j]) = y
    BY <2>2 DEF Lists
  <2>4. ParentOf(blk, x) = 0
    BY DEF Apart, x
  <2>5. \A j \in 1..Len(l) : l[j] \in IdsOf(doc) /\ ParentOf(doc, l[j]) = y
    BY <1>8, <2>1, <2>3, <2>4 DEF Apart
  <2>6. \A z \in IdsOf(doc) : ParentOf(doc, z) = y => z \in IdsOf(blk) /\ z # x
    BY <1>5, <1>7, <2>1 DEF Apart
  <2>7. \A z \in IdsOf(doc) : ParentOf(doc, z) = y => z \in IdsOf(blk) /\ ParentOf(blk, z) = y
    BY <1>8, <2>6
  <2>8. \A a, b \in IdsOf(blk) : a \in IdsOf(doc) /\ b \in IdsOf(doc) /\ PositionOf(blk, a) < PositionOf(blk, b)
                                   => PositionOf(doc, a) < PositionOf(doc, b)
    BY DEF Apart
  <2>9. Lists(l, doc, y)
    BY <2>2, <2>5, <2>7, <2>8, Relisted
  <2> QED BY <2>9 DEF l
<1>17. ASSUME NEW y \in {0} \cup IdsOf(doc) PROVE Lists(A[y], doc, y)
  <2>1. CASE y = p
    BY <1>2, <1>14, <2>1
  <2>2. CASE y # p /\ y \in {0} \cup IdsOf(rest)
    BY <1>15, <2>2
  <2>3. CASE y \in IdsOf(blk)
    BY <1>16, <2>3
  <2> QED BY <2>1, <2>2, <2>3 DEF Apart
<1> QED BY <1>2, <1>17 DEF Tree, A, x

\* A subtree on its own: everything in it is below its first heading.
Subtree(blk) ==
  /\ blk \in Seq(Heading) /\ Len(blk) > 0 /\ Distinct(blk)
  /\ \A k \in 2..Len(blk) : blk[k].level > blk[1].level /\ blk[k].level <= blk[k - 1].level + 1

\* at is a place for a child of q.
PlaceFor(doc, at, q) ==
  /\ at \in 1..(Len(doc) + 1) /\ q \in 0..(at - 1)
  /\ \A j \in (q + 1)..(at - 1) : doc[j].level > LevelAt(doc, q)
  /\ at <= Len(doc) => doc[at].level <= LevelAt(doc, q) + 1

\* A subtree put where a child of q goes is a child of q, and the rest is as it was.
LEMMA Pasting ==
  ASSUME NEW rest, Outline(rest), NEW at, NEW q, PlaceFor(rest, at, q),
         NEW blk, Subtree(blk), blk[1].level = LevelAt(rest, q) + 1,
         IdsOf(rest) \cap IdsOf(blk) = {}
  PROVE  LET doc == Splice(rest, at, blk)
             x   == blk[1].id
         IN /\ Outline(doc) /\ Apart(doc, rest, blk) /\ ParentOf(doc, x) = IdAt(rest, q)
            /\ \A y \in IdsOf(rest) :
                 /\ PositionOf(rest, y) < at => PositionOf(doc, y) < PositionOf(doc, x)
                 /\ ~(PositionOf(rest, y) < at) => PositionOf(doc, x) < PositionOf(doc, y)
<1> DEFINE doc == Splice(rest, at, blk)
           n == Len(rest)
           m == Len(blk)
           l == LevelAt(rest, q) + 1
<1>1. /\ rest \in Seq(Heading) /\ Distinct(rest) /\ Proper(rest) /\ blk \in Seq(Heading) /\ Distinct(blk)
      /\ n \in Nat /\ m \in Nat /\ m > 0 /\ at \in 1..(n + 1) /\ q \in 0..(at - 1)
  BY HeadingFields DEF Outline, Subtree, PlaceFor
<1>2. /\ doc \in Seq(Heading) /\ Len(doc) = n + m
      /\ \A k \in 1..(n + m) :
           doc[k] = IF k < at THEN rest[k] ELSE IF k < at + m THEN blk[k - at + 1] ELSE rest[k - m]
  BY <1>1, SpliceIs
<1>3. /\ \A k \in 1..n : rest[k].level \in Nat /\ rest[k].level # 0
      /\ \A k \in 1..m : blk[k].level \in Nat
      /\ \A k \in 1..(n + m) : doc[k].level \in Nat
      /\ DOMAIN rest = 1..n /\ DOMAIN blk = 1..m /\ DOMAIN doc = 1..(n + m)
  BY <1>1, <1>2, HeadingFields
<1>4. l \in Nat /\ blk[1].level = l
  BY <1>1, <1>3 DEF LevelAt
<1>5. /\ \A k \in 2..m : blk[k].level > l /\ blk[k].level <= blk[k - 1].level + 1
      /\ \A j \in (q + 1)..(at - 1) : rest[j].level >= l
      /\ at <= n => rest[at].level <= l
  <2>1. \A k \in 2..m : blk[k].level > l /\ blk[k].level <= blk[k - 1].level + 1
    BY <1>4 DEF Subtree
  <2>2. \A j \in (q + 1)..(at - 1) : rest[j].level > LevelAt(rest, q)
    BY DEF PlaceFor
  <2>3. at <= n => rest[at].level <= l
    BY DEF PlaceFor
  <2>4. LevelAt(rest, q) \in Nat
    BY <1>1, <1>3 DEF LevelAt
  <2>5. ASSUME NEW j \in (q + 1)..(at - 1) PROVE rest[j].level >= l
    <3>1. j \in 1..n
      BY <1>1
    <3>2. rest[j].level \in Nat /\ rest[j].level > LevelAt(rest, q)
      BY <1>3, <2>2, <3>1
    <3> QED BY <2>4, <3>2
  <2> QED BY <2>1, <2>3, <2>5
<1>6. q # 0 => rest[q].level = l - 1
  BY <1>1, <1>3 DEF LevelAt
<1>7. q = 0 => l = 1
  BY DEF LevelAt
<1> HIDE DEF doc, n, m, l
\* The three parts.
<1>8. /\ \A k \in 1..(at - 1) : k \in 1..n /\ k \in 1..(n + m) /\ doc[k] = rest[k]
      /\ \A k \in at..(at + m - 1) : k - at + 1 \in 1..m /\ k \in 1..(n + m) /\ doc[k] = blk[k - at + 1]
      /\ \A k \in (at + m)..(n + m) : k - m \in 1..n /\ k - m >= at /\ k \in 1..(n + m) /\ doc[k] = rest[k - m]
  BY <1>1, <1>2
<1>9. \A k \in 1..(n + m) : k \in 1..(at - 1) \/ k \in at..(at + m - 1) \/ k \in (at + m)..(n + m)
  BY <1>1
<1>10. at \in 1..Len(doc) /\ doc[at] = blk[1] /\ doc[at].level = l
  <2>1. at \in at..(at + m - 1) /\ at - at + 1 = 1
    BY <1>1
  <2> QED BY <1>1, <1>2, <1>4, <1>8, <2>1
<1>11. \A k \in (at + 1)..(at + m - 1) :
         k - at + 1 \in 2..m /\ doc[k].level > l /\ doc[k].level <= doc[k - 1].level + 1
  <2>1. ASSUME NEW k \in (at + 1)..(at + m - 1)
        PROVE  k - at + 1 \in 2..m /\ doc[k].level > l /\ doc[k].level <= doc[k - 1].level + 1
    <3>1. k \in at..(at + m - 1) /\ k - 1 \in at..(at + m - 1) /\ k - at + 1 \in 2..m
          /\ (k - 1) - at + 1 = (k - at + 1) - 1
      BY <1>1
    <3>2. doc[k] = blk[k - at + 1] /\ doc[k - 1] = blk[(k - at + 1) - 1]
      BY <1>8, <3>1
    <3> QED BY <1>5, <3>1, <3>2
  <2> QED BY <2>1
<1>12. at + m <= n + m => doc[at + m] = rest[at] /\ at \in 1..n /\ doc[at + m].level <= l
  <2>1. SUFFICES ASSUME at + m <= n + m PROVE doc[at + m] = rest[at] /\ at \in 1..n /\ doc[at + m].level <= l
    OBVIOUS
  <2>2. at + m \in (at + m)..(n + m) /\ (at + m) - m = at /\ at <= n
    BY <1>1, <2>1
  <2> QED BY <1>1, <1>5, <1>8, <2>2
\* One heading each.
<1>13. \A k \in 1..n : rest[k].id \in IdsOf(rest)
  BY <1>1, PositionIs DEF n
<1>14. \A k \in 1..m : blk[k].id \in IdsOf(blk)
  BY <1>1, PositionIs DEF m
<1>15. Distinct(doc)
  <2>1. ASSUME NEW j \in 1..(n + m), NEW k \in 1..(n + m), doc[j].id = doc[k].id, j < k PROVE FALSE
    <3>1. CASE j \in 1..(at - 1) /\ k \in 1..(at - 1)
      <4>1. j \in 1..n /\ k \in 1..n /\ rest[j].id = rest[k].id
        BY <1>8, <2>1, <3>1
      <4>2. j = k
        BY <1>1, <1>3, <4>1 DEF Distinct
      <4> QED BY <1>1, <2>1, <4>2
    <3>2. CASE j \in 1..(at - 1) /\ k \in (at + m)..(n + m)
      <4>1. j \in 1..n /\ k - m \in 1..n /\ rest[j].id = rest[k - m].id
        BY <1>8, <2>1, <3>2
      <4>2. j = k - m
        BY <1>1, <1>3, <4>1 DEF Distinct
      <4> QED BY <1>1, <1>8, <3>2, <4>2
    <3>3. CASE j \in at..(at + m - 1) /\ k \in at..(at + m - 1)
      <4>1. j - at + 1 \in 1..m /\ k - at + 1 \in 1..m /\ blk[j - at + 1].id = blk[k - at + 1].id
        BY <1>8, <2>1, <3>3
      <4>2. j - at + 1 = k - at + 1
        BY <1>1, <1>3, <4>1 DEF Distinct
      <4> QED BY <1>1, <2>1, <4>2
    <3>4. CASE j \in (at + m)..(n + m) /\ k \in (at + m)..(n + m)
      <4>1. j - m \in 1..n /\ k - m \in 1..n /\ rest[j - m].id = rest[k - m].id
        BY <1>8, <2>1, <3>4
      <4>2. j - m = k - m
        BY <1>1, <1>3, <4>1 DEF Distinct
      <4> QED BY <1>1, <2>1, <4>2
    <3>5. CASE j \in 1..(at - 1) /\ k \in at..(at + m - 1)
      <4>1. doc[j].id \in IdsOf(rest) /\ doc[k].id \in IdsOf(blk)
        BY <1>8, <1>13, <1>14, <3>5
      <4> QED BY <2>1, <4>1
    <3>6. CASE j \in at..(at + m - 1) /\ k \in (at + m)..(n + m)
      <4>1. doc[j].id \in IdsOf(blk) /\ doc[k].id \in IdsOf(rest)
        BY <1>8, <1>13, <1>14, <3>6
      <4> QED BY <2>1, <4>1
    <3>7. \/ j \in 1..(at - 1) /\ k \in 1..(at - 1)
          \/ j \in 1..(at - 1) /\ k \in (at + m)..(n + m)
          \/ j \in at..(at + m - 1) /\ k \in at..(at + m - 1)
          \/ j \in (at + m)..(n + m) /\ k \in (at + m)..(n + m)
          \/ j \in 1..(at - 1) /\ k \in at..(at + m - 1)
          \/ j \in at..(at + m - 1) /\ k \in (at + m)..(n + m)
      BY <1>1, <2>1
    <3> QED BY <3>1, <3>2, <3>3, <3>4, <3>5, <3>6, <3>7, Zenon
  <2>2. ASSUME NEW j \in 1..(n + m), NEW k \in 1..(n + m), doc[j].id = doc[k].id PROVE j = k
    <3>1. ~(j < k) /\ ~(k < j)
      BY <2>1, <2>2
    <3> QED BY <1>1, <3>1
  <2> QED BY <1>3, <2>2 DEF Distinct
<1>16. Proper(doc)
  <2>1. ASSUME NEW k \in 1..(n + m) PROVE doc[k].level <= LevelBefore(doc, k) + 1
    <3>1. CASE k \in 1..(at - 1)
      <4>1. k \in 1..n /\ doc[k] = rest[k] /\ rest[k].level <= LevelBefore(rest, k) + 1
        BY <1>3, <1>1, <1>8, <3>1 DEF Proper
      <4>2. k # 1 => k - 1 \in 1..(at - 1) /\ doc[k - 1] = rest[k - 1]
        BY <1>1, <1>8, <3>1
      <4> QED BY <4>1, <4>2 DEF LevelBefore
    <3>2. CASE k = at
      <4>1. CASE k = 1
        <5>1. l = 1
          BY <1>1, <1>7, <3>2, <4>1
        <5> QED BY <1>10, <3>2, <4>1, <5>1 DEF LevelBefore
      <4>2. CASE k # 1
        <5>1. at - 1 \in 1..(at - 1) /\ at - 1 \in 1..n /\ doc[at - 1] = rest[at - 1] /\ rest[at - 1].level \in Nat
          BY <1>1, <1>3, <1>8, <3>2, <4>2
        <5>2. rest[at - 1].level >= l - 1
          <6>1. CASE at - 1 = q
            BY <1>1, <1>4, <1>6, <3>2, <4>2, <5>1, <6>1
          <6>2. CASE at - 1 # q
            <7>1. at - 1 \in (q + 1)..(at - 1)
              BY <1>1, <6>2
            <7>2. rest[at - 1].level >= l
              BY <1>5, <7>1
            <7> QED BY <1>4, <5>1, <7>2
          <6> QED BY <6>1, <6>2
        <5> QED BY <1>4, <1>10, <3>2, <4>2, <5>1, <5>2 DEF LevelBefore
      <4> QED BY <4>1, <4>2
    <3>3. CASE k \in (at + 1)..(at + m - 1)
      <4>1. k # 1
        BY <1>1, <3>3
      <4> QED BY <1>11, <3>3, <4>1 DEF LevelBefore
    <3>4. CASE k = at + m
      <4>1. doc[k].level <= l /\ k # 1 /\ k - 1 \in at..(at + m - 1)
        BY <1>1, <1>12, <3>4
      <4>2. doc[k - 1].level >= l
        <5>1. CASE k - 1 = at
          BY <1>4, <1>10, <5>1
        <5>2. CASE k - 1 # at
          <6>1. k - 1 \in (at + 1)..(at + m - 1) /\ k - 1 \in 1..(n + m)
            BY <1>1, <1>8, <4>1, <5>2
          <6>2. doc[k - 1].level > l /\ doc[k - 1].level \in Nat
            BY <1>3, <1>11, <6>1
          <6> QED BY <1>4, <6>2
        <5> QED BY <5>1, <5>2
      <4>3. doc[k].level \in Nat /\ doc[k - 1].level \in Nat
        BY <1>3, <1>8, <4>1
      <4> QED BY <1>4, <4>1, <4>2, <4>3 DEF LevelBefore
    <3>5. CASE k \in (at + m + 1)..(n + m)
      <4>1. k \in (at + m)..(n + m) /\ k - 1 \in (at + m)..(n + m) /\ k # 1 /\ k - m # 1 /\ (k - 1) - m = (k - m) - 1
        BY <1>1, <3>5, SMTT(30)
      <4>2. k - m \in 1..n /\ doc[k] = rest[k - m] /\ doc[k - 1] = rest[(k - m) - 1]
        BY <1>8, <4>1
      <4>3. rest[k - m].level <= LevelBefore(rest, k - m) + 1
        BY <1>1, <1>3, <4>2 DEF Proper
      <4> QED BY <4>1, <4>2, <4>3 DEF LevelBefore
    <3>6. \/ k \in 1..(at - 1) \/ k = at \/ k \in (at + 1)..(at + m - 1) \/ k = at + m
          \/ k \in (at + m + 1)..(n + m)
      <4>1. k \in Int /\ at \in Int /\ m \in Int /\ n \in Int /\ 1 <= k /\ k <= n + m
        BY <1>1
      <4>2. k < at \/ k = at \/ (at < k /\ k < at + m) \/ k = at + m \/ at + m < k
        BY <4>1
      <4> QED BY <4>1, <4>2
    <3> QED BY <3>1, <3>2, <3>3, <3>4, <3>5, <3>6, Zenon
  <2> QED BY <1>3, <2>1 DEF Proper
<1>17. Outline(doc)
  BY <1>2, <1>15, <1>16 DEF Outline
\* What was put in can be cut out again.
<1>18. BlockEnd(doc, at) = at + m
  <2>1. \A j \in (at + 1)..(at + m - 1) : doc[j].level > doc[at].level
    BY <1>10, <1>11
  <2>2. at + m \in (at + 1)..(Len(doc) + 1)
    BY <1>1, <1>2
  <2>3. at + m <= Len(doc) => doc[at + m].level <= doc[at].level
    BY <1>2, <1>10, <1>12
  <2>4. IsEndAt(doc, at, at + m)
    <3> DEFINE e == at + m
    <3>1. \A j \in (at + 1)..(e - 1) : doc[j].level > doc[at].level
      <4>1. e - 1 = at + m - 1
        BY <1>1
      <4> QED BY <2>1, <4>1
    <3>2. e \in (at + 1)..(Len(doc) + 1)
      BY <2>2
    <3>3. e <= Len(doc) => doc[e].level <= doc[at].level
      BY <2>3
    <3> HIDE DEF e
    <3>4. IsEndAt(doc, at, e)
      BY <3>1, <3>2, <3>3, Zenon DEF IsEndAt
    <3> QED BY <3>4 DEF e
  <2> QED BY <1>2, <1>10, <2>4, EndOnly
<1>19. Block(doc, at) = blk
  <2>1. /\ Block(doc, at) \in Seq(Heading) /\ Len(Block(doc, at)) = m
        /\ \A k \in 1..m : Block(doc, at)[k] = doc[at + k - 1]
    <3>1. BlockEnd(doc, at) - at = m
      BY <1>1, <1>18
    <3> QED BY <1>2, <1>10, <3>1, BlockIs
  <2>2. ASSUME NEW k \in 1..m PROVE doc[at + k - 1] = blk[k]
    <3>1. at + k - 1 \in at..(at + m - 1) /\ (at + k - 1) - at + 1 = k
      BY <1>1, SMTT(30)
    <3> QED BY <1>8, <3>1
  <2> QED BY <1>1, <2>1, <2>2, SameEntries DEF m
<1>20. CutBlock(doc, at) = rest
  <2>1. /\ CutBlock(doc, at) \in Seq(Heading) /\ Len(CutBlock(doc, at)) = n
        /\ \A k \in 1..n : CutBlock(doc, at)[k] = IF k < at THEN doc[k] ELSE doc[k + m]
    <3>1. BlockEnd(doc, at) - at = m /\ Len(doc) - m = n
      BY <1>1, <1>2, <1>18
    <3> QED BY <1>2, <1>10, <3>1, CutIs
  <2>2. ASSUME NEW k \in 1..n PROVE CutBlock(doc, at)[k] = rest[k]
    <3>1. CASE k < at
      <4>1. k \in 1..(at - 1)
        BY <1>1, <3>1
      <4> QED BY <1>8, <2>1, <3>1, <4>1
    <3>2. CASE ~(k < at)
      <4>1. k + m \in (at + m)..(n + m) /\ (k + m) - m = k
        BY <1>1, <3>2
      <4> QED BY <1>8, <2>1, <3>2, <4>1
    <3> QED BY <3>1, <3>2
  <2> QED BY <1>1, <2>1, <2>2, SameEntries DEF n
<1>21. Apart(doc, rest, blk)
  BY <1>10, <1>17, <1>19, <1>20, CutShape
\* Its parent and its position.
<1> DEFINE x == blk[1].id
<1>22. PositionOf(doc, x) = at
  BY <1>2, <1>10, <1>15, PositionIs
<1>23. ParentHeading(doc, at) = q
  <2>1. q # 0 => doc[q] = rest[q]
    BY <1>1, <1>8
  <2>2. q # 0 => doc[q].level < doc[at].level
    BY <1>4, <1>6, <1>10, <2>1
  <2>3. \A j \in (q + 1)..(at - 1) : doc[j].level >= doc[at].level
    BY <1>1, <1>5, <1>8, <1>10
  <2>4. IsParentAt(doc, at, q)
    BY <1>1, <2>2, <2>3 DEF IsParentAt
  <2> QED BY <1>2, <1>10, <2>4, ParentOnly
<1>24. ParentOf(doc, x) = IdAt(rest, q)
  <2>1. q # 0 => doc[q] = rest[q]
    BY <1>1, <1>8
  <2> QED BY <1>22, <1>23, <2>1 DEF ParentOf, HeadingParent, IdAt
<1>25. ASSUME NEW y \in IdsOf(rest)
       PROVE  /\ PositionOf(rest, y) < at => PositionOf(doc, y) < PositionOf(doc, x)
              /\ ~(PositionOf(rest, y) < at) => PositionOf(doc, x) < PositionOf(doc, y)
  <2>1. /\ PositionOf(rest, y) < at => PositionOf(doc, y) = PositionOf(rest, y)
        /\ ~(PositionOf(rest, y) < at) => PositionOf(doc, y) = PositionOf(rest, y) + m
    <3>1. BlockEnd(doc, at) - at = m
      BY <1>1, <1>18
    <3> QED BY <1>2, <1>10, <1>15, <1>20, <3>1, CutPositions
  <2>2. PositionOf(rest, y) \in Nat
    BY <1>1, PositionIs, HeadingFields
  <2> QED BY <1>1, <1>22, <2>1, <2>2
<1> QED BY <1>17, <1>21, <1>24, <1>25 DEF doc

\* A subtree cut out of an outline is one, also when its levels are shifted.
LEMMA ShiftedIs ==
  ASSUME NEW doc, Outline(doc), NEW i \in 1..Len(doc), NEW delta \in Int,
         LegalLevels(Shifted(Block(doc, i), delta))
  PROVE  LET blk == Block(doc, i)
             new == Shifted(blk, delta)
         IN /\ Subtree(new) /\ Len(new) = Len(blk) /\ Len(blk) = BlockEnd(doc, i) - i
            /\ new[1].id = doc[i].id /\ blk[1].id = doc[i].id /\ new[1].level = doc[i].level + delta
            /\ IdsOf(new) = IdsOf(blk)
            /\ \A x \in IdsOf(blk) : /\ PositionOf(new, x) = PositionOf(blk, x)
                                     /\ ParentOf(new, x) = ParentOf(blk, x)
<1> DEFINE blk == Block(doc, i)
           new == Shifted(blk, delta)
           e == BlockEnd(doc, i)
           m == e - i
<1>1. /\ doc \in Seq(Heading) /\ Distinct(doc) /\ Proper(doc)
      /\ DOMAIN doc = 1..Len(doc) /\ Len(doc) \in Nat /\ \A k \in 1..Len(doc) : doc[k].level \in Nat
  <2>1. doc \in Seq(Heading)
    BY DEF Outline
  <2> QED BY <2>1, HeadingFields DEF Outline
<1>2. /\ e \in (i + 1)..(Len(doc) + 1)
      /\ \A j \in (i + 1)..(e - 1) : doc[j].level > doc[i].level
  BY <1>1, EndIs DEF IsEndAt
<1>3. /\ blk \in Seq(Heading) /\ Len(blk) = m
      /\ \A k \in 1..m : blk[k] = doc[i + k - 1]
  BY <1>1, BlockIs
<1>4. /\ Distinct(blk) /\ DOMAIN blk = 1..m /\ m \in Nat /\ m > 0
      /\ \A k \in 1..m : blk[k] \in Heading /\ blk[k].level \in Nat
  <2>1. Distinct(blk)
    BY <1>1, CutPositions
  <2>2. m \in Nat /\ m > 0
    BY <1>1, <1>2
  <2> HIDE DEF blk, m
  <2> QED BY <1>3, <2>1, <2>2, HeadingFields
<1>5. LegalLevels(new)
  OBVIOUS
<1> HIDE DEF blk, m, e
<1>6. /\ DOMAIN new = 1..m
      /\ \A k \in 1..m : new[k] = [blk[k] EXCEPT !.level = blk[k].level + delta]
  BY <1>4 DEF Shifted
<1> HIDE DEF new
<1>7. \A k \in 1..m : /\ new[k].id = blk[k].id /\ new[k].level = blk[k].level + delta
                      /\ new[k] \in Heading
  <2>1. \A k \in 1..m : new[k].level \in 1..MaxHeadingLevel
    BY <1>5, <1>6 DEF LegalLevels
  <2>2. ASSUME NEW k \in 1..m
        PROVE  new[k].id = blk[k].id /\ new[k].level = blk[k].level + delta /\ new[k] \in Heading
    <3>1. blk[k] \in Heading
      BY <1>4
    <3>2. new[k] = [blk[k] EXCEPT !.level = blk[k].level + delta]
      BY <1>6
    <3>3. new[k].id = blk[k].id /\ new[k].level = blk[k].level + delta
      BY <3>1, <3>2 DEF Heading
    <3>4. blk[k].level + delta \in 1..MaxHeadingLevel
      BY <2>1, <3>3
    <3> QED BY <3>1, <3>2, <3>3, <3>4 DEF Heading
  <2> QED BY <2>2
<1>8. new \in Seq(Heading) /\ Len(new) = m
  <2>1. new = [k \in 1..m |-> new[k]]
    BY <1>6 DEF new, Shifted
  <2> HIDE DEF new
  <2>2. new \in [1..m -> Heading]
    BY <1>7, <2>1
  <2> QED BY <1>4, <2>2
<1>9. Distinct(new)
  BY <1>4, <1>6, <1>7 DEF Distinct
<1>10. \A k \in 2..m : new[k].level > new[1].level /\ new[k].level <= new[k - 1].level + 1
  <2>1. ASSUME NEW k \in 2..m
        PROVE new[k].level > new[1].level /\ new[k].level <= new[k - 1].level + 1
    <3>1. /\ k \in 1..m /\ k - 1 \in 1..m /\ 1 \in 1..m /\ i + k - 1 \in (i + 1)..(e - 1)
          /\ i + (k - 1) - 1 = (i + k - 1) - 1 /\ i + 1 - 1 = i /\ i + k - 1 \in 1..Len(doc) /\ i + k - 1 # 1
      BY <1>1, <1>2 DEF m
    <3>2. blk[k] = doc[i + k - 1] /\ blk[k - 1] = doc[(i + k - 1) - 1] /\ blk[1] = doc[i]
      BY <1>3, <3>1
    <3>3. blk[k].level > blk[1].level
      BY <1>2, <3>1, <3>2
    <3>4. doc[i + k - 1].level <= LevelBefore(doc, i + k - 1) + 1
      BY <1>1, <3>1 DEF Proper
    <3>5. blk[k].level <= blk[k - 1].level + 1
      BY <3>1, <3>2, <3>4 DEF LevelBefore
    <3>6. blk[k].level \in Nat /\ blk[k - 1].level \in Nat /\ blk[1].level \in Nat
      BY <1>4, <3>1
    <3>7. /\ new[k].level = blk[k].level + delta /\ new[k - 1].level = blk[k - 1].level + delta
          /\ new[1].level = blk[1].level + delta
      BY <1>7, <3>1
    <3> DEFINE a == blk[k].level
               b == blk[k - 1].level
               c == blk[1].level
    <3>8. /\ a \in Nat /\ b \in Nat /\ c \in Nat /\ a > c /\ a <= b + 1
          /\ new[k].level = a + delta /\ new[k - 1].level = b + delta /\ new[1].level = c + delta
      BY <3>3, <3>5, <3>6, <3>7
    <3> HIDE DEF a, b, c
    <3>9. a + delta > c + delta /\ a + delta <= (b + delta) + 1
      BY <3>8
    <3> QED BY <3>8, <3>9
  <2> QED BY <2>1
<1>11. Subtree(new)
  BY <1>4, <1>8, <1>9, <1>10 DEF Subtree
<1>12. new[1].id = doc[i].id /\ blk[1].id = doc[i].id /\ new[1].level = doc[i].level + delta
  <2>1. 1 \in 1..m /\ i + 1 - 1 = i
    BY <1>4
  <2> QED BY <1>3, <1>7, <2>1
<1>13. IdsOf(new) = IdsOf(blk)
  <2>1. IdsOf(new) = {new[k].id : k \in 1..m}
    BY <1>6 DEF IdsOf, ToSet
  <2>2. IdsOf(blk) = {blk[k].id : k \in 1..m}
    BY <1>4 DEF IdsOf, ToSet
  <2> QED BY <1>7, <2>1, <2>2
<1>14. ASSUME NEW x \in IdsOf(blk)
       PROVE  PositionOf(new, x) = PositionOf(blk, x) /\ ParentOf(new, x) = ParentOf(blk, x)
  <2> DEFINE k == PositionOf(blk, x)
             p == ParentHeading(blk, k)
  <2>1. k \in 1..m /\ blk[k].id = x
    BY <1>3, <1>4, PositionIs
  <2> HIDE DEF k
  <2>2. PositionOf(new, x) = k
    BY <1>7, <1>8, <1>9, <2>1, PositionIs
  <2>3. IsParentAt(blk, k, p)
    BY <1>3, <2>1, ParentIs
  <2> HIDE DEF p
  <2>4. p \in 0..(k - 1) /\ (p # 0 => p \in 1..m)
    BY <1>4, <2>1, <2>3 DEF IsParentAt
  <2>5. p # 0 => new[p].level < new[k].level
    BY <1>4, <1>7, <2>1, <2>3, <2>4 DEF IsParentAt
  <2>6. ASSUME NEW j \in (p + 1)..(k - 1) PROVE new[j].level >= new[k].level
    <3>1. j \in 1..m
      BY <1>4, <2>1, <2>4
    <3>2. blk[j].level >= blk[k].level
      BY <2>3 DEF IsParentAt
    <3>3. new[j].level = blk[j].level + delta /\ new[k].level = blk[k].level + delta
      BY <1>7, <2>1, <3>1
    <3>4. blk[j].level \in Nat /\ blk[k].level \in Nat
      BY <1>4, <2>1, <3>1
    <3> DEFINE a == blk[j].level
               b == blk[k].level
    <3>5. a \in Nat /\ b \in Nat /\ a >= b /\ new[j].level = a + delta /\ new[k].level = b + delta
      BY <3>2, <3>3, <3>4
    <3> HIDE DEF a, b
    <3> QED BY <3>5
  <2>7. IsParentAt(new, k, p)
    BY <2>4, <2>5, <2>6 DEF IsParentAt
  <2>8. ParentHeading(new, k) = p
    BY <1>8, <2>1, <2>7, ParentOnly
  <2>9. p # 0 => new[p].id = blk[p].id
    BY <1>7, <2>4
  <2> QED BY <2>2, <2>8, <2>9 DEF ParentOf, HeadingParent, k, p
<1> QED BY <1>3, <1>4, <1>8, <1>11, <1>12, <1>13, <1>14 DEF blk, new, m, e

LEMMA BlockSubtree ==
  ASSUME NEW doc, Outline(doc), NEW i \in 1..Len(doc)
  PROVE  Subtree(Block(doc, i)) /\ Block(doc, i)[1] = doc[i]
<1> DEFINE blk == Block(doc, i)
           e == BlockEnd(doc, i)
           m == e - i
<1>1. /\ doc \in Seq(Heading) /\ Distinct(doc) /\ Proper(doc)
      /\ DOMAIN doc = 1..Len(doc) /\ Len(doc) \in Nat /\ \A k \in 1..Len(doc) : doc[k].level \in Nat
  <2>1. doc \in Seq(Heading)
    BY DEF Outline
  <2> QED BY <2>1, HeadingFields DEF Outline
<1>2. /\ e \in (i + 1)..(Len(doc) + 1)
      /\ \A j \in (i + 1)..(e - 1) : doc[j].level > doc[i].level
  BY <1>1, EndIs DEF IsEndAt
<1>3. /\ blk \in Seq(Heading) /\ Len(blk) = m
      /\ \A k \in 1..m : blk[k] = doc[i + k - 1]
  BY <1>1, BlockIs
<1>4. Distinct(blk)
  BY <1>1, CutPositions
<1> HIDE DEF blk, e
<1>5. 1 \in 1..m /\ i + 1 - 1 = i
  BY <1>1, <1>2
<1>6. blk[1] = doc[i]
  BY <1>3, <1>5
<1>7. ASSUME NEW k \in 2..m
      PROVE  blk[k].level > blk[1].level /\ blk[k].level <= blk[k - 1].level + 1
  <2>1. /\ k \in 1..m /\ k - 1 \in 1..m /\ i + k - 1 \in (i + 1)..(e - 1)
        /\ i + (k - 1) - 1 = (i + k - 1) - 1 /\ i + k - 1 \in 1..Len(doc) /\ i + k - 1 # 1
    BY <1>1, <1>2
  <2>2. blk[k] = doc[i + k - 1] /\ blk[k - 1] = doc[(i + k - 1) - 1]
    BY <1>3, <2>1
  <2>3. blk[k].level > blk[1].level
    BY <1>2, <1>6, <2>1, <2>2
  <2>4. doc[i + k - 1].level <= LevelBefore(doc, i + k - 1) + 1
    BY <1>1, <2>1 DEF Proper
  <2> QED BY <2>1, <2>2, <2>3, <2>4 DEF LevelBefore
<1>8. Len(blk) > 0
  BY <1>3, <1>5
<1> QED BY <1>3, <1>4, <1>6, <1>7, <1>8 DEF Subtree, blk

\* The first k - 1 of the list are before the place and the others after it.
Splits(s, k, doc, at) ==
  /\ k \in 1..(Len(s) + 1)
  /\ \A j \in 1..Len(s) : /\ j < k => PositionOf(doc, s[j]) < at
                          /\ ~(j < k) => ~(PositionOf(doc, s[j]) < at)

\* The place before a heading, among its siblings.
LEMMA PlaceBefore ==
  ASSUME NEW doc, Outline(doc), NEW d \in 1..Len(doc), NEW q, q = ParentHeading(doc, d),
         NEW s, Lists(s, doc, IdAt(doc, q)), NEW k \in 1..Len(s), s[k] = doc[d].id
  PROVE  PlaceFor(doc, d, q) /\ doc[d].level = LevelAt(doc, q) + 1 /\ Splits(s, k, doc, d)
<1>1. doc \in Seq(Heading) /\ Distinct(doc) /\ Proper(doc) /\ Len(doc) \in Nat /\ q \in 0..(d - 1)
      /\ \A j \in (q + 1)..(d - 1) : doc[j].level >= doc[d].level
  <2>1. doc \in Seq(Heading) /\ Distinct(doc) /\ Proper(doc)
    BY DEF Outline
  <2> QED BY <2>1, HeadingFields, ParentIs DEF IsParentAt
<1>2. doc[d].level = LevelAt(doc, q) + 1
  BY <1>1, Stepped
<1>3. q \in 0..Len(doc) /\ LevelAt(doc, q) \in Nat /\ \A j \in 1..Len(doc) : doc[j].level \in Nat
  BY <1>1, HeadingFields, EndAtIs, SMTT(30)
<1>4. PlaceFor(doc, d, q)
  <2>1. ASSUME NEW j \in (q + 1)..(d - 1) PROVE doc[j].level > LevelAt(doc, q)
    <3>1. j \in 1..Len(doc)
      BY <1>1
    <3>2. doc[j].level >= doc[d].level
      BY <1>1
    <3> QED BY <1>2, <1>3, <3>1, <3>2
  <2>2. doc[d].level <= LevelAt(doc, q) + 1
    BY <1>2, <1>3
  <2>3. d \in 1..(Len(doc) + 1)
    BY <1>1
  <2> QED BY <1>1, <2>1, <2>2, <2>3 DEF PlaceFor
<1>5. PositionOf(doc, s[k]) = d
  BY <1>1, PositionIs
<1>6. /\ Len(s) \in Nat
      /\ \A j \in 1..Len(s) : PositionOf(doc, s[j]) \in 1..Len(doc)
      /\ \A j, h \in 1..Len(s) : j < h => PositionOf(doc, s[j]) < PositionOf(doc, s[h])
  BY <1>3, Listed
<1>7. Splits(s, k, doc, d)
  <2>1. k \in 1..(Len(s) + 1)
    BY <1>6
  <2>2. ASSUME NEW j \in 1..Len(s)
        PROVE  (j < k => PositionOf(doc, s[j]) < d) /\ (~(j < k) => ~(PositionOf(doc, s[j]) < d))
    <3>1. CASE j < k
      BY <1>5, <1>6, <3>1
    <3>2. CASE j = k
      BY <1>1, <1>5, <3>2
    <3>3. CASE k < j
      <4>1. PositionOf(doc, s[j]) > d /\ PositionOf(doc, s[j]) \in Nat
        BY <1>1, <1>5, <1>6, <3>3
      <4> QED BY <3>3, <4>1
    <3> QED BY <1>6, <3>1, <3>2, <3>3
  <2> QED BY <2>1, <2>2 DEF Splits
<1> QED BY <1>2, <1>4, <1>7

\* The place after a heading's subtree, among its siblings.
LEMMA PlaceAfter ==
  ASSUME NEW doc, Outline(doc), NEW d \in 1..Len(doc), NEW q, q = ParentHeading(doc, d),
         NEW s, Lists(s, doc, IdAt(doc, q)), NEW k \in 1..Len(s), s[k] = doc[d].id
  PROVE  /\ PlaceFor(doc, BlockEnd(doc, d), q) /\ doc[d].level = LevelAt(doc, q) + 1
         /\ Splits(s, k + 1, doc, BlockEnd(doc, d))
<1> DEFINE e == BlockEnd(doc, d)
<1>1. /\ PlaceFor(doc, d, q) /\ doc[d].level = LevelAt(doc, q) + 1 /\ Splits(s, k, doc, d)
  BY PlaceBefore
<1>2. doc \in Seq(Heading) /\ Distinct(doc) /\ Proper(doc) /\ Len(doc) \in Nat
  <2>1. doc \in Seq(Heading) /\ Distinct(doc) /\ Proper(doc)
    BY DEF Outline
  <2> QED BY <2>1, HeadingFields
<1>3. /\ e \in (d + 1)..(Len(doc) + 1) /\ (e <= Len(doc) => doc[e].level <= doc[d].level)
      /\ \A j \in (d + 1)..(e - 1) : doc[j].level > doc[d].level
  BY <1>2, EndIs DEF IsEndAt
<1>4. q \in 0..(d - 1) /\ \A j \in (q + 1)..(d - 1) : doc[j].level > LevelAt(doc, q)
  BY <1>1 DEF PlaceFor
<1>5. q \in 0..Len(doc) /\ LevelAt(doc, q) \in Nat /\ \A j \in 1..Len(doc) : doc[j].level \in Nat
  <2>1. q \in 0..Len(doc)
    BY <1>2, <1>4
  <2> QED BY <1>2, <2>1, HeadingFields, EndAtIs
<1> HIDE DEF e
<1>6. PlaceFor(doc, e, q)
  <2>1. ASSUME NEW j \in (q + 1)..(e - 1) PROVE doc[j].level > LevelAt(doc, q)
    <3>0. j \in 1..Len(doc)
      BY <1>2, <1>3, <1>4
    <3>1. CASE j < d
      BY <1>2, <1>3, <1>4, <3>1
    <3>2. CASE j = d
      BY <1>1, <1>5, <3>2
    <3>3. CASE d < j
      <4>1. doc[j].level > doc[d].level
        BY <1>2, <1>3, <3>0, <3>3, SMTT(30)
      <4> QED BY <1>1, <1>5, <3>0, <4>1
    <3> QED BY <3>0, <3>1, <3>2, <3>3
  <2>2. e <= Len(doc) => doc[e].level <= LevelAt(doc, q) + 1
    BY <1>1, <1>3
  <2>3. e \in 1..(Len(doc) + 1) /\ q \in 0..(e - 1)
    BY <1>2, <1>3, <1>4
  <2> QED BY <2>1, <2>2, <2>3 DEF PlaceFor
<1>7. PositionOf(doc, s[k]) = d
  BY <1>2, PositionIs
<1>8. /\ Len(s) \in Nat
      /\ \A j \in 1..Len(s) : /\ PositionOf(doc, s[j]) \in 1..Len(doc)
                              /\ doc[PositionOf(doc, s[j])].level = LevelAt(doc, q) + 1
      /\ \A j, h \in 1..Len(s) : j < h => PositionOf(doc, s[j]) < PositionOf(doc, s[h])
  BY <1>5, Listed
<1>9. Splits(s, k + 1, doc, e)
  <2>1. k + 1 \in 1..(Len(s) + 1)
    BY <1>8
  <2>2. ASSUME NEW j \in 1..Len(s)
        PROVE  (j < k + 1 => PositionOf(doc, s[j]) < e) /\ (~(j < k + 1) => ~(PositionOf(doc, s[j]) < e))
    <3> DEFINE c == PositionOf(doc, s[j])
    <3>1. CASE j < k + 1
      <4>1. c <= d
        <5>1. CASE j = k
          BY <1>2, <1>7, <5>1
        <5>2. CASE j < k
          BY <1>7, <1>8, <5>2
        <5> QED BY <1>8, <3>1, <5>1, <5>2
      <4> QED BY <1>3, <1>8, <3>1, <4>1
    <3>2. CASE ~(j < k + 1)
      <4>1. d < c
        BY <1>7, <1>8, <3>2
      <4>2. c \in 1..Len(doc) /\ doc[c].level = doc[d].level
        BY <1>1, <1>8
      <4> HIDE DEF c
      <4>3. ~(c < e)
        <5> SUFFICES ASSUME c < e PROVE FALSE
          OBVIOUS
        <5>1. c \in (d + 1)..(e - 1)
          BY <1>3, <4>1, <4>2
        <5>2. doc[c].level > doc[d].level
          BY <1>3, <5>1
        <5> QED BY <1>5, <4>2, <5>2
      <4> QED BY <3>2, <4>3 DEF c
    <3> QED BY <3>1, <3>2
  <2> QED BY <2>1, <2>2 DEF Splits
<1> QED BY <1>1, <1>6, <1>9 DEF e

\* The place at the end of a heading's subtree, as its last child.
LEMMA PlaceInside ==
  ASSUME NEW doc, Outline(doc), NEW d \in 1..Len(doc), NEW s, Lists(s, doc, doc[d].id)
  PROVE  /\ PlaceFor(doc, BlockEnd(doc, d), d) /\ LevelAt(doc, d) = doc[d].level /\ IdAt(doc, d) = doc[d].id
         /\ Splits(s, Len(s) + 1, doc, BlockEnd(doc, d))
<1> DEFINE e == BlockEnd(doc, d)
<1>1. /\ doc \in Seq(Heading) /\ Len(doc) \in Nat /\ d # 0 /\ d \in 0..Len(doc)
      /\ \A j \in 1..Len(doc) : doc[j].level \in Nat
  <2>1. doc \in Seq(Heading)
    BY DEF Outline
  <2> QED BY <2>1, HeadingFields
<1>2. LevelAt(doc, d) = doc[d].level /\ IdAt(doc, d) = doc[d].id /\ EndAt(doc, d) = e
  BY <1>1 DEF LevelAt, IdAt, EndAt
<1>3. /\ e \in (d + 1)..(Len(doc) + 1) /\ (e <= Len(doc) => doc[e].level <= doc[d].level)
      /\ \A j \in (d + 1)..(e - 1) : doc[j].level > doc[d].level
  BY <1>1, EndIs DEF IsEndAt
<1>4. Len(s) \in Nat /\ \A j \in 1..Len(s) : PositionOf(doc, s[j]) \in (d + 1)..(e - 1)
  BY <1>1, <1>2, Listed
<1> HIDE DEF e
<1>5. e <= Len(doc) => doc[e].level <= doc[d].level + 1
  BY <1>1, <1>3
<1>6. PlaceFor(doc, e, d)
  <2>1. e \in 1..(Len(doc) + 1) /\ d \in 0..(e - 1)
    BY <1>1, <1>3
  <2> QED BY <1>2, <1>3, <1>5, <2>1 DEF PlaceFor
<1>7. Splits(s, Len(s) + 1, doc, e)
  BY <1>1, <1>3, <1>4 DEF Splits
<1> QED BY <1>2, <1>6, <1>7 DEF e

\* A subtree put in where its section is put into the tree: the tree is that of
\* the outline again.
LEMMA Grafting ==
  ASSUME NEW rest, Outline(rest), NEW at, NEW q, PlaceFor(rest, at, q),
         NEW blk, Subtree(blk), blk[1].level = LevelAt(rest, q) + 1,
         IdsOf(rest) \cap IdsOf(blk) = {},
         NEW K, Partial(K, rest), DOMAIN K \cup {blk[1].id} = {0} \cup IdsOf(rest) \cup IdsOf(blk),
         \A y \in IdsOf(blk) : /\ y \in DOMAIN K => Lists(K[y], blk, y)
                               /\ y \notin DOMAIN K => Lists(<<>>, blk, y),
         NEW k, Splits(K[IdAt(rest, q)], k, rest, at)
  PROVE  LET doc == Splice(rest, at, blk)
         IN /\ Outline(doc) /\ Apart(doc, rest, blk)
            /\ Tree(Attached(K, IdAt(rest, q), k, blk[1].id), doc)
<1> DEFINE doc == Splice(rest, at, blk)
           x == blk[1].id
           p == IdAt(rest, q)
<1>1. /\ Outline(doc) /\ Apart(doc, rest, blk) /\ ParentOf(doc, x) = p
      /\ \A y \in IdsOf(rest) :
           /\ PositionOf(rest, y) < at => PositionOf(doc, y) < PositionOf(doc, x)
           /\ ~(PositionOf(rest, y) < at) => PositionOf(doc, x) < PositionOf(doc, y)
  BY Pasting
<1>2. p \in {0} \cup IdsOf(rest)
  <2>1. q \in 0..Len(rest)
    <3>1. rest \in Seq(Heading)
      BY DEF Outline
    <3>2. Len(rest) \in Nat
      BY <3>1, HeadingFields
    <3> QED BY <3>2 DEF PlaceFor
  <2> QED BY <2>1, TreeAt
<1>3. Lists(K[p], rest, p)
  BY <1>2 DEF Partial
<1>4. /\ k \in 1..(Len(K[p]) + 1)
      /\ \A j \in 1..Len(K[p]) : /\ j < k => PositionOf(rest, K[p][j]) < at
                                 /\ ~(j < k) => ~(PositionOf(rest, K[p][j]) < at)
  BY DEF Splits
<1>5. DOMAIN K \cup {x} = {0} \cup IdsOf(doc)
  <2>1. IdsOf(doc) = IdsOf(rest) \cup IdsOf(blk)
    BY <1>1 DEF Apart
  <2> QED BY <2>1
<1>6. \A y \in IdsOf(blk) : /\ y \in DOMAIN K => Lists(K[y], blk, y)
                            /\ y \notin DOMAIN K => Lists(<<>>, blk, y)
  OBVIOUS
<1>7. Partial(K, rest) /\ Outline(rest)
  OBVIOUS
<1> HIDE DEF doc, p
<1>8. \A j \in 1..Len(K[p]) :
        /\ j < k => PositionOf(doc, K[p][j]) < PositionOf(doc, x)
        /\ ~(j < k) => PositionOf(doc, x) < PositionOf(doc, K[p][j])
  <2>1. \A j \in 1..Len(K[p]) : K[p][j] \in IdsOf(rest)
    BY <1>3 DEF Lists
  <2> QED BY <1>1, <1>4, <2>1
<1>9. Tree(Attached(K, p, k, x), doc)
  BY <1>1, <1>4, <1>5, <1>6, <1>7, <1>8, Attaching
<1> QED BY <1>1, <1>9 DEF doc, p

\* new is an outline and T its tree; of the sections of doc, x alone may have
\* another parent in it.
Regrafted(doc, new, T, x) ==
  /\ Outline(new) /\ Tree(T, new)
  /\ \A y \in IdsOf(doc) : y # x => ParentOf(new, y) = ParentOf(doc, y)

\* The subtree of the heading at i, that of the section x, is taken out of the
\* headings and of the tree, and its levels are shifted.
Lifted(doc, kids, i, x, level, rest, blk, K) ==
  /\ Outline(doc) /\ Tree(kids, doc) /\ i \in 1..Len(doc) /\ x = doc[i].id
  /\ rest = CutBlock(doc, i) /\ K = Detached(kids, x)
  /\ level \in Int /\ blk = Shifted(Block(doc, i), level - doc[i].level) /\ LegalLevels(blk)

\* Indent, outdent and move: a subtree goes somewhere else.
LEMMA Regrafting ==
  ASSUME NEW doc, NEW kids, NEW i, NEW x, NEW level, NEW rest, NEW blk, NEW K,
         Lifted(doc, kids, i, x, level, rest, blk, K),
         NEW at, NEW q, PlaceFor(rest, at, q), level = LevelAt(rest, q) + 1,
         NEW k, Splits(K[IdAt(rest, q)], k, rest, at)
  PROVE  Regrafted(doc, Splice(rest, at, blk), Attached(K, IdAt(rest, q), k, x), x)
<1>a. /\ Outline(doc) /\ Tree(kids, doc) /\ i \in 1..Len(doc) /\ x = doc[i].id
      /\ rest = CutBlock(doc, i) /\ K = Detached(kids, x)
      /\ level \in Int /\ blk = Shifted(Block(doc, i), level - doc[i].level) /\ LegalLevels(blk)
  BY DEF Lifted
<1> DEFINE old == Block(doc, i)
<1>1. Outline(rest) /\ Apart(doc, rest, old)
  BY <1>a, CutShape
<1>2. /\ Subtree(blk) /\ blk[1].id = x /\ old[1].id = x /\ blk[1].level = LevelAt(rest, q) + 1
      /\ IdsOf(blk) = IdsOf(old)
      /\ \A y \in IdsOf(old) : PositionOf(blk, y) = PositionOf(old, y) /\ ParentOf(blk, y) = ParentOf(old, y)
  <2> DEFINE delta == level - doc[i].level
  <2>1. doc[i].level \in Nat
    BY <1>a, HeadingFields DEF Outline
  <2>2. delta \in Int /\ doc[i].level + delta = level
    BY <1>a, <2>1
  <2> HIDE DEF delta
  <2>3. blk = Shifted(old, delta)
    BY <1>a DEF delta
  <2>4. /\ Subtree(blk) /\ blk[1].id = x /\ old[1].id = x /\ blk[1].level = doc[i].level + delta
        /\ IdsOf(blk) = IdsOf(old)
        /\ \A y \in IdsOf(old) : PositionOf(blk, y) = PositionOf(old, y) /\ ParentOf(blk, y) = ParentOf(old, y)
    <3> DEFINE sh == Shifted(Block(doc, i), delta)
    <3>1. sh = blk /\ LegalLevels(sh)
      BY <1>a, <2>3 DEF old
    <3>2. /\ Subtree(sh) /\ sh[1].id = doc[i].id /\ Block(doc, i)[1].id = doc[i].id
          /\ sh[1].level = doc[i].level + delta /\ IdsOf(sh) = IdsOf(Block(doc, i))
          /\ \A y \in IdsOf(Block(doc, i)) : /\ PositionOf(sh, y) = PositionOf(Block(doc, i), y)
                                             /\ ParentOf(sh, y) = ParentOf(Block(doc, i), y)
      BY <1>a, <2>2, <3>1, ShiftedIs
    <3> HIDE DEF sh
    <3> QED BY <1>a, <3>1, <3>2 DEF old
  <2> QED BY <2>2, <2>4
<1> HIDE DEF old
<1>3. /\ DOMAIN K = DOMAIN kids /\ Partial(K, rest)
      /\ \A y \in IdsOf(old) : Lists(K[y], old, y)
  BY <1>a, <1>1, <1>2, Detaching
<1>4. /\ IdsOf(doc) = IdsOf(rest) \cup IdsOf(blk) /\ IdsOf(rest) \cap IdsOf(blk) = {} /\ x \in IdsOf(blk)
  BY <1>1, <1>2 DEF Apart
<1>5. DOMAIN K \cup {blk[1].id} = {0} \cup IdsOf(rest) \cup IdsOf(blk)
  <2>1. DOMAIN kids = {0} \cup IdsOf(doc)
    BY <1>a DEF Tree
  <2> QED BY <1>2, <1>3, <1>4, <2>1
<1>6. ASSUME NEW y \in IdsOf(blk)
      PROVE  /\ y \in DOMAIN K => Lists(K[y], blk, y)
             /\ y \notin DOMAIN K => Lists(<<>>, blk, y)
  <2>1. y \in DOMAIN K
    <3>1. y \in DOMAIN kids
      BY <1>a, <1>4 DEF Tree
    <3> QED BY <1>3, <3>1
  <2>2. Lists(K[y], old, y)
    BY <1>2, <1>3
  <2> DEFINE s == K[y]
  <2>3. \A j \in 1..Len(s) : s[j] \in IdsOf(blk) /\ ParentOf(blk, s[j]) = y
    BY <1>2, <2>2 DEF Lists
  <2>4. \A z \in IdsOf(blk) : ParentOf(blk, z) = y => z \in IdsOf(old) /\ ParentOf(old, z) = y
    BY <1>2
  <2>5. \A a, b \in IdsOf(old) : a \in IdsOf(blk) /\ b \in IdsOf(blk) /\ PositionOf(old, a) < PositionOf(old, b)
                                  => PositionOf(blk, a) < PositionOf(blk, b)
    BY <1>2
  <2> HIDE DEF s
  <2>6. Lists(s, old, y)
    BY <2>2 DEF s
  <2>7. Lists(s, blk, y)
    BY <2>3, <2>4, <2>5, <2>6, Relisted
  <2> QED BY <2>1, <2>7 DEF s
<1> DEFINE new == Splice(rest, at, blk)
<1>7. Outline(new) /\ Apart(new, rest, blk) /\ Tree(Attached(K, IdAt(rest, q), k, x), new)
  <2>1. PlaceFor(rest, at, q) /\ Splits(K[IdAt(rest, q)], k, rest, at)
    OBVIOUS
  <2> DEFINE T == Attached(K, IdAt(rest, q), k, blk[1].id)
  <2>2. Outline(new) /\ Apart(new, rest, blk) /\ Tree(T, new)
    BY <1>1, <1>2, <1>3, <1>4, <1>5, <1>6, <2>1, Grafting
  <2>3. T = Attached(K, IdAt(rest, q), k, x)
    BY <1>2
  <2> HIDE DEF T, new
  <2> QED BY <2>2, <2>3
<1> HIDE DEF new
<1>9. ASSUME NEW y \in IdsOf(doc), y # x PROVE ParentOf(new, y) = ParentOf(doc, y)
  <2>1. CASE y \in IdsOf(rest)
    BY <1>1, <1>7, <2>1 DEF Apart
  <2>2. CASE y \in IdsOf(blk)
    <3>1. ParentOf(old, y) = ParentOf(doc, y) /\ ParentOf(blk, y) = ParentOf(new, y)
      BY <1>1, <1>2, <1>7, <1>9, <2>2 DEF Apart
    <3> QED BY <1>2, <2>2, <3>1
  <2> QED BY <1>4, <2>1, <2>2
<1> QED BY <1>7, <1>9 DEF new, Regrafted

\* An insertion: a heading of its own.
LEMMA Inserting ==
  ASSUME NEW doc, Outline(doc), NEW kids, Tree(kids, doc), NEW x \in Sections_, x \notin IdsOf(doc),
         NEW level \in 1..MaxHeadingLevel, NEW title \in Titles,
         NEW blk, blk = <<[id |-> x, level |-> level, title |-> title]>>,
         NEW at, NEW q, PlaceFor(doc, at, q), level = LevelAt(doc, q) + 1,
         NEW k, Splits(kids[IdAt(doc, q)], k, doc, at)
  PROVE  Regrafted(doc, Splice(doc, at, blk), Attached(kids, IdAt(doc, q), k, x), x)
<1>1. blk \in Seq(Heading) /\ Len(blk) = 1 /\ DOMAIN blk = {1} /\ blk[1].id = x /\ blk[1].level = level
  BY DEF Heading
<1>2. Subtree(blk)
  BY <1>1 DEF Subtree, Distinct
<1>3. IdsOf(blk) = {x}
  BY <1>1 DEF IdsOf, ToSet
<1>4. DOMAIN kids = {0} \cup IdsOf(doc) /\ 0 \notin IdsOf(doc) /\ x # 0 /\ Partial(kids, doc)
  <2>1. doc \in Seq(Heading) /\ Distinct(doc)
    BY DEF Outline
  <2>2. x # 0
    BY DEF Sections_
  <2> QED BY <2>1, <2>2, PositionIs, TreeIsPartial DEF Tree
<1>5. ASSUME NEW y \in IdsOf(blk)
      PROVE  /\ y \in DOMAIN kids => Lists(kids[y], blk, y)
             /\ y \notin DOMAIN kids => Lists(<<>>, blk, y)
  <2>1. y = x /\ y \notin DOMAIN kids
    BY <1>3, <1>4
  <2>2. ParentOf(blk, x) # x
    <3>1. HeadingParent(blk, 1) = 0
      <4>1. IsParentAt(blk, 1, 0)
        BY <1>1 DEF IsParentAt
      <4>2. ParentHeading(blk, 1) = 0
        <5>1. 1 \in 1..Len(blk)
          BY <1>1
        <5> QED BY <1>1, <4>1, <5>1, ParentOnly
      <4> QED BY <4>2 DEF HeadingParent
    <3>2. PositionOf(blk, x) = 1
      <4>1. 1 \in 1..Len(blk) /\ Distinct(blk) /\ blk[1].id = x
        BY <1>1, <1>2 DEF Subtree
      <4> QED BY <1>1, <4>1, PositionIs
    <3> QED BY <1>4, <3>1, <3>2 DEF ParentOf
  <2>3. Lists(<<>>, blk, y)
    BY <1>3, <2>1, <2>2 DEF Lists
  <2> QED BY <2>1, <2>3
<1>6. IdsOf(doc) \cap IdsOf(blk) = {} /\ DOMAIN kids \cup {blk[1].id} = {0} \cup IdsOf(doc) \cup IdsOf(blk)
  BY <1>1, <1>3, <1>4
<1> DEFINE new == Splice(doc, at, blk)
<1>7. Outline(new) /\ Apart(new, doc, blk) /\ Tree(Attached(kids, IdAt(doc, q), k, x), new)
  <2>1. PlaceFor(doc, at, q) /\ Splits(kids[IdAt(doc, q)], k, doc, at) /\ blk[1].level = LevelAt(doc, q) + 1
    BY <1>1
  <2> DEFINE T == Attached(kids, IdAt(doc, q), k, blk[1].id)
  <2>2. Outline(new) /\ Apart(new, doc, blk) /\ Tree(T, new)
    BY <1>2, <1>4, <1>5, <1>6, <2>1, Grafting
  <2>3. T = Attached(kids, IdAt(doc, q), k, x)
    BY <1>1
  <2> HIDE DEF T, new
  <2> QED BY <2>2, <2>3
<1> HIDE DEF new
<1>8. \A y \in IdsOf(doc) : ParentOf(new, y) = ParentOf(doc, y)
  BY <1>7 DEF Apart
<1> QED BY <1>7, <1>8 DEF new, Regrafted

\* A strict order on a set: before[x] are those before x.
Strict(S, before) ==
  /\ before \in [S -> SUBSET S]
  /\ \A x \in S : x \notin before[x]
  /\ \A x, y \in S : x # y => x \in before[y] \/ y \in before[x]
  /\ \A x, y \in S : x \in before[y] => before[x] \subseteq before[y]

\* t[k] is one that has k - 1 before it, if there is one.
Ranked(S, before, t) ==
  \A k \in 1..Cardinality(S) : \A x \in S :
    Cardinality(before[x]) = k - 1 => t[k] \in S /\ Cardinality(before[t[k]]) = k - 1

\* The members of a finite set in a strict order, each at its rank.
LEMMA OrderedIs ==
  ASSUME NEW S, IsFiniteSet(S), NEW before, Strict(S, before), NEW t, Ranked(S, before, t)
  PROVE  /\ Cardinality(S) \in Nat
         /\ \A k \in 1..Cardinality(S) : t[k] \in S
         /\ \A x \in S : \E k \in 1..Cardinality(S) : t[k] = x
         /\ \A j, k \in 1..Cardinality(S) : j < k => t[j] \in before[t[k]]
<1> DEFINE n == Cardinality(S)
           rank == [x \in S |-> Cardinality(before[x])]
<1>0. /\ before \in [S -> SUBSET S] /\ \A x \in S : x \notin before[x]
      /\ \A x, y \in S : x # y => x \in before[y] \/ y \in before[x]
      /\ \A x, y \in S : x \in before[y] => before[x] \subseteq before[y]
  BY DEF Strict
<1>1. n \in Nat
  BY FS_CardinalityType
<1>2. ASSUME NEW x \in S
      PROVE  IsFiniteSet(before[x]) /\ rank[x] \in 0..(n - 1)
  <2>1. before[x] \in SUBSET S
    BY <1>0
  <2>2. IsFiniteSet(before[x]) /\ Cardinality(before[x]) <= n /\ (n = Cardinality(before[x]) => S = before[x])
    BY <2>1, FS_Subset
  <2>3. Cardinality(before[x]) \in Nat
    BY <2>2, FS_CardinalityType
  <2>4. S # before[x]
    BY <1>0
  <2>5. Cardinality(before[x]) \in 0..(n - 1)
    <3> HIDE DEF n
    <3> QED BY <1>1, <2>2, <2>3, <2>4
  <2> QED BY <2>2, <2>5
<1>3. ASSUME NEW x \in S, NEW y \in S, x \in before[y] PROVE rank[x] < rank[y]
  <2>1. IsFiniteSet(before[x] \cup {x}) /\ Cardinality(before[x] \cup {x}) = Cardinality(before[x]) + 1
    <3>1. IsFiniteSet(before[x])
      BY <1>2
    <3> DEFINE B == before[x]
    <3> HIDE DEF B
    <3>2. IsFiniteSet(B \cup {x}) /\ Cardinality(B \cup {x}) = IF x \in B THEN Cardinality(B) ELSE Cardinality(B) + 1
      BY <3>1, FS_AddElement DEF B
    <3>3. x \notin B
      BY <1>0 DEF B
    <3> QED BY <3>2, <3>3 DEF B
  <2>2. before[x] \cup {x} \in SUBSET before[y]
    BY <1>0, <1>3
  <2>3. Cardinality(before[x] \cup {x}) <= Cardinality(before[y])
    BY <1>2, <2>2, FS_Subset
  <2>4. Cardinality(before[x]) \in Nat /\ Cardinality(before[y]) \in Nat
    BY <1>2, FS_CardinalityType
  <2>5. Cardinality(before[x]) < Cardinality(before[y])
    BY <2>1, <2>3, <2>4
  <2> QED BY <2>5
<1>4. \A k \in 1..n : \A x \in S : rank[x] = k - 1 => t[k] \in S /\ rank[t[k]] = k - 1
  BY DEF Ranked
<1>5. \A x, y \in S : x # y => x \in before[y] \/ y \in before[x]
  BY <1>0
<1>6. DOMAIN rank = S
  OBVIOUS
<1>7. rank = [x \in S |-> rank[x]]
  OBVIOUS
<1> HIDE DEF rank
<1>8. ASSUME NEW x \in S, NEW y \in S, rank[x] = rank[y] PROVE x = y
  <2> SUFFICES ASSUME x # y PROVE FALSE
    OBVIOUS
  <2>1. rank[x] < rank[y] \/ rank[y] < rank[x]
    BY <1>3, <1>5
  <2>2. rank[x] \in Int /\ rank[y] \in Int
    BY <1>1, <1>2
  <2> QED BY <1>8, <2>1, <2>2
<1>9. \A k \in 1..n : \E x \in S : rank[x] = k - 1
  <2> DEFINE T == 0..(n - 1)
  <2>1. IsFiniteSet(T) /\ Cardinality(T) = n
    <3>1. IsFiniteSet(0..(n - 1)) /\ Cardinality(0..(n - 1)) = IF 0 > n - 1 THEN 0 ELSE (n - 1) - 0 + 1
      BY <1>1, FS_Interval
    <3> HIDE DEF n
    <3> QED BY <1>1, <3>1
  <2>2. rank \in [S -> T]
    BY <1>2, <1>7
  <2>3. rank \in Injection(S, T)
    BY <1>8, <2>2 DEF Injection, IsInjective
  <2>4. rank \in Surjection(S, T)
    BY <2>1, <2>3, FS_Injection
  <2>5. \A k \in 1..n : k - 1 \in T
    BY <1>1
  <2> HIDE DEF T, n
  <2> QED BY <2>4, <2>5 DEF Surjection
<1>10. \A k \in 1..n : t[k] \in S /\ rank[t[k]] = k - 1
  BY <1>4, <1>9
<1>11. ASSUME NEW x \in S PROVE \E k \in 1..n : t[k] = x
  <2>1. rank[x] + 1 \in 1..n /\ (rank[x] + 1) - 1 = rank[x]
    <3> HIDE DEF n
    <3> QED BY <1>1, <1>2
  <2>2. t[rank[x] + 1] = x
    BY <1>8, <1>10, <2>1
  <2> QED BY <2>1, <2>2
<1>12. ASSUME NEW j \in 1..n, NEW k \in 1..n, j < k PROVE t[j] \in before[t[k]]
  <2>1. t[j] \in S /\ t[k] \in S /\ rank[t[j]] = j - 1 /\ rank[t[k]] = k - 1
    BY <1>10
  <2>2. j \in Int /\ k \in Int
    BY <1>1
  <2>3. rank[t[j]] < rank[t[k]]
    BY <1>12, <2>1, <2>2
  <2>4. t[j] # t[k]
    BY <1>12, <2>1, <2>2
  <2>5. ~(t[k] \in before[t[j]])
    <3> SUFFICES ASSUME t[k] \in before[t[j]] PROVE FALSE
      OBVIOUS
    <3>1. rank[t[k]] < rank[t[j]]
      BY <1>3, <2>1
    <3> QED BY <2>1, <2>2, <2>3, <3>1
  <2> QED BY <1>5, <2>1, <2>4, <2>5
<1> QED BY <1>1, <1>10, <1>11, <1>12

\* Numbers are in a strict order by their keys, those of the same key as they are.
LEMMA ByKey ==
  ASSUME NEW S \in SUBSET Nat, NEW key \in [S -> Nat], NEW before \in [S -> SUBSET S],
         \A x, y \in S : y \in before[x] <=> (key[y] < key[x] \/ (key[y] = key[x] /\ y < x))
  PROVE  Strict(S, before)
<1>1. \A x \in S : x \in Nat /\ key[x] \in Nat
  OBVIOUS
<1>2. \A x \in S : x \notin before[x]
  BY <1>1
<1>3. ASSUME NEW x \in S, NEW y \in S, x # y PROVE x \in before[y] \/ y \in before[x]
  <2>1. key[x] < key[y] \/ key[y] < key[x] \/ (key[x] = key[y] /\ (x < y \/ y < x))
    BY <1>1, <1>3
  <2> QED BY <2>1
<1>4. ASSUME NEW x \in S, NEW y \in S, x \in before[y] PROVE before[x] \subseteq before[y]
  <2> SUFFICES ASSUME NEW z \in before[x] PROVE z \in before[y]
    OBVIOUS
  <2>1. z \in S
    OBVIOUS
  <2>2. key[x] < key[y] \/ (key[x] = key[y] /\ x < y)
    BY <1>4
  <2>3. key[z] < key[x] \/ (key[z] = key[x] /\ z < x)
    BY <2>1
  <2>4. key[z] < key[y] \/ (key[z] = key[y] /\ z < y)
    BY <1>1, <2>1, <2>2, <2>3
  <2> QED BY <2>1, <2>4
<1> QED BY <1>2, <1>3, <1>4 DEF Strict

\* A row says where its heading is: its locator and its parent.
RowDescribes(e, doc) ==
  LET k == PositionOf(doc, e.id)
  IN /\ k # 0 /\ e.level = doc[k].level /\ e.title = doc[k].title
     /\ e.occ = Occurrence(doc, k) /\ e.parent = ParentOf(doc, e.id)

\* One row for each heading; siblings are in the order of the document, and so
\* are twins in the array.
Sound(doc, idx) ==
  /\ Outline(doc) /\ idx \in Seq(IndexEntry) /\ Distinct(idx) /\ IdsOf(idx) = IdsOf(doc)
  /\ \A k \in 1..Len(idx) : RowDescribes(idx[k], doc)
  /\ \A j, k \in 1..Len(idx) :
       idx[j].parent = idx[k].parent /\ PositionOf(doc, idx[j].id) < PositionOf(doc, idx[k].id)
         => idx[j].order < idx[k].order
  /\ \A j, k \in 1..Len(idx) :
       Twin(idx[j], idx[k]) /\ j < k => PositionOf(doc, idx[j].id) < PositionOf(doc, idx[k].id)

LEMMA RowFields ==
  ASSUME NEW idx \in Seq(IndexEntry)
  PROVE  /\ Len(idx) \in Nat /\ DOMAIN idx = 1..Len(idx)
         /\ \A k \in 1..Len(idx) : /\ idx[k] \in IndexEntry /\ idx[k].id \in Sections_ /\ idx[k].order \in Nat
                                   /\ idx[k].id \in IdsOf(idx)
         /\ \A x \in IdsOf(idx) : \E k \in 1..Len(idx) : idx[k].id = x
<1>1. Len(idx) \in Nat /\ DOMAIN idx = 1..Len(idx) /\ \A k \in 1..Len(idx) : idx[k] \in IndexEntry
  OBVIOUS
<1>2. \A k \in 1..Len(idx) : idx[k].id \in Sections_ /\ idx[k].order \in Nat
  BY <1>1 DEF IndexEntry
<1>3. IdsOf(idx) = {idx[k].id : k \in 1..Len(idx)}
  BY <1>1 DEF IdsOf, ToSet
<1> QED BY <1>1, <1>2, <1>3

\* The rows of a sound index, each with the heading it is for.
LEMMA SoundRows ==
  ASSUME NEW doc, NEW idx, Sound(doc, idx)
  PROVE  /\ doc \in Seq(Heading) /\ Distinct(doc) /\ Len(idx) \in Nat
         /\ \A k \in 1..Len(idx) :
              /\ idx[k].id \in IdsOf(doc) /\ PositionOf(doc, idx[k].id) \in 1..Len(doc)
              /\ PositionOf(doc, idx[k].id) \in Nat
              /\ idx[k].parent = ParentOf(doc, idx[k].id) /\ idx[k].parent \in {0} \cup IdsOf(doc)
              /\ idx[k].order \in Nat /\ idx[k].id \in Sections_
         /\ \A x \in IdsOf(doc) : \E k \in 1..Len(idx) : idx[k].id = x
         /\ \A j, k \in 1..Len(idx) : PositionOf(doc, idx[j].id) = PositionOf(doc, idx[k].id) => j = k
<1>1. /\ doc \in Seq(Heading) /\ Distinct(doc) /\ idx \in Seq(IndexEntry) /\ Distinct(idx)
      /\ IdsOf(idx) = IdsOf(doc)
  BY DEF Sound, Outline
<1>2. /\ Len(idx) \in Nat /\ DOMAIN idx = 1..Len(idx)
      /\ \A k \in 1..Len(idx) : idx[k].id \in IdsOf(doc) /\ idx[k].order \in Nat /\ idx[k].id \in Sections_
      /\ \A x \in IdsOf(doc) : \E k \in 1..Len(idx) : idx[k].id = x
  BY <1>1, RowFields
<1>3. \A x \in IdsOf(doc) : /\ PositionOf(doc, x) \in 1..Len(doc) /\ PositionOf(doc, x) \in Nat
                            /\ doc[PositionOf(doc, x)].id = x
  BY <1>1, PositionIs, HeadingFields
<1>4. \A x \in IdsOf(doc) : ParentOf(doc, x) \in {0} \cup IdsOf(doc)
  <2>1. 0 \in 0..Len(doc)
    BY <1>1, HeadingFields
  <2> QED BY <1>1, <1>3, <2>1, ParentId DEF ParentOf
<1>5. \A k \in 1..Len(idx) : idx[k].parent = ParentOf(doc, idx[k].id)
  BY DEF Sound, RowDescribes
<1>6. \A j, k \in 1..Len(idx) : PositionOf(doc, idx[j].id) = PositionOf(doc, idx[k].id) => j = k
  <2> SUFFICES ASSUME NEW j \in 1..Len(idx), NEW k \in 1..Len(idx),
                      PositionOf(doc, idx[j].id) = PositionOf(doc, idx[k].id)
               PROVE  j = k
    OBVIOUS
  <2>1. idx[j].id = idx[k].id
    BY <1>2, <1>3
  <2> QED BY <1>1, <1>2, <2>1 DEF Distinct
<1> QED BY <1>1, <1>2, <1>3, <1>4, <1>5, <1>6

LEMMA PositionsAreFinite ==
  ASSUME NEW n \in Nat, NEW S, S \subseteq 1..n
  PROVE  IsFiniteSet(S)
<1>1. IsFiniteSet(1..n)
  BY FS_Interval
<1> QED BY <1>1, FS_Subset

\* The tree that is built from a sound index is the tree of the outline.
LEMMA KidsIs ==
  ASSUME NEW doc, NEW idx, Sound(doc, idx)
  PROVE  Tree(Kids(idx), doc) /\ Kids(idx) = [x \in {0} \cup IdsOf(doc) |-> Kids(idx)[x]]
<1> DEFINE n == Len(idx)
           up(e) == IF e.parent \in IdsOf(idx) THEN e.parent ELSE 0
           S(p) == {k \in DOMAIN idx : up(idx[k]) = p}
           earlier(j, k) == \/ idx[j].order < idx[k].order
                            \/ idx[j].order = idx[k].order /\ j < k
           t(p) == [k \in 1..Cardinality(S(p)) |->
                      CHOOSE x \in S(p) : Cardinality({y \in S(p) : earlier(y, x)}) = k - 1]
<1>1. Kids(idx) = [p \in {0} \cup IdsOf(idx) |-> [k \in DOMAIN t(p) |-> idx[t(p)[k]].id]]
  BY DEF Kids, Arranged
<1>2. /\ doc \in Seq(Heading) /\ Distinct(doc) /\ n \in Nat
      /\ \A k \in 1..n :
           /\ idx[k].id \in IdsOf(doc) /\ PositionOf(doc, idx[k].id) \in Nat
           /\ idx[k].parent = ParentOf(doc, idx[k].id) /\ idx[k].parent \in {0} \cup IdsOf(doc)
           /\ idx[k].order \in Nat /\ idx[k].id \in Sections_
      /\ \A x \in IdsOf(doc) : \E k \in 1..n : idx[k].id = x
      /\ \A j, k \in 1..n : PositionOf(doc, idx[j].id) = PositionOf(doc, idx[k].id) => j = k
  BY SoundRows
<1>3. IdsOf(idx) = IdsOf(doc) /\ DOMAIN idx = 1..n
  BY RowFields DEF Sound
<1>4. \A j, k \in 1..n : idx[j].parent = idx[k].parent /\ PositionOf(doc, idx[j].id) < PositionOf(doc, idx[k].id)
                            => idx[j].order < idx[k].order
  BY DEF Sound
<1>5. ASSUME NEW p \in {0} \cup IdsOf(doc)
      PROVE  Lists([k \in DOMAIN t(p) |-> idx[t(p)[k]].id], doc, p)
  <2> DEFINE P == S(p)
             u == t(p)
             before == [x \in P |-> {y \in P : earlier(y, x)}]
             m == Cardinality(P)
             s == [k \in DOMAIN u |-> idx[u[k]].id]
  <2>1. P = {k \in 1..n : idx[k].parent = p}
    BY <1>2, <1>3
  <2>2. \A k \in 1..m : \A x \in P : Cardinality(before[x]) = k - 1 =>
          u[k] \in P /\ Cardinality(before[u[k]]) = k - 1
    <3>1. SUFFICES ASSUME NEW k \in 1..m, NEW x \in P, Cardinality(before[x]) = k - 1
                   PROVE  u[k] \in P /\ Cardinality(before[u[k]]) = k - 1
      OBVIOUS
    <3>2. u[k] = CHOOSE z \in P : Cardinality({y \in P : earlier(y, z)}) = k - 1
      OBVIOUS
    <3>3. Cardinality({y \in P : earlier(y, x)}) = k - 1
      BY <3>1
    <3> HIDE DEF P, u
    <3>4. u[k] \in P /\ Cardinality({y \in P : earlier(y, u[k])}) = k - 1
      BY <3>2, <3>3
    <3> QED BY <3>4
  <2>3. before \in [P -> SUBSET P] /\ DOMAIN u = 1..m
    OBVIOUS
  <2>4. \A x, y \in P : y \in before[x] <=> earlier(y, x)
    OBVIOUS
  <2> HIDE DEF P, u, before, m
  <2> DEFINE ord == [k \in 1..n |-> idx[k].order]
             pos == [k \in 1..n |-> PositionOf(doc, idx[k].id)]
  <2>5. /\ \A k \in P : k \in 1..n /\ k \in Nat /\ ord[k] \in Nat /\ pos[k] \in Nat
        /\ \A x, y \in P : y \in before[x] <=> (ord[y] < ord[x] \/ (ord[y] = ord[x] /\ y < x))
        /\ \A x, y \in P : pos[x] < pos[y] => ord[x] < ord[y]
        /\ \A x, y \in P : pos[x] = pos[y] => x = y
    <3>1. \A k \in P : k \in 1..n /\ k \in Nat
      BY <1>2, <2>1
    <3>2. \A k \in P : ord[k] = idx[k].order /\ pos[k] = PositionOf(doc, idx[k].id)
      BY <3>1
    <3>3. \A k \in P : ord[k] \in Nat /\ pos[k] \in Nat
      BY <1>2, <3>1
    <3>4. \A x, y \in P : y \in before[x] <=> (ord[y] < ord[x] \/ (ord[y] = ord[x] /\ y < x))
      BY <2>4, <3>2
    <3>5. \A x, y \in P : idx[x].parent = idx[y].parent
      BY <2>1
    <3>6. \A x, y \in P : pos[x] < pos[y] => ord[x] < ord[y]
      BY <1>4, <3>1, <3>2, <3>5
    <3>7. \A x, y \in P : pos[x] = pos[y] => x = y
      BY <1>2, <3>1, <3>2
    <3> QED BY <3>1, <3>3, <3>4, <3>6, <3>7
  <2> HIDE DEF ord, pos
  <2>6. IsFiniteSet(P)
    BY <1>2, <2>1, PositionsAreFinite
  <2>7. Strict(P, before)
    <3> DEFINE key == [k \in P |-> ord[k]]
    <3>1. P \in SUBSET Nat
      BY <2>5
    <3>2. key \in [P -> Nat]
      BY <2>5
    <3>3. \A x, y \in P : y \in before[x] <=> (key[y] < key[x] \/ (key[y] = key[x] /\ y < x))
      BY <2>5
    <3> HIDE DEF key
    <3> QED BY <2>3, <3>1, <3>2, <3>3, ByKey
  <2>8. Ranked(P, before, u)
    BY <2>2 DEF Ranked, m
  <2>9. m \in Nat /\ \A k \in 1..m : u[k] \in P
    BY <2>6, <2>7, <2>8, OrderedIs DEF m
  <2>10. /\ \A x \in P : \E k \in 1..m : u[k] = x
         /\ \A j, k \in 1..m : j < k => u[j] \in before[u[k]]
    BY <2>6, <2>7, <2>8, OrderedIs DEF m
  <2>11. s = [k \in 1..m |-> idx[u[k]].id]
    BY <2>3
  <2>12. \A k \in 1..m : s[k] = idx[u[k]].id /\ u[k] \in P /\ u[k] \in 1..n
    BY <2>5, <2>9, <2>11
  <2>13. s \in Seq(Sections_) /\ Len(s) = m
    <3>1. s \in [1..m -> Sections_]
      BY <1>2, <2>11, <2>12
    <3> QED BY <2>9, <2>11, <3>1
  <2> HIDE DEF s
  <2>14. \A k \in 1..m : s[k] \in IdsOf(doc) /\ ParentOf(doc, s[k]) = p
    <3> SUFFICES ASSUME NEW k \in 1..m PROVE s[k] \in IdsOf(doc) /\ ParentOf(doc, s[k]) = p
      OBVIOUS
    <3>1. s[k] = idx[u[k]].id /\ u[k] \in 1..n
      BY <2>12
    <3>2. idx[u[k]].parent = p
      BY <2>1, <2>12
    <3> QED BY <1>2, <3>1, <3>2
  <2>15. ASSUME NEW x \in IdsOf(doc), ParentOf(doc, x) = p PROVE \E k \in 1..m : s[k] = x
    <3>1. PICK h \in 1..n : idx[h].id = x
      BY <1>2
    <3>2. h \in P
      BY <1>2, <2>1, <2>15, <3>1
    <3>3. PICK k \in 1..m : u[k] = h
      BY <2>10, <3>2
    <3> QED BY <2>12, <3>1, <3>3
  <2>16. ASSUME NEW j \in 1..m, NEW k \in 1..m, j < k PROVE PositionOf(doc, s[j]) < PositionOf(doc, s[k])
    <3>1. u[j] \in P /\ u[k] \in P /\ u[j] \in before[u[k]]
      BY <2>9, <2>10, <2>16
    <3>2. pos[u[j]] < pos[u[k]]
      <4>1. u[j] # u[k]
        BY <2>7, <3>1 DEF Strict
      <4>2. ~(pos[u[k]] < pos[u[j]])
        <5>1. ord[u[j]] \in Nat /\ ord[u[k]] \in Nat /\ ord[u[j]] <= ord[u[k]]
          <6>1. ord[u[j]] \in Nat /\ ord[u[k]] \in Nat
            BY <2>5, <3>1
          <6>2. ord[u[j]] < ord[u[k]] \/ ord[u[j]] = ord[u[k]]
            BY <2>5, <3>1
          <6> QED BY <6>1, <6>2
        <5> HIDE DEF pos
        <5> SUFFICES ASSUME pos[u[k]] < pos[u[j]] PROVE FALSE
          OBVIOUS
        <5>2. ord[u[k]] < ord[u[j]]
          BY <2>5, <3>1
        <5> QED BY <5>1, <5>2
      <4>3. pos[u[j]] \in Nat /\ pos[u[k]] \in Nat /\ pos[u[j]] # pos[u[k]]
        BY <2>5, <3>1, <4>1
      <4> HIDE DEF pos
      <4> QED BY <4>2, <4>3
    <3> QED BY <2>12, <3>2 DEF pos
  <2>17. Lists(s, doc, p)
    BY <2>13, <2>14, <2>15, <2>16 DEF Lists
  <2> QED BY <2>17 DEF s, u
<1> DEFINE K == Kids(idx)
<1> HIDE DEF t
<1>6. DOMAIN K = {0} \cup IdsOf(doc) /\ \A p \in {0} \cup IdsOf(doc) : K[p] = [k \in DOMAIN t(p) |-> idx[t(p)[k]].id]
  BY <1>1, <1>3
<1>7. Tree(K, doc)
  <2>1. \A p \in {0} \cup IdsOf(doc) : Lists(K[p], doc, p)
    BY <1>5, <1>6
  <2> QED BY <1>6, <2>1 DEF Tree
<1>8. K = [x \in {0} \cup IdsOf(doc) |-> K[x]]
  BY <1>1, <1>3
<1> QED BY <1>7, <1>8

\* The rows that are kept, in the order of the array.
\* new lists the rows of idx with these ids, in their order: those at t.
KeptRows(new, idx, ids, t) ==
  /\ new \in Seq(IndexEntry)
  /\ \A k \in 1..Len(new) : t[k] \in 1..Len(idx) /\ new[k] = idx[t[k]] /\ idx[t[k]].id \in ids
  /\ \A j \in 1..Len(idx) : idx[j].id \in ids => \E k \in 1..Len(new) : t[k] = j
  /\ \A j, k \in 1..Len(new) : j < k => t[j] < t[k]

LEMMA KeptIs ==
  ASSUME NEW idx \in Seq(IndexEntry), NEW ids
  PROVE  \E t : KeptRows(RowsOf(idx, ids), idx, ids, t)
<1> DEFINE n == Len(idx)
           P == {k \in DOMAIN idx : idx[k].id \in ids}
           u == [k \in 1..Cardinality(P) |-> CHOOSE x \in P : Cardinality({y \in P : y < x}) = k - 1]
           before == [x \in P |-> {y \in P : y < x}]
           m == Cardinality(P)
           s == RowsOf(idx, ids)
<1>1. s = [k \in DOMAIN u |-> idx[u[k]]]
  BY DEF RowsOf, Arranged
<1>2. n \in Nat /\ DOMAIN idx = 1..n /\ \A k \in 1..n : idx[k] \in IndexEntry
  OBVIOUS
<1>3. \A k \in 1..m : \A x \in P : Cardinality(before[x]) = k - 1 =>
        u[k] \in P /\ Cardinality(before[u[k]]) = k - 1
  <2>1. SUFFICES ASSUME NEW k \in 1..m, NEW x \in P, Cardinality(before[x]) = k - 1
                 PROVE  u[k] \in P /\ Cardinality(before[u[k]]) = k - 1
    OBVIOUS
  <2>2. u[k] = CHOOSE z \in P : Cardinality({y \in P : y < z}) = k - 1
    OBVIOUS
  <2>3. Cardinality({y \in P : y < x}) = k - 1
    BY <2>1
  <2> HIDE DEF P, u
  <2>4. u[k] \in P /\ Cardinality({y \in P : y < u[k]}) = k - 1
    BY <2>2, <2>3
  <2> QED BY <2>4
<1>4. before \in [P -> SUBSET P] /\ DOMAIN u = 1..m
  OBVIOUS
<1>5. \A x, y \in P : y \in before[x] <=> y < x
  OBVIOUS
<1>6. P \subseteq 1..n /\ \A k \in 1..n : k \in P <=> idx[k].id \in ids
  BY <1>2
<1> HIDE DEF u, before, m, P, s
<1>7. IsFiniteSet(P)
  BY <1>2, <1>6, PositionsAreFinite
<1>8. \A x \in P : x \in Nat
  BY <1>6
<1>9. Strict(P, before)
  <2> DEFINE key == [k \in P |-> 0]
  <2>1. \A x, y \in P : y \in before[x] <=> (key[y] < key[x] \/ (key[y] = key[x] /\ y < x))
    BY <1>5
  <2>2. P \in SUBSET Nat /\ key \in [P -> Nat]
    BY <1>8
  <2> HIDE DEF key
  <2> QED BY <1>4, <2>1, <2>2, ByKey
<1>10. Ranked(P, before, u)
  BY <1>3 DEF Ranked, m
<1>11. m \in Nat /\ \A k \in 1..m : u[k] \in P
  BY <1>7, <1>9, <1>10, OrderedIs DEF m
<1>12. /\ \A x \in P : \E k \in 1..m : u[k] = x
       /\ \A j, k \in 1..m : j < k => u[j] \in before[u[k]]
  BY <1>7, <1>9, <1>10, OrderedIs DEF m
<1>13. s = [k \in 1..m |-> idx[u[k]]]
  BY <1>1, <1>4
<1>14. \A k \in 1..m : u[k] \in P /\ u[k] \in 1..n /\ s[k] = idx[u[k]]
  BY <1>6, <1>11, <1>13
<1>15. s \in Seq(IndexEntry) /\ Len(s) = m
  <2>1. s \in [1..m -> IndexEntry]
    BY <1>2, <1>13, <1>14
  <2> QED BY <1>11, <1>13, <2>1
<1>16. \A k \in 1..m : u[k] \in 1..n /\ s[k] = idx[u[k]] /\ idx[u[k]].id \in ids
  BY <1>6, <1>14
<1>17. \A j \in 1..n : idx[j].id \in ids => \E k \in 1..m : u[k] = j
  BY <1>6, <1>12
<1>18. \A j, k \in 1..m : j < k => u[j] < u[k]
  BY <1>5, <1>11, <1>12
<1>19. KeptRows(s, idx, ids, u)
  BY <1>15, <1>16, <1>17, <1>18 DEF KeptRows
<1> QED BY <1>19 DEF s

TwinsBefore(doc, i) == {j \in 1..(i - 1) : doc[j].level = doc[i].level /\ doc[j].title = doc[i].title}

LEMMA OccurrenceIs ==
  ASSUME NEW doc, NEW i \in Nat
  PROVE  /\ Occurrence(doc, i) = Cardinality(TwinsBefore(doc, i))
         /\ IsFiniteSet(TwinsBefore(doc, i)) /\ Occurrence(doc, i) \in Nat
<1>1. Occurrence(doc, i) = Cardinality(TwinsBefore(doc, i))
  BY DEF Occurrence, TwinsBefore
<1>2. TwinsBefore(doc, i) \subseteq 1..i
  BY DEF TwinsBefore
<1>3. IsFiniteSet(TwinsBefore(doc, i))
  BY <1>2, PositionsAreFinite
<1> QED BY <1>1, <1>3, FS_CardinalityType

\* Of two twins, the later has more of them before it.
LEMMA LaterTwin ==
  ASSUME NEW doc, NEW i \in Nat \ {0}, NEW k \in Nat, i < k,
         doc[i].level = doc[k].level, doc[i].title = doc[k].title
  PROVE  Occurrence(doc, i) < Occurrence(doc, k)
<1> DEFINE A == TwinsBefore(doc, i)
           B == TwinsBefore(doc, k)
<1>1. IsFiniteSet(A) /\ IsFiniteSet(B) /\ Cardinality(A) \in Nat /\ Cardinality(B) \in Nat
      /\ Occurrence(doc, i) = Cardinality(A) /\ Occurrence(doc, k) = Cardinality(B)
  BY OccurrenceIs
<1>2. i \notin A /\ A \cup {i} \in SUBSET B
  BY DEF TwinsBefore
<1> HIDE DEF A, B
<1>3. Cardinality(A \cup {i}) = Cardinality(A) + 1
  BY <1>1, <1>2, FS_AddElement
<1>4. Cardinality(A \cup {i}) <= Cardinality(B)
  BY <1>1, <1>2, FS_Subset
<1> QED BY <1>1, <1>3, <1>4

LEMMA FindType ==
  ASSUME NEW doc \in Seq(Heading), NEW loc
  PROVE  Find(doc, loc) \in 0..Len(doc)
<1> DEFINE B == {0} \cup {i \in DOMAIN doc : /\ doc[i].level = loc.level /\ doc[i].title = loc.title
                                             /\ Occurrence(doc, i) = loc.occ}
<1>1. B \subseteq 0..Len(doc) /\ B # {} /\ Len(doc) \in Nat
  BY HeadingFields
<1>2. Max(B) \in B
  <2> HIDE DEF B
  <2> QED BY <1>1, MaxIsGreatest
<1>3. Find(doc, loc) = Max(B)
  BY DEF Find
<1> HIDE DEF B
<1> QED BY <1>1, <1>2, <1>3

\* A locator finds the heading it was made from.
LEMMA FindIs ==
  ASSUME NEW doc \in Seq(Heading), NEW k \in 1..Len(doc), NEW loc,
         loc.level = doc[k].level, loc.title = doc[k].title, loc.occ = Occurrence(doc, k)
  PROVE  Find(doc, loc) = k
<1> DEFINE B == {0} \cup {i \in DOMAIN doc : /\ doc[i].level = loc.level /\ doc[i].title = loc.title
                                             /\ Occurrence(doc, i) = loc.occ}
<1>1. B \subseteq 0..Len(doc) /\ B # {} /\ Len(doc) \in Nat /\ k \in B /\ DOMAIN doc = 1..Len(doc)
  BY HeadingFields
<1>2. ASSUME NEW i \in B, i # 0 PROVE i = k
  <2>1. i \in 1..Len(doc) /\ doc[i].level = doc[k].level /\ doc[i].title = doc[k].title
        /\ Occurrence(doc, i) = Occurrence(doc, k)
    BY <1>1, <1>2
  <2>2. i \in Nat \ {0} /\ k \in Nat \ {0}
    BY <1>1, <2>1
  <2>3. Occurrence(doc, i) \in Nat
    BY <2>2, OccurrenceIs
  <2>4. ~(i < k)
    BY <2>1, <2>2, <2>3, LaterTwin
  <2>5. ~(k < i)
    BY <2>1, <2>2, <2>3, LaterTwin
  <2> QED BY <2>2, <2>4, <2>5
<1>3. Find(doc, loc) = Max(B)
  BY DEF Find
<1> HIDE DEF B
<1>4. Max(B) \in B /\ \A i \in B : Max(B) >= i
  BY <1>1, MaxIsGreatest
<1>5. Max(B) # 0
  BY <1>1, <1>4
<1> QED BY <1>2, <1>3, <1>4, <1>5

\* Twins are counted alike where they are in the same order.
\* The headings of d1 are headings of d2, twins in the same order.
Carries(d1, n1, d2, n2, pos) ==
  /\ n1 \in Nat /\ n2 \in Nat /\ pos \in [1..n1 -> 1..n2]
  /\ \A k \in 1..n1 : d1[k].level = d2[pos[k]].level /\ d1[k].title = d2[pos[k]].title
  /\ \A j, k \in 1..n1 : Twin(d1[j], d1[k]) /\ j < k => pos[j] < pos[k]

AllTwins(n1, d2, n2, pos, k) ==
  \A i \in 1..n2 : Twin(d2[i], d2[pos[k]]) => \E j \in 1..n1 : pos[j] = i

LEMMA SameCount ==
  ASSUME NEW d1, NEW n1, NEW d2, NEW n2, NEW pos, Carries(d1, n1, d2, n2, pos),
         NEW k \in 1..n1, AllTwins(n1, d2, n2, pos, k)
  PROVE  Occurrence(d1, k) = Occurrence(d2, pos[k])
<1> USE DEF Carries, AllTwins
<1> DEFINE A == TwinsBefore(d1, k)
           B == TwinsBefore(d2, pos[k])
           f == [j \in A |-> pos[j]]
<1>1. k \in Nat /\ pos[k] \in Nat /\ pos[k] \in 1..n2 /\ \A j \in 1..n1 : j \in Nat /\ pos[j] \in 1..n2 /\ pos[j] \in Nat
  OBVIOUS
<1>2. /\ Occurrence(d1, k) = Cardinality(A) /\ Occurrence(d2, pos[k]) = Cardinality(B)
      /\ IsFiniteSet(A)
  BY <1>1, OccurrenceIs
<1>3. \A j : j \in A <=> j \in 1..n1 /\ j < k /\ Twin(d1[j], d1[k])
  BY DEF TwinsBefore, Twin
<1>4. \A i : i \in B <=> i \in 1..n2 /\ i < pos[k] /\ Twin(d2[i], d2[pos[k]])
  BY <1>1 DEF TwinsBefore, Twin
<1>5. \A j \in 1..n1 : Twin(d1[j], d1[k]) <=> Twin(d2[pos[j]], d2[pos[k]])
  BY DEF Twin
<1>6. ASSUME NEW j \in A PROVE f[j] \in B
  <2>1. f[j] = pos[j] /\ j \in 1..n1 /\ j < k /\ Twin(d1[j], d1[k])
    BY <1>3
  <2> QED BY <1>1, <1>4, <1>5, <2>1
<1>7. ASSUME NEW j \in A, NEW h \in A, f[j] = f[h] PROVE j = h
  <2>1. j \in 1..n1 /\ h \in 1..n1 /\ Twin(d1[j], d1[k]) /\ Twin(d1[h], d1[k]) /\ pos[j] = pos[h]
    BY <1>3, <1>7
  <2>2. Twin(d1[j], d1[h]) /\ Twin(d1[h], d1[j])
    BY <2>1 DEF Twin
  <2>3. ~(j < h) /\ ~(h < j)
    BY <1>1, <2>1, <2>2
  <2> QED BY <1>1, <2>1, <2>3
<1>8. ASSUME NEW i \in B PROVE \E j \in A : f[j] = i
  <2>1. i \in 1..n2 /\ i < pos[k] /\ Twin(d2[i], d2[pos[k]])
    BY <1>4
  <2>2. PICK j \in 1..n1 : pos[j] = i
    BY <2>1
  <2>3. Twin(d1[j], d1[k]) /\ Twin(d1[k], d1[j])
    BY <1>5, <2>1, <2>2 DEF Twin
  <2>4. j # k
    BY <1>1, <2>1, <2>2
  <2>5. ~(k < j)
    BY <1>1, <2>1, <2>2, <2>3
  <2>6. j < k
    BY <1>1, <2>4, <2>5
  <2>7. j \in A
    BY <1>3, <2>3, <2>6
  <2> QED BY <2>2, <2>7
<1> HIDE DEF A, B
<1>9. f = [j \in A |-> f[j]] /\ DOMAIN f = A
  OBVIOUS
<1> HIDE DEF f
<1>10. f \in [A -> B]
  BY <1>6, <1>9
<1>11. f \in Bijection(A, B)
  BY <1>7, <1>8, <1>10 DEF Bijection, Injection, Surjection, IsInjective
<1>12. ExistsBijection(A, B)
  BY <1>11 DEF ExistsBijection
<1> QED BY <1>2, <1>12, FS_Bijection

\* What rebuildSectionIndex makes of headings and a tree, also when the tree is
\* not theirs.
LEMMA RebuiltRows ==
  ASSUME NEW new, Outline(new), NEW kids, Tree(kids, new), NEW doc \in Seq(Heading),
         Len(Preorder(kids)) = Len(doc)
  PROVE  /\ Len(new) = Len(doc) /\ Rebuilt(doc, kids) \in Seq(IndexEntry) /\ Len(Rebuilt(doc, kids)) = Len(doc)
         /\ \A k \in 1..Len(doc) :
              LET e == Rebuilt(doc, kids)[k]
              IN /\ e.id = new[k].id /\ e.parent = ParentOf(new, new[k].id)
                 /\ e.order = Place(kids, e.parent, e.id) - 1 /\ e.order \in Nat
                 /\ e.parent \in DOMAIN kids
                 /\ e.order + 1 \in 1..Len(kids[e.parent]) /\ kids[e.parent][e.order + 1] = e.id
                 /\ Lists(kids[e.parent], new, e.parent)
                 /\ e.level = doc[k].level /\ e.title = doc[k].title /\ e.occ = Occurrence(doc, k)
<1> DEFINE ids == Preorder(kids)
           n == Len(doc)
           idx == Rebuilt(doc, kids)
<1>1. new \in Seq(Heading) /\ Distinct(new) /\ Partial(kids, new) /\ DOMAIN kids = {0} \cup IdsOf(new)
  BY TreeIsPartial DEF Outline, Tree
<1>2. /\ DOMAIN new = 1..Len(new) /\ Len(new) \in Nat /\ DOMAIN doc = 1..n /\ n \in Nat
      /\ \A k \in 1..n : doc[k] \in Heading
      /\ \A k \in 1..Len(new) : new[k].id \in Sections_ /\ new[k].id \in IdsOf(new)
  BY <1>1, HeadingFields, PositionIs
<1>3. ids = [k \in 1..Len(new) |-> new[k].id]
  BY <1>2, PreorderIs
<1>4. Len(new) = n
  <2>1. ids \in Seq(Sections_) /\ Len(ids) = Len(new)
    <3>1. ids \in [1..Len(new) -> Sections_]
      BY <1>2, <1>3
    <3> HIDE DEF ids
    <3> QED BY <1>2, <1>3, <3>1
  <2> QED BY <2>1
<1>5. \A k \in 1..n : ids[k] = new[k].id
  BY <1>3, <1>4
<1>6. idx = [k \in 1..n |->
        [id |-> ids[k], parent |-> ParentIn(kids, ids[k]),
         order |-> Place(kids, ParentIn(kids, ids[k]), ids[k]) - 1,
         level |-> doc[k].level, title |-> doc[k].title, occ |-> Occurrence(doc, k)]]
  BY <1>2 DEF Rebuilt
<1> HIDE DEF ids, idx
<1>7. ASSUME NEW k \in 1..n
      PROVE  LET e == idx[k]
             IN /\ e.id = new[k].id /\ e.parent = ParentOf(new, new[k].id)
                /\ e.order = Place(kids, e.parent, e.id) - 1 /\ e.order \in Nat
                /\ e.parent \in DOMAIN kids
                /\ e.order + 1 \in 1..Len(kids[e.parent]) /\ kids[e.parent][e.order + 1] = e.id
                /\ Lists(kids[e.parent], new, e.parent)
                /\ e.level = doc[k].level /\ e.title = doc[k].title /\ e.occ = Occurrence(doc, k)
                /\ e \in IndexEntry
  <2> DEFINE x == new[k].id
             p == ParentIn(kids, x)
             j == Place(kids, p, x)
             e == idx[k]
  <2>1. x \in IdsOf(new) /\ x \in Sections_ /\ ids[k] = x
    BY <1>2, <1>4, <1>5
  <2>2. /\ p = ParentOf(new, x) /\ p \in {0} \cup IdsOf(new) /\ p \in DOMAIN kids
        /\ Lists(kids[p], new, p) /\ j \in 1..Len(kids[p]) /\ kids[p][j] = x
    BY <1>1, <2>1, ParentInIs
  <2>3. e = [id |-> x, parent |-> p, order |-> j - 1,
             level |-> doc[k].level, title |-> doc[k].title, occ |-> Occurrence(doc, k)]
    BY <1>6, <2>1
  <2>4. Len(kids[p]) \in Nat
    BY <2>2 DEF Lists
  <2> HIDE DEF x, p, j, e
  <2>5. j \in 1..Len(kids[p]) /\ j - 1 \in Nat /\ (j - 1) + 1 = j
    BY <2>2, <2>4
  <2>6. p \in 0..MaxSections
    BY <1>1, <2>2, PositionIs, TreeAssumption DEF Sections_
  <2>7. Occurrence(doc, k) \in Nat
    BY <1>2, OccurrenceIs
  <2>8. doc[k] \in Heading
    BY <1>2
  <2>9. e \in IndexEntry
    BY <2>1, <2>3, <2>5, <2>6, <2>7, <2>8 DEF IndexEntry, Heading
  <2>10. e.id = x /\ e.parent = p /\ e.order = j - 1 /\ e.level = doc[k].level /\ e.title = doc[k].title
         /\ e.occ = Occurrence(doc, k)
    BY <2>3
  <2>11. j = Place(kids, p, x)
    BY DEF j
  <2> QED BY <2>2, <2>5, <2>9, <2>10, <2>11 DEF x, e
<1>8. idx \in Seq(IndexEntry) /\ Len(idx) = n
  <2>1. idx = [k \in 1..n |-> idx[k]]
    BY <1>6
  <2>2. idx \in [1..n -> IndexEntry]
    BY <1>7, <2>1
  <2> QED BY <1>2, <2>1, <2>2
<1> QED BY <1>4, <1>7, <1>8 DEF idx

LEMMA RebuiltIs ==
  ASSUME NEW doc, Outline(doc), NEW kids, Tree(kids, doc)
  PROVE  Len(Preorder(kids)) = Len(doc) /\ Sound(doc, Rebuilt(doc, kids))
<1> DEFINE n == Len(doc)
           idx == Rebuilt(doc, kids)
<1>1. doc \in Seq(Heading) /\ Distinct(doc) /\ n \in Nat /\ DOMAIN doc = 1..n
  <2>1. doc \in Seq(Heading) /\ Distinct(doc)
    BY DEF Outline
  <2> QED BY <2>1, HeadingFields
<1>2. Len(Preorder(kids)) = n
  <2>1. Preorder(kids) = [k \in 1..n |-> doc[k].id]
    BY <1>1, PreorderIs
  <2>2. \A k \in 1..n : doc[k].id \in Sections_
    BY <1>1, HeadingFields
  <2>3. Preorder(kids) \in [1..n -> Sections_]
    BY <2>1, <2>2
  <2> HIDE DEF n
  <2> QED BY <1>1, <2>1, <2>3
<1>3. /\ idx \in Seq(IndexEntry) /\ Len(idx) = n
      /\ \A k \in 1..n :
           /\ idx[k].id = doc[k].id /\ idx[k].parent = ParentOf(doc, doc[k].id)
           /\ idx[k].order \in Nat /\ idx[k].parent \in DOMAIN kids
           /\ idx[k].order + 1 \in 1..Len(kids[idx[k].parent])
           /\ kids[idx[k].parent][idx[k].order + 1] = idx[k].id
           /\ Lists(kids[idx[k].parent], doc, idx[k].parent)
           /\ idx[k].level = doc[k].level /\ idx[k].title = doc[k].title /\ idx[k].occ = Occurrence(doc, k)
  BY <1>1, <1>2, RebuiltRows
<1> HIDE DEF idx
<1>4. DOMAIN idx = 1..n
  BY <1>1, <1>3
<1>5. Distinct(idx)
  BY <1>1, <1>3, <1>4 DEF Distinct
<1>6. IdsOf(idx) = IdsOf(doc)
  <2>1. IdsOf(idx) = {idx[k].id : k \in 1..n}
    BY <1>4 DEF IdsOf, ToSet
  <2>2. IdsOf(doc) = {doc[k].id : k \in 1..n}
    BY <1>1 DEF IdsOf, ToSet
  <2>3. \A k \in 1..n : idx[k].id = doc[k].id
    BY <1>3
  <2> QED BY <2>1, <2>2, <2>3
<1>7. \A k \in 1..n : PositionOf(doc, idx[k].id) = k
  BY <1>1, <1>3, PositionIs
<1>8. \A k \in 1..n : RowDescribes(idx[k], doc)
  <2> SUFFICES ASSUME NEW k \in 1..n PROVE RowDescribes(idx[k], doc)
    OBVIOUS
  <2>1. PositionOf(doc, idx[k].id) = k /\ k # 0
    BY <1>1, <1>7
  <2>2. idx[k].parent = ParentOf(doc, idx[k].id)
    BY <1>3
  <2> QED BY <1>3, <2>1, <2>2 DEF RowDescribes
<1>9. ASSUME NEW j \in 1..n, NEW k \in 1..n, idx[j].parent = idx[k].parent,
             PositionOf(doc, idx[j].id) < PositionOf(doc, idx[k].id)
      PROVE  idx[j].order < idx[k].order
  <2> DEFINE p == idx[j].parent
             s == kids[p]
             a == idx[j].order + 1
             b == idx[k].order + 1
  <2>1. /\ a \in 1..Len(s) /\ s[a] = idx[j].id /\ Lists(s, doc, p)
        /\ b \in 1..Len(s) /\ s[b] = idx[k].id
        /\ idx[j].order \in Nat /\ idx[k].order \in Nat
    BY <1>3, <1>9
  <2> HIDE DEF s
  <2>2. PositionOf(doc, s[a]) < PositionOf(doc, s[b])
    BY <1>9, <2>1
  <2>3. \A h, l \in 1..Len(s) : h < l => PositionOf(doc, s[h]) < PositionOf(doc, s[l])
    BY <2>1 DEF Lists
  <2>4. PositionOf(doc, s[a]) \in Nat /\ PositionOf(doc, s[b]) \in Nat
    BY <1>7, <1>1, <2>1
  <2> HIDE DEF a, b
  <2>5. ~(b < a)
    <3> SUFFICES ASSUME b < a PROVE FALSE
      OBVIOUS
    <3>1. PositionOf(doc, s[b]) < PositionOf(doc, s[a])
      BY <2>1, <2>3
    <3> QED BY <2>2, <2>4, <3>1
  <2>6. a # b
    BY <2>2, <2>4
  <2>7. a = idx[j].order + 1 /\ b = idx[k].order + 1
    BY DEF a, b
  <2> QED BY <2>1, <2>5, <2>6, <2>7, SMTT(30)
<1>10. \A j, k \in 1..n : Twin(idx[j], idx[k]) /\ j < k => PositionOf(doc, idx[j].id) < PositionOf(doc, idx[k].id)
  BY <1>1, <1>7
<1>11. Sound(doc, idx)
  BY <1>3, <1>5, <1>6, <1>8, <1>9, <1>10 DEF Sound
<1> QED BY <1>2, <1>11 DEF idx

\* The row of a section finds the section's heading.
LEMMA RowIs ==
  ASSUME NEW doc, NEW idx, Sound(doc, idx), NEW x \in IdsOf(idx)
  PROVE  LET e == Row(idx, x)
         IN /\ e.id = x /\ RowDescribes(e, doc) /\ \E k \in 1..Len(idx) : idx[k] = e
            /\ \A k \in 1..Len(idx) : idx[k].id = x => idx[k] = e
            /\ Find(doc, e) = PositionOf(doc, x) /\ PositionOf(doc, x) \in 1..Len(doc)
            /\ doc[PositionOf(doc, x)].id = x
<1>1. /\ idx \in Seq(IndexEntry) /\ Distinct(idx) /\ DOMAIN idx = 1..Len(idx) /\ IdsOf(idx) = IdsOf(doc)
      /\ \A k \in 1..Len(idx) : RowDescribes(idx[k], doc)
      /\ doc \in Seq(Heading) /\ Distinct(doc)
  BY RowFields DEF Sound, Outline
<1>2. PICK k \in 1..Len(idx) : idx[k].id = x
  BY <1>1, RowFields
<1>3. idx[k] \in ToSet(idx)
  BY <1>1 DEF ToSet
<1> DEFINE e == Row(idx, x)
<1>4. e \in ToSet(idx) /\ e.id = x
  BY <1>2, <1>3 DEF Row
<1> HIDE DEF e
<1>5. PICK h \in 1..Len(idx) : idx[h] = e
  BY <1>1, <1>4 DEF ToSet
<1>6. \A l \in 1..Len(idx) : idx[l].id = x => idx[l] = e
  BY <1>1, <1>4, <1>5 DEF Distinct
<1>7. PositionOf(doc, x) \in 1..Len(doc) /\ doc[PositionOf(doc, x)].id = x
  BY <1>1, PositionIs
<1>8. RowDescribes(e, doc)
  BY <1>1, <1>5
<1>9. Find(doc, e) = PositionOf(doc, x)
  BY <1>1, <1>4, <1>7, <1>8, FindIs DEF RowDescribes
<1> QED BY <1>4, <1>5, <1>6, <1>7, <1>8, <1>9 DEF e

\* The sections below one in the tree are those of its subtree of headings.
LEMMA SubtreeIs ==
  ASSUME NEW doc, Outline(doc), NEW kids, Tree(kids, doc), NEW i \in 1..Len(doc)
  PROVE  SubtreeIds(kids, doc[i].id) = IdsOf(Block(doc, i))
<1> DEFINE D == DOMAIN kids
           Fits(f) == f = [p \in D |-> {p} \cup UNION {f[c] : c \in ToSet(kids[p])}]
           W == CHOOSE f : Fits(f)
           w == [x \in D |-> {IdAt(doc, k) : k \in PositionOf(doc, x)..(EndAt(doc, PositionOf(doc, x)) - 1)}]
<1>0. /\ doc \in Seq(Heading) /\ Distinct(doc) /\ Proper(doc) /\ D = {0} \cup IdsOf(doc)
      /\ Len(doc) \in Nat
  <2>1. doc \in Seq(Heading)
    BY DEF Outline
  <2> QED BY <2>1, HeadingFields DEF Outline, Tree
<1>1. \A x \in D : Lists(kids[x], doc, x)
  BY DEF Tree
<1>2. ASSUME NEW x \in D, NEW c \in ToSet(kids[x])
      PROVE  /\ c \in D /\ PositionOf(doc, c) \in 1..Len(doc) /\ PositionOf(doc, c) > PositionOf(doc, x)
             /\ PositionOf(doc, c) \in (PositionOf(doc, x) + 1)..(EndAt(doc, PositionOf(doc, x)) - 1)
             /\ EndAt(doc, PositionOf(doc, c)) <= EndAt(doc, PositionOf(doc, x))
  <2> DEFINE p == PositionOf(doc, x)
             s == kids[x]
             q == PositionOf(doc, c)
             e == EndAt(doc, p)
             f == EndAt(doc, q)
  <2>1. p \in 0..Len(doc) /\ IdAt(doc, p) = x
    BY <1>0, TreeAt
  <2>2. Lists(s, doc, IdAt(doc, p))
    BY <1>1, <2>1
  <2>3. PICK k \in 1..Len(s) : s[k] = c
    <3>1. DOMAIN s = 1..Len(s)
      BY <2>2 DEF Lists
    <3> QED BY <3>1 DEF ToSet
  <2>4. c \in IdsOf(doc)
    BY <2>2, <2>3 DEF Lists
  <2> HIDE DEF s, p
  <2>5. q \in 1..Len(doc) /\ q \in (p + 1)..(EndAt(doc, p) - 1) /\ doc[q].level = LevelAt(doc, p) + 1
    BY <2>1, <2>2, <2>3, Listed
  <2>6. /\ p \in Nat /\ e \in (p + 1)..(Len(doc) + 1) /\ LevelAt(doc, p) \in Nat
        /\ (e <= Len(doc) => doc[e].level <= LevelAt(doc, p))
    BY <1>0, <2>1, EndAtIs
  <2>7. /\ f \in (q + 1)..(Len(doc) + 1) /\ \A j \in (q + 1)..(f - 1) : doc[j].level > doc[q].level
    <3>1. f = BlockEnd(doc, q)
      BY <1>0, <2>5 DEF EndAt
    <3> QED BY <1>0, <2>5, <3>1, EndIs DEF IsEndAt
  <2> HIDE DEF q, e, f
  <2>8. f <= e
    <3> SUFFICES ASSUME e < f PROVE FALSE
      BY <1>0, <2>5, <2>6, <2>7
    <3>1. e \in (q + 1)..(f - 1) /\ e <= Len(doc) /\ e \in 1..Len(doc)
      BY <1>0, <2>5, <2>6, <2>7 DEF e
    <3>2. doc[e].level > doc[q].level /\ doc[e].level <= LevelAt(doc, p) /\ doc[e].level \in Nat
      BY <1>0, <2>6, <2>7, <3>1, HeadingFields
    <3> QED BY <2>5, <2>6, <3>2
  <2>9. q > p
    BY <2>5, <2>6
  <2> QED BY <1>0, <2>4, <2>5, <2>8, <2>9 DEF p, q, e, f
<1>3. ASSUME NEW f, NEW x \in D, \A c \in ToSet(kids[x]) : f[c] = w[c]
      PROVE  {x} \cup UNION {f[c] : c \in ToSet(kids[x])} = w[x]
  <2> DEFINE p == PositionOf(doc, x)
             s == kids[x]
             e == EndAt(doc, p)
             R == {x} \cup UNION {f[c] : c \in ToSet(s)}
  <2>1. p \in 0..Len(doc) /\ IdAt(doc, p) = x
    BY <1>0, TreeAt
  <2>2. Lists(s, doc, IdAt(doc, p))
    BY <1>1, <2>1
  <2>3. w[x] = {IdAt(doc, k) : k \in p..(e - 1)}
    OBVIOUS
  <2>4. e \in (p + 1)..(Len(doc) + 1) /\ p \in Nat
    BY <1>0, <2>1, EndAtIs
  <2>5. \A c \in ToSet(s) :
          /\ f[c] = {IdAt(doc, k) : k \in PositionOf(doc, c)..(EndAt(doc, PositionOf(doc, c)) - 1)}
          /\ PositionOf(doc, c) \in (p + 1)..(e - 1) /\ EndAt(doc, PositionOf(doc, c)) <= e
          /\ EndAt(doc, PositionOf(doc, c)) \in Nat
    <3> SUFFICES ASSUME NEW c \in ToSet(s)
                 PROVE  /\ f[c] = {IdAt(doc, k) : k \in PositionOf(doc, c)..(EndAt(doc, PositionOf(doc, c)) - 1)}
                        /\ PositionOf(doc, c) \in (p + 1)..(e - 1) /\ EndAt(doc, PositionOf(doc, c)) <= e
                        /\ EndAt(doc, PositionOf(doc, c)) \in Nat
      OBVIOUS
    <3>1. c \in D /\ PositionOf(doc, c) \in 1..Len(doc) /\ PositionOf(doc, c) \in (p + 1)..(e - 1)
          /\ EndAt(doc, PositionOf(doc, c)) <= e
      BY <1>2
    <3>2. f[c] = w[c]
      BY <1>3
    <3>3. EndAt(doc, PositionOf(doc, c)) \in Nat
      <4>1. PositionOf(doc, c) \in 0..Len(doc)
        BY <1>0, <3>1
      <4> QED BY <1>0, <4>1, EndAtIs
    <3> QED BY <3>1, <3>2, <3>3
  <2> HIDE DEF w, p, s, e
  <2>6. ASSUME NEW y \in w[x] PROVE y \in R
    <3>1. PICK k \in p..(e - 1) : y = IdAt(doc, k)
      BY <2>3
    <3>2. CASE k = p
      BY <2>1, <3>1, <3>2
    <3>3. CASE k # p
      <4>1. k \in (p + 1)..(EndAt(doc, p) - 1)
        BY <2>4, <3>3 DEF e
      <4>2. PICK c \in (p + 1)..k : c \in 1..Len(doc) /\ ParentHeading(doc, c) = p /\ k < BlockEnd(doc, c)
        BY <1>0, <2>1, <4>1, ChildAround
      <4>3. PICK j \in 1..Len(s) : PositionOf(doc, s[j]) = c
        BY <2>1, <2>2, <4>2, Listed
      <4>4. s[j] \in ToSet(s)
        <5>1. DOMAIN s = 1..Len(s)
          BY <2>2 DEF Lists
        <5> QED BY <5>1 DEF ToSet
      <4>5. EndAt(doc, c) = BlockEnd(doc, c) /\ EndAt(doc, c) \in Nat
        BY <1>0, <2>5, <4>2, <4>3, <4>4 DEF EndAt
      <4>6. k \in c..(EndAt(doc, c) - 1)
        BY <2>4, <4>2, <4>5
      <4>7. IdAt(doc, k) \in f[s[j]]
        BY <2>5, <4>3, <4>4, <4>6
      <4> QED BY <3>1, <4>4, <4>7
    <3> QED BY <3>2, <3>3
  <2>7. ASSUME NEW y \in R PROVE y \in w[x]
    <3>1. CASE y = x
      <4>1. p \in p..(e - 1)
        BY <2>4
      <4> QED BY <2>1, <2>3, <3>1, <4>1
    <3>2. CASE \E c \in ToSet(s) : y \in f[c]
      <4>1. PICK c \in ToSet(s) : y \in f[c]
        BY <3>2
      <4>2. PICK k \in PositionOf(doc, c)..(EndAt(doc, PositionOf(doc, c)) - 1) : y = IdAt(doc, k)
        BY <2>5, <4>1
      <4> DEFINE q == PositionOf(doc, c)
                 g == EndAt(doc, q)
      <4>3. q \in (p + 1)..(e - 1) /\ g <= e /\ g \in Nat /\ k \in q..(g - 1)
        BY <2>5, <4>2
      <4> HIDE DEF q, g
      <4>4. k \in p..(e - 1)
        BY <2>4, <4>3
      <4> QED BY <2>3, <4>2, <4>4
    <3> QED BY <3>1, <3>2
  <2> HIDE DEF R
  <2>8. w[x] = R
    BY <2>6, <2>7
  <2> QED BY <2>8 DEF R, s
<1>4. Fits(w)
  <2>1. w = [x \in D |-> w[x]]
    OBVIOUS
  <2> HIDE DEF w
  <2>2. \A x \in D : {x} \cup UNION {w[c] : c \in ToSet(kids[x])} = w[x]
    BY <1>3
  <2> QED BY <2>1, <2>2, Zenon
<1> HIDE DEF w
<1>5. Fits(W)
  <2> HIDE DEF Fits
  <2> QED BY <1>4
<1>6. SubtreeIds(kids, doc[i].id) = W[doc[i].id]
  BY DEF SubtreeIds
<1> HIDE DEF W
<1> DEFINE Bad == {p \in 0..Len(doc) : W[IdAt(doc, p)] # w[IdAt(doc, p)]}
<1>7. Bad = {}
  <2> SUFFICES ASSUME Bad # {} PROVE FALSE
    OBVIOUS
  <2>1. PICK p \in Bad : \A q \in Bad : p >= q
    <3>1. Bad \subseteq 0..Len(doc)
      OBVIOUS
    <3> HIDE DEF Bad
    <3> QED BY <1>0, <3>1, GreatestNumber
  <2> DEFINE x == IdAt(doc, p)
  <2>2. p \in 0..Len(doc) /\ x \in D /\ PositionOf(doc, x) = p /\ W[x] # w[x]
    BY <1>0, <2>1, TreeAt
  <2>3. \A c \in ToSet(kids[x]) : W[c] = w[c]
    <3> SUFFICES ASSUME NEW c \in ToSet(kids[x]) PROVE W[c] = w[c]
      OBVIOUS
    <3> DEFINE q == PositionOf(doc, c)
    <3>1. q > p /\ q \in 1..Len(doc) /\ c \in D
      BY <1>2, <2>2
    <3>2. q \notin Bad
      <4>1. p \in Nat /\ q \in Nat /\ ~(p >= q)
        BY <1>0, <2>2, <3>1
      <4> HIDE DEF q, Bad
      <4> QED BY <2>1, <4>1
    <3>3. q \in 0..Len(doc) /\ IdAt(doc, q) = c
      BY <1>0, <3>1, TreeAt
    <3> QED BY <3>2, <3>3
  <2> HIDE DEF x, Bad
  <2>4. W[x] = {x} \cup UNION {W[c] : c \in ToSet(kids[x])}
    BY <1>5, <2>2
  <2>5. {x} \cup UNION {W[c] : c \in ToSet(kids[x])} = w[x]
    BY <1>3, <2>2, <2>3
  <2> QED BY <2>2, <2>4, <2>5
<1> DEFINE x == doc[i].id
<1>8. x \in D /\ PositionOf(doc, x) = i /\ IdAt(doc, i) = x /\ i \in 0..Len(doc) /\ i # 0
  BY <1>0, PositionIs DEF IdAt
<1>9. W[x] = w[x]
  BY <1>7, <1>8
<1>10. w[x] = {IdAt(doc, k) : k \in i..(BlockEnd(doc, i) - 1)}
  <2>1. EndAt(doc, i) = BlockEnd(doc, i)
    BY <1>8 DEF EndAt
  <2> HIDE DEF x
  <2> QED BY <1>8, <2>1 DEF w
<1>11. w[x] = IdsOf(Block(doc, i))
  <2> DEFINE e == BlockEnd(doc, i)
             blk == Block(doc, i)
  <2>1. e \in (i + 1)..(Len(doc) + 1)
    BY <1>0, EndIs DEF IsEndAt
  <2>2. /\ blk \in Seq(Heading) /\ Len(blk) = e - i
        /\ \A k \in 1..(e - i) : blk[k] = doc[i + k - 1]
    BY <1>0, BlockIs
  <2> HIDE DEF e, blk
  <2>3. IdsOf(blk) = {blk[k].id : k \in 1..(e - i)}
    <3>1. DOMAIN blk = 1..(e - i)
      BY <2>2
    <3> QED BY <3>1 DEF IdsOf, ToSet
  <2>4. ASSUME NEW y \in IdsOf(blk) PROVE \E k \in i..(e - 1) : y = IdAt(doc, k)
    <3>1. PICK k \in 1..(e - i) : y = blk[k].id
      BY <2>3
    <3>2. i + k - 1 \in i..(e - 1) /\ i + k - 1 # 0
      BY <1>0, <2>1
    <3>3. y = IdAt(doc, i + k - 1)
      BY <2>2, <3>1, <3>2 DEF IdAt
    <3> QED BY <3>2, <3>3
  <2>5. ASSUME NEW k \in i..(e - 1) PROVE IdAt(doc, k) \in IdsOf(blk)
    <3>1. k - i + 1 \in 1..(e - i) /\ i + (k - i + 1) - 1 = k /\ k # 0
      BY <1>0, <2>1
    <3>2. blk[k - i + 1].id = IdAt(doc, k)
      BY <2>2, <3>1 DEF IdAt
    <3> QED BY <2>3, <3>1, <3>2
  <2>6. w[x] = {IdAt(doc, k) : k \in i..(e - 1)}
    BY <1>10 DEF e
  <2> HIDE DEF x
  <2>7. w[x] = IdsOf(blk)
    BY <2>4, <2>5, <2>6
  <2> QED BY <2>7 DEF blk
<1> QED BY <1>6, <1>9, <1>11

LEMMA TakenIs ==
  ASSUME NEW doc, NEW kids, NEW i, NEW x, NEW level, NEW rest, NEW blk, NEW K,
         Lifted(doc, kids, i, x, level, rest, blk, K)
  PROVE  /\ Outline(rest) /\ Partial(K, rest) /\ Apart(doc, rest, Block(doc, i)) /\ Block(doc, i)[1].id = x
         /\ \A y \in {0} \cup IdsOf(doc) : y # ParentOf(doc, x) => K[y] = kids[y]
<1>1. /\ Outline(doc) /\ Tree(kids, doc) /\ i \in 1..Len(doc) /\ x = doc[i].id
      /\ rest = CutBlock(doc, i) /\ K = Detached(kids, x)
  BY DEF Lifted
<1>2. Outline(rest) /\ Apart(doc, rest, Block(doc, i)) /\ Block(doc, i)[1].id = x
  BY <1>1, CutShape, BlockSubtree
<1>3. Partial(K, rest) /\ \A y \in DOMAIN kids : y # ParentOf(doc, x) => K[y] = kids[y]
  BY <1>1, <1>2, Detaching
<1>4. DOMAIN kids = {0} \cup IdsOf(doc)
  BY <1>1 DEF Tree
<1> QED BY <1>2, <1>3, <1>4

LEMMA Start ==
  ASSUME NEW doc, NEW idx, Sound(doc, idx), NEW x \in IdsOf(idx)
  PROVE  LET i == Find(doc, Row(idx, x))
         IN /\ Outline(doc) /\ Tree(Kids(idx), doc) /\ IdsOf(idx) = IdsOf(doc)
            /\ i \in 1..Len(doc) /\ doc[i].id = x /\ i = PositionOf(doc, x) /\ x \in IdsOf(doc)
<1>1. Outline(doc) /\ IdsOf(idx) = IdsOf(doc)
  BY DEF Sound
<1>2. Tree(Kids(idx), doc)
  BY KidsIs
<1>3. /\ Find(doc, Row(idx, x)) = PositionOf(doc, x) /\ PositionOf(doc, x) \in 1..Len(doc)
      /\ doc[PositionOf(doc, x)].id = x
  BY RowIs
<1> QED BY <1>1, <1>2, <1>3

\* The parent in a tree, and the place among the siblings, of the heading at d.
LEMMA SiblingsIs ==
  ASSUME NEW doc, Outline(doc), NEW K, Partial(K, doc), NEW d \in 1..Len(doc)
  PROVE  LET p == ParentIn(K, doc[d].id)
             q == ParentHeading(doc, d)
             k == Place(K, p, doc[d].id)
         IN /\ p = IdAt(doc, q) /\ p = ParentOf(doc, doc[d].id) /\ p \in DOMAIN K /\ Lists(K[p], doc, IdAt(doc, q))
            /\ k \in 1..Len(K[p]) /\ K[p][k] = doc[d].id
<1>1. doc \in Seq(Heading) /\ Distinct(doc)
  BY DEF Outline
<1>2. doc[d].id \in IdsOf(doc) /\ PositionOf(doc, doc[d].id) = d
  BY <1>1, PositionIs
<1>3. ParentOf(doc, doc[d].id) = IdAt(doc, ParentHeading(doc, d))
  BY <1>2 DEF ParentOf, HeadingParent, IdAt
<1> QED BY <1>1, <1>2, <1>3, ParentInIs

\* After a heading that stays: outdent, and move.
LEMMA RegraftAfter ==
  ASSUME NEW doc, NEW kids, NEW i, NEW x, NEW level, NEW rest, NEW blk, NEW K,
         Lifted(doc, kids, i, x, level, rest, blk, K),
         NEW d \in 1..Len(rest), level = rest[d].level, NEW p, p = ParentIn(K, rest[d].id)
  PROVE  Regrafted(doc, Splice(rest, BlockEnd(rest, d), blk), Attached(K, p, Place(K, p, rest[d].id) + 1, x), x)
<1> DEFINE q == ParentHeading(rest, d)
           k == Place(K, p, rest[d].id)
           e == BlockEnd(rest, d)
<1>1. Outline(rest) /\ Partial(K, rest)
  BY TakenIs
<1>2. p = IdAt(rest, q) /\ Lists(K[p], rest, IdAt(rest, q)) /\ k \in 1..Len(K[p]) /\ K[p][k] = rest[d].id
  BY <1>1, SiblingsIs
<1> HIDE DEF q, k
<1>3. PlaceFor(rest, e, q) /\ rest[d].level = LevelAt(rest, q) + 1 /\ Splits(K[p], k + 1, rest, e)
  BY <1>1, <1>2, PlaceAfter DEF q
<1> HIDE DEF e
<1>4. level = LevelAt(rest, q) + 1 /\ Splits(K[IdAt(rest, q)], k + 1, rest, e)
  BY <1>2, <1>3
<1> DEFINE h == k + 1
<1>5. Splits(K[IdAt(rest, q)], h, rest, e)
  BY <1>4
<1> HIDE DEF h
<1>6. Regrafted(doc, Splice(rest, e, blk), Attached(K, IdAt(rest, q), h, x), x)
  BY <1>3, <1>4, <1>5, Regrafting
<1> QED BY <1>2, <1>6 DEF h, k, e

\* Before one: move.
LEMMA RegraftBefore ==
  ASSUME NEW doc, NEW kids, NEW i, NEW x, NEW level, NEW rest, NEW blk, NEW K,
         Lifted(doc, kids, i, x, level, rest, blk, K),
         NEW d \in 1..Len(rest), level = rest[d].level, NEW p, p = ParentIn(K, rest[d].id)
  PROVE  Regrafted(doc, Splice(rest, d, blk), Attached(K, p, Place(K, p, rest[d].id), x), x)
<1> DEFINE q == ParentHeading(rest, d)
           k == Place(K, p, rest[d].id)
<1>1. Outline(rest) /\ Partial(K, rest)
  BY TakenIs
<1>2. p = IdAt(rest, q) /\ Lists(K[p], rest, IdAt(rest, q)) /\ k \in 1..Len(K[p]) /\ K[p][k] = rest[d].id
  BY <1>1, SiblingsIs
<1> HIDE DEF q, k
<1>3. PlaceFor(rest, d, q) /\ rest[d].level = LevelAt(rest, q) + 1 /\ Splits(K[p], k, rest, d)
  BY <1>1, <1>2, PlaceBefore DEF q
<1>4. level = LevelAt(rest, q) + 1 /\ Splits(K[IdAt(rest, q)], k, rest, d)
  BY <1>2, <1>3
<1>5. Regrafted(doc, Splice(rest, d, blk), Attached(K, IdAt(rest, q), k, x), x)
  BY <1>3, <1>4, Regrafting
<1> QED BY <1>2, <1>5 DEF k

\* Inside one, as its last child: indent, and move.
LEMMA RegraftInside ==
  ASSUME NEW doc, NEW kids, NEW i, NEW x, NEW level, NEW rest, NEW blk, NEW K,
         Lifted(doc, kids, i, x, level, rest, blk, K),
         NEW d \in 1..Len(rest), level = rest[d].level + 1, NEW p, p = rest[d].id
  PROVE  Regrafted(doc, Splice(rest, BlockEnd(rest, d), blk), Attached(K, p, Len(K[p]) + 1, x), x)
<1> DEFINE k == Len(K[p]) + 1
           e == BlockEnd(rest, d)
<1>1. Outline(rest) /\ Partial(K, rest)
  BY TakenIs
<1>2. Lists(K[p], rest, rest[d].id)
  <2>1. rest \in Seq(Heading) /\ Distinct(rest)
    BY <1>1 DEF Outline
  <2>2. p \in IdsOf(rest)
    BY <2>1, PositionIs
  <2> QED BY <1>1, <2>2 DEF Partial
<1>3. /\ PlaceFor(rest, e, d) /\ LevelAt(rest, d) = rest[d].level /\ IdAt(rest, d) = p
      /\ Splits(K[p], k, rest, e)
  BY <1>1, <1>2, PlaceInside
<1> HIDE DEF e, k
<1>4. level = LevelAt(rest, d) + 1 /\ Splits(K[IdAt(rest, d)], k, rest, e)
  BY <1>3
<1>5. Regrafted(doc, Splice(rest, e, blk), Attached(K, IdAt(rest, d), k, x), x)
  BY <1>3, <1>4, Regrafting
<1> QED BY <1>3, <1>5 DEF k, e

(* The operations.                                                            *)

LEMMA InsertSiblingIs ==
  ASSUME NEW doc, NEW idx, Sound(doc, idx), NEW id \in IdsOf(idx), NEW x \in Sections_, x \notin IdsOf(doc),
         NEW title \in Titles,
         NEW i, i = Find(doc, Row(idx, id)), NEW kids, kids = Kids(idx), NEW p, p = ParentIn(kids, id)
  PROVE  Regrafted(doc,
                   Splice(doc, BlockEnd(doc, i), <<[id |-> x, level |-> doc[i].level, title |-> title]>>),
                   Attached(kids, p, Place(kids, p, id) + 1, x), x)
<1> DEFINE q == ParentHeading(doc, i)
           k == Place(kids, p, id)
           e == BlockEnd(doc, i)
           l == doc[i].level
           blk == <<[id |-> x, level |-> l, title |-> title]>>
<1>1. Outline(doc) /\ Tree(kids, doc) /\ i \in 1..Len(doc) /\ doc[i].id = id
  BY Start
<1>2. Partial(kids, doc)
  BY <1>1, TreeIsPartial
<1>3. p = IdAt(doc, q) /\ Lists(kids[p], doc, IdAt(doc, q)) /\ k \in 1..Len(kids[p]) /\ kids[p][k] = doc[i].id
  BY <1>1, <1>2, SiblingsIs
<1> HIDE DEF q, k
<1>4. PlaceFor(doc, e, q) /\ l = LevelAt(doc, q) + 1 /\ Splits(kids[p], k + 1, doc, e)
  BY <1>1, <1>3, PlaceAfter DEF q
<1>5. l \in 1..MaxHeadingLevel
  <2>1. doc[i] \in Heading
    BY <1>1 DEF Outline
  <2> QED BY <2>1 DEF Heading
<1> DEFINE h == k + 1
<1>6. Splits(kids[IdAt(doc, q)], h, doc, e)
  BY <1>3, <1>4
<1> HIDE DEF e, l, h
<1>7. Regrafted(doc, Splice(doc, e, blk), Attached(kids, IdAt(doc, q), h, x), x)
  BY <1>1, <1>4, <1>5, <1>6, Inserting
<1> QED BY <1>3, <1>7 DEF k, e, l, h

LEMMA InsertChildIs ==
  ASSUME NEW doc, NEW idx, Sound(doc, idx), NEW id \in IdsOf(idx), NEW x \in Sections_, x \notin IdsOf(doc),
         NEW title \in Titles,
         NEW i, i = Find(doc, Row(idx, id)), NEW kids, kids = Kids(idx), doc[i].level < MaxHeadingLevel
  PROVE  Regrafted(doc,
                   Splice(doc, BlockEnd(doc, i), <<[id |-> x, level |-> doc[i].level + 1, title |-> title]>>),
                   Attached(kids, id, Len(kids[id]) + 1, x), x)
<1> DEFINE k == Len(kids[id]) + 1
           e == BlockEnd(doc, i)
           l == doc[i].level + 1
           blk == <<[id |-> x, level |-> l, title |-> title]>>
<1>1. Outline(doc) /\ Tree(kids, doc) /\ i \in 1..Len(doc) /\ doc[i].id = id /\ id \in IdsOf(doc)
  BY Start
<1>2. Lists(kids[id], doc, doc[i].id)
  BY <1>1 DEF Tree
<1>3. /\ PlaceFor(doc, e, i) /\ LevelAt(doc, i) = doc[i].level /\ IdAt(doc, i) = id /\ Splits(kids[id], k, doc, e)
  BY <1>1, <1>2, PlaceInside
<1>4. l \in 1..MaxHeadingLevel
  <2>1. doc[i] \in Heading
    BY <1>1 DEF Outline
  <2> QED BY <2>1 DEF Heading, MaxHeadingLevel
<1>5. l = LevelAt(doc, i) + 1 /\ Splits(kids[IdAt(doc, i)], k, doc, e)
  BY <1>3
<1> HIDE DEF e, l, k
<1>6. Regrafted(doc, Splice(doc, e, blk), Attached(kids, IdAt(doc, i), k, x), x)
  BY <1>1, <1>3, <1>4, <1>5, Inserting
<1> QED BY <1>3, <1>6 DEF k, e, l

\* Headings before the cut stay where they are, and a subtree that ends where
\* the cut one begins still ends there.
LEMMA BeforeCut ==
  ASSUME NEW doc \in Seq(Heading), NEW i \in 1..Len(doc), NEW d \in 1..(i - 1)
  PROVE  /\ d \in 1..Len(CutBlock(doc, i)) /\ d \in 1..Len(doc) /\ CutBlock(doc, i)[d] = doc[d]
         /\ doc[d].level = doc[i].level /\ (\A j \in (d + 1)..(i - 1) : doc[j].level > doc[d].level)
              => BlockEnd(CutBlock(doc, i), d) = i
<1> DEFINE rest == CutBlock(doc, i)
           e == BlockEnd(doc, i)
           b == e - i
           n == Len(doc) - b
<1>1. /\ e \in (i + 1)..(Len(doc) + 1) /\ (e <= Len(doc) => doc[e].level <= doc[i].level)
      /\ Len(doc) \in Nat
  BY EndIs, HeadingFields DEF IsEndAt
<1>2. /\ rest \in Seq(Heading) /\ Len(rest) = n
      /\ \A k \in 1..n : rest[k] = IF k < i THEN doc[k] ELSE doc[k + b]
  BY CutIs
<1> HIDE DEF rest, e
<1>3. d \in 1..n /\ d < i /\ d \in 1..Len(doc)
  BY <1>1
<1>4. rest[d] = doc[d]
  BY <1>2, <1>3
<1>5. ASSUME doc[d].level = doc[i].level, \A j \in (d + 1)..(i - 1) : doc[j].level > doc[d].level
      PROVE  BlockEnd(rest, d) = i
  <2>1. i \in (d + 1)..(Len(rest) + 1)
    BY <1>1, <1>2
  <2>2. \A j \in (d + 1)..(i - 1) : rest[j].level > rest[d].level
    <3>1. \A j \in (d + 1)..(i - 1) : j \in 1..n /\ j < i
      BY <1>1
    <3> QED BY <1>2, <1>4, <1>5, <3>1
  <2>3. i <= Len(rest) => rest[i].level <= rest[d].level
    <3> SUFFICES ASSUME i <= Len(rest) PROVE rest[i].level <= rest[d].level
      OBVIOUS
    <3>1. i \in 1..n /\ ~(i < i) /\ i + b = e /\ e <= Len(doc)
      BY <1>1, <1>2
    <3>2. rest[i] = doc[e]
      BY <1>2, <3>1
    <3> QED BY <1>1, <1>4, <1>5, <3>1, <3>2
  <2>4. IsEndAt(rest, d, i)
    BY <2>1, <2>2, <2>3 DEF IsEndAt
  <2> QED BY <1>2, <1>3, <2>4, EndOnly
<1> QED BY <1>2, <1>3, <1>4, <1>5 DEF rest

\* The subtree of the parent is shorter by what is cut out of it.
LEMMA ParentCut ==
  ASSUME NEW doc \in Seq(Heading), NEW i \in 1..Len(doc), ParentHeading(doc, i) # 0
  PROVE  BlockEnd(CutBlock(doc, i), ParentHeading(doc, i))
           = BlockEnd(doc, ParentHeading(doc, i)) - (BlockEnd(doc, i) - i)
<1> DEFINE rest == CutBlock(doc, i)
           q == ParentHeading(doc, i)
           e == BlockEnd(doc, i)
           f == BlockEnd(doc, q)
           b == e - i
           n == Len(doc) - b
<1>1. /\ e \in (i + 1)..(Len(doc) + 1) /\ (e <= Len(doc) => doc[e].level <= doc[i].level)
      /\ \A j \in (i + 1)..(e - 1) : doc[j].level > doc[i].level
      /\ Len(doc) \in Nat /\ \A j \in 1..Len(doc) : doc[j].level \in Nat
  BY EndIs, HeadingFields DEF IsEndAt
<1>2. q \in 1..(i - 1) /\ doc[q].level < doc[i].level /\ \A j \in (q + 1)..(i - 1) : doc[j].level >= doc[i].level
  BY ParentIs DEF IsParentAt
<1>3. q \in 1..Len(doc)
  BY <1>1, <1>2
<1>4. /\ f \in (q + 1)..(Len(doc) + 1) /\ (f <= Len(doc) => doc[f].level <= doc[q].level)
      /\ \A j \in (q + 1)..(f - 1) : doc[j].level > doc[q].level
  BY <1>3, EndIs DEF IsEndAt
<1>5. /\ rest \in Seq(Heading) /\ Len(rest) = n
      /\ \A k \in 1..n : rest[k] = IF k < i THEN doc[k] ELSE doc[k + b]
  BY CutIs
<1> HIDE DEF rest, e, f, q
<1>6. f >= e
  <2> SUFFICES ASSUME f < e PROVE FALSE
    BY <1>1, <1>4
  <2>1. f \in 1..Len(doc) /\ f <= Len(doc)
    BY <1>1, <1>2, <1>4
  <2>2. doc[f].level <= doc[q].level /\ doc[f].level \in Nat /\ doc[q].level \in Nat /\ doc[i].level \in Nat
    BY <1>1, <1>3, <1>4, <2>1
  <2>3. CASE f < i
    <3>1. doc[f].level >= doc[i].level
      BY <1>2, <1>4, <2>3
    <3> QED BY <1>2, <2>2, <3>1
  <2>4. CASE f = i
    BY <1>2, <2>2, <2>4
  <2>5. CASE i < f
    <3>1. doc[f].level > doc[i].level
      BY <1>1, <2>1, <2>5
    <3> QED BY <1>2, <2>2, <3>1
  <2> QED BY <2>1, <2>3, <2>4, <2>5
<1>7. q \in 1..n /\ q < i /\ rest[q] = doc[q]
  <2>1. q \in 1..n /\ q < i
    BY <1>1, <1>2
  <2> QED BY <1>5, <2>1
<1>8. f - b \in (q + 1)..(n + 1)
  BY <1>1, <1>2, <1>4, <1>6
<1>9. ASSUME NEW j \in (q + 1)..((f - b) - 1) PROVE rest[j].level > rest[q].level
  <2>1. j \in 1..n
    BY <1>1, <1>2, <1>4, <1>6
  <2>2. CASE j < i
    <3>1. j \in (q + 1)..(f - 1) /\ rest[j] = doc[j]
      BY <1>1, <1>2, <1>4, <1>5, <1>6, <2>1, <2>2
    <3> QED BY <1>4, <1>7, <3>1
  <2>3. CASE ~(j < i)
    <3>1. j + b \in (q + 1)..(f - 1)
      BY <1>1, <1>2, <1>4, <2>1, <2>3
    <3>2. rest[j] = doc[j + b]
      BY <1>5, <2>1, <2>3
    <3> QED BY <1>4, <1>7, <3>1, <3>2
  <2> QED BY <2>2, <2>3
<1>10. ASSUME f - b <= n PROVE rest[f - b].level <= rest[q].level
  <2>1. f - b \in 1..n /\ ~(f - b < i) /\ (f - b) + b = f /\ f <= Len(doc)
    BY <1>1, <1>2, <1>4, <1>6, <1>8, <1>10
  <2>2. rest[f - b] = doc[f]
    BY <1>5, <2>1
  <2> QED BY <1>4, <1>7, <2>1, <2>2
<1> DEFINE g == f - b
<1>11. g \in (q + 1)..(Len(rest) + 1) /\ (g <= Len(rest) => rest[g].level <= rest[q].level)
       /\ \A j \in (q + 1)..(g - 1) : rest[j].level > rest[q].level
  BY <1>5, <1>8, <1>9, <1>10
<1> HIDE DEF g
<1>12. IsEndAt(rest, q, g)
  BY <1>11 DEF IsEndAt
<1>13. BlockEnd(rest, q) = g
  BY <1>5, <1>7, <1>12, EndOnly
<1> QED BY <1>13 DEF g, rest, q, e, f

LEMMA PreviousIs ==
  ASSUME NEW doc \in Seq(Heading), NEW i \in 1..Len(doc), PreviousHeading(doc, i) # 0
  PROVE  LET d == PreviousHeading(doc, i)
         IN /\ d \in 1..(i - 1) /\ doc[d].level = doc[i].level
            /\ \A j \in (d + 1)..(i - 1) : doc[j].level > doc[i].level
            /\ ParentHeading(doc, d) = ParentHeading(doc, i)
<1> DEFINE B == {0} \cup {j \in 1..(i - 1) : /\ doc[j].level = doc[i].level
                                             /\ \A k \in j..i : doc[k].level >= doc[i].level}
           d == PreviousHeading(doc, i)
           q == ParentHeading(doc, d)
<1>1. Len(doc) \in Nat /\ \A j \in 1..Len(doc) : doc[j].level \in Nat
  BY HeadingFields
<1>2. B \subseteq 0..Len(doc) /\ B # {} /\ d = Max(B)
  BY <1>1 DEF PreviousHeading
<1>3. d \in B /\ \A j \in B : d >= j
  <2> HIDE DEF B, d
  <2> QED BY <1>1, <1>2, MaxIsGreatest
<1>4. d \in 1..(i - 1) /\ doc[d].level = doc[i].level /\ \A k \in d..i : doc[k].level >= doc[i].level
  <2> HIDE DEF d
  <2> QED BY <1>3 DEF d
<1>5. \A j \in 1..(i - 1) : doc[j].level = doc[i].level /\ (\A k \in j..i : doc[k].level >= doc[i].level) => d >= j
  BY <1>3
<1> HIDE DEF B, d
<1>6. ASSUME NEW j \in (d + 1)..(i - 1) PROVE doc[j].level > doc[i].level
  <2>1. j \in 1..(i - 1) /\ j \in d..i /\ j \in 1..Len(doc) /\ ~(d >= j)
    BY <1>1, <1>4
  <2>2. \A k \in j..i : k \in d..i
    BY <1>4
  <2>3. doc[j].level # doc[i].level
    BY <1>4, <1>5, <2>1, <2>2
  <2> QED BY <1>1, <1>4, <2>1, <2>3
<1>7. d \in 1..Len(doc)
  BY <1>1, <1>4
<1>8. q \in 0..(d - 1) /\ (q # 0 => doc[q].level < doc[d].level) /\ \A j \in (q + 1)..(d - 1) : doc[j].level >= doc[d].level
  BY <1>7, ParentIs DEF IsParentAt
<1> HIDE DEF q
<1>9. IsParentAt(doc, i, q)
  <2>1. q \in 0..(i - 1) /\ (q # 0 => doc[q].level < doc[i].level)
    BY <1>4, <1>8
  <2>2. ASSUME NEW j \in (q + 1)..(i - 1) PROVE doc[j].level >= doc[i].level
    <3>1. CASE j < d
      BY <1>4, <1>8, <3>1
    <3>2. CASE ~(j < d)
      BY <1>4, <1>8, <3>2
    <3> QED BY <3>1, <3>2
  <2> QED BY <2>1, <2>2 DEF IsParentAt
<1>10. ParentHeading(doc, i) = q
  BY <1>9, ParentOnly
<1> QED BY <1>4, <1>6, <1>10 DEF d, q

LEMMA IndentIs ==
  ASSUME NEW doc, NEW idx, Sound(doc, idx), NEW id \in IdsOf(idx),
         NEW i, i = Find(doc, Row(idx, id)), NEW blk, blk = Shifted(Block(doc, i), 1), LegalLevels(blk),
         NEW kids, kids = Kids(idx), NEW p, p = ParentIn(kids, id),
         NEW to, to = kids[p][Place(kids, p, id) - 1],
         PreviousHeading(doc, i) # 0, Place(kids, p, id) > 1
  PROVE  Regrafted(doc, Splice(CutBlock(doc, i), i, blk),
                   Attached(Detached(kids, id), to, Len(kids[to]) + 1, id), id)
<1> DEFINE d == PreviousHeading(doc, i)
           q == ParentHeading(doc, i)
           s == kids[p]
           k == Place(kids, p, id)
           rest == CutBlock(doc, i)
           K == Detached(kids, id)
           level == doc[i].level + 1
<1>1. /\ Outline(doc) /\ doc \in Seq(Heading) /\ Distinct(doc) /\ Proper(doc)
      /\ Tree(kids, doc) /\ i \in 1..Len(doc) /\ doc[i].id = id /\ i = PositionOf(doc, id) /\ Partial(kids, doc)
  BY Start, TreeIsPartial DEF Outline
<1>2. Len(doc) \in Nat /\ \A j \in 1..Len(doc) : doc[j].level \in Nat
  BY <1>1, HeadingFields
<1>3. /\ d \in 1..(i - 1) /\ doc[d].level = doc[i].level /\ d \in 1..Len(doc)
      /\ \A j \in (d + 1)..(i - 1) : doc[j].level > doc[i].level
      /\ ParentHeading(doc, d) = q
  <2>1. /\ d \in 1..(i - 1) /\ doc[d].level = doc[i].level
        /\ \A j \in (d + 1)..(i - 1) : doc[j].level > doc[i].level
        /\ ParentHeading(doc, d) = q
    BY <1>1, PreviousIs
  <2> QED BY <1>1, <1>2, <2>1
<1>4. /\ p = IdAt(doc, q) /\ p = ParentOf(doc, id) /\ Lists(s, doc, IdAt(doc, q))
      /\ k \in 1..Len(s) /\ s[k] = id
  BY <1>1, SiblingsIs
<1>5. q \in 0..Len(doc) /\ q \in 0..(i - 1) /\ q < d
  <2>1. q \in 0..(i - 1)
    BY <1>1, ParentIs DEF IsParentAt
  <2>2. ParentHeading(doc, d) \in 0..(d - 1)
    BY <1>1, <1>3, ParentIs DEF IsParentAt
  <2> QED BY <1>1, <1>2, <1>3, <2>1, <2>2
<1> HIDE DEF d, q, s, k
<1>6. /\ Len(s) \in Nat
      /\ \A j \in 1..Len(s) : /\ PositionOf(doc, s[j]) \in 1..Len(doc) /\ doc[PositionOf(doc, s[j])].id = s[j]
                              /\ doc[PositionOf(doc, s[j])].level = LevelAt(doc, q) + 1
      /\ \E j \in 1..Len(s) : PositionOf(doc, s[j]) = d
      /\ \A j, h \in 1..Len(s) : j < h => PositionOf(doc, s[j]) < PositionOf(doc, s[h])
  <2>1. /\ Len(s) \in Nat /\ DOMAIN s = 1..Len(s)
        /\ \A j \in 1..Len(s) :
             LET c == PositionOf(doc, s[j])
             IN /\ c \in 1..Len(doc) /\ doc[c].id = s[j] /\ ParentHeading(doc, c) = q
                /\ c \in (q + 1)..(EndAt(doc, q) - 1) /\ doc[c].level = LevelAt(doc, q) + 1
        /\ \A c \in 1..Len(doc) : ParentHeading(doc, c) = q =>
             \E j \in 1..Len(s) : PositionOf(doc, s[j]) = c
        /\ \A j, h \in 1..Len(s) : j < h => PositionOf(doc, s[j]) < PositionOf(doc, s[h])
    <3>1. q \in 0..Len(doc) /\ Lists(s, doc, IdAt(doc, q))
      BY <1>4, <1>5
    <3> QED BY <1>1, <3>1, Listed, Zenon
  <2> QED BY <1>3, <2>1, Zenon
<1>7. doc[i].level = LevelAt(doc, q) + 1
  BY <1>1, Stepped DEF q
\* The previous sibling in the tree is the previous one in the outline.
<1>8. to = doc[d].id
  <2>1. PICK j \in 1..Len(s) : PositionOf(doc, s[j]) = d
    BY <1>6
  <2>2. PositionOf(doc, s[k]) = i /\ k > 1
    BY <1>1, <1>4 DEF k
  <2>3. ~(k < j) /\ k # j
    <3>1. k < j => i < d
      BY <1>4, <1>6, <2>1, <2>2
    <3> QED BY <1>1, <1>3, <2>1, <2>2, <3>1
  <2>4. k - 1 \in 1..Len(s) /\ k \in Int /\ j \in Int
    BY <1>4, <1>6, <2>2
  <2>5. ~(j < k - 1)
    <3> SUFFICES ASSUME j < k - 1 PROVE FALSE
      OBVIOUS
    <3> DEFINE c == PositionOf(doc, s[k - 1])
    <3>1. d < c /\ c < i /\ c \in 1..Len(doc) /\ doc[c].level = doc[i].level
      <4>1. k - 1 < k
        BY <2>4
      <4> QED BY <1>4, <1>6, <1>7, <2>1, <2>2, <2>4, <4>1
    <3> HIDE DEF c
    <3>2. c \in (d + 1)..(i - 1)
      BY <1>1, <1>3, <3>1
    <3>3. doc[c].level > doc[i].level
      BY <1>3, <3>2
    <3> QED BY <1>1, <1>2, <3>1, <3>3
  <2>6. j = k - 1
    BY <2>3, <2>4, <2>5
  <2> QED BY <1>6, <2>1, <2>6 DEF k, s
<1>9. d \in 1..Len(rest) /\ rest[d] = doc[d] /\ BlockEnd(rest, d) = i
  <2>1. \A j \in (d + 1)..(i - 1) : doc[j].level > doc[d].level
    BY <1>3
  <2> QED BY <1>1, <1>3, <2>1, BeforeCut
<1>10. Lifted(doc, kids, i, id, level, rest, blk, K)
  <2>1. level \in Int /\ level - doc[i].level = 1
    BY <1>1, <1>2
  <2> QED BY <1>1, <2>1 DEF Lifted
<1>11. level = rest[d].level + 1 /\ to = rest[d].id
  BY <1>3, <1>8, <1>9
<1> HIDE DEF level, rest, K
<1>12. Regrafted(doc, Splice(rest, BlockEnd(rest, d), blk), Attached(K, to, Len(K[to]) + 1, id), id)
  BY <1>9, <1>10, <1>11, RegraftInside
<1>13. K[to] = kids[to]
  <2>1. to \in IdsOf(doc) /\ PositionOf(doc, to) = d
    BY <1>1, <1>3, <1>8, PositionIs
  <2>2. PositionOf(doc, p) = q
    <3>1. \A r \in 0..Len(doc) : PositionOf(doc, IdAt(doc, r)) = r
      BY <1>1, TreeAt
    <3> QED BY <1>4, <1>5, <3>1
  <2>3. to # ParentOf(doc, id)
    BY <1>3, <1>4, <1>5, <2>1, <2>2
  <2>4. \A y \in {0} \cup IdsOf(doc) : y # ParentOf(doc, id) => K[y] = kids[y]
    BY <1>10, TakenIs
  <2> QED BY <2>1, <2>3, <2>4
<1> QED BY <1>9, <1>12, <1>13 DEF rest, K

LEMMA OutdentIs ==
  ASSUME NEW doc, NEW idx, Sound(doc, idx), NEW id \in IdsOf(idx),
         NEW i, i = Find(doc, Row(idx, id)), NEW blk, blk = Shifted(Block(doc, i), -1), LegalLevels(blk),
         NEW kids, kids = Kids(idx), NEW p, p = ParentIn(kids, id), NEW grand, grand = ParentIn(kids, p),
         ParentHeading(doc, i) # 0
  PROVE  Regrafted(doc, Splice(CutBlock(doc, i), BlockEnd(doc, ParentHeading(doc, i)) - Len(blk), blk),
                   Attached(Detached(kids, id), grand, Place(kids, grand, p) + 1, id), id)
<1> DEFINE q == ParentHeading(doc, i)
           rest == CutBlock(doc, i)
           K == Detached(kids, id)
           level == doc[i].level - 1
<1>1. /\ Outline(doc) /\ doc \in Seq(Heading) /\ Distinct(doc) /\ Proper(doc)
      /\ Tree(kids, doc) /\ i \in 1..Len(doc) /\ doc[i].id = id /\ i = PositionOf(doc, id) /\ Partial(kids, doc)
  BY Start, TreeIsPartial DEF Outline
<1>2. Len(doc) \in Nat /\ \A j \in 1..Len(doc) : doc[j].level \in Nat
  BY <1>1, HeadingFields
<1>3. q \in 1..(i - 1) /\ q \in 1..Len(doc)
  <2>1. q \in 0..(i - 1)
    BY <1>1, ParentIs DEF IsParentAt
  <2> QED BY <1>1, <1>2, <2>1
<1>4. doc[i].level = doc[q].level + 1
  BY <1>1, Stepped DEF LevelAt
<1>5. p = IdAt(doc, q) /\ p = ParentOf(doc, id) /\ p = doc[q].id
  BY <1>1, SiblingsIs DEF IdAt
<1>6. BlockEnd(rest, q) = BlockEnd(doc, q) - Len(blk)
  <2>1. BlockEnd(rest, q) = BlockEnd(doc, q) - (BlockEnd(doc, i) - i)
    BY <1>1, ParentCut
  <2>2. Len(blk) = BlockEnd(doc, i) - i
    <3>1. -1 \in Int
      OBVIOUS
    <3> DEFINE delta == -1
    <3> HIDE DEF delta
    <3>2. blk = Shifted(Block(doc, i), delta) /\ delta \in Int
      BY <3>1 DEF delta
    <3>3. /\ Len(Shifted(Block(doc, i), delta)) = Len(Block(doc, i))
          /\ Len(Block(doc, i)) = BlockEnd(doc, i) - i
      BY <1>1, <3>2, ShiftedIs
    <3> QED BY <3>2, <3>3
  <2> QED BY <2>1, <2>2
<1>7. q \in 1..Len(rest) /\ rest[q] = doc[q]
  BY <1>1, <1>3, BeforeCut
<1>8. Lifted(doc, kids, i, id, level, rest, blk, K)
  <2>1. level \in Int /\ level - doc[i].level = -1
    BY <1>1, <1>2
  <2> QED BY <1>1, <2>1 DEF Lifted
<1>9. level = rest[q].level /\ rest[q].id = p
  BY <1>2, <1>3, <1>4, <1>5, <1>7
<1> HIDE DEF level, rest, K, q
<1> DEFINE g == ParentIn(K, p)
<1>10. Regrafted(doc, Splice(rest, BlockEnd(rest, q), blk), Attached(K, g, Place(K, g, p) + 1, id), id)
  BY <1>7, <1>8, <1>9, RegraftAfter
<1>11. /\ Outline(rest) /\ Partial(K, rest) /\ Apart(doc, rest, Block(doc, i))
       /\ \A y \in {0} \cup IdsOf(doc) : y # ParentOf(doc, id) => K[y] = kids[y]
  BY <1>8, TakenIs
\* The grandparent's list is not the one the subtree was taken out of.
<1>12. grand = ParentOf(doc, p) /\ grand = IdAt(doc, ParentHeading(doc, q))
  BY <1>1, <1>3, <1>5, SiblingsIs
<1>13. g = ParentOf(rest, p)
  BY <1>7, <1>9, <1>11, SiblingsIs
<1>14. g = grand
  <2>1. p \in IdsOf(rest)
    BY <1>7, <1>9, <1>11, PositionIs DEF Outline
  <2> QED BY <1>11, <1>12, <1>13, <2>1 DEF Apart
<1>15. K[grand] = kids[grand]
  <2> DEFINE h == ParentHeading(doc, q)
  <2>1. h \in 0..(q - 1) /\ h \in 0..Len(doc)
    <3>1. h \in 0..(q - 1)
      BY <1>1, <1>3, ParentIs DEF IsParentAt
    <3> QED BY <1>2, <1>3, <3>1
  <2> HIDE DEF h
  <2>2. IdAt(doc, h) \in {0} \cup IdsOf(doc) /\ PositionOf(doc, IdAt(doc, h)) = h
    BY <1>1, <2>1, TreeAt
  <2>3. PositionOf(doc, p) = q
    BY <1>1, <1>3, <1>5, PositionIs
  <2>4. grand # p
    BY <1>3, <1>12, <2>1, <2>2, <2>3 DEF h
  <2> QED BY <1>5, <1>11, <1>12, <2>2, <2>4 DEF h
<1>16. Place(K, g, p) = Place(kids, grand, p)
  BY <1>14, <1>15 DEF Place
<1> HIDE DEF g
<1> QED BY <1>6, <1>10, <1>14, <1>16 DEF rest, K, q

LEMMA CutCount ==
  ASSUME NEW doc \in Seq(Heading), NEW i \in 1..Len(doc), NEW k \in 1..Len(CutBlock(doc, i)),
         \A h \in ToSet(Block(doc, i)) : ~Twin(h, CutBlock(doc, i)[k])
  PROVE  /\ CutBlock(doc, i)[k] = doc[IF k < i THEN k ELSE k + (BlockEnd(doc, i) - i)]
         /\ (IF k < i THEN k ELSE k + (BlockEnd(doc, i) - i)) \in 1..Len(doc)
         /\ Occurrence(CutBlock(doc, i), k) = Occurrence(doc, IF k < i THEN k ELSE k + (BlockEnd(doc, i) - i))
<1> DEFINE rest == CutBlock(doc, i)
           b == BlockEnd(doc, i) - i
           n1 == Len(rest)
           n2 == Len(doc)
           pos == [j \in 1..n1 |-> IF j < i THEN j ELSE j + b]
<1>1. n2 \in Nat /\ i \in Nat /\ i >= 1
  BY HeadingFields
<1>2. BlockEnd(doc, i) \in (i + 1)..(n2 + 1)
  BY EndIs DEF IsEndAt
<1>3. /\ n1 = n2 - b
      /\ \A j \in 1..n1 : rest[j] = IF j < i THEN doc[j] ELSE doc[j + b]
  BY CutIs
<1>4. /\ Len(Block(doc, i)) = b /\ DOMAIN Block(doc, i) = 1..b
      /\ \A j \in 1..b : Block(doc, i)[j] = doc[i + j - 1]
  <2>1. /\ Block(doc, i) \in Seq(Heading) /\ Len(Block(doc, i)) = b
        /\ \A j \in 1..b : Block(doc, i)[j] = doc[i + j - 1]
    BY BlockIs
  <2> QED BY <2>1
<1>5. \A h \in ToSet(Block(doc, i)) : ~Twin(h, rest[k])
  OBVIOUS
<1>6. k \in 1..n1
  OBVIOUS
<1> HIDE DEF rest
<1>7. b \in Nat /\ b >= 1 /\ i + b <= n2 + 1 /\ n1 \in Nat /\ BlockEnd(doc, i) = i + b
  <2> HIDE DEF n1, n2
  <2> DEFINE e == BlockEnd(doc, i)
  <2>1. e \in (i + 1)..(n2 + 1) /\ n1 = n2 - (e - i)
    BY <1>2, <1>3 DEF n2
  <2>2. i >= 1 /\ i <= n2
    BY <1>1 DEF n2
  <2> HIDE DEF e
  <2>3. e - i \in Nat /\ e - i >= 1 /\ i + (e - i) <= n2 + 1 /\ n1 \in Nat /\ e = i + (e - i)
    BY <1>1, <2>1, <2>2
  <2> QED BY <2>3 DEF e
<1> HIDE DEF b, n1, n2
<1>8. pos \in [1..n1 -> 1..n2]
  BY <1>1, <1>3, <1>7
<1>9. \A j \in 1..n1 : rest[j] = doc[pos[j]]
  BY <1>3
<1>10. \A j, h \in 1..n1 : j < h => pos[j] < pos[h]
  BY <1>1, <1>7
<1>11. \A m \in 1..n2 : Twin(doc[m], doc[pos[k]]) => \E j \in 1..n1 : pos[j] = m
  <2> SUFFICES ASSUME NEW m \in 1..n2, Twin(doc[m], doc[pos[k]]) PROVE \E j \in 1..n1 : pos[j] = m
    OBVIOUS
  <2>1. CASE m < i
    <3>1. m \in 1..n1 /\ pos[m] = m
      BY <1>1, <1>3, <1>7, <2>1
    <3> QED BY <3>1
  <2>2. CASE m >= i + b
    <3>1. m - b \in 1..n1 /\ pos[m - b] = m
      BY <1>1, <1>3, <1>7, <2>2
    <3> QED BY <3>1
  <2>3. CASE m >= i /\ m < i + b
    <3> DEFINE t == m - i + 1
    <3>1. t \in 1..b /\ i + t - 1 = m
      BY <1>1, <1>7, <2>3
    <3> HIDE DEF t
    <3>2. Block(doc, i)[t] = doc[m]
      BY <1>4, <3>1
    <3>3. doc[m] \in ToSet(Block(doc, i))
      BY <1>4, <3>1, <3>2 DEF ToSet
    <3>4. rest[k] = doc[pos[k]]
      BY <1>6, <1>9
    <3> QED BY <1>5, <3>3, <3>4
  <2>4. m < i \/ m >= i + b \/ (m >= i /\ m < i + b)
    BY <1>1, <1>7
  <2> QED BY <2>1, <2>2, <2>3, <2>4
<1>12. pos[k] = IF k < i THEN k ELSE k + b
  BY <1>6
<1> HIDE DEF pos
<1>13. Occurrence(rest, k) = Occurrence(doc, pos[k])
  <2>1. Carries(rest, n1, doc, n2, pos)
    <3>1. \A j \in 1..n1 : rest[j].level = doc[pos[j]].level /\ rest[j].title = doc[pos[j]].title
      BY <1>9
    <3>2. \A j, h \in 1..n1 : Twin(rest[j], rest[h]) /\ j < h => pos[j] < pos[h]
      BY <1>10
    <3> QED BY <1>1, <1>7, <1>8, <3>1, <3>2 DEF Carries
  <2>2. AllTwins(n1, doc, n2, pos, k)
    BY <1>11 DEF AllTwins
  <2> QED BY <1>6, <2>1, <2>2, SameCount
<1> QED
  <2>1. rest[k] = doc[pos[k]] /\ pos[k] \in 1..n2
    BY <1>6, <1>8, <1>9
  <2> QED BY <1>12, <1>13, <2>1 DEF rest, b, n2

\* The heading with the locator e is at d: without the subtree at i, to which
\* it does not belong, it is where its own id is, with the same locator unless
\* the subtree has a twin of it.
LEMMA Elsewhere ==
  ASSUME NEW doc \in Seq(Heading), Distinct(doc), NEW i \in 1..Len(doc), NEW d \in 1..Len(doc),
         d \notin i..(BlockEnd(doc, i) - 1), NEW r, r = PositionOf(CutBlock(doc, i), doc[d].id)
  PROVE  /\ r \in 1..Len(CutBlock(doc, i)) /\ CutBlock(doc, i)[r] = doc[d]
         /\ r < i => d = r
         /\ ~(r < i) => d = r + (BlockEnd(doc, i) - i)
         /\ (\A h \in ToSet(Block(doc, i)) : ~Twin(h, doc[d])) =>
              \A e : e.level = doc[d].level /\ e.title = doc[d].title /\ e.occ = Occurrence(doc, d)
                       => Find(CutBlock(doc, i), e) = r
<1> DEFINE rest == CutBlock(doc, i)
           blk == Block(doc, i)
           b == BlockEnd(doc, i) - i
           y == doc[d].id
<1>1. Len(doc) \in Nat
  BY HeadingFields
<1>2. BlockEnd(doc, i) \in (i + 1)..(Len(doc) + 1)
  BY EndIs DEF IsEndAt
<1>3. PositionOf(doc, y) = d /\ y \in IdsOf(doc)
  BY PositionIs
<1>4. /\ Distinct(rest) /\ Distinct(blk)
      /\ y \in IdsOf(rest) => /\ PositionOf(rest, y) < i => d = PositionOf(rest, y)
                              /\ ~(PositionOf(rest, y) < i) => d = PositionOf(rest, y) + b
      /\ y \in IdsOf(blk) => d = i + PositionOf(blk, y) - 1
      /\ y \in IdsOf(rest) \/ y \in IdsOf(blk)
  BY <1>3, CutPositions
<1>5. /\ rest \in Seq(Heading) /\ Len(rest) = Len(doc) - b
      /\ \A k \in 1..Len(rest) : rest[k] = IF k < i THEN doc[k] ELSE doc[k + b]
  BY CutIs
<1>6. blk \in Seq(Heading) /\ Len(blk) = b
  BY BlockIs
<1>7. y \notin IdsOf(blk)
  <2> SUFFICES ASSUME y \in IdsOf(blk) PROVE FALSE
    OBVIOUS
  <2>1. PositionOf(blk, y) \in 1..Len(blk)
    BY <1>4, <1>6, PositionIs
  <2> HIDE DEF blk, y
  <2>2. d = i + PositionOf(blk, y) - 1
    BY <1>4
  <2>3. d \in i..(BlockEnd(doc, i) - 1)
    BY <1>1, <1>2, <1>6, <2>1, <2>2
  <2> QED BY <2>3
<1>8. y \in IdsOf(rest)
  BY <1>4, <1>7
<1>9. r \in 1..Len(rest) /\ rest[r].id = y
  BY <1>4, <1>5, <1>8, PositionIs
<1>10. (r < i => d = r) /\ (~(r < i) => d = r + b)
  BY <1>4, <1>8
<1>11. rest[r] = doc[d]
  BY <1>5, <1>9, <1>10
<1>12. ASSUME \A h \in ToSet(blk) : ~Twin(h, doc[d]), NEW e, e.level = doc[d].level, e.title = doc[d].title,
              e.occ = Occurrence(doc, d)
       PROVE  Find(rest, e) = r
  <2>1. \A h \in ToSet(blk) : ~Twin(h, rest[r])
    BY <1>11, <1>12
  <2>2. Occurrence(rest, r) = Occurrence(doc, IF r < i THEN r ELSE r + b)
    BY <1>9, <2>1, CutCount
  <2>3. Occurrence(rest, r) = Occurrence(doc, d)
    BY <1>10, <2>2
  <2>4. e.level = rest[r].level /\ e.title = rest[r].title /\ e.occ = Occurrence(rest, r)
    BY <1>11, <1>12, <2>3
  <2> HIDE DEF rest
  <2> QED BY <1>5, <1>9, <2>4, FindIs
<1> QED BY <1>9, <1>10, <1>11, <1>12

\* What moveSubtree works out before it puts the subtree in its new place, the
\* drop heading being at r in the rest.
Moving(doc, idx, id, drop, placement, i, d, level, blk, rest, r, kids, p, at) ==
  /\ i = Find(doc, Row(idx, id)) /\ d = Find(doc, Row(idx, drop))
  /\ d \notin i..(BlockEnd(doc, i) - 1)
  /\ level = doc[d].level + (IF placement = "inside" THEN 1 ELSE 0)
  /\ blk = Shifted(Block(doc, i), level - doc[i].level) /\ LegalLevels(blk)
  /\ rest = CutBlock(doc, i) /\ r = PositionOf(rest, drop)
  /\ kids = Detached(Kids(idx), id)
  /\ p = (IF placement = "inside" THEN drop ELSE ParentIn(kids, drop))
  /\ at = (CASE placement = "inside" -> Len(kids[drop]) + 1
             [] placement = "before" -> Place(kids, p, drop)
             [] placement = "after"  -> Place(kids, p, drop) + 1)

LEMMA MoveIs ==
  ASSUME NEW doc, NEW idx, Sound(doc, idx), NEW id \in IdsOf(idx), NEW drop \in IdsOf(idx),
         NEW placement \in Placements, NEW i, NEW d, NEW level, NEW blk, NEW rest, NEW r, NEW kids, NEW p, NEW at,
         Moving(doc, idx, id, drop, placement, i, d, level, blk, rest, r, kids, p, at)
  PROVE  /\ Outline(doc) /\ i \in 1..Len(doc) /\ rest \in Seq(Heading) /\ blk \in Seq(Heading)
         /\ Regrafted(doc, Splice(rest, IF placement = "before" THEN r ELSE BlockEnd(rest, r), blk),
                      Attached(kids, p, at, id), id)
         /\ (\A h \in ToSet(Block(doc, i)) : ~Twin(h, doc[d])) => Find(rest, Row(idx, drop)) = r
<1> USE DEF Moving
<1>1. /\ Outline(doc) /\ doc \in Seq(Heading) /\ Distinct(doc) /\ Tree(Kids(idx), doc)
      /\ i \in 1..Len(doc) /\ doc[i].id = id
  BY Start DEF Outline
<1>2. d \in 1..Len(doc) /\ doc[d].id = drop /\ d = PositionOf(doc, drop)
  BY Start
<1>3. /\ r \in 1..Len(rest) /\ rest[r] = doc[d]
      /\ (\A h \in ToSet(Block(doc, i)) : ~Twin(h, doc[d])) =>
           \A e : e.level = doc[d].level /\ e.title = doc[d].title /\ e.occ = Occurrence(doc, d)
                    => Find(rest, e) = r
  BY <1>1, <1>2, Elsewhere
<1>4. doc[i].level \in Int /\ doc[d].level \in Int
  BY <1>1, <1>2, HeadingFields
<1>5. level \in Int
  BY <1>4
<1>6. rest \in Seq(Heading)
  BY <1>1, CutIs
<1>7. blk \in Seq(Heading)
  <2> DEFINE delta == level - doc[i].level
  <2>1. delta \in Int
    BY <1>4, <1>5
  <2> HIDE DEF delta
  <2>2. blk = Shifted(Block(doc, i), delta)
    BY DEF delta
  <2> QED BY <1>1, <2>1, <2>2, ShiftedIs DEF Subtree
<1>8. Lifted(doc, Kids(idx), i, id, level, rest, blk, kids)
  BY <1>1, <1>5 DEF Lifted
<1>9. rest[r].id = drop
  BY <1>2, <1>3
<1>10. Regrafted(doc, Splice(rest, IF placement = "before" THEN r ELSE BlockEnd(rest, r), blk),
                 Attached(kids, p, at, id), id)
  <2>1. CASE placement = "inside"
    <3>1. level = rest[r].level + 1 /\ p = rest[r].id /\ at = Len(kids[p]) + 1
      BY <1>3, <1>9, <2>1
    <3>2. Regrafted(doc, Splice(rest, BlockEnd(rest, r), blk), Attached(kids, p, Len(kids[p]) + 1, id), id)
      BY <1>3, <1>8, <3>1, RegraftInside
    <3> QED BY <2>1, <3>1, <3>2
  <2>2. CASE placement = "before"
    <3>1. level = rest[r].level /\ p = ParentIn(kids, rest[r].id) /\ at = Place(kids, p, rest[r].id)
      BY <1>3, <1>4, <1>9, <2>2
    <3>2. Regrafted(doc, Splice(rest, r, blk), Attached(kids, p, Place(kids, p, rest[r].id), id), id)
      BY <1>3, <1>8, <3>1, RegraftBefore
    <3> QED BY <2>2, <3>1, <3>2
  <2>3. CASE placement = "after"
    <3>1. level = rest[r].level /\ p = ParentIn(kids, rest[r].id) /\ at = Place(kids, p, rest[r].id) + 1
      BY <1>3, <1>4, <1>9, <2>3
    <3>2. Regrafted(doc, Splice(rest, BlockEnd(rest, r), blk),
                    Attached(kids, p, Place(kids, p, rest[r].id) + 1, id), id)
      BY <1>3, <1>8, <3>1, RegraftAfter
    <3> QED BY <2>3, <3>1, <3>2
  <2>4. placement = "inside" \/ placement = "before" \/ placement = "after"
    BY DEF Placements
  <2> QED BY <2>1, <2>2, <2>3, <2>4
<1>11. ASSUME \A h \in ToSet(Block(doc, i)) : ~Twin(h, doc[d])
       PROVE  Find(rest, Row(idx, drop)) = r
  <2> DEFINE e == Row(idx, drop)
  <2>1. RowDescribes(e, doc) /\ e.id = drop
    BY RowIs
  <2>2. e.level = doc[d].level /\ e.title = doc[d].title /\ e.occ = Occurrence(doc, d)
    BY <1>2, <2>1 DEF RowDescribes
  <2> HIDE DEF e
  <2>3. Find(rest, e) = r
    BY <1>3, <1>11, <2>2
  <2> QED BY <2>3 DEF e
<1> QED BY <1>1, <1>6, <1>7, <1>10, <1>11

NoTwins(blk, rest) == \A h \in ToSet(blk), g \in ToSet(rest) : ~Twin(h, g)

Members(s, x) == \E k \in 1..Len(s) : s[k] = x

LEMMA ToSetIs ==
  ASSUME NEW doc \in Seq(Heading)
  PROVE  \A k \in 1..Len(doc) : doc[k] \in ToSet(doc)
BY DEF ToSet

LEMMA DeleteIs ==
  ASSUME NEW doc, NEW idx, Sound(doc, idx), NEW id \in IdsOf(idx), NEW i, i = Find(doc, Row(idx, id)),
         NEW ids, ids = SubtreeIds(Kids(idx), id)
  PROVE  /\ i \in 1..Len(doc) /\ ids = IdsOf(Block(doc, i)) /\ IdsOf(idx) \ ids = IdsOf(CutBlock(doc, i))
         /\ NoTwins(Block(doc, i), CutBlock(doc, i)) => Sound(CutBlock(doc, i), RowsOf(idx, IdsOf(idx) \ ids))
<1> DEFINE rest == CutBlock(doc, i)
           blk == Block(doc, i)
           b == BlockEnd(doc, i) - i
           left == IdsOf(idx) \ ids
           new == RowsOf(idx, left)
<1>1. /\ Outline(doc) /\ doc \in Seq(Heading) /\ Distinct(doc) /\ Tree(Kids(idx), doc)
      /\ i \in 1..Len(doc) /\ doc[i].id = id /\ IdsOf(idx) = IdsOf(doc)
  BY Start DEF Outline
<1>2. ids = IdsOf(blk)
  BY <1>1, SubtreeIs
<1>3. Outline(rest) /\ Apart(doc, rest, blk)
  BY <1>1, CutShape
<1>4. left = IdsOf(rest)
  BY <1>1, <1>2, <1>3 DEF Apart
<1>5. ASSUME NoTwins(blk, rest)
      PROVE  Sound(rest, new)
  <2>1. /\ idx \in Seq(IndexEntry) /\ Distinct(idx)
        /\ \A k \in 1..Len(idx) : RowDescribes(idx[k], doc)
        /\ \A j, k \in 1..Len(idx) :
             idx[j].parent = idx[k].parent /\ PositionOf(doc, idx[j].id) < PositionOf(doc, idx[k].id)
               => idx[j].order < idx[k].order
        /\ \A j, k \in 1..Len(idx) :
             Twin(idx[j], idx[k]) /\ j < k => PositionOf(doc, idx[j].id) < PositionOf(doc, idx[k].id)
    BY DEF Sound
  <2> HIDE DEF left
  <2>2. PICK t : KeptRows(new, idx, left, t)
    BY <2>1, KeptIs
  <2> USE DEF KeptRows
  <2>3. /\ Len(new) \in Nat /\ DOMAIN new = 1..Len(new)
        /\ \A k \in 1..Len(new) : new[k].id \in IdsOf(new)
        /\ \A x \in IdsOf(new) : \E k \in 1..Len(new) : new[k].id = x
    BY <2>2, RowFields
  <2>4. /\ Len(idx) \in Nat /\ DOMAIN idx = 1..Len(idx)
        /\ \A x \in IdsOf(idx) : \E k \in 1..Len(idx) : idx[k].id = x
    BY <2>1, RowFields
  <2> HIDE DEF rest, new, blk
  <2>5. Distinct(new)
    <3> SUFFICES ASSUME NEW j \in 1..Len(new), NEW k \in 1..Len(new), new[j].id = new[k].id PROVE j = k
      BY <2>3 DEF Distinct
    <3>1. t[j] = t[k]
      BY <2>1, <2>2, <2>4 DEF Distinct
    <3>2. (j < k => t[j] < t[k]) /\ (k < j => t[k] < t[j]) /\ t[j] \in 1..Len(idx)
      BY <2>2
    <3>3. ~(j < k) /\ ~(k < j)
      BY <2>4, <3>1, <3>2
    <3> QED BY <2>3, <3>3
  <2>6. IdsOf(new) = IdsOf(rest)
    <3>1. ASSUME NEW x \in IdsOf(new) PROVE x \in IdsOf(rest)
      BY <1>4, <2>2, <2>3
    <3>2. ASSUME NEW x \in IdsOf(rest) PROVE x \in IdsOf(new)
      <4>1. x \in left /\ x \in IdsOf(idx)
        BY <1>4 DEF left
      <4>2. PICK j \in 1..Len(idx) : idx[j].id = x
        BY <2>4, <4>1
      <4>3. PICK k \in 1..Len(new) : t[k] = j
        BY <2>2, <4>1, <4>2
      <4> QED BY <2>2, <2>3, <4>2, <4>3
    <3> QED BY <3>1, <3>2
  <2>7. ASSUME NEW k \in 1..Len(new) PROVE RowDescribes(new[k], rest)
    <3> DEFINE y == new[k].id
               r == PositionOf(rest, y)
               d == PositionOf(doc, y)
    <3>1. y \in IdsOf(rest) /\ new[k] = idx[t[k]] /\ t[k] \in 1..Len(idx)
      BY <1>4, <2>2
    <3>2. r \in 1..Len(rest) /\ rest[r].id = y
      BY <1>3, <3>1, PositionIs DEF Outline
    <3>3. rest \in Seq(Heading)
      BY <1>3 DEF Outline
    <3>4. \A h \in ToSet(blk) : ~Twin(h, rest[r])
      BY <1>5, <3>2, <3>3, ToSetIs DEF NoTwins
    <3>5. /\ rest[r] = doc[IF r < i THEN r ELSE r + b]
          /\ Occurrence(rest, r) = Occurrence(doc, IF r < i THEN r ELSE r + b)
      BY <1>1, <3>2, <3>4, CutCount DEF rest, blk
    <3>6. d = IF r < i THEN r ELSE r + b
      BY <1>1, <3>1, CutPositions DEF rest, blk
    <3>7. RowDescribes(new[k], doc)
      BY <2>1, <3>1
    <3>8. ParentOf(rest, y) = ParentOf(doc, y)
      BY <1>3, <3>1 DEF Apart
    <3>9. r # 0
      BY <3>2, <3>3, HeadingFields
    <3> HIDE DEF r, d, y, b
    <3>10. rest[r] = doc[d] /\ Occurrence(rest, r) = Occurrence(doc, d)
      BY <3>5, <3>6
    <3> QED BY <3>7, <3>8, <3>9, <3>10 DEF RowDescribes, r, d, y
  <2>8. \A j, k \in 1..Len(new) : PositionOf(rest, new[j].id) < PositionOf(rest, new[k].id)
                                    <=> PositionOf(doc, new[j].id) < PositionOf(doc, new[k].id)
    BY <1>3, <2>3, <2>6 DEF Apart
  <2>9. \A j, k \in 1..Len(new) :
          new[j].parent = new[k].parent /\ PositionOf(rest, new[j].id) < PositionOf(rest, new[k].id)
            => new[j].order < new[k].order
    <3> SUFFICES ASSUME NEW j \in 1..Len(new), NEW k \in 1..Len(new), new[j].parent = new[k].parent,
                        PositionOf(rest, new[j].id) < PositionOf(rest, new[k].id)
                 PROVE  new[j].order < new[k].order
      OBVIOUS
    <3>1. PositionOf(doc, new[j].id) < PositionOf(doc, new[k].id)
      BY <2>8
    <3>2. t[j] \in 1..Len(idx) /\ t[k] \in 1..Len(idx) /\ new[j] = idx[t[j]] /\ new[k] = idx[t[k]]
      BY <2>2
    <3> QED BY <2>1, <3>1, <3>2
  <2>10. \A j, k \in 1..Len(new) :
           Twin(new[j], new[k]) /\ j < k => PositionOf(rest, new[j].id) < PositionOf(rest, new[k].id)
    <3> SUFFICES ASSUME NEW j \in 1..Len(new), NEW k \in 1..Len(new), Twin(new[j], new[k]), j < k
                 PROVE  PositionOf(rest, new[j].id) < PositionOf(rest, new[k].id)
      OBVIOUS
    <3>1. /\ t[j] \in 1..Len(idx) /\ t[k] \in 1..Len(idx) /\ new[j] = idx[t[j]] /\ new[k] = idx[t[k]]
          /\ t[j] < t[k]
      BY <2>2
    <3>2. PositionOf(doc, new[j].id) < PositionOf(doc, new[k].id)
      BY <2>1, <3>1
    <3> QED BY <2>8, <3>2
  <2> QED BY <1>3, <2>2, <2>5, <2>6, <2>7, <2>9, <2>10 DEF Sound
<1> QED BY <1>1, <1>2, <1>4, <1>5

LEMMA SpliceBack ==
  ASSUME NEW doc \in Seq(Heading), NEW i \in 1..Len(doc)
  PROVE  /\ i \in 1..(Len(CutBlock(doc, i)) + 1)
         /\ Splice(CutBlock(doc, i), i, Block(doc, i)) = doc
<1> DEFINE rest == CutBlock(doc, i)
           blk == Block(doc, i)
           b == BlockEnd(doc, i) - i
           new == Splice(rest, i, blk)
<1>1. Len(doc) \in Nat /\ i \in Nat /\ i >= 1
  BY HeadingFields
<1>2. BlockEnd(doc, i) \in (i + 1)..(Len(doc) + 1)
  BY EndIs DEF IsEndAt
<1>3. b \in Nat /\ b >= 1 /\ i + b <= Len(doc) + 1
  <2> DEFINE e == BlockEnd(doc, i)
  <2>1. e \in (i + 1)..(Len(doc) + 1)
    BY <1>2
  <2> HIDE DEF e
  <2>2. e - i \in Nat /\ e - i >= 1 /\ i + (e - i) <= Len(doc) + 1
    BY <1>1, <2>1
  <2> QED BY <2>2 DEF e
<1>4. /\ rest \in Seq(Heading) /\ Len(rest) = Len(doc) - b
      /\ \A k \in 1..Len(rest) : rest[k] = IF k < i THEN doc[k] ELSE doc[k + b]
  BY CutIs
<1>5. /\ blk \in Seq(Heading) /\ Len(blk) = b /\ \A k \in 1..b : blk[k] = doc[i + k - 1]
  BY BlockIs
<1> HIDE DEF rest, blk, b
<1>6. i \in 1..(Len(rest) + 1)
  BY <1>1, <1>3, <1>4
<1>7. /\ new \in Seq(Heading) /\ Len(new) = Len(rest) + Len(blk)
      /\ \A k \in 1..(Len(rest) + Len(blk)) :
           new[k] = IF k < i THEN rest[k]
                    ELSE IF k < i + Len(blk) THEN blk[k - i + 1] ELSE rest[k - Len(blk)]
  BY <1>4, <1>5, <1>6, SpliceIs
<1> HIDE DEF new
<1>8. Len(new) = Len(doc)
  BY <1>1, <1>3, <1>4, <1>5, <1>7
<1>9. ASSUME NEW k \in 1..Len(doc) PROVE new[k] = doc[k]
  <2>1. new[k] = IF k < i THEN rest[k] ELSE IF k < i + b THEN blk[k - i + 1] ELSE rest[k - b]
    BY <1>5, <1>7, <1>8
  <2>2. CASE k < i
    <3>1. k \in 1..Len(rest)
      BY <1>1, <1>3, <1>4, <2>2
    <3> QED BY <1>4, <2>1, <2>2, <3>1
  <2>3. CASE k >= i /\ k < i + b
    <3> DEFINE m == k - i + 1
    <3>1. m \in 1..b /\ i + m - 1 = k
      BY <1>1, <1>3, <2>3
    <3>2. new[k] = blk[m]
      BY <1>1, <1>3, <2>1, <2>3
    <3> HIDE DEF m
    <3> QED BY <1>5, <3>1, <3>2
  <2>4. CASE k >= i + b
    <3> DEFINE m == k - b
    <3>1. m \in 1..Len(rest) /\ ~(m < i) /\ m + b = k
      BY <1>1, <1>3, <1>4, <2>4
    <3>2. new[k] = rest[m]
      BY <1>1, <1>3, <2>1, <2>4
    <3> HIDE DEF m
    <3> QED BY <1>4, <3>1, <3>2
  <2>5. k < i \/ (k >= i /\ k < i + b) \/ k >= i + b
    BY <1>1, <1>3
  <2> QED BY <2>2, <2>3, <2>4, <2>5
<1>10. new = doc
  BY <1>7, <1>8, <1>9, SameEntries
<1> QED BY <1>6, <1>10 DEF rest, blk, new

\* The rows put back describe the outline as it was, and give the same tree.
LEMMA BackIs ==
  ASSUME NEW doc, NEW idx, Sound(doc, idx), NEW i \in 1..Len(doc), NoTwins(Block(doc, i), CutBlock(doc, i)),
         NEW ids, ids = IdsOf(Block(doc, i)), IdsOf(idx) \ ids = IdsOf(CutBlock(doc, i)),
         NEW new, new = RowsOf(idx, IdsOf(idx) \ ids), NEW old, old = RowsOf(idx, ids)
  PROVE  Sound(doc, new \o old) /\ Kids(new \o old) = Kids(idx)
<1> DEFINE rest == CutBlock(doc, i)
           blk == Block(doc, i)
           left == IdsOf(idx) \ ids
           all == new \o old
<1>1. /\ idx \in Seq(IndexEntry) /\ Distinct(idx) /\ Outline(doc) /\ doc \in Seq(Heading) /\ Distinct(doc)
      /\ \A k \in 1..Len(idx) : RowDescribes(idx[k], doc)
      /\ \A j, k \in 1..Len(idx) :
           idx[j].parent = idx[k].parent /\ PositionOf(doc, idx[j].id) < PositionOf(doc, idx[k].id)
             => idx[j].order < idx[k].order
      /\ \A j, k \in 1..Len(idx) :
           Twin(idx[j], idx[k]) /\ j < k => PositionOf(doc, idx[j].id) < PositionOf(doc, idx[k].id)
      /\ IdsOf(idx) = IdsOf(doc)
  BY DEF Sound, Outline
<1>2. /\ Len(idx) \in Nat /\ DOMAIN idx = 1..Len(idx)
      /\ \A k \in 1..Len(idx) : idx[k].id \in IdsOf(idx)
      /\ \A x \in IdsOf(idx) : \E k \in 1..Len(idx) : idx[k].id = x
  BY <1>1, RowFields
<1>3. /\ left = IdsOf(rest) /\ ids = IdsOf(blk) /\ Outline(rest) /\ Apart(doc, rest, blk)
      /\ rest \in Seq(Heading) /\ Distinct(rest) /\ NoTwins(blk, rest)
  BY <1>1, CutShape DEF Outline
<1>4. /\ blk \in Seq(Heading) /\ Distinct(blk)
      /\ \A x \in IdsOf(rest) :
           /\ PositionOf(rest, x) < i => PositionOf(doc, x) = PositionOf(rest, x)
           /\ ~(PositionOf(rest, x) < i) => PositionOf(doc, x) = PositionOf(rest, x) + (BlockEnd(doc, i) - i)
      /\ \A x \in IdsOf(blk) : PositionOf(doc, x) = i + PositionOf(blk, x) - 1
  <2>1. Distinct(blk)
    BY <1>1, CutPositions
  <2>2. blk \in Seq(Heading)
    BY <1>1, BlockIs
  <2>3. /\ \A x \in IdsOf(rest) :
             /\ PositionOf(rest, x) < i => PositionOf(doc, x) = PositionOf(rest, x)
             /\ ~(PositionOf(rest, x) < i) => PositionOf(doc, x) = PositionOf(rest, x) + (BlockEnd(doc, i) - i)
        /\ \A x \in IdsOf(blk) : PositionOf(doc, x) = i + PositionOf(blk, x) - 1
    BY <1>1, CutPositions
  <2> QED BY <2>1, <2>2, <2>3
<1>5. \A x \in IdsOf(idx) : (x \in left <=> x \notin ids)
  OBVIOUS
<1>6. new = RowsOf(idx, left)
  OBVIOUS
<1> HIDE DEF left, rest, blk
<1>7. PICK t : KeptRows(new, idx, left, t)
  BY <1>1, <1>6, KeptIs
<1>8. PICK w : KeptRows(old, idx, ids, w)
  BY <1>1, KeptIs
<1> USE DEF KeptRows
<1> DEFINE n == Len(new)
           m == Len(old)
           u == [k \in 1..(n + m) |-> IF k <= n THEN t[k] ELSE w[k - n]]
<1>9. /\ n \in Nat /\ m \in Nat
      /\ \A j, k \in 1..n : j < k => t[j] < t[k]
      /\ \A k \in 1..n : t[k] \in 1..Len(idx)
  <2>1. n \in Nat /\ m \in Nat
    BY <1>7, <1>8, RowFields
  <2>2. \A j, k \in 1..n : j < k => t[j] < t[k]
    BY <1>7
  <2>3. \A k \in 1..n : t[k] \in 1..Len(idx)
    BY <1>7
  <2> QED BY <2>1, <2>2, <2>3
<1>10. /\ all \in Seq(IndexEntry) /\ Len(all) = n + m
       /\ \A k \in 1..(n + m) : all[k] = IF k <= n THEN new[k] ELSE old[k - n]
  BY <1>7, <1>8, Joined
<1> HIDE DEF n, m
<1>11. ASSUME NEW k \in 1..(n + m)
       PROVE  /\ u[k] \in 1..Len(idx) /\ all[k] = idx[u[k]]
              /\ k <= n => k \in 1..n /\ u[k] = t[k] /\ idx[u[k]].id \in left
              /\ ~(k <= n) => k - n \in 1..m /\ u[k] = w[k - n] /\ idx[u[k]].id \in ids
  <2>1. CASE k <= n
    <3>1. k \in 1..n /\ u[k] = t[k]
      BY <1>9, <2>1
    <3>2. t[k] \in 1..Len(idx) /\ new[k] = idx[t[k]] /\ idx[t[k]].id \in left
      BY <1>7, <3>1 DEF n
    <3> QED BY <1>10, <2>1, <3>1, <3>2
  <2>2. CASE ~(k <= n)
    <3> DEFINE h == k - n
    <3>1. h \in 1..m /\ u[k] = w[h]
      BY <1>9, <2>2
    <3>2. all[k] = old[h]
      BY <1>10, <2>2
    <3> HIDE DEF h
    <3>3. w[h] \in 1..Len(idx) /\ old[h] = idx[w[h]] /\ idx[w[h]].id \in ids
      BY <1>8, <3>1 DEF m
    <3>4. /\ u[k] \in 1..Len(idx) /\ all[k] = idx[u[k]]
          /\ h \in 1..m /\ u[k] = w[h] /\ idx[u[k]].id \in ids
      BY <3>1, <3>2, <3>3
    <3> QED BY <2>2, <3>4 DEF h
  <2> QED BY <2>1, <2>2
<1>12. \A j \in 1..Len(idx) : \E k \in 1..(n + m) : u[k] = j
  <2> SUFFICES ASSUME NEW j \in 1..Len(idx) PROVE \E k \in 1..(n + m) : u[k] = j
    OBVIOUS
  <2>1. CASE idx[j].id \in left
    <3>1. PICK k \in 1..n : t[k] = j
      BY <1>7, <2>1 DEF n
    <3>2. k \in 1..(n + m) /\ u[k] = j
      BY <1>9, <3>1
    <3> QED BY <3>2
  <2>2. CASE idx[j].id \in ids
    <3>1. PICK k \in 1..m : w[k] = j
      BY <1>8, <2>2 DEF m
    <3>2. k + n \in 1..(n + m) /\ u[k + n] = j
      <4>1. k + n \in 1..(n + m) /\ ~(k + n <= n) /\ (k + n) - n = k
        BY <1>9, <3>1
      <4> QED BY <3>1, <4>1
    <3> QED BY <3>2
  <2>3. idx[j].id \in left \/ idx[j].id \in ids
    BY <1>2, <1>5
  <2> QED BY <2>1, <2>2, <2>3
\* No row is put back twice, and twins keep their order: they are on one side.
<1>13. \A j, k \in 1..(n + m) : u[j] = u[k] => j = k
  <2> SUFFICES ASSUME NEW j \in 1..(n + m), NEW k \in 1..(n + m), u[j] = u[k] PROVE j = k
    OBVIOUS
  <2> HIDE DEF u
  <2>1. CASE j <= n /\ k <= n
    <3>1. j \in 1..n /\ k \in 1..n /\ t[j] = t[k]
      BY <1>11, <2>1
    <3>2. t[j] \in 1..Len(idx)
      BY <1>7, <3>1 DEF n
    <3>3. (j < k => t[j] < t[k]) /\ (k < j => t[k] < t[j]) /\ t[j] \in Int
      BY <1>2, <1>9, <3>1, <3>2
    <3>4. ~(j < k) /\ ~(k < j)
      BY <3>1, <3>3
    <3> QED BY <1>9, <3>1, <3>4
  <2>2. CASE ~(j <= n) /\ ~(k <= n)
    <3> DEFINE g == j - n
               h == k - n
    <3>1. g \in 1..m /\ h \in 1..m /\ w[g] = w[h]
      BY <1>11, <2>2
    <3> HIDE DEF g, h
    <3>2. w[g] \in 1..Len(idx)
      BY <1>8, <3>1 DEF m
    <3>3. ~(g < h) /\ ~(h < g)
      BY <1>2, <1>8, <3>1, <3>2 DEF m
    <3>4. g = h
      BY <1>9, <3>1, <3>3
    <3> QED BY <1>9, <3>4 DEF g, h
  <2>3. CASE j <= n /\ ~(k <= n)
    BY <1>2, <1>5, <1>11, <2>3
  <2>4. CASE ~(j <= n) /\ k <= n
    BY <1>2, <1>5, <1>11, <2>4
  <2> QED BY <2>1, <2>2, <2>3, <2>4
<1>14. ASSUME NEW j \in 1..(n + m), NEW k \in 1..(n + m), j < k, Twin(all[j], all[k])
       PROVE  u[j] < u[k]
  <2> HIDE DEF u
  <2>1. CASE j <= n /\ k <= n
    <3>1. j \in 1..n /\ k \in 1..n /\ t[j] < t[k]
      BY <1>7, <1>11, <1>14, <2>1 DEF n
    <3> QED BY <1>11, <2>1, <3>1
  <2>2. CASE ~(j <= n) /\ ~(k <= n)
    <3> DEFINE g == j - n
               h == k - n
    <3>1. g \in 1..m /\ h \in 1..m /\ u[j] = w[g] /\ u[k] = w[h]
      BY <1>11, <2>2
    <3>2. g < h
      BY <1>9, <1>14
    <3> HIDE DEF g, h
    <3> QED BY <1>8, <3>1, <3>2 DEF m
  <2>3. CASE j <= n /\ ~(k <= n)
    <3> DEFINE x == all[j].id
               y == all[k].id
               px == PositionOf(doc, x)
               py == PositionOf(doc, y)
    <3>1. /\ x \in left /\ y \in ids /\ RowDescribes(all[j], doc) /\ RowDescribes(all[k], doc)
      BY <1>1, <1>11, <2>3
    <3>2. Twin(doc[px], doc[py])
      BY <1>14, <3>1 DEF RowDescribes, Twin
    <3>3. /\ PositionOf(rest, x) \in 1..Len(rest) /\ rest[PositionOf(rest, x)] = doc[px]
      <4>1. PositionOf(rest, x) \in 1..Len(rest)
        BY <1>3, <3>1, PositionIs
      <4>2. /\ PositionOf(rest, x) < i => px = PositionOf(rest, x)
            /\ ~(PositionOf(rest, x) < i) => px = PositionOf(rest, x) + (BlockEnd(doc, i) - i)
        BY <1>3, <1>4, <3>1
      <4>3. \A k1 \in 1..Len(rest) : rest[k1] = IF k1 < i THEN doc[k1] ELSE doc[k1 + (BlockEnd(doc, i) - i)]
        BY <1>1, CutIs DEF rest
      <4> QED BY <4>1, <4>2, <4>3
    <3>4. /\ PositionOf(blk, y) \in 1..Len(blk) /\ blk[PositionOf(blk, y)] = doc[py]
      <4>1. PositionOf(blk, y) \in 1..Len(blk)
        BY <1>3, <1>4, <3>1, PositionIs
      <4>2. py = i + PositionOf(blk, y) - 1
        BY <1>3, <1>4, <3>1
      <4>3. \A k1 \in 1..Len(blk) : blk[k1] = doc[i + k1 - 1]
        BY <1>1, BlockIs DEF blk
      <4> QED BY <4>1, <4>2, <4>3
    <3>5. doc[px] \in ToSet(rest) /\ doc[py] \in ToSet(blk)
      BY <1>3, <1>4, <3>3, <3>4, ToSetIs
    <3>6. Twin(doc[py], doc[px])
      BY <3>2 DEF Twin
    <3> QED BY <1>3, <3>5, <3>6 DEF NoTwins
  <2>4. ~(~(j <= n) /\ k <= n)
    BY <1>9, <1>14
  <2> QED BY <2>1, <2>2, <2>3, <2>4
<1> HIDE DEF u, all
<1>15. DOMAIN all = 1..(n + m) /\ Len(all) \in Nat
  BY <1>9, <1>10
<1>16. Distinct(all)
  <2> SUFFICES ASSUME NEW j \in 1..(n + m), NEW k \in 1..(n + m), all[j].id = all[k].id PROVE j = k
    BY <1>15 DEF Distinct
  <2>1. u[j] = u[k]
    BY <1>1, <1>2, <1>11 DEF Distinct
  <2> QED BY <1>13, <2>1
<1>17. IdsOf(all) = IdsOf(doc)
  <2>1. ASSUME NEW x \in IdsOf(all) PROVE x \in IdsOf(idx)
    <3>1. PICK k \in 1..(n + m) : all[k].id = x
      BY <1>10, RowFields
    <3> QED BY <1>2, <1>11, <3>1
  <2>2. ASSUME NEW x \in IdsOf(idx) PROVE x \in IdsOf(all)
    <3>1. PICK j \in 1..Len(idx) : idx[j].id = x
      BY <1>2
    <3>2. PICK k \in 1..(n + m) : u[k] = j
      BY <1>12
    <3>3. all[k].id \in IdsOf(all)
      BY <1>10, RowFields
    <3> QED BY <1>11, <3>1, <3>2, <3>3
  <2> QED BY <1>1, <2>1, <2>2
<1>18. \A k \in 1..(n + m) : RowDescribes(all[k], doc)
  BY <1>1, <1>11
<1>19. \A j, k \in 1..(n + m) :
         all[j].parent = all[k].parent /\ PositionOf(doc, all[j].id) < PositionOf(doc, all[k].id)
           => all[j].order < all[k].order
  <2> SUFFICES ASSUME NEW j \in 1..(n + m), NEW k \in 1..(n + m), all[j].parent = all[k].parent,
                      PositionOf(doc, all[j].id) < PositionOf(doc, all[k].id)
               PROVE  all[j].order < all[k].order
    OBVIOUS
  <2>1. u[j] \in 1..Len(idx) /\ u[k] \in 1..Len(idx) /\ all[j] = idx[u[j]] /\ all[k] = idx[u[k]]
    BY <1>11
  <2> QED BY <1>1, <2>1
<1>20. \A j, k \in 1..(n + m) :
         Twin(all[j], all[k]) /\ j < k => PositionOf(doc, all[j].id) < PositionOf(doc, all[k].id)
  <2> SUFFICES ASSUME NEW j \in 1..(n + m), NEW k \in 1..(n + m), Twin(all[j], all[k]), j < k
               PROVE  PositionOf(doc, all[j].id) < PositionOf(doc, all[k].id)
    OBVIOUS
  <2>1. u[j] \in 1..Len(idx) /\ u[k] \in 1..Len(idx) /\ all[j] = idx[u[j]] /\ all[k] = idx[u[k]]
    BY <1>11
  <2>2. u[j] < u[k]
    BY <1>14
  <2> QED BY <1>1, <2>1, <2>2
<1>21. Sound(doc, all)
  BY <1>1, <1>10, <1>16, <1>17, <1>18, <1>19, <1>20 DEF Sound
<1>22. Kids(all) = Kids(idx)
  <2>1. /\ Kids(all) = [x \in {0} \cup IdsOf(doc) |-> Kids(all)[x]]
        /\ Kids(idx) = [x \in {0} \cup IdsOf(doc) |-> Kids(idx)[x]]
        /\ Tree(Kids(all), doc) /\ Tree(Kids(idx), doc)
    BY <1>21, KidsIs
  <2>2. ASSUME NEW x \in {0} \cup IdsOf(doc) PROVE Kids(all)[x] = Kids(idx)[x]
    <3>1. Lists(Kids(all)[x], doc, x) /\ Lists(Kids(idx)[x], doc, x)
      BY <2>1 DEF Tree
    <3> QED BY <1>1, <3>1, OneList
  <2> QED BY <2>1, <2>2, Zenon
<1> QED BY <1>21, <1>22 DEF all

\* What requestSoftDelete(id) leaves of an outline and its index, and keeps to
\* undo it, when no twins are torn apart.
Deleted(u, doc, idx, id, rest, left) ==
  LET i    == Find(doc, Row(idx, id))
      kids == Kids(idx)
      ids  == SubtreeIds(kids, id)
      p    == ParentIn(kids, id)
      k    == Place(kids, p, id)
  IN /\ Sound(doc, idx) /\ id \in IdsOf(idx)
     /\ rest = CutBlock(doc, i) /\ left = RowsOf(idx, IdsOf(idx) \ ids)
     /\ NoTwins(Block(doc, i), rest)
     /\ u.block = Block(doc, i) /\ u.parent = p /\ u.entries = RowsOf(idx, ids)
     /\ u.prev = (IF k - 1 = 0 THEN <<>> ELSE <<Row(idx, kids[p][k - 1])>>)
     /\ u.doc = doc /\ u.kids = kids

LEMMA RestoreAtIs ==
  ASSUME NEW doc, NEW idx, NEW id, Deleted(undoable, doc, idx, id, outline, index)
  PROVE  RestoreAt = Find(doc, Row(idx, id))
<1> DEFINE i == Find(doc, Row(idx, id))
           kids == Kids(idx)
           p == ParentIn(kids, id)
           k == Place(kids, p, id)
           q == ParentHeading(doc, i)
           s == kids[p]
           blk == Block(doc, i)
           before == IF undoable.prev = <<>> THEN 0 ELSE Find(outline, undoable.prev[1])
           parent == IF undoable.parent \in IdsOf(index) THEN Find(outline, Row(index, undoable.parent)) ELSE 0
<1>1. /\ Sound(doc, idx) /\ id \in IdsOf(idx) /\ outline = CutBlock(doc, i) /\ NoTwins(blk, outline)
      /\ undoable.parent = p
      /\ undoable.prev = (IF k - 1 = 0 THEN <<>> ELSE <<Row(idx, s[k - 1])>>)
      /\ index = RowsOf(idx, IdsOf(idx) \ SubtreeIds(kids, id))
  BY DEF Deleted
<1>2. /\ Outline(doc) /\ doc \in Seq(Heading) /\ Distinct(doc) /\ Proper(doc) /\ Tree(kids, doc) /\ Partial(kids, doc)
      /\ IdsOf(idx) = IdsOf(doc)
      /\ i \in 1..Len(doc) /\ doc[i].id = id /\ i = PositionOf(doc, id)
  BY <1>1, Start, TreeIsPartial DEF Outline
<1>3. Len(doc) \in Nat /\ i \in Nat /\ i >= 1 /\ \A j \in 1..Len(doc) : doc[j].level \in Nat
  BY <1>2, HeadingFields
<1>4. /\ p = IdAt(doc, q) /\ Lists(s, doc, IdAt(doc, q)) /\ k \in 1..Len(s) /\ s[k] = id
  BY <1>2, SiblingsIs
<1>5. q \in 0..(i - 1) /\ q \in 0..Len(doc)
  <2>1. q \in 0..(i - 1)
    BY <1>2, ParentIs DEF IsParentAt
  <2> QED BY <1>2, <1>3, <2>1
<1>6. Sound(outline, index)
  BY <1>1, <1>2, DeleteIs
<1>7. outline \in Seq(Heading) /\ Distinct(outline) /\ IdsOf(index) = IdsOf(outline)
  BY <1>6 DEF Sound, Outline
<1>8. RestoreAt = IF before # 0 THEN BlockEnd(outline, before)
                  ELSE IF parent # 0 THEN parent + 1 ELSE 1
  BY DEF RestoreAt
<1> HIDE DEF q, s, k, before, parent, kids, p, i, blk
<1>9. /\ Len(s) \in Nat /\ Len(s) > 0
      /\ \A j \in 1..Len(s) :
           /\ PositionOf(doc, s[j]) \in 1..Len(doc) /\ doc[PositionOf(doc, s[j])].id = s[j]
           /\ doc[PositionOf(doc, s[j])].level = LevelAt(doc, q) + 1
      /\ PositionOf(doc, s[1]) = q + 1
      /\ \A j \in 1..(Len(s) - 1) : BlockEnd(doc, PositionOf(doc, s[j])) = PositionOf(doc, s[j + 1])
      /\ \A j, h \in 1..Len(s) : j < h => PositionOf(doc, s[j]) < PositionOf(doc, s[h])
  <2>1. /\ Len(s) \in Nat
        /\ \A j \in 1..Len(s) :
             LET c == PositionOf(doc, s[j])
             IN /\ c \in 1..Len(doc) /\ doc[c].id = s[j] /\ ParentHeading(doc, c) = q
                /\ c \in (q + 1)..(EndAt(doc, q) - 1) /\ doc[c].level = LevelAt(doc, q) + 1
        /\ \A j, h \in 1..Len(s) : j < h => PositionOf(doc, s[j]) < PositionOf(doc, s[h])
    BY <1>2, <1>4, <1>5, Listed
  <2>2. Len(s) > 0
    BY <1>4, <2>1
  <2>3. /\ PositionOf(doc, s[1]) = q + 1
        /\ \A j \in 1..(Len(s) - 1) : BlockEnd(doc, PositionOf(doc, s[j])) = PositionOf(doc, s[j + 1])
    BY <1>2, <1>4, <1>5, <2>2, Chain
  <2> QED BY <2>1, <2>2, <2>3
\* After the previous sibling, whose subtree ended where the deleted one began.
<1>10. CASE k # 1
  <2> DEFINE h == k - 1
             v == PositionOf(doc, s[h])
             e == Row(idx, s[h])
  <2>1. h \in 1..Len(s) /\ h \in 1..(Len(s) - 1) /\ h + 1 = k /\ h < k /\ h # 0
    BY <1>4, <1>9, <1>10
  <2>2. undoable.prev = <<e>>
    BY <1>1, <2>1 DEF h
  <2> HIDE DEF h, e
  <2>3. /\ v \in 1..Len(doc) /\ doc[v].id = s[h] /\ BlockEnd(doc, v) = i /\ v < i
        /\ doc[v].level = doc[i].level
    <3>1. BlockEnd(doc, v) = PositionOf(doc, s[h + 1]) /\ v < PositionOf(doc, s[k])
      BY <1>4, <1>9, <2>1
    <3>2. PositionOf(doc, s[k]) = i
      BY <1>2, <1>4
    <3>3. doc[v].level = LevelAt(doc, q) + 1 /\ doc[PositionOf(doc, s[k])].level = LevelAt(doc, q) + 1
      BY <1>4, <1>9, <2>1
    <3> QED BY <1>9, <2>1, <3>1, <3>2, <3>3
  <2> HIDE DEF v
  <2>4. \A j \in (v + 1)..(i - 1) : doc[j].level > doc[v].level
    BY <1>2, <2>3, EndIs DEF IsEndAt
  <2>5. v \in 1..(i - 1)
    BY <1>3, <2>3
  <2>6. v \in 1..Len(outline) /\ outline[v] = doc[v] /\ BlockEnd(outline, v) = i
    <3>1. /\ v \in 1..Len(CutBlock(doc, i)) /\ CutBlock(doc, i)[v] = doc[v]
          /\ doc[v].level = doc[i].level /\ (\A j \in (v + 1)..(i - 1) : doc[j].level > doc[v].level)
               => BlockEnd(CutBlock(doc, i), v) = i
      BY <1>2, <2>5, BeforeCut
    <3>2. doc[v].level = doc[i].level
      BY <2>3
    <3>3. BlockEnd(CutBlock(doc, i), v) = i
      BY <2>4, <3>1, <3>2, Zenon
    <3> QED BY <1>1, <3>1, <3>3
  <2>7. RowDescribes(e, doc) /\ e.id = s[h] /\ PositionOf(doc, s[h]) = v
    <3>1. s[h] \in IdsOf(idx)
      BY <1>2, <2>3, PositionIs
    <3> QED BY <1>1, <3>1, RowIs DEF e, v
  <2>8. Occurrence(outline, v) = Occurrence(doc, v)
    <3>1. \A g \in ToSet(blk) : ~Twin(g, outline[v])
      BY <1>1, <1>7, <2>6, ToSetIs DEF NoTwins
    <3> QED BY <1>1, <1>2, <2>3, <2>6, <3>1, CutCount DEF blk
  <2>9. e.level = outline[v].level /\ e.title = outline[v].title /\ e.occ = Occurrence(outline, v)
    BY <2>6, <2>7, <2>8 DEF RowDescribes
  <2>10. Find(outline, e) = v
    BY <1>7, <2>6, <2>9, FindIs
  <2>11. before = v
    BY <2>2, <2>10 DEF before
  <2>12. v # 0
    BY <2>5
  <2> QED BY <1>8, <2>6, <2>11, <2>12 DEF i
\* Else right after the parent, or first of all.
<1>11. CASE k = 1
  <2>1. before = 0
    BY <1>1, <1>11 DEF before
  <2>2. i = q + 1
    BY <1>2, <1>4, <1>9, <1>11
  <2>3. parent = q
    <3>1. CASE q = 0
      <4>1. p \notin IdsOf(index)
        BY <1>4, <1>7, <3>1, PositionIs DEF IdAt
      <4> QED BY <1>1, <3>1, <4>1 DEF parent
    <3>2. CASE q # 0
      <4>1. q \in 1..(i - 1)
        BY <1>5, <3>2
      <4>2. q \in 1..Len(outline) /\ outline[q] = doc[q]
        BY <1>1, <1>2, <4>1, BeforeCut
      <4>3. p = outline[q].id
        BY <1>4, <3>2, <4>2 DEF IdAt
      <4>4. p \in IdsOf(index) /\ PositionOf(outline, p) = q
        BY <1>7, <4>2, <4>3, PositionIs
      <4>5. Find(outline, Row(index, p)) = PositionOf(outline, p)
        BY <1>6, <4>4, RowIs
      <4> QED BY <1>1, <4>4, <4>5 DEF parent
    <3> QED BY <3>1, <3>2
  <2>4. RestoreAt = q + 1
    <3>1. q = 0 => q + 1 = 1
      OBVIOUS
    <3> QED BY <1>8, <2>1, <2>3, <3>1
  <2> QED BY <2>2, <2>4 DEF i
<1> QED BY <1>10, <1>11

LEMMA UndoIs ==
  ASSUME NEW doc, NEW idx, NEW id, Deleted(undoable, doc, idx, id, outline, index)
  PROVE  /\ Splice(outline, RestoreAt, undoable.block) = doc /\ Sound(doc, index \o undoable.entries)
         /\ Kids(index \o undoable.entries) = undoable.kids /\ undoable.doc = doc
         /\ Sound(outline, index) /\ Outline(doc)
         /\ \A x \in IdsOf(outline) : ParentOf(outline, x) = ParentOf(doc, x)
<1> DEFINE i == Find(doc, Row(idx, id))
           ids == SubtreeIds(Kids(idx), id)
           blk == Block(doc, i)
<1>1. /\ Sound(doc, idx) /\ id \in IdsOf(idx) /\ outline = CutBlock(doc, i) /\ NoTwins(blk, outline)
      /\ index = RowsOf(idx, IdsOf(idx) \ ids) /\ undoable.entries = RowsOf(idx, ids)
      /\ undoable.block = blk /\ undoable.kids = Kids(idx) /\ undoable.doc = doc
  BY DEF Deleted
<1>2. RestoreAt = i
  BY RestoreAtIs
<1>3. /\ i \in 1..Len(doc) /\ ids = IdsOf(blk) /\ IdsOf(idx) \ ids = IdsOf(outline) /\ Sound(outline, index)
  BY <1>1, DeleteIs
<1>4. Outline(doc) /\ doc \in Seq(Heading)
  BY <1>1 DEF Sound, Outline
<1>5. Splice(outline, i, blk) = doc
  BY <1>1, <1>3, <1>4, SpliceBack
<1>6. Sound(doc, index \o undoable.entries) /\ Kids(index \o undoable.entries) = Kids(idx)
  BY <1>1, <1>3, BackIs
<1>7. Apart(doc, outline, blk)
  BY <1>1, <1>3, <1>4, CutShape
<1> QED BY <1>1, <1>2, <1>3, <1>4, <1>5, <1>6, <1>7 DEF Apart

\* Positions and parents depend on ids and levels only.
LEMMA SameShape ==
  ASSUME NEW doc, Outline(doc), NEW new \in Seq(Heading), Len(new) = Len(doc),
         \A k \in 1..Len(doc) : new[k].id = doc[k].id /\ new[k].level = doc[k].level
  PROVE  /\ Outline(new) /\ IdsOf(new) = IdsOf(doc)
         /\ \A x : PositionOf(new, x) = PositionOf(doc, x)
         /\ \A x \in IdsOf(doc) : ParentOf(new, x) = ParentOf(doc, x)
<1>1. doc \in Seq(Heading) /\ Distinct(doc) /\ Proper(doc)
  BY DEF Outline
<1>2. DOMAIN doc = 1..Len(doc) /\ DOMAIN new = 1..Len(doc) /\ Len(doc) \in Nat
  BY <1>1, HeadingFields
<1>3. Distinct(new)
  BY <1>1, <1>2 DEF Distinct
<1>4. Proper(new)
  <2> SUFFICES ASSUME NEW k \in 1..Len(doc) PROVE new[k].level <= LevelBefore(new, k) + 1
    BY <1>2 DEF Proper
  <2>1. doc[k].level <= LevelBefore(doc, k) + 1
    BY <1>1, <1>2 DEF Proper
  <2>2. LevelBefore(new, k) = LevelBefore(doc, k)
    <3>1. CASE k = 1
      BY <3>1 DEF LevelBefore
    <3>2. CASE k # 1
      <4> DEFINE h == k - 1
      <4>1. h \in 1..Len(doc)
        BY <1>2, <3>2
      <4> HIDE DEF h
      <4>2. new[h].level = doc[h].level
        BY <4>1
      <4> QED BY <3>2, <4>2 DEF LevelBefore, h
    <3> QED BY <3>1, <3>2
  <2> QED BY <2>1, <2>2
<1>5. \A x : PositionOf(new, x) = PositionOf(doc, x)
  <2> SUFFICES ASSUME NEW x PROVE PositionOf(new, x) = PositionOf(doc, x)
    OBVIOUS
  <2>1. {k \in DOMAIN new : new[k].id = x} = {k \in DOMAIN doc : doc[k].id = x}
    BY <1>2
  <2> QED BY <2>1 DEF PositionOf
<1>6. IdsOf(new) = IdsOf(doc)
  <2>1. \A x \in IdsOf(new) : x \in IdsOf(doc)
    <3> SUFFICES ASSUME NEW x \in IdsOf(new) PROVE x \in IdsOf(doc)
      OBVIOUS
    <3>1. PositionOf(new, x) \in 1..Len(doc) /\ new[PositionOf(new, x)].id = x
      BY <1>3, PositionIs
    <3> QED BY <1>1, <3>1, PositionIs
  <2>2. \A x \in IdsOf(doc) : x \in IdsOf(new)
    <3> SUFFICES ASSUME NEW x \in IdsOf(doc) PROVE x \in IdsOf(new)
      OBVIOUS
    <3>1. PositionOf(doc, x) \in 1..Len(doc) /\ doc[PositionOf(doc, x)].id = x
      BY <1>1, PositionIs
    <3>2. new[PositionOf(doc, x)].id = x
      BY <3>1
    <3> QED BY <1>3, <3>1, <3>2, PositionIs
  <2> QED BY <2>1, <2>2
<1>7. \A x \in IdsOf(doc) : ParentOf(new, x) = ParentOf(doc, x)
  <2> SUFFICES ASSUME NEW x \in IdsOf(doc) PROVE ParentOf(new, x) = ParentOf(doc, x)
    OBVIOUS
  <2> DEFINE k == PositionOf(doc, x)
             p == ParentHeading(doc, k)
  <2>1. k \in 1..Len(doc) /\ k = PositionOf(new, x)
    BY <1>1, <1>5, PositionIs
  <2> HIDE DEF k
  <2>2. IsParentAt(doc, k, p)
    BY <1>1, <2>1, ParentIs
  <2> HIDE DEF p
  <2>3. IsParentAt(new, k, p)
    <3>1. /\ p \in 0..(k - 1) /\ (p # 0 => doc[p].level < doc[k].level)
          /\ \A j \in (p + 1)..(k - 1) : doc[j].level >= doc[k].level
      BY <2>2 DEF IsParentAt
    <3>2. new[k].level = doc[k].level
      BY <2>1
    <3>3. p # 0 => new[p].level = doc[p].level
      BY <1>2, <2>1, <3>1
    <3>4. \A j \in (p + 1)..(k - 1) : new[j].level = doc[j].level
      <4> SUFFICES ASSUME NEW j \in (p + 1)..(k - 1) PROVE new[j].level = doc[j].level
        OBVIOUS
      <4>1. j \in 1..Len(doc)
        BY <1>2, <2>1, <3>1
      <4> QED BY <4>1
    <3> QED BY <3>1, <3>2, <3>3, <3>4 DEF IsParentAt
  <2>4. ParentHeading(new, k) = p
    BY <2>1, <2>3, ParentOnly
  <2>5. p # 0 => new[p].id = doc[p].id
    <3>1. p \in 0..(k - 1)
      BY <2>2 DEF IsParentAt
    <3> QED BY <1>2, <2>1, <3>1
  <2> QED BY <2>1, <2>4, <2>5 DEF ParentOf, HeadingParent, p, k
<1> QED BY <1>3, <1>4, <1>5, <1>6, <1>7 DEF Outline

\* What updateTitle makes of the headings and of the rows, and the rows before
\* their occurrences are counted.
Retitled(doc, i, title, new) ==
  /\ new \in Seq(Heading) /\ Len(new) = Len(doc)
  /\ \A k \in 1..Len(doc) : /\ new[k].id = doc[k].id /\ new[k].level = doc[k].level
                            /\ new[k].title = IF k = i THEN title ELSE doc[k].title

RetitledRows(idx, id, title, renamed, rows) ==
  /\ rows \in Seq(IndexEntry) /\ Len(rows) = Len(idx)
  /\ \A k \in 1..Len(idx) :
       /\ renamed[k].level = idx[k].level
       /\ renamed[k].title = IF idx[k].id = id THEN title ELSE idx[k].title
       /\ rows[k].id = idx[k].id /\ rows[k].level = idx[k].level
       /\ rows[k].parent = idx[k].parent /\ rows[k].order = idx[k].order
       /\ rows[k].title = renamed[k].title /\ rows[k].occ = Occurrence(renamed, k)

LEMMA SameWalk ==
  ASSUME NEW idx \in Seq(IndexEntry), NEW doc \in Seq(Heading),
         [h \in DOMAIN idx |-> idx[h].id] = [h \in DOMAIN doc |-> doc[h].id]
  PROVE  \A h \in 1..Len(idx) : h \in 1..Len(doc) /\ idx[h].id = doc[h].id
<1> DEFINE f == [h \in DOMAIN idx |-> idx[h].id]
           g == [h \in DOMAIN doc |-> doc[h].id]
<1>1. DOMAIN f = 1..Len(idx) /\ \A h \in 1..Len(idx) : f[h] = idx[h].id
  OBVIOUS
<1>2. DOMAIN g = 1..Len(doc) /\ \A h \in 1..Len(doc) : g[h] = doc[h].id
  OBVIOUS
<1>3. f = g
  OBVIOUS
<1> HIDE DEF f, g
<1> QED BY <1>1, <1>2, <1>3

LEMMA RetitledIs ==
  ASSUME NEW doc \in Seq(Heading), NEW i \in 1..Len(doc), NEW title \in Titles
  PROVE  Retitled(doc, i, title, [doc EXCEPT ![i].title = title])
<1> DEFINE new == [doc EXCEPT ![i].title = title]
<1>4. /\ Len(doc) \in Nat /\ DOMAIN doc = 1..Len(doc)
      /\ \A k \in 1..Len(doc) : doc[k] \in Heading
  BY HeadingFields
<1>5. /\ new \in Seq(Heading) /\ Len(new) = Len(doc)
      /\ \A k \in 1..Len(doc) : /\ new[k].id = doc[k].id /\ new[k].level = doc[k].level
                                /\ new[k].title = IF k = i THEN title ELSE doc[k].title
  <2>1. ASSUME NEW k \in 1..Len(doc)
        PROVE  /\ new[k] \in Heading /\ new[k].id = doc[k].id /\ new[k].level = doc[k].level
               /\ new[k].title = IF k = i THEN title ELSE doc[k].title
    <3>1. CASE k = i
      <4>1. new[k] = [doc[k] EXCEPT !.title = title]
        BY <1>4, <3>1
      <4>2. doc[k] \in Heading
        BY <1>4
      <4> QED BY <3>1, <4>1, <4>2 DEF Heading
    <3>2. CASE k # i
      <4>1. new[k] = doc[k]
        BY <1>4, <3>2
      <4> QED BY <1>4, <3>2, <4>1
    <3> QED BY <3>1, <3>2
  <2>2. new = [k \in 1..Len(doc) |-> new[k]]
    BY <1>4
  <2>3. new \in [1..Len(doc) -> Heading]
    BY <2>1, <2>2
  <2>4. new \in Seq(Heading) /\ Len(new) = Len(doc)
    BY <1>4, <2>2, <2>3
  <2> QED BY <2>1, <2>4
<1> QED BY <1>5 DEF Retitled

LEMMA RetitledRowsIs ==
  ASSUME NEW idx \in Seq(IndexEntry), NEW id, NEW title \in Titles
  PROVE  LET renamed == [k \in DOMAIN idx |->
                           IF idx[k].id = id THEN [idx[k] EXCEPT !.title = title] ELSE idx[k]]
         IN RetitledRows(idx, id, title, renamed,
                         [k \in DOMAIN renamed |-> [renamed[k] EXCEPT !.occ = Occurrence(renamed, k)]])
<1> DEFINE renamed == [k \in DOMAIN idx |->
                         IF idx[k].id = id THEN [idx[k] EXCEPT !.title = title] ELSE idx[k]]
           rows == [k \in DOMAIN renamed |-> [renamed[k] EXCEPT !.occ = Occurrence(renamed, k)]]
<1>1. /\ Len(idx) \in Nat /\ DOMAIN idx = 1..Len(idx) /\ DOMAIN renamed = 1..Len(idx)
      /\ \A k \in 1..Len(idx) : idx[k] \in IndexEntry
  BY RowFields
<1>2. ASSUME NEW k \in 1..Len(idx)
      PROVE  /\ renamed[k] \in IndexEntry /\ renamed[k].id = idx[k].id
             /\ renamed[k].level = idx[k].level
             /\ renamed[k].parent = idx[k].parent /\ renamed[k].order = idx[k].order
             /\ renamed[k].title = IF idx[k].id = id THEN title ELSE idx[k].title
  <2>1. renamed[k] = IF idx[k].id = id THEN [idx[k] EXCEPT !.title = title] ELSE idx[k]
    BY <1>1
  <2> DEFINE e == idx[k]
             r == renamed[k]
  <2>2. e \in IndexEntry
    BY <1>1
  <2> HIDE DEF e, renamed
  <2>3. r = IF e.id = id THEN [e EXCEPT !.title = title] ELSE e
    BY <2>1 DEF e
  <2> HIDE DEF r
  <2>4. CASE e.id = id
    <3>1. r = [e EXCEPT !.title = title]
      BY <2>3, <2>4
    <3> QED BY <2>2, <2>4, <3>1 DEF IndexEntry, e, r
  <2>5. CASE e.id # id
    <3>1. r = e
      BY <2>3, <2>5
    <3> QED BY <2>2, <2>5, <3>1 DEF e, r
  <2> QED BY <2>4, <2>5
<1> HIDE DEF renamed
<1>3. ASSUME NEW k \in 1..Len(idx)
      PROVE  /\ rows[k] \in IndexEntry /\ rows[k].id = idx[k].id /\ rows[k].level = idx[k].level
             /\ rows[k].parent = idx[k].parent /\ rows[k].order = idx[k].order
             /\ rows[k].title = renamed[k].title /\ rows[k].occ = Occurrence(renamed, k)
  <2> DEFINE e == renamed[k]
             n == Occurrence(renamed, k)
             r == rows[k]
  <2>1. r = [e EXCEPT !.occ = n]
    BY <1>1
  <2>2. n \in Nat
    BY <1>1, OccurrenceIs
  <2>3. e \in IndexEntry
    BY <1>2
  <2> HIDE DEF e, n, r
  <2>4. r \in IndexEntry /\ r.id = e.id /\ r.level = e.level /\ r.parent = e.parent /\ r.order = e.order
        /\ r.title = e.title /\ r.occ = n
    BY <2>1, <2>2, <2>3 DEF IndexEntry
  <2> QED BY <1>2, <2>4 DEF e, n, r
<1>4. DOMAIN rows = 1..Len(idx) /\ rows = [k \in 1..Len(idx) |-> rows[k]]
  BY <1>1
<1> HIDE DEF rows
<1>5. rows \in [1..Len(idx) -> IndexEntry]
  BY <1>3, <1>4
<1>6. rows \in Seq(IndexEntry) /\ Len(rows) = Len(idx)
  BY <1>1, <1>4, <1>5
<1>7. RetitledRows(idx, id, title, renamed, rows)
  BY <1>2, <1>3, <1>6 DEF RetitledRows
<1> QED BY <1>7 DEF renamed, rows

LEMMA RenameIs ==
  ASSUME NEW doc, NEW idx, Sound(doc, idx), NEW id \in IdsOf(idx), NEW title,
         NEW i, i = PositionOf(doc, id), NEW new, Retitled(doc, i, title, new),
         NEW renamed, NEW rows, RetitledRows(idx, id, title, renamed, rows)
  PROVE  /\ Outline(doc) /\ Outline(new) /\ IdsOf(new) = IdsOf(doc)
         /\ \A x \in IdsOf(doc) : ParentOf(new, x) = ParentOf(doc, x)
         /\ \/ Preorder(Kids(idx)) = [k \in DOMAIN idx |-> idx[k].id]
            \/ ~\E e \in ToSet(idx) : e.id # id /\ e.level = Row(idx, id).level
            => Sound(new, rows)
<1>1. /\ Outline(doc) /\ doc \in Seq(Heading) /\ Distinct(doc) /\ Tree(Kids(idx), doc) /\ IdsOf(idx) = IdsOf(doc)
      /\ i \in 1..Len(doc) /\ doc[i].id = id
  <2>1. /\ Outline(doc) /\ Tree(Kids(idx), doc) /\ IdsOf(idx) = IdsOf(doc)
    BY KidsIs DEF Sound
  <2> QED BY <2>1, PositionIs DEF Outline
<1>2. /\ idx \in Seq(IndexEntry) /\ Distinct(idx)
      /\ \A k \in 1..Len(idx) : RowDescribes(idx[k], doc)
      /\ \A j, k \in 1..Len(idx) :
           idx[j].parent = idx[k].parent /\ PositionOf(doc, idx[j].id) < PositionOf(doc, idx[k].id)
             => idx[j].order < idx[k].order
      /\ \A j, k \in 1..Len(idx) :
           Twin(idx[j], idx[k]) /\ j < k => PositionOf(doc, idx[j].id) < PositionOf(doc, idx[k].id)
  BY DEF Sound
<1>3. /\ Len(idx) \in Nat /\ DOMAIN idx = 1..Len(idx)
      /\ \A k \in 1..Len(idx) : idx[k] \in IndexEntry /\ idx[k].id \in IdsOf(idx)
      /\ \A x \in IdsOf(idx) : \E k \in 1..Len(idx) : idx[k].id = x
  BY <1>2, RowFields
<1>4. /\ Len(doc) \in Nat /\ DOMAIN doc = 1..Len(doc)
      /\ \A k \in 1..Len(doc) : doc[k] \in Heading
  BY <1>1, HeadingFields
<1>5. /\ new \in Seq(Heading) /\ Len(new) = Len(doc)
      /\ \A k \in 1..Len(doc) : /\ new[k].id = doc[k].id /\ new[k].level = doc[k].level
                                /\ new[k].title = IF k = i THEN title ELSE doc[k].title
  BY DEF Retitled
<1>6. /\ Outline(new) /\ IdsOf(new) = IdsOf(doc)
      /\ \A x : PositionOf(new, x) = PositionOf(doc, x)
      /\ \A x \in IdsOf(doc) : ParentOf(new, x) = ParentOf(doc, x)
  BY <1>1, <1>5, SameShape
<1>7. \A k \in 1..Len(idx) : /\ renamed[k].level = idx[k].level
                             /\ renamed[k].title = IF idx[k].id = id THEN title ELSE idx[k].title
  BY DEF RetitledRows
<1>8. \A k \in 1..Len(idx) : /\ rows[k].id = idx[k].id /\ rows[k].level = idx[k].level
                             /\ rows[k].parent = idx[k].parent /\ rows[k].order = idx[k].order
                             /\ rows[k].title = renamed[k].title /\ rows[k].occ = Occurrence(renamed, k)
  BY DEF RetitledRows
<1>9. rows \in Seq(IndexEntry) /\ Len(rows) = Len(idx) /\ DOMAIN rows = 1..Len(idx)
  BY DEF RetitledRows
<1> DEFINE pos == [k \in 1..Len(idx) |-> PositionOf(doc, idx[k].id)]
<1>10. /\ pos \in [1..Len(idx) -> 1..Len(doc)]
       /\ \A m \in 1..Len(doc) : \E k \in 1..Len(idx) : pos[k] = m
       /\ \A k \in 1..Len(idx) : pos[k] = PositionOf(doc, idx[k].id) /\ doc[pos[k]].id = idx[k].id
  <2>1. \A k \in 1..Len(idx) : /\ PositionOf(doc, idx[k].id) \in 1..Len(doc)
                               /\ doc[PositionOf(doc, idx[k].id)].id = idx[k].id
    BY <1>1, <1>3, PositionIs
  <2>2. ASSUME NEW m \in 1..Len(doc) PROVE \E k \in 1..Len(idx) : pos[k] = m
    <3>1. doc[m].id \in IdsOf(idx) /\ PositionOf(doc, doc[m].id) = m
      BY <1>1, PositionIs
    <3>2. PICK k \in 1..Len(idx) : idx[k].id = doc[m].id
      BY <1>3, <3>1
    <3> QED BY <3>1, <3>2
  <2> QED BY <2>1, <2>2
<1>11. \A k \in 1..Len(idx) : pos[k] = i <=> idx[k].id = id
  BY <1>1, <1>10
<1> HIDE DEF pos
<1>12. \A k \in 1..Len(idx) : renamed[k].level = new[pos[k]].level /\ renamed[k].title = new[pos[k]].title
  <2> SUFFICES ASSUME NEW k \in 1..Len(idx)
               PROVE  renamed[k].level = new[pos[k]].level /\ renamed[k].title = new[pos[k]].title
    OBVIOUS
  <2>1. idx[k].level = doc[pos[k]].level /\ idx[k].title = doc[pos[k]].title
    BY <1>2, <1>10 DEF RowDescribes
  <2>2. pos[k] \in 1..Len(doc)
    BY <1>10
  <2> QED BY <1>5, <1>7, <1>11, <2>1, <2>2
<1>13. ASSUME \/ Preorder(Kids(idx)) = [k \in DOMAIN idx |-> idx[k].id]
              \/ ~\E e \in ToSet(idx) : e.id # id /\ e.level = Row(idx, id).level
       PROVE  Sound(new, rows)
  \* Twins of the renamed rows are listed in the order of their headings.
  <2>1. ASSUME NEW j \in 1..Len(idx), NEW k \in 1..Len(idx), Twin(renamed[j], renamed[k]), j < k
        PROVE  pos[j] < pos[k]
    <3>1. CASE Preorder(Kids(idx)) = [h \in DOMAIN idx |-> idx[h].id]
      <4>1. [h \in DOMAIN idx |-> idx[h].id] = [h \in DOMAIN doc |-> doc[h].id]
        BY <1>1, <3>1, PreorderIs
      <4>2. \A h \in 1..Len(idx) : h \in 1..Len(doc) /\ idx[h].id = doc[h].id
        BY <1>1, <1>2, <4>1, SameWalk
      <4>3. \A h \in 1..Len(doc) : PositionOf(doc, doc[h].id) = h
        BY <1>1, PositionIs
      <4>4. \A h \in 1..Len(idx) : pos[h] = h
        <5> SUFFICES ASSUME NEW h \in 1..Len(idx) PROVE pos[h] = h
          OBVIOUS
        <5>1. pos[h] = PositionOf(doc, idx[h].id)
          BY <1>10
        <5>2. h \in 1..Len(doc) /\ idx[h].id = doc[h].id
          BY <4>2
        <5>3. PositionOf(doc, doc[h].id) = h
          BY <4>3, <5>2
        <5> QED BY <5>1, <5>2, <5>3
      <4> QED BY <2>1, <4>4
    <3>2. CASE ~\E e \in ToSet(idx) : e.id # id /\ e.level = Row(idx, id).level
      <4>1. \A h \in 1..Len(idx) : idx[h] \in ToSet(idx)
        BY <1>3 DEF ToSet
      <4>2. \A h \in 1..Len(idx) : idx[h].id = id => idx[h] = Row(idx, id)
        BY RowIs
      <4>3. idx[j].level = idx[k].level /\ j # k
        BY <1>3, <1>7, <2>1 DEF Twin
      <4>4. idx[j].id # idx[k].id
        BY <1>2, <1>3, <4>3 DEF Distinct
      <4>5. idx[j].id # id /\ idx[k].id # id
        BY <3>2, <4>1, <4>2, <4>3, <4>4
      <4>6. Twin(idx[j], idx[k])
        BY <1>7, <2>1, <4>5 DEF Twin
      <4> QED BY <1>2, <1>10, <2>1, <4>6
    <3> QED BY <1>13, <3>1, <3>2
  <2>2. Carries(renamed, Len(idx), new, Len(doc), pos)
    BY <1>3, <1>4, <1>10, <1>12, <2>1 DEF Carries
  <2>3. ASSUME NEW k \in 1..Len(idx) PROVE Occurrence(renamed, k) = Occurrence(new, pos[k])
    <3>1. AllTwins(Len(idx), new, Len(doc), pos, k)
      BY <1>10 DEF AllTwins
    <3> QED BY <2>2, <3>1, SameCount
  <2>4. Distinct(rows)
    BY <1>2, <1>3, <1>8, <1>9 DEF Distinct
  <2>5. IdsOf(rows) = IdsOf(new)
    <3>1. ASSUME NEW x \in IdsOf(rows) PROVE x \in IdsOf(idx)
      <4>1. PICK k \in 1..Len(idx) : rows[k].id = x
        BY <1>9, RowFields
      <4> QED BY <1>3, <1>8, <4>1
    <3>2. ASSUME NEW x \in IdsOf(idx) PROVE x \in IdsOf(rows)
      <4>1. PICK k \in 1..Len(idx) : idx[k].id = x
        BY <1>3
      <4>2. rows[k].id \in IdsOf(rows)
        BY <1>9, RowFields
      <4> QED BY <1>8, <4>1, <4>2
    <3> QED BY <1>1, <1>6, <3>1, <3>2
  <2>6. ASSUME NEW k \in 1..Len(idx) PROVE RowDescribes(rows[k], new)
    <3>1. PositionOf(new, rows[k].id) = pos[k] /\ pos[k] # 0
      <4>1. pos[k] \in 1..Len(doc)
        BY <1>10
      <4> QED BY <1>6, <1>8, <1>10, <4>1
    <3>2. rows[k].level = new[pos[k]].level /\ rows[k].title = new[pos[k]].title
      BY <1>7, <1>8, <1>12
    <3>3. rows[k].occ = Occurrence(new, pos[k])
      BY <1>8, <2>3
    <3>4. rows[k].parent = ParentOf(new, rows[k].id)
      <4>1. rows[k].id = idx[k].id /\ idx[k].id \in IdsOf(doc) /\ rows[k].parent = idx[k].parent
        BY <1>1, <1>3, <1>8
      <4>2. idx[k].parent = ParentOf(doc, idx[k].id)
        BY <1>2 DEF RowDescribes
      <4> QED BY <1>6, <4>1, <4>2
    <3> QED BY <3>1, <3>2, <3>3, <3>4 DEF RowDescribes
  <2>7. \A j, k \in 1..Len(idx) :
          rows[j].parent = rows[k].parent /\ PositionOf(new, rows[j].id) < PositionOf(new, rows[k].id)
            => rows[j].order < rows[k].order
    BY <1>2, <1>6, <1>8
  <2>8. \A j, k \in 1..Len(idx) :
          Twin(rows[j], rows[k]) /\ j < k => PositionOf(new, rows[j].id) < PositionOf(new, rows[k].id)
    <3> SUFFICES ASSUME NEW j \in 1..Len(idx), NEW k \in 1..Len(idx), Twin(rows[j], rows[k]), j < k
                 PROVE  PositionOf(new, rows[j].id) < PositionOf(new, rows[k].id)
      OBVIOUS
    <3>1. Twin(renamed[j], renamed[k])
      BY <1>7, <1>8 DEF Twin
    <3>2. pos[j] < pos[k]
      BY <2>1, <3>1
    <3> QED BY <1>6, <1>8, <1>10, <3>2
  <2> QED BY <1>6, <1>9, <2>4, <2>5, <2>6, <2>7, <2>8 DEF Sound
<1> QED BY <1>1, <1>6, <1>13

\* While nothing else has run since, a deletion can be undone to the letter.
Window == undoable # NoUndo /\ ~touched /\ ~tangled =>
            \E idx, id : Deleted(undoable, undoable.doc, idx, id, outline, index)

\* The inductive invariant.  As long as no twins have been torn apart, every row
\* describes its section's heading, which is more than Described: an operation
\* finds its place through the rows of several sections at once.
TreeInv ==
  /\ TreeTypeOK
  /\ ~tangled => Sound(outline, index)
  /\ Window

\* Of the sections that stay, x alone may have another parent.
Others(x) == \A y \in IdsOf(index) \cap IdsOf(index') : y # x => ParentOf(outline', y) = ParentOf(outline, y)

OneMoves == ~tangled' => \E x : Others(x)

\* A new proposal has two sections of the first level.
LEMMA NewProposal ==
  ASSUME TreeInit
  PROVE  TreeInv
<1> DEFINE one == [id |-> 1, level |-> 1, title |-> outline[1].title]
           two == [id |-> 2, level |-> 1, title |-> NewTitle]
           doc == outline
           kids == [p \in 0..2 |-> IF p = 0 THEN <<1, 2>> ELSE <<>>]
<1>1. PICK title \in Titles :
        outline = [[k \in 1..2 |-> [id |-> k, level |-> 1, title |-> NewTitle]] EXCEPT ![1].title = title]
  BY DEF TreeInit
<1>2. index = Rebuilt(doc, kids) /\ undoable = NoUndo /\ touched = FALSE /\ tangled = FALSE
  BY DEF TreeInit
<1>3. DOMAIN doc = 1..2 /\ doc = [k \in 1..2 |-> doc[k]]
  BY <1>1
<1>4. /\ doc[1] = [id |-> 1, level |-> 1, title |-> title]
      /\ doc[2] = [id |-> 2, level |-> 1, title |-> NewTitle]
  BY <1>1
<1>5. doc \in Seq(Heading) /\ Len(doc) = 2
  <2>1. doc[1] \in Heading /\ doc[2] \in Heading
    <3>1. 1 \in Sections_ /\ 2 \in Sections_ /\ 1 \in 1..MaxHeadingLevel /\ NewTitle \in Titles
      BY TreeAssumption DEF Sections_, MaxHeadingLevel
    <3> QED BY <1>4, <3>1 DEF Heading
  <2>2. \A k \in 1..2 : doc[k] \in Heading
    <3>1. \A k \in 1..2 : k = 1 \/ k = 2
      OBVIOUS
    <3> QED BY <2>1, <3>1
  <2>3. doc \in [1..2 -> Heading]
    BY <1>3, <2>2
  <2> QED BY <1>3, <2>3
<1>6. doc[1].id = 1 /\ doc[2].id = 2 /\ doc[1].level = 1 /\ doc[2].level = 1
  BY <1>4
<1> HIDE DEF doc
<1>7. DOMAIN doc = 1..2 /\ \A k \in 1..2 : doc[k].id = k /\ doc[k].level = 1
  <2>1. \A k \in 1..2 : k = 1 \/ k = 2
    OBVIOUS
  <2> QED BY <1>5, <1>6, <2>1
<1>8. Distinct(doc)
  BY <1>7 DEF Distinct
<1>9. Outline(doc)
  <2>1. ASSUME NEW k \in 1..2 PROVE LevelBefore(doc, k) \in Nat
    <3>1. CASE k = 1
      BY <3>1 DEF LevelBefore
    <3>2. CASE k # 1
      <4>1. k = 2
        BY <3>2
      <4> QED BY <1>6, <4>1 DEF LevelBefore
    <3> QED BY <3>1, <3>2
  <2>2. Proper(doc)
    <3>1. ASSUME NEW k \in 1..2 PROVE doc[k].level <= LevelBefore(doc, k) + 1
      BY <1>7, <2>1
    <3> QED BY <1>7, <3>1 DEF Proper
  <2> QED BY <1>5, <1>8, <2>2 DEF Outline
<1>10. IdsOf(doc) = {1, 2} /\ PositionOf(doc, 1) = 1 /\ PositionOf(doc, 2) = 2
  <2>1. /\ \A k \in 1..Len(doc) : PositionOf(doc, doc[k].id) = k /\ doc[k].id \in IdsOf(doc)
        /\ \A x \in IdsOf(doc) : PositionOf(doc, x) \in 1..Len(doc) /\ doc[PositionOf(doc, x)].id = x
    BY <1>5, <1>8, PositionIs
  <2>2. 1 \in 1..Len(doc) /\ 2 \in 1..Len(doc)
    BY <1>5
  <2>3. PositionOf(doc, 1) = 1 /\ PositionOf(doc, 2) = 2 /\ 1 \in IdsOf(doc) /\ 2 \in IdsOf(doc)
    BY <1>6, <2>1, <2>2
  <2>4. \A x \in IdsOf(doc) : x = 1 \/ x = 2
    <3> SUFFICES ASSUME NEW x \in IdsOf(doc) PROVE x = 1 \/ x = 2
      OBVIOUS
    <3>1. PositionOf(doc, x) \in 1..2 /\ doc[PositionOf(doc, x)].id = x
      BY <1>5, <2>1
    <3>2. PositionOf(doc, x) = x
      BY <1>7, <3>1
    <3> QED BY <3>1, <3>2
  <2> QED BY <2>3, <2>4
<1>11. ParentOf(doc, 1) = 0 /\ ParentOf(doc, 2) = 0
  <2>1. ASSUME NEW k \in 1..2 PROVE ParentHeading(doc, k) = 0
    <3>1. k \in 1..Len(doc) /\ k \in Nat
      BY <1>5
    <3>2. 0 \in 0..(k - 1)
      BY <3>1
    <3>3. \A j \in (0 + 1)..(k - 1) : doc[j].level >= doc[k].level
      <4> SUFFICES ASSUME NEW j \in (0 + 1)..(k - 1) PROVE doc[j].level >= doc[k].level
        OBVIOUS
      <4>1. j \in 1..2
        OBVIOUS
      <4> QED BY <1>7, <4>1
    <3>4. IsParentAt(doc, k, 0)
      BY <3>2, <3>3 DEF IsParentAt
    <3> QED BY <1>5, <3>1, <3>4, ParentOnly
  <2>2. ParentHeading(doc, 1) = 0 /\ ParentHeading(doc, 2) = 0
    BY <2>1
  <2> QED BY <1>10, <2>2 DEF ParentOf, HeadingParent
<1>12. Tree(kids, doc)
  <2>1. DOMAIN kids = {0} \cup IdsOf(doc) /\ kids[0] = <<1, 2>> /\ kids[1] = <<>> /\ kids[2] = <<>>
    BY <1>10
  <2>2. Lists(<<1, 2>>, doc, 0)
    <3> DEFINE s == <<1, 2>>
    <3>1. s \in Seq(Sections_) /\ Len(s) = 2 /\ s[1] = 1 /\ s[2] = 2
      <4>1. 1 \in Sections_ /\ 2 \in Sections_
        BY TreeAssumption DEF Sections_
      <4> QED BY <4>1
    <3>2. \A k \in 1..2 : k = 1 \/ k = 2
      OBVIOUS
    <3> HIDE DEF s
    <3>3. \A j \in 1..Len(s) : s[j] = j
      BY <3>1, <3>2
    <3>4. \A j \in 1..Len(s) : s[j] \in IdsOf(doc) /\ ParentOf(doc, s[j]) = 0 /\ PositionOf(doc, s[j]) = j
      BY <1>10, <1>11, <3>1, <3>2
    <3>5. \A x \in IdsOf(doc) : ParentOf(doc, x) = 0 => \E j \in 1..Len(s) : s[j] = x
      <4>1. \A x \in IdsOf(doc) : x \in 1..Len(s)
        BY <1>10, <3>1
      <4> QED BY <3>3, <4>1
    <3>6. \A j, k \in 1..Len(s) : j < k => PositionOf(doc, s[j]) < PositionOf(doc, s[k])
      BY <3>4
    <3>7. Lists(s, doc, 0)
      BY <3>1, <3>4, <3>5, <3>6 DEF Lists
    <3> QED BY <3>7 DEF s
  <2>3. ASSUME NEW x \in {1, 2} PROVE Lists(<<>>, doc, x)
    <3> DEFINE s == <<>>
    <3>1. s \in Seq(Sections_) /\ Len(s) = 0
      OBVIOUS
    <3>2. \A j \in 1..Len(s) : FALSE
      BY <3>1
    <3> HIDE DEF s
    <3>3. \A y \in IdsOf(doc) : ParentOf(doc, y) # x
      BY <1>10, <1>11
    <3>4. Lists(s, doc, x)
      BY <3>1, <3>2, <3>3 DEF Lists
    <3> QED BY <3>4 DEF s
  <2> HIDE DEF kids
  <2>4. \A x \in {0} \cup IdsOf(doc) : Lists(kids[x], doc, x)
    BY <1>10, <2>1, <2>2, <2>3
  <2> QED BY <2>1, <2>4 DEF Tree
<1> HIDE DEF kids
<1>13. Sound(doc, index)
  BY <1>2, <1>9, <1>12, RebuiltIs
<1>14. NoUndo.block \in Seq(Heading) /\ NoUndo.entries \in Seq(IndexEntry)
  BY DEF NoUndo
<1>15. index \in Seq(IndexEntry)
  BY <1>13 DEF Sound
<1> QED BY <1>2, <1>5, <1>13, <1>14, <1>15 DEF TreeInv, TreeTypeOK, Window, doc

\* An operation that rebuilds the index from the tree of its outline.
LEMMA MutateIs ==
  ASSUME TreeInv, NEW doc, NEW T, NEW x, Regrafted(outline, doc, T, x), Mutate(doc, T), tangled' \in BOOLEAN,
         ~tangled
  PROVE  TreeInv' /\ OneMoves
<1>1. /\ Outline(doc) /\ Tree(T, doc)
      /\ \A y \in IdsOf(outline) : y # x => ParentOf(doc, y) = ParentOf(outline, y)
  BY DEF Regrafted
<1>2. /\ outline' = doc /\ index' = Rebuilt(doc, T) /\ touched' = (undoable # NoUndo) /\ undoable' = undoable
  BY DEF Mutate
<1>3. Sound(outline, index)
  BY DEF TreeInv
<1>4. Sound(outline', index')
  BY <1>1, <1>2, RebuiltIs
<1>5. TreeTypeOK'
  <2>1. outline' \in Seq(Heading) /\ index' \in Seq(IndexEntry)
    BY <1>4 DEF Sound, Outline
  <2>2. undoable.block \in Seq(Heading) /\ undoable.entries \in Seq(IndexEntry)
    BY DEF TreeInv, TreeTypeOK
  <2> QED BY <1>2, <2>1, <2>2 DEF TreeTypeOK
<1>6. Window'
  BY <1>2 DEF Window
<1>7. Others(x)
  <2>1. IdsOf(index) = IdsOf(outline)
    BY <1>3 DEF Sound
  <2> QED BY <1>1, <1>2, <2>1 DEF Others
<1> QED BY <1>4, <1>5, <1>6, <1>7 DEF TreeInv, OneMoves

LEMMA FreeId ==
  ASSUME FreeIds # {}
  PROVE  Min(FreeIds) \in Sections_ /\ Min(FreeIds) \notin IdsOf(index)
<1>1. FreeIds \subseteq Nat
  BY TreeAssumption DEF FreeIds, Sections_
<1>2. Min(FreeIds) \in FreeIds
  BY <1>1, MinIsLeast
<1> QED BY <1>2 DEF FreeIds

LEMMA InsertSiblingStep ==
  ASSUME TreeInv, ~tangled, NEW id \in IdsOf(index), InsertSibling(id)
  PROVE  TreeInv' /\ OneMoves
<1> DEFINE i == Find(outline, Row(index, id))
           kids == Kids(index)
           p == ParentIn(kids, id)
           x == Min(FreeIds)
           doc == Splice(outline, BlockEnd(outline, i), <<[id |-> x, level |-> outline[i].level, title |-> NewTitle]>>)
           T == Attached(kids, p, Place(kids, p, id) + 1, x)
<1>1. FreeIds # {} /\ tangled' = tangled /\ Mutate(doc, T)
  BY DEF InsertSibling, NewHeading
<1>2. Sound(outline, index)
  BY DEF TreeInv
<1>3. x \in Sections_ /\ x \notin IdsOf(outline)
  BY <1>1, <1>2, FreeId DEF Sound
<1>4. NewTitle \in Titles
  BY TreeAssumption
<1>5. Regrafted(outline, doc, T, x)
  BY <1>2, <1>3, <1>4, InsertSiblingIs
<1>6. tangled' \in BOOLEAN
  BY <1>1 DEF TreeInv, TreeTypeOK
<1> HIDE DEF doc, T, x
<1> QED BY <1>1, <1>5, <1>6, MutateIs

LEMMA InsertChildStep ==
  ASSUME TreeInv, ~tangled, NEW id \in IdsOf(index), InsertChild(id)
  PROVE  TreeInv' /\ OneMoves
<1> DEFINE i == Find(outline, Row(index, id))
           kids == Kids(index)
           x == Min(FreeIds)
           doc == Splice(outline, BlockEnd(outline, i),
                         <<[id |-> x, level |-> outline[i].level + 1, title |-> NewTitle]>>)
           T == Attached(kids, id, Len(kids[id]) + 1, x)
<1>1. FreeIds # {} /\ tangled' = tangled /\ Mutate(doc, T) /\ outline[i].level < MaxHeadingLevel
  BY DEF InsertChild, NewHeading
<1>2. Sound(outline, index)
  BY DEF TreeInv
<1>3. x \in Sections_ /\ x \notin IdsOf(outline)
  BY <1>1, <1>2, FreeId DEF Sound
<1>4. NewTitle \in Titles
  BY TreeAssumption
<1>5. Regrafted(outline, doc, T, x)
  BY <1>1, <1>2, <1>3, <1>4, InsertChildIs
<1>6. tangled' \in BOOLEAN
  BY <1>1 DEF TreeInv, TreeTypeOK
<1> HIDE DEF doc, T, x
<1> QED BY <1>1, <1>5, <1>6, MutateIs

LEMMA IndentStep ==
  ASSUME TreeInv, ~tangled, NEW id \in IdsOf(index), Indent(id)
  PROVE  TreeInv' /\ OneMoves
<1> DEFINE i == Find(outline, Row(index, id))
           blk == Shifted(Block(outline, i), 1)
           kids == Kids(index)
           p == ParentIn(kids, id)
           to == kids[p][Place(kids, p, id) - 1]
           doc == Splice(CutBlock(outline, i), i, blk)
           T == Attached(Detached(kids, id), to, Len(kids[to]) + 1, id)
<1>1. /\ PreviousHeading(outline, i) # 0 /\ Place(kids, p, id) > 1 /\ LegalLevels(blk)
      /\ tangled' = tangled /\ Mutate(doc, T)
  BY DEF Indent
<1>2. Sound(outline, index)
  BY DEF TreeInv
<1>3. Regrafted(outline, doc, T, id)
  BY <1>1, <1>2, IndentIs
<1>4. tangled' \in BOOLEAN
  BY <1>1 DEF TreeInv, TreeTypeOK
<1> HIDE DEF doc, T
<1> QED BY <1>1, <1>3, <1>4, MutateIs

LEMMA OutdentStep ==
  ASSUME TreeInv, ~tangled, NEW id \in IdsOf(index), Outdent(id)
  PROVE  TreeInv' /\ OneMoves
<1> DEFINE i == Find(outline, Row(index, id))
           blk == Shifted(Block(outline, i), -1)
           kids == Kids(index)
           p == ParentIn(kids, id)
           grand == ParentIn(kids, p)
           doc == Splice(CutBlock(outline, i), BlockEnd(outline, ParentHeading(outline, i)) - Len(blk), blk)
           T == Attached(Detached(kids, id), grand, Place(kids, grand, p) + 1, id)
<1>1. ParentHeading(outline, i) # 0 /\ LegalLevels(blk) /\ tangled' = tangled /\ Mutate(doc, T)
  BY DEF Outdent
<1>2. Sound(outline, index)
  BY DEF TreeInv
<1>3. Regrafted(outline, doc, T, id)
  BY <1>1, <1>2, OutdentIs
<1>4. tangled' \in BOOLEAN
  BY <1>1 DEF TreeInv, TreeTypeOK
<1> HIDE DEF doc, T
<1> QED BY <1>1, <1>3, <1>4, MutateIs

LEMMA MoveStep ==
  ASSUME TreeInv, ~tangled, NEW id \in IdsOf(index), NEW drop \in IdsOf(index), NEW placement \in Placements,
         Move(id, drop, placement)
  PROVE  TreeInv' /\ OneMoves
<1> DEFINE i == Find(outline, Row(index, id))
           d == Find(outline, Row(index, drop))
           level == outline[d].level + (IF placement = "inside" THEN 1 ELSE 0)
           blk == Shifted(Block(outline, i), level - outline[i].level)
           rest == CutBlock(outline, i)
           d2 == Find(rest, Row(index, drop))
           at2 == IF placement = "before" THEN d2 ELSE BlockEnd(rest, d2)
           doc == Splice(rest, at2, blk)
           kids == Detached(Kids(index), id)
           p == IF placement = "inside" THEN drop ELSE ParentIn(kids, drop)
           at == CASE placement = "inside" -> Len(kids[drop]) + 1
                   [] placement = "before" -> Place(kids, p, drop)
                   [] placement = "after"  -> Place(kids, p, drop) + 1
           T == Attached(kids, p, at, id)
           r == PositionOf(rest, drop)
           new == Splice(rest, IF placement = "before" THEN r ELSE BlockEnd(rest, r), blk)
<1>1. /\ d \notin i..(BlockEnd(outline, i) - 1) /\ LegalLevels(blk) /\ d2 # 0 /\ Mutate(doc, T)
      /\ tangled' = (tangled \/ \E h \in ToSet(Block(outline, i)) : Twin(h, outline[d]))
  BY DEF Move
<1>2. Sound(outline, index)
  BY DEF TreeInv
<1>3. /\ Outline(outline) /\ i \in 1..Len(outline) /\ rest \in Seq(Heading) /\ blk \in Seq(Heading)
      /\ Regrafted(outline, new, T, id)
      /\ (\A h \in ToSet(Block(outline, i)) : ~Twin(h, outline[d])) => d2 = r
  <2>1. /\ i = Find(outline, Row(index, id)) /\ d = Find(outline, Row(index, drop))
        /\ level = outline[d].level + (IF placement = "inside" THEN 1 ELSE 0)
        /\ blk = Shifted(Block(outline, i), level - outline[i].level)
        /\ rest = CutBlock(outline, i) /\ r = PositionOf(rest, drop)
        /\ kids = Detached(Kids(index), id)
        /\ p = (IF placement = "inside" THEN drop ELSE ParentIn(kids, drop))
    BY Zenon
  <2>2. at = (CASE placement = "inside" -> Len(kids[drop]) + 1
                [] placement = "before" -> Place(kids, p, drop)
                [] placement = "after"  -> Place(kids, p, drop) + 1)
    BY Zenon
  <2>3. /\ new = Splice(rest, IF placement = "before" THEN r ELSE BlockEnd(rest, r), blk)
        /\ T = Attached(kids, p, at, id) /\ d2 = Find(rest, Row(index, drop))
    BY Zenon
  <2>4. LegalLevels(blk) /\ d \notin i..(BlockEnd(outline, i) - 1)
    BY <1>1
  <2> HIDE DEF i, d, level, blk, rest, r, kids, p, at, new, T, d2
  <2>5. Moving(outline, index, id, drop, placement, i, d, level, blk, rest, r, kids, p, at)
    BY <2>1, <2>2, <2>4 DEF Moving
  <2>6. /\ Outline(outline) /\ i \in 1..Len(outline) /\ rest \in Seq(Heading) /\ blk \in Seq(Heading)
        /\ Regrafted(outline, Splice(rest, IF placement = "before" THEN r ELSE BlockEnd(rest, r), blk),
                     Attached(kids, p, at, id), id)
        /\ (\A h \in ToSet(Block(outline, i)) : ~Twin(h, outline[d])) => Find(rest, Row(index, drop)) = r
    BY <1>2, <2>5, MoveIs
  <2> QED BY <2>3, <2>6
<1>4. tangled' \in BOOLEAN
  BY <1>1
\* The drop heading is found again where it is.
<1>5. CASE ~tangled'
  <2>1. \A h \in ToSet(Block(outline, i)) : ~Twin(h, outline[d])
    BY <1>1, <1>5
  <2>2. d2 = r
    BY <1>3, <2>1
  <2> HIDE DEF r, d2, T, blk, rest
  <2>3. doc = new
    BY <2>2
  <2> HIDE DEF doc, new
  <2>4. Regrafted(outline, doc, T, id)
    BY <1>3, <2>3
  <2> QED BY <1>1, <1>4, <2>4, MutateIs
<1>6. CASE tangled'
  <2>1. d2 \in 1..Len(rest)
    <3>1. d2 \in 0..Len(rest)
      BY <1>3, FindType
    <3>2. Len(rest) \in Nat
      BY <1>3, HeadingFields
    <3> HIDE DEF d2
    <3> QED BY <1>1, <3>1, <3>2
  <2>2. at2 \in 1..(Len(rest) + 1)
    <3>1. Len(rest) \in Nat
      BY <1>3, HeadingFields
    <3>2. BlockEnd(rest, d2) \in (d2 + 1)..(Len(rest) + 1)
      BY <1>3, <2>1, EndIs DEF IsEndAt
    <3> DEFINE e == BlockEnd(rest, d2)
    <3> HIDE DEF d2, rest, e
    <3>3. d2 \in 1..(Len(rest) + 1)
      BY <2>1, <3>1
    <3>4. e \in 1..(Len(rest) + 1)
      BY <2>1, <3>1, <3>2 DEF e
    <3> QED BY <3>3, <3>4 DEF e
  <2> HIDE DEF at2
  <2>3. doc \in Seq(Heading)
    BY <1>3, <2>2, SpliceIs
  <2> HIDE DEF doc, T, new
  <2>4. Outline(new) /\ Tree(T, new)
    BY <1>3 DEF Regrafted
  <2>5. Len(Preorder(T)) = Len(doc) /\ outline' = doc /\ index' = Rebuilt(doc, T)
        /\ touched' = (undoable # NoUndo) /\ undoable' = undoable
    BY <1>1 DEF Mutate
  <2>6. index' \in Seq(IndexEntry)
    BY <2>3, <2>4, <2>5, RebuiltRows
  <2>7. undoable.block \in Seq(Heading) /\ undoable.entries \in Seq(IndexEntry)
    BY DEF TreeInv, TreeTypeOK
  <2> QED BY <1>4, <1>6, <2>3, <2>5, <2>6, <2>7 DEF TreeInv, TreeTypeOK, Window, OneMoves
<1> QED BY <1>4, <1>5, <1>6

LEMMA UpdateTitleStep ==
  ASSUME TreeInv, ~tangled, NEW id \in IdsOf(index), NEW title \in Titles, UpdateTitle(id, title)
  PROVE  TreeInv' /\ OneMoves
<1> DEFINE i == Find(outline, Row(index, id))
           renamed == [k \in DOMAIN index |->
                         IF index[k].id = id THEN [index[k] EXCEPT !.title = title] ELSE index[k]]
           rows == [k \in DOMAIN renamed |-> [renamed[k] EXCEPT !.occ = Occurrence(renamed, k)]]
           new == [outline EXCEPT ![i].title = title]
<1>1. /\ outline' = (IF i = 0 THEN outline ELSE new) /\ index' = rows
      /\ touched' = (undoable # NoUndo) /\ undoable' = undoable
      /\ tangled' = (tangled \/
           /\ Preorder(Kids(index)) # [k \in DOMAIN index |-> index[k].id]
           /\ \E e \in ToSet(index) : e.id # id /\ e.level = Row(index, id).level)
  BY DEF UpdateTitle
<1>2. Sound(outline, index)
  BY DEF TreeInv
<1>3. i \in 1..Len(outline) /\ i = PositionOf(outline, id) /\ IdsOf(index) = IdsOf(outline)
  BY <1>2, Start
<1>4. outline \in Seq(Heading) /\ index \in Seq(IndexEntry)
  BY <1>2 DEF Sound, Outline
<1>5. Retitled(outline, i, title, new) /\ RetitledRows(index, id, title, renamed, rows)
  BY <1>3, <1>4, RetitledIs, RetitledRowsIs
<1>6. i # 0
  BY <1>3
<1> HIDE DEF i, renamed, rows, new
<1>7. outline' = new
  BY <1>1, <1>6
<1>8. /\ Outline(new) /\ \A x \in IdsOf(outline) : ParentOf(new, x) = ParentOf(outline, x)
      /\ \/ Preorder(Kids(index)) = [k \in DOMAIN index |-> index[k].id]
         \/ ~\E e \in ToSet(index) : e.id # id /\ e.level = Row(index, id).level
         => Sound(new, rows)
  BY <1>2, <1>3, <1>5, RenameIs
<1>9. tangled' \in BOOLEAN
  BY <1>1 DEF TreeInv, TreeTypeOK
<1>10. rows \in Seq(IndexEntry) /\ new \in Seq(Heading)
  BY <1>5 DEF RetitledRows, Retitled
<1>11. ~tangled' => Sound(outline', index')
  BY <1>1, <1>7, <1>8
<1>12. undoable.block \in Seq(Heading) /\ undoable.entries \in Seq(IndexEntry)
  BY DEF TreeInv, TreeTypeOK
<1>13. TreeTypeOK'
  BY <1>1, <1>7, <1>9, <1>10, <1>12 DEF TreeTypeOK
<1>14. Window'
  BY <1>1 DEF Window
<1>15. Others(0)
  BY <1>3, <1>7, <1>8 DEF Others
<1> QED BY <1>11, <1>13, <1>14, <1>15 DEF TreeInv, OneMoves

LEMMA SoftDeleteStep ==
  ASSUME TreeInv, ~tangled, NEW id \in IdsOf(index), SoftDelete(id)
  PROVE  TreeInv' /\ OneMoves /\ undoable' # NoUndo
<1> DEFINE i == Find(outline, Row(index, id))
           kids == Kids(index)
           ids == SubtreeIds(kids, id)
           p == ParentIn(kids, id)
           k == Place(kids, p, id)
           blk == Block(outline, i)
           rest == CutBlock(outline, i)
<1>1. /\ outline' = rest /\ index' = RowsOf(index, IdsOf(index) \ ids)
      /\ undoable' = [block |-> blk, parent |-> p, entries |-> RowsOf(index, ids),
                      prev |-> IF k - 1 = 0 THEN <<>> ELSE <<Row(index, kids[p][k - 1])>>,
                      doc |-> outline, kids |-> kids]
      /\ touched' = FALSE
      /\ tangled' = (tangled \/ \E h \in ToSet(blk), g \in ToSet(rest) : Twin(h, g))
  BY DEF SoftDelete
<1>2. Sound(outline, index)
  BY DEF TreeInv
<1>3. /\ i \in 1..Len(outline) /\ (NoTwins(blk, rest) => Sound(rest, RowsOf(index, IdsOf(index) \ ids)))
  BY <1>2, DeleteIs
<1>4. Outline(outline) /\ outline \in Seq(Heading) /\ index \in Seq(IndexEntry)
  BY <1>2 DEF Sound, Outline
<1>5. blk \in Seq(Heading) /\ rest \in Seq(Heading)
  BY <1>3, <1>4, BlockIs, CutIs
<1>6. RowsOf(index, IdsOf(index) \ ids) \in Seq(IndexEntry) /\ RowsOf(index, ids) \in Seq(IndexEntry)
  <2>1. \A s : RowsOf(index, s) \in Seq(IndexEntry)
    BY <1>4, KeptIs DEF KeptRows
  <2> QED BY <2>1
<1>7. Len(blk) > 0
  BY <1>3, <1>4, BlockSubtree DEF Subtree
<1>8. Apart(outline, rest, blk)
  BY <1>3, <1>4, CutShape
<1> HIDE DEF i, kids, ids, p, k, blk, rest
<1>9. /\ undoable'.block = blk /\ undoable'.entries = RowsOf(index, ids)
      /\ undoable'.parent = p /\ undoable'.doc = outline /\ undoable'.kids = kids
      /\ undoable'.prev = (IF k - 1 = 0 THEN <<>> ELSE <<Row(index, kids[p][k - 1])>>)
  BY <1>1
<1>10. undoable' # NoUndo
  <2>1. NoUndo.block = <<>> /\ Len(<<>>) = 0
    BY DEF NoUndo
  <2> QED BY <1>7, <1>9, <2>1
<1>11. TreeTypeOK'
  <2>1. tangled' \in BOOLEAN /\ touched' \in BOOLEAN
    BY <1>1 DEF TreeInv, TreeTypeOK
  <2> QED BY <1>1, <1>5, <1>6, <1>9, <2>1 DEF TreeTypeOK
<1>12. CASE tangled'
  BY <1>10, <1>11, <1>12 DEF TreeInv, Window, OneMoves
<1>13. CASE ~tangled'
  <2>1. NoTwins(blk, rest)
    BY <1>1, <1>13 DEF NoTwins
  <2>2. Sound(outline', index')
    BY <1>1, <1>3, <2>1
  <2>3. Deleted(undoable', undoable'.doc, index, id, outline', index')
    BY <1>1, <1>2, <1>9, <2>1 DEF Deleted, i, kids, ids, p, k, blk, rest
  <2>4. Window'
    BY <2>3 DEF Window
  <2>5. Others(0)
    <3>1. IdsOf(index') = IdsOf(rest)
      BY <1>1, <2>2 DEF Sound
    <3>2. \A x \in IdsOf(rest) : ParentOf(rest, x) = ParentOf(outline, x)
      BY <1>8 DEF Apart
    <3> QED BY <1>1, <3>1, <3>2 DEF Others
  <2> QED BY <1>10, <1>11, <2>2, <2>4, <2>5 DEF TreeInv, OneMoves
<1> QED BY <1>12, <1>13

LEMMA RestoreAtType ==
  ASSUME TreeTypeOK
  PROVE  RestoreAt \in 1..(Len(outline) + 1)
<1> DEFINE before == IF undoable.prev = <<>> THEN 0 ELSE Find(outline, undoable.prev[1])
           parent == IF undoable.parent \in IdsOf(index) THEN Find(outline, Row(index, undoable.parent)) ELSE 0
<1>1. outline \in Seq(Heading) /\ Len(outline) \in Nat
  BY HeadingFields DEF TreeTypeOK
<1>2. \A loc : Find(outline, loc) \in 0..Len(outline)
  BY <1>1, FindType
<1>3. before \in 0..Len(outline) /\ parent \in 0..Len(outline)
  BY <1>1, <1>2
<1>4. RestoreAt = IF before # 0 THEN BlockEnd(outline, before)
                  ELSE IF parent # 0 THEN parent + 1 ELSE 1
  BY DEF RestoreAt
<1> HIDE DEF before, parent
<1>5. CASE before # 0
  <2>1. before \in 1..Len(outline)
    BY <1>1, <1>3, <1>5
  <2>2. BlockEnd(outline, before) \in (before + 1)..(Len(outline) + 1)
    BY <1>1, <2>1, EndIs DEF IsEndAt
  <2>3. RestoreAt = BlockEnd(outline, before)
    BY <1>4, <1>5
  <2> QED BY <1>1, <2>1, <2>2, <2>3
<1>6. CASE before = 0
  BY <1>1, <1>3, <1>4, <1>6
<1> QED BY <1>5, <1>6

LEMMA UndoStep ==
  ASSUME TreeInv, ~tangled, UndoDelete
  PROVE  /\ TreeInv' /\ OneMoves
         /\ ~touched => outline' = undoable.doc /\ Kids(index') = undoable.kids
<1>1. /\ undoable # NoUndo /\ outline' = Splice(outline, RestoreAt, undoable.block)
      /\ index' = index \o undoable.entries /\ undoable' = NoUndo /\ touched' = FALSE
      /\ tangled' = (tangled \/ touched)
  BY DEF UndoDelete
<1>2. TreeTypeOK /\ touched \in BOOLEAN /\ tangled \in BOOLEAN
  BY DEF TreeInv, TreeTypeOK
<1>3. TreeTypeOK'
  <2>1. outline' \in Seq(Heading)
    BY <1>1, <1>2, RestoreAtType, SpliceIs DEF TreeTypeOK
  <2>2. index' \in Seq(IndexEntry)
    BY <1>1, <1>2, Joined DEF TreeTypeOK
  <2>3. NoUndo.block \in Seq(Heading) /\ NoUndo.entries \in Seq(IndexEntry)
    BY DEF NoUndo
  <2> QED BY <1>1, <1>2, <2>1, <2>2, <2>3 DEF TreeTypeOK
<1>4. Window'
  BY <1>1 DEF Window
<1>5. CASE touched
  BY <1>1, <1>3, <1>4, <1>5 DEF TreeInv, OneMoves
<1>6. CASE ~touched
  <2>1. PICK idx, id : Deleted(undoable, undoable.doc, idx, id, outline, index)
    BY <1>1, <1>6 DEF TreeInv, Window
  <2> DEFINE doc == undoable.doc
  <2>2. /\ Splice(outline, RestoreAt, undoable.block) = doc /\ Sound(doc, index \o undoable.entries)
        /\ Kids(index \o undoable.entries) = undoable.kids
        /\ Sound(outline, index)
        /\ \A x \in IdsOf(outline) : ParentOf(outline, x) = ParentOf(doc, x)
    BY <2>1, UndoIs
  <2>3. Sound(outline', index')
    BY <1>1, <2>2
  <2>4. Others(0)
    <3>1. IdsOf(index) = IdsOf(outline)
      BY <2>2 DEF Sound
    <3> QED BY <1>1, <2>2, <3>1 DEF Others
  <2> QED BY <1>1, <1>3, <1>4, <2>2, <2>3, <2>4 DEF TreeInv, OneMoves
<1> QED BY <1>5, <1>6

LEMMA FinalizeStep ==
  ASSUME TreeInv, FinalizeWindow
  PROVE  TreeInv' /\ OneMoves
<1>1. undoable' = NoUndo /\ touched' = FALSE /\ outline' = outline /\ index' = index /\ tangled' = tangled
  BY DEF FinalizeWindow
<1>2. NoUndo.block \in Seq(Heading) /\ NoUndo.entries \in Seq(IndexEntry)
  BY DEF NoUndo
<1>3. Others(0)
  BY <1>1 DEF Others
<1> QED BY <1>1, <1>2, <1>3 DEF TreeInv, TreeTypeOK, Window, OneMoves

\* One step of one of the operations: it keeps the invariant, moves one subtree,
\* and when it is an undo in its window, restores what was deleted.
LEMMA TreeStep ==
  ASSUME TreeInv, [TreeNext]_treeVars
  PROVE  /\ TreeInv' /\ OneMoves
         /\ undoable # NoUndo /\ undoable' = NoUndo /\ index' # index /\ ~touched =>
              outline' = undoable.doc /\ Kids(index') = undoable.kids
<1>1. CASE UNCHANGED treeVars
  <2>1. /\ outline' = outline /\ index' = index /\ undoable' = undoable /\ touched' = touched
        /\ tangled' = tangled
    BY <1>1 DEF treeVars
  <2>2. TreeInv'
    BY <2>1 DEF TreeInv, TreeTypeOK, Window
  <2>3. Others(0)
    BY <2>1 DEF Others
  <2> QED BY <2>1, <2>2, <2>3 DEF OneMoves
<1>2. ASSUME NEW id \in IdsOf(index), ~tangled,
             \/ InsertSibling(id) \/ InsertChild(id) \/ Indent(id) \/ Outdent(id)
             \/ \E drop \in IdsOf(index), placement \in Placements : Move(id, drop, placement)
             \/ \E title \in Titles : UpdateTitle(id, title)
      PROVE  TreeInv' /\ OneMoves /\ undoable' = undoable
  <2>1. CASE InsertSibling(id)
    BY <1>2, <2>1, InsertSiblingStep DEF InsertSibling, Mutate
  <2>2. CASE InsertChild(id)
    BY <1>2, <2>2, InsertChildStep DEF InsertChild, Mutate
  <2>3. CASE Indent(id)
    BY <1>2, <2>3, IndentStep DEF Indent, Mutate
  <2>4. CASE Outdent(id)
    BY <1>2, <2>4, OutdentStep DEF Outdent, Mutate
  <2>5. CASE \E drop \in IdsOf(index), placement \in Placements : Move(id, drop, placement)
    <3>1. PICK drop \in IdsOf(index), placement \in Placements : Move(id, drop, placement)
      BY <2>5
    <3>2. undoable' = undoable
      BY <3>1 DEF Move, Mutate
    <3> QED BY <1>2, <3>1, <3>2, MoveStep
  <2>6. CASE \E title \in Titles : UpdateTitle(id, title)
    <3>1. PICK title \in Titles : UpdateTitle(id, title)
      BY <2>6
    <3>2. undoable' = undoable
      BY <3>1 DEF UpdateTitle
    <3> QED BY <1>2, <3>1, <3>2, UpdateTitleStep
  <2> QED BY <1>2, <2>1, <2>2, <2>3, <2>4, <2>5, <2>6
<1>3. ASSUME NEW id \in IdsOf(index), ~tangled, SoftDelete(id)
      PROVE  TreeInv' /\ OneMoves /\ undoable' # NoUndo
  BY <1>3, SoftDeleteStep
<1>4. ASSUME ~tangled, UndoDelete
      PROVE  /\ TreeInv' /\ OneMoves
             /\ ~touched => outline' = undoable.doc /\ Kids(index') = undoable.kids
  BY <1>4, UndoStep
<1>5. ASSUME FinalizeWindow
      PROVE  TreeInv' /\ OneMoves /\ index' = index
  BY <1>5, FinalizeStep DEF FinalizeWindow
<1>6. \/ UNCHANGED treeVars
      \/ \E id \in IdsOf(index) :
           /\ ~tangled
           /\ \/ InsertSibling(id) \/ InsertChild(id) \/ Indent(id) \/ Outdent(id)
              \/ \E drop \in IdsOf(index), placement \in Placements : Move(id, drop, placement)
              \/ \E title \in Titles : UpdateTitle(id, title)
      \/ \E id \in IdsOf(index) : ~tangled /\ SoftDelete(id)
      \/ ~tangled /\ UndoDelete
      \/ FinalizeWindow
  BY DEF TreeNext
<1> QED BY <1>1, <1>2, <1>3, <1>4, <1>5, <1>6

\* Whatever the operations and their order: the rows of the index describe the
\* headings, and an open undo window holds exactly the subtree that was cut out.
THEOREM TreeCorrect == TreeSpec => []TreeInv
<1>1. TreeInit => TreeInv
  BY NewProposal
<1>2. TreeInv /\ [TreeNext]_treeVars => TreeInv'
  BY TreeStep
<1> QED BY <1>1, <1>2, PTL DEF TreeSpec

\* The headings, the rows and the undo buffer are always of their types.
THEOREM TreeTypeCorrect == TreeSpec => []TreeTypeOK
<1>1. TreeInv => TreeTypeOK
  BY DEF TreeInv
<1> QED BY <1>1, TreeCorrect, PTL

\* Rows that describe their headings find them and give the tree of the outline.
LEMMA DescribedIs ==
  ASSUME Sound(outline, index)
  PROVE  Described
<1>1. /\ Outline(outline) /\ outline \in Seq(Heading) /\ Distinct(outline) /\ index \in Seq(IndexEntry)
      /\ IdsOf(index) = IdsOf(outline)
  BY DEF Sound, Outline
<1>2. Preorder(Kids(index)) = [i \in DOMAIN outline |-> outline[i].id]
  BY <1>1, KidsIs, PreorderIs
<1>3. ASSUME NEW e \in ToSet(index)
      PROVE  /\ Find(outline, e) # 0 /\ outline[Find(outline, e)].id = e.id
             /\ HeadingParent(outline, Find(outline, e)) = e.parent
  <2>1. PICK k \in 1..Len(index) : index[k] = e
    <3>1. DOMAIN index = 1..Len(index)
      BY <1>1, RowFields
    <3> QED BY <3>1 DEF ToSet
  <2>2. e.id \in IdsOf(index)
    BY <1>1, <2>1, RowFields
  <2>3. e = Row(index, e.id)
    BY <2>1, <2>2, RowIs
  <2>4. /\ RowDescribes(e, outline) /\ Find(outline, e) = PositionOf(outline, e.id)
        /\ PositionOf(outline, e.id) \in 1..Len(outline) /\ outline[PositionOf(outline, e.id)].id = e.id
    BY <2>2, <2>3, RowIs
  <2>5. PositionOf(outline, e.id) # 0
    BY <2>4 DEF RowDescribes
  <2> QED BY <2>4, <2>5 DEF RowDescribes, ParentOf
<1> QED BY <1>2, <1>3 DEF Described

\* No sequence of insertions, indents, outdents, moves, renames, deletions and
\* undos gives a section another section's heading, whatever the number of
\* sections - unless twins were torn apart or an undo came too late.
THEOREM SectionsAlwaysKeepHeadings == TreeSpec => []SectionsKeepHeadings
<1>1. TreeInv => SectionsKeepHeadings
  BY DescribedIs DEF TreeInv, SectionsKeepHeadings
<1> QED BY <1>1, TreeCorrect, PTL

LEMMA AtMostOne ==
  ASSUME NEW S, NEW x, \A y \in S : y = x
  PROVE  Cardinality(S) <= 1
<1>1. IsFiniteSet({x}) /\ Cardinality({x}) = 1
  BY FS_Singleton
<1>2. S \subseteq {x}
  OBVIOUS
<1>3. Cardinality(S) <= Cardinality({x})
  BY <1>1, <1>2, FS_Subset
<1> QED BY <1>1, <1>3

\* Every structure operation changes the parent of one section at most: the
\* subtree it moves takes its own sections along and leaves all others.
THEOREM OneSubtreeAlwaysMoves == TreeSpec => OneSubtreeMoves
<1>1. ASSUME TreeInv, [TreeNext]_treeVars, ~tangled'
      PROVE  Cardinality({id \in IdsOf(index) \cap IdsOf(index)' :
                            ParentOf(outline, id) # ParentOf(outline', id)}) <= 1
  <2>1. PICK x : Others(x)
    BY <1>1, TreeStep DEF OneMoves
  <2>2. \A y \in {id \in IdsOf(index) \cap IdsOf(index)' :
                    ParentOf(outline, id) # ParentOf(outline', id)} : y = x
    BY <2>1 DEF Others
  <2> QED BY <2>2, AtMostOne
<1>2. TreeInv /\ [TreeNext]_treeVars =>
        [~tangled' => Cardinality({id \in IdsOf(index) \cap IdsOf(index)' :
                                     ParentOf(outline, id) # ParentOf(outline', id)}) <= 1]_treeVars
  BY <1>1
<1> QED BY <1>2, TreeCorrect, PTL DEF TreeSpec, OneSubtreeMoves

\* An undo with nothing in between restores the headings and the tree that were
\* there before the deletion, whatever the deleted subtree and its place.
THEOREM UndosAreExact == TreeSpec => UndoIsExact
<1>1. TreeInv /\ [TreeNext]_treeVars =>
        [(undoable # NoUndo /\ undoable' = NoUndo /\ index' # index /\ ~touched) =>
           outline' = undoable.doc /\ Kids(index)' = undoable.kids]_treeVars
  <2> SUFFICES ASSUME TreeInv, [TreeNext]_treeVars, undoable # NoUndo, undoable' = NoUndo, index' # index, ~touched
               PROVE  outline' = undoable.doc /\ Kids(index)' = undoable.kids
    OBVIOUS
  <2>1. outline' = undoable.doc /\ Kids(index') = undoable.kids
    BY TreeStep
  <2> QED BY <2>1
<1> QED BY <1>1, TreeCorrect, PTL DEF TreeSpec, UndoIsExact
=============================================================================
