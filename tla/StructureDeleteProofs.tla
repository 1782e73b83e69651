----------------------- MODULE StructureDeleteProofs ------------------------
(* Proofs about StructureDelete, for any number of chapters, clicks, crashes, *)
(* failed steps and switches of the project.                                  *)
EXTENDS StructureDelete, WellFoundedInduction, NaturalsInduction, SequenceTheorems, TLAPS

(* Sequences: what the journal and the document look like afterwards.         *)

\* A set of natural numbers has a least one, and a bounded set a greatest.
LEMMA LeastNumber ==
  ASSUME NEW B, B \subseteq Nat, B # {}
  PROVE  \E m \in B : \A k \in B : m <= k
<1>1. PICK m \in B : \A k \in B : ~ (<<k, m>> \in OpToRel(<, Nat))
  BY WFMin, NatLessThanWellFounded
<1>2. ASSUME NEW k \in B PROVE m <= k
  <2>1. k < m => <<k, m>> \in OpToRel(<, Nat)
    BY SMT DEF OpToRel
  <2>2. ~(k < m)
    BY <1>1, <2>1, Zenon
  <2> QED BY <2>2
<1> QED BY <1>2

LEMMA LeastIsMin ==
  ASSUME NEW B, B \subseteq Nat, B # {}
  PROVE  Min(B) \in B /\ \A k \in B : Min(B) <= k
BY LeastNumber DEF Min

LEMMA GreatestIsMax ==
  ASSUME NEW n \in Nat, NEW B, B \subseteq 0..n, B # {}
  PROVE  Max(B) \in B /\ \A k \in B : Max(B) >= k
<1> DEFINE D == {d \in 0..n : n - d \in B}
<1>0. D \subseteq Nat
  OBVIOUS
<1>1. D # {}
  <2>1. PICK k \in B : TRUE
    OBVIOUS
  <2>2. n - k \in 0..n /\ n - (n - k) = k
    BY <2>1
  <2>3. n - k \in D
    BY <2>1, <2>2
  <2> QED BY <2>3
<1>2. PICK d \in D : \A e \in D : d <= e
  BY <1>0, <1>1, LeastNumber
<1>3. ASSUME NEW k \in B PROVE n - d >= k
  <2>1. n - k \in 0..n /\ n - (n - k) = k
    OBVIOUS
  <2>2. n - k \in D
    BY <2>1
  <2> QED BY <1>2, <2>1, <2>2
<1> QED BY <1>2, <1>3 DEF Max

\* What a sequence holds.
LEMMA AppendedSet ==
  ASSUME NEW S, NEW s \in Seq(S), NEW e \in S
  PROVE  ToSet(Append(s, e)) = ToSet(s) \cup {e}
<1>1. DOMAIN Append(s, e) = 1..Len(s) + 1 /\ DOMAIN s = 1..Len(s) /\ Len(s) \in Nat
  OBVIOUS
<1>2. \A i \in 1..Len(s) : Append(s, e)[i] = s[i]
  OBVIOUS
<1>3. Append(s, e)[Len(s) + 1] = e
  OBVIOUS
<1> QED BY <1>1, <1>2, <1>3 DEF ToSet

\* Induction on a natural number up to a bound.
LEMMA UpTo ==
  ASSUME NEW n \in Nat, NEW P, 0 \in P,
         \A k \in 0..n : k < n /\ k \in P => k + 1 \in P
  PROVE  \A k \in 0..n : k \in P
<1> DEFINE B == (0..n) \ P
<1> SUFFICES ASSUME B # {} PROVE FALSE
  OBVIOUS
<1>0. B \subseteq Nat
  OBVIOUS
<1>1. PICK m \in B : \A k \in B : m <= k
  BY <1>0, LeastNumber
<1>2. m \in 0..n /\ m \notin P /\ m # 0
  BY <1>1
<1>3. m - 1 \in 0..n /\ m - 1 < n /\ m - 1 + 1 = m /\ ~(m <= m - 1)
  BY <1>2
<1>4. m - 1 \in P
  BY <1>1, <1>3
<1> QED BY <1>2, <1>3, <1>4

\* Taking entries out of the journal.
LEMMA WithoutIs ==
  ASSUME NEW S, journal \in Seq(S), NEW X
  PROVE  Without(X) \in Seq(S) /\ ToSet(Without(X)) = ToSet(journal) \ X
<1> DEFINE N == Len(journal)
           step(f, n) == IF n = 0 THEN <<>>
                         ELSE IF journal[n] \in X THEN f[n - 1]
                         ELSE Append(f[n - 1], journal[n])
           fits(f, m) == f \in [0..m -> Seq(S)] /\ \A n \in 0..m : f[n] = step(f, n)
           P == {m \in 0..N : \E f : fits(f, m)}
<1>1. N \in Nat /\ \A n \in 1..N : journal[n] \in S
  OBVIOUS
<1>2. 0 \in P
  <2> DEFINE f == [n \in 0..0 |-> <<>>]
  <2>1. f \in [0..0 -> Seq(S)] /\ \A n \in 0..0 : f[n] = step(f, n)
    OBVIOUS
  <2>2. fits(f, 0)
    BY <2>1
  <2> HIDE DEF f, fits
  <2> QED BY <2>2, <1>1
<1>3. ASSUME NEW m \in 0..N, m < N, m \in P PROVE m + 1 \in P
  <2>1. PICK f : fits(f, m)
    BY <1>3
  <2>2. journal[m + 1] \in S
    BY <1>1, <1>3
  <2> DEFINE last == IF journal[m + 1] \in X THEN f[m] ELSE Append(f[m], journal[m + 1])
             g == [n \in 0..m + 1 |-> IF n <= m THEN f[n] ELSE last]
  <2>0. last \in Seq(S)
    BY <2>1, <2>2
  <2>3. g \in [0..m + 1 -> Seq(S)]
    BY <2>1, <2>0
  <2>4. ASSUME NEW n \in 0..m + 1 PROVE g[n] = step(g, n)
    <3>1. CASE n = 0 BY <3>1, <2>1
    <3>2. CASE n \in 1..m
      <4>1. g[n] = f[n] /\ g[n - 1] = f[n - 1] /\ n \in 0..m /\ n # 0
        BY <3>2
      <4>2. f[n] = step(f, n)
        BY <2>1, <4>1
      <4> QED BY <4>1, <4>2
    <3>3. CASE n = m + 1
      <4>1. g[n] = last /\ n - 1 = m /\ g[n - 1] = f[m] /\ n # 0
        BY <3>3
      <4> QED BY <4>1, <3>3
    <3> QED BY <3>1, <3>2, <3>3
  <2>5. fits(g, m + 1)
    BY <2>3, <2>4
  <2> HIDE DEF g, fits
  <2> QED BY <2>5, <1>1, <1>3
<1>4. N \in P
  <2> HIDE DEF P
  <2>1. \A k \in 0..N : k < N /\ k \in P => k + 1 \in P
    BY <1>3
  <2>2. \A k \in 0..N : k \in P
    BY <1>1, <1>2, <2>1, UpTo
  <2> QED BY <1>1, <2>2
<1>5. PICK f : fits(f, N)
  BY <1>4
<1>6. f = [n \in 0..N |-> step(f, n)]
  BY <1>5
<1> DEFINE kept == CHOOSE k : k = [n \in 0..N |-> step(k, n)]
<1>7. kept = [n \in 0..N |-> step(kept, n)]
  BY <1>6
<1>8. Without(X) = kept[N]
  BY DEF Without
<1> HIDE DEF kept
<1>9. \A n \in 0..N : kept[n] = step(kept, n)
  BY <1>7
<1> DEFINE Q == {n \in 0..N : /\ kept[n] \in Seq(S)
                              /\ ToSet(kept[n]) = {journal[i] : i \in 1..n} \ X}
<1>10. 0 \in Q
  <2>1. 0 \in 0..N /\ kept[0] = <<>>
    BY <1>1, <1>9
  <2>2. ToSet(<<>>) = {} /\ <<>> \in Seq(S) /\ {journal[i] : i \in 1..0} = {}
    BY DEF ToSet
  <2> QED BY <2>1, <2>2
<1>11. ASSUME NEW n \in 0..N, n < N, n \in Q PROVE n + 1 \in Q
  <2>1. n + 1 \in 1..N /\ n + 1 - 1 = n /\ journal[n + 1] \in S
    BY <1>1, <1>11
  <2>2. {journal[i] : i \in 1..n + 1} = {journal[i] : i \in 1..n} \cup {journal[n + 1]}
    BY <2>1
  <2>3. kept[n + 1] = IF journal[n + 1] \in X THEN kept[n]
                      ELSE Append(kept[n], journal[n + 1])
    BY <1>9, <2>1
  <2>4. ToSet(Append(kept[n], journal[n + 1])) = ToSet(kept[n]) \cup {journal[n + 1]}
    BY <1>11, <2>1, AppendedSet
  <2>5. kept[n + 1] \in Seq(S)
    BY <1>11, <2>1, <2>3
  <2>6. ToSet(kept[n + 1]) = {journal[i] : i \in 1..n + 1} \ X
    <3>1. CASE journal[n + 1] \in X BY <3>1, <1>11, <2>2, <2>3
    <3>2. CASE journal[n + 1] \notin X BY <3>2, <1>11, <2>2, <2>3, <2>4
    <3> QED BY <3>1, <3>2
  <2>7. n + 1 \in 0..N
    BY <2>1
  <2> QED BY <2>5, <2>6, <2>7
<1>12. N \in Q
  <2> HIDE DEF Q
  <2>1. \A k \in 0..N : k < N /\ k \in Q => k + 1 \in Q
    BY <1>11
  <2>2. \A k \in 0..N : k \in Q
    BY <1>1, <1>10, <2>1, UpTo
  <2> QED BY <1>1, <2>2
<1>13. ToSet(journal) = {journal[i] : i \in 1..N}
  BY DEF ToSet
<1> QED BY <1>8, <1>12, <1>13

\* Looking for an element.
LEMMA ContainsIs ==
  ASSUME NEW S, NEW s \in Seq(S), NEW e
  PROVE  Contains(s, e) <=> e \in ToSet(s)
<1>1. DOMAIN s = 1..Len(s) OBVIOUS
<1> QED BY <1>1 DEF Contains, ToSet

\* The first and the last of some positions, as SelectInSeq and
\* SelectLastInSeq look for them.
LEMMA FirstOf ==
  ASSUME NEW n \in Nat, NEW I, I \subseteq 1..n
  PROVE  LET at == IF I # {} THEN Min(I) ELSE 0
         IN at \in 0..n /\ (at # 0 <=> I # {}) /\ (I # {} => at \in I)
<1>1. I \subseteq Nat OBVIOUS
<1>2. CASE I # {}
  <2> DEFINE at == Min(I)
  <2>1. at \in I BY <1>1, <1>2, LeastIsMin
  <2> HIDE DEF at
  <2>2. at \in 1..n BY <2>1
  <2>3. at \in 0..n /\ at # 0 BY <2>2
  <2>4. (IF I # {} THEN Min(I) ELSE 0) = at BY <1>2 DEF at
  <2> QED BY <1>2, <2>1, <2>3, <2>4
<1>3. CASE I = {}
  BY <1>3
<1> QED BY <1>2, <1>3

LEMMA LastOf ==
  ASSUME NEW n \in Nat, NEW I, I \subseteq 1..n
  PROVE  LET at == IF I # {} THEN Max(I) ELSE 0
         IN at \in 0..n /\ (at # 0 <=> I # {}) /\ (I # {} => at \in I)
<1>1. I \subseteq 0..n OBVIOUS
<1>2. CASE I # {}
  <2> DEFINE at == Max(I)
  <2>1. at \in I BY <1>1, <1>2, GreatestIsMax
  <2> HIDE DEF at
  <2>2. at \in 1..n BY <2>1
  <2>3. at \in 0..n /\ at # 0 BY <2>2
  <2>4. (IF I # {} THEN Max(I) ELSE 0) = at BY <1>2 DEF at
  <2> QED BY <1>2, <2>1, <2>3, <2>4
<1>3. CASE I = {}
  BY <1>3
<1> QED BY <1>2, <1>3

\* An element stands in a sequence at most once.
Once(s, e) == \A i, j \in DOMAIN s : s[i] = e /\ s[j] = e => i = j

LEMMA InsertedIs ==
  ASSUME NEW S, NEW s \in Seq(S), NEW e \in S, NEW k \in 1..Len(s) + 1
  PROVE  /\ InsertAt(s, k, e) \in Seq(S)
         /\ DOMAIN InsertAt(s, k, e) = 1..Len(s) + 1
         /\ \A i \in 1..Len(s) + 1 :
              InsertAt(s, k, e)[i] = IF i < k THEN s[i] ELSE IF i = k THEN e ELSE s[i - 1]
<1> DEFINE a == SubSeq(s, 1, k - 1)
           b == SubSeq(s, k, Len(s))
           t == a \o <<e>> \o b
<1>1. a \in Seq(S) /\ Len(a) = k - 1
  OBVIOUS
<1>2. b \in Seq(S) /\ Len(b) = Len(s) - k + 1
  OBVIOUS
<1>3. \A i \in 1..k - 1 : a[i] = s[i]
  OBVIOUS
<1>4. \A i \in 1..Len(s) - k + 1 : b[i] = s[i + k - 1]
  OBVIOUS
<1> HIDE DEF a, b
<1>5. t \in Seq(S) /\ Len(t) = Len(s) + 1
  BY <1>1, <1>2
<1>0. Len(s) \in Nat /\ k \in Nat /\ 1 <= k /\ k <= Len(s) + 1
  OBVIOUS
<1> DEFINE m == <<e>>
           u == a \o m
<1>6. m \in Seq(S) /\ Len(m) = 1 /\ m[1] = e
  OBVIOUS
<1> HIDE DEF m
<1>7. u \in Seq(S) /\ Len(u) = Len(a) + Len(m)
      /\ \A i \in 1..Len(a) + Len(m) : u[i] = IF i <= Len(a) THEN a[i] ELSE m[i - Len(a)]
  BY <1>1, <1>6, ConcatProperties
<1> HIDE DEF u
<1>8. \A i \in 1..Len(u) + Len(b) : (u \o b)[i] = IF i <= Len(u) THEN u[i] ELSE b[i - Len(u)]
  BY <1>2, <1>7, ConcatProperties
<1>9. t = u \o b
  BY DEF u, m
<1> HIDE DEF t
<1>10. ASSUME NEW i \in 1..Len(s) + 1
       PROVE  t[i] = IF i < k THEN s[i] ELSE IF i = k THEN e ELSE s[i - 1]
  <2>0. Len(u) = k /\ Len(u) + Len(b) = Len(s) + 1 /\ Len(a) + Len(m) = k
    BY <1>0, <1>1, <1>2, <1>6, <1>7
  <2>1. t[i] = IF i <= k THEN u[i] ELSE b[i - k]
    BY <1>8, <1>9, <2>0
  <2>2. CASE i < k
    <3>1. i \in 1..k - 1 /\ i \in 1..k /\ i <= k /\ i <= k - 1 BY <1>0, <2>2
    <3>2. u[i] = a[i] BY <1>1, <1>7, <2>0, <3>1
    <3> QED BY <2>1, <2>2, <3>1, <3>2, <1>3
  <2>3. CASE i = k
    <3>1. k \in 1..k /\ ~(k <= k - 1) /\ k - (k - 1) = 1 /\ k <= k BY <1>0
    <3>2. u[k] = m[1] BY <1>1, <1>7, <2>0, <3>1
    <3> QED BY <2>1, <2>3, <3>1, <3>2, <1>6
  <2>4. CASE i > k
    <3>1. i - k \in 1..Len(s) - k + 1 /\ i - k + k - 1 = i - 1 BY <1>0, <2>4
    <3>2. b[i - k] = s[i - 1] BY <3>1, <1>4
    <3>3. ~(i <= k) /\ ~(i < k) /\ i # k BY <1>0, <2>4
    <3> QED BY <2>1, <3>2, <3>3
  <2> QED BY <1>0, <2>2, <2>3, <2>4
<1>11. InsertAt(s, k, e) = t
  BY DEF InsertAt, a, b, t
<1> QED BY <1>5, <1>10, <1>11

LEMMA InsertedSet ==
  ASSUME NEW S, NEW s \in Seq(S), NEW e \in S, NEW k \in 1..Len(s) + 1
  PROVE  /\ ToSet(InsertAt(s, k, e)) = ToSet(s) \cup {e}
         /\ \A d : d # e /\ Once(s, d) => Once(InsertAt(s, k, e), d)
         /\ e \notin ToSet(s) => Once(InsertAt(s, k, e), e)
<1> DEFINE t == InsertAt(s, k, e)
<1>1. DOMAIN s = 1..Len(s) /\ DOMAIN t = 1..Len(s) + 1 /\ Len(s) \in Nat
  BY InsertedIs
<1>2. \A i \in 1..Len(s) + 1 : t[i] = IF i < k THEN s[i] ELSE IF i = k THEN e ELSE s[i - 1]
  BY InsertedIs
<1> HIDE DEF t
<1>3. \A i \in DOMAIN s : t[IF i < k THEN i ELSE i + 1] = s[i]
                          /\ (IF i < k THEN i ELSE i + 1) \in DOMAIN t
  BY <1>1, <1>2
<1>4. t[k] = e /\ k \in DOMAIN t
  BY <1>1, <1>2
<1>5. \A i \in DOMAIN t : i # k => t[i] = s[IF i < k THEN i ELSE i - 1]
                                   /\ (IF i < k THEN i ELSE i - 1) \in DOMAIN s
  BY <1>1, <1>2
<1>6. ToSet(t) = ToSet(s) \cup {e}
  <2>1. ToSet(s) \subseteq ToSet(t) BY <1>3 DEF ToSet
  <2>2. e \in ToSet(t) BY <1>4 DEF ToSet
  <2>3. ToSet(t) \subseteq ToSet(s) \cup {e} BY <1>4, <1>5 DEF ToSet
  <2> QED BY <2>1, <2>2, <2>3
<1>7. ASSUME NEW d, d # e, Once(s, d) PROVE Once(t, d)
  <2> SUFFICES ASSUME NEW i \in DOMAIN t, NEW j \in DOMAIN t, t[i] = d, t[j] = d PROVE i = j
    BY DEF Once
  <2>1. i # k /\ j # k BY <1>4, <1>7
  <2>2. (IF i < k THEN i ELSE i - 1) = (IF j < k THEN j ELSE j - 1)
    BY <1>5, <1>7, <2>1 DEF Once
  <2> QED BY <1>1, <2>1, <2>2
<1>8. e \notin ToSet(s) => Once(t, e)
  BY <1>4, <1>5 DEF Once, ToSet
<1> QED BY <1>6, <1>7, <1>8 DEF t

LEMMA RemovedIs ==
  ASSUME NEW S, NEW s \in Seq(S), NEW e
  PROVE  /\ RemoveFirst(s, e) \in Seq(S)
         /\ ToSet(s) \ {e} \subseteq ToSet(RemoveFirst(s, e))
         /\ ToSet(RemoveFirst(s, e)) \subseteq ToSet(s)
         /\ \A d : Once(s, d) => Once(RemoveFirst(s, e), d)
         /\ Once(s, e) => e \notin ToSet(RemoveFirst(s, e))
<1>0. DOMAIN s = 1..Len(s) /\ Len(s) \in Nat
  OBVIOUS
<1>1. CASE ~ \E i \in 1..Len(s) : s[i] = e
  BY <1>0, <1>1 DEF RemoveFirst, ToSet
<1>2. CASE \E i \in 1..Len(s) : s[i] = e
  <2> DEFINE k == SelectInSeq(s, LAMBDA v : v = e)
  <2>1. k \in 1..Len(s) /\ s[k] = e
    <3> DEFINE I == {i \in 1..Len(s) : s[i] = e}
    <3>1. k = IF I # {} THEN Min(I) ELSE 0
      BY DEF SelectInSeq
    <3>2. I # {} BY <1>2
    <3> HIDE DEF I, k
    <3>3. I \subseteq 1..Len(s) BY DEF I
    <3>4. k \in I BY <1>0, <3>1, <3>2, <3>3, FirstOf
    <3> QED BY <3>4 DEF I
  <2> HIDE DEF k
  <2> DEFINE a == SubSeq(s, 1, k - 1)
             b == SubSeq(s, k + 1, Len(s))
             t == a \o b
  <2>2. a \in Seq(S) /\ Len(a) = k - 1 /\ b \in Seq(S) /\ Len(b) = Len(s) - k
    BY <2>1
  <2>3. \A i \in 1..k - 1 : a[i] = s[i]
    BY <2>1
  <2>4. \A i \in 1..Len(s) - k : b[i] = s[i + k]
    BY <2>1
  <2> HIDE DEF a, b
  <2>5. t \in Seq(S) /\ DOMAIN t = 1..Len(s) - 1
    BY <2>1, <2>2
  <2>6. \A i \in 1..Len(s) - 1 : t[i] = IF i < k THEN s[i] ELSE s[i + 1]
    BY <2>1, <2>2, <2>3, <2>4
  <2>7. RemoveFirst(s, e) = t
    BY <1>2 DEF RemoveFirst, RemoveAt, a, b, k
  <2> HIDE DEF t
  <2>8. \A i \in DOMAIN s : i # k => t[IF i < k THEN i ELSE i - 1] = s[i]
                                     /\ (IF i < k THEN i ELSE i - 1) \in DOMAIN t
    BY <1>0, <2>1, <2>5, <2>6
  <2>9. \A i \in DOMAIN t : t[i] = s[IF i < k THEN i ELSE i + 1]
                            /\ (IF i < k THEN i ELSE i + 1) \in DOMAIN s
                            /\ (IF i < k THEN i ELSE i + 1) # k
    BY <1>0, <2>1, <2>5, <2>6
  <2>10. ToSet(s) \ {e} \subseteq ToSet(t)
    BY <2>1, <2>8 DEF ToSet
  <2>11. ToSet(t) \subseteq ToSet(s)
    BY <2>9 DEF ToSet
  <2>12. ASSUME NEW d, Once(s, d) PROVE Once(t, d)
    <3> SUFFICES ASSUME NEW i \in DOMAIN t, NEW j \in DOMAIN t, t[i] = d, t[j] = d PROVE i = j
      BY DEF Once
    <3>1. (IF i < k THEN i ELSE i + 1) = (IF j < k THEN j ELSE j + 1)
      BY <2>9, <2>12 DEF Once
    <3> QED BY <2>1, <2>5, <3>1
  <2>13. Once(s, e) => e \notin ToSet(t)
    BY <1>0, <2>1, <2>9 DEF Once, ToSet
  <2> QED BY <2>5, <2>7, <2>10, <2>11, <2>12, <2>13
<1> QED BY <1>1, <1>2

-----------------------------------------------------------------------------
(* Types, and to which chapter the number of a deletion belongs.              *)

Ids == 1..MaxDeleteClicks

JournalEntry == {e \in Entry : e.id \in Ids}

CallPlaces == DeleteSteps \cup RollbackSteps \cup UndoSteps

CallType == [kind : Kinds, id : 0..MaxDeleteClicks, sec : 0..NumChapters,
             at : CallPlaces, doc : Seq(Chapters), entry : JournalEntry \cup {None}]

ReplyType == [kind : Kinds \ {"startup"}, id : 0..MaxDeleteClicks,
              sec : 0..NumChapters, ok : BOOLEAN]

\* A handler has its chapter in hand: it has decided to delete or to restore it.
InHand(c) == \/ c.kind = "delete" /\ c.at \notin {"flush", "read"}
             \/ c.kind \in {"undo", "startup"} /\ c.at # "find"

\* Each kind of handler is at one of its own places, and what is in hand has
\* an entry for the journal.
WellPlaced(c) ==
  /\ c.kind = "delete" => /\ c.at \in DeleteSteps \cup RollbackSteps
                          /\ c.id \in Ids /\ c.sec \in Chapters
  /\ c.kind \in {"undo", "startup"} => c.at \in UndoSteps
  /\ c.kind = "startup" => c.at # "find"
  /\ c.kind = "finalize" => c.at = "drop"
  /\ c.kind = "hydrate" => c.at = "read" /\ c.id = 0
  /\ InHand(c) => /\ c.entry \in JournalEntry
                  /\ c.entry.id = c.id /\ c.entry.sec = c.sec

StoresTyped ==
  /\ proposal \in Seq(Chapters) /\ sectionIndex \subseteq Chapters
  /\ journal \in Seq(JournalEntry) /\ boot \in Seq(JournalEntry)
  /\ notes \in [Chapters -> Nat] /\ rows \subseteq Chapters /\ summaries \subseteq Chapters

CallsTyped == calls \subseteq CallType /\ \A c \in calls : WellPlaced(c)

RendererTyped ==
  /\ replies \in Seq(ReplyType)
  /\ window \in [id : 0..MaxDeleteClicks, sec : 0..NumChapters]
  /\ timer \in 0..MaxDeleteClicks
  /\ mutating \in BOOLEAN /\ bound \in BOOLEAN

GhostsTyped ==
  /\ gone \subseteq Chapters /\ botched \subseteq Chapters /\ rushed \in BOOLEAN
  /\ budget \in [click : 0..MaxDeleteClicks, trouble : Nat]

Typed == StoresTyped /\ CallsTyped /\ RendererTyped /\ GhostsTyped

\* Somewhere deletion i is known as that of chapter c.
Knows(i, c) ==
  \/ \E e \in ToSet(journal) \cup ToSet(boot) : e.id = i /\ e.sec = c
  \/ \E d \in calls : d.kind \in {"delete", "undo", "startup"} /\ d.id = i /\ d.sec = c
  \/ \E r \in ToSet(replies) : r.kind \in {"delete", "hydrate"} /\ r.id = i /\ r.sec = c
  \/ window.id = i /\ window.sec = c

\* The number of a deletion is used once, and every one knows its chapter.
OneChapterEach ==
  \A i \in Ids, c \in 0..NumChapters : Knows(i, c) =>
    /\ i > budget.click /\ c \in Chapters
    /\ \A d \in 0..NumChapters : Knows(i, d) => d = c

Sane == Typed /\ OneChapterEach

LEMMA KnowsFrame ==
  ASSUME OneChapterEach, Typed, budget'.click \in Int, budget'.click <= budget.click,
         \A i \in Ids, c \in 0..NumChapters : Knows(i, c)' => Knows(i, c)
  PROVE  OneChapterEach'
BY DEF OneChapterEach, Ids, Typed, GhostsTyped

LEMMA CallMoved ==
  ASSUME NEW c \in CallType, NEW a \in CallPlaces
  PROVE  /\ [c EXCEPT !.at = a] \in CallType
         /\ [c EXCEPT !.at = a].at = a
         /\ [c EXCEPT !.at = a].kind = c.kind
         /\ [c EXCEPT !.at = a].id = c.id
         /\ [c EXCEPT !.at = a].sec = c.sec
         /\ [c EXCEPT !.at = a].doc = c.doc
         /\ [c EXCEPT !.at = a].entry = c.entry
BY DEF CallType

LEMMA RestoredIs ==
  ASSUME NEW doc \in Seq(Chapters), NEW e \in Entry
  PROVE  /\ Restored(doc, e) \in Seq(Chapters)
         /\ ToSet(Restored(doc, e)) = ToSet(doc) \cup {e.sec}
         /\ \A d : d # e.sec /\ Once(doc, d) => Once(Restored(doc, e), d)
         /\ e.sec \notin ToSet(doc) => Once(Restored(doc, e), e.sec)
<1> DEFINE I == {i \in 1..Len(doc) : doc[i] = e.prev}
           at == SelectInSeq(doc, LAMBDA c : c = e.prev)
           k == IF e.prev # 0 /\ Contains(doc, e.prev) THEN at + 1 ELSE 1
<1>1. Len(doc) \in Nat /\ e.sec \in Chapters
  BY DEF Entry
<1>2. at = IF I # {} THEN Min(I) ELSE 0
  BY DEF SelectInSeq
<1> HIDE DEF at, I
<1>3. at \in 0..Len(doc)
  <2>1. I \subseteq 1..Len(doc) BY DEF I
  <2> QED BY <1>1, <1>2, <2>1, FirstOf
<1>4. k \in 1..Len(doc) + 1
  BY <1>1, <1>3
<1>5. Restored(doc, e) = InsertAt(doc, k, e.sec)
  BY DEF Restored, at
<1> HIDE DEF k
<1> QED BY <1>1, <1>4, <1>5, InsertedIs, InsertedSet

\* The entries a finalized or undone deletion takes with it.
LEMMA WindowIs ==
  ASSUME journal \in Seq(JournalEntry), NEW i
  PROVE  /\ \A e \in WindowAndOlder(i) : e \in ToSet(journal) /\ (e.id = i \/ e.stage = "active")
         /\ (\E e \in ToSet(journal) : e.id = i) => \E e \in WindowAndOlder(i) : e.id = i
<1> DEFINE I == {j \in 1..Len(journal) : journal[j].id = i}
           at == SelectInSeq(journal, LAMBDA e : e.id = i)
<1>1. Len(journal) \in Nat /\ DOMAIN journal = 1..Len(journal)
  OBVIOUS
<1>2. at = IF I # {} THEN Min(I) ELSE 0
  BY DEF SelectInSeq
<1>3. WindowAndOlder(i) =
        IF at = 0 THEN {}
        ELSE {journal[at]} \cup {journal[j] : j \in {l \in 1..at : journal[l].stage = "active"}}
  BY DEF WindowAndOlder
<1>4. (\E e \in ToSet(journal) : e.id = i) => I # {}
  BY <1>1 DEF ToSet
<1>5. at \in 0..Len(journal) /\ (at # 0 <=> I # {}) /\ (I # {} => at \in I)
  <2>1. I \subseteq 1..Len(journal) OBVIOUS
  <2> HIDE DEF I, at
  <2> QED BY <1>1, <1>2, <2>1, FirstOf
<1>6. at # 0 => at \in 1..Len(journal) /\ journal[at].id = i
  BY <1>5
<1> HIDE DEF at, I
<1>7. ASSUME NEW e \in WindowAndOlder(i)
      PROVE  e \in ToSet(journal) /\ (e.id = i \/ e.stage = "active")
  <2>1. at # 0 BY <1>3
  <2>2. CASE e = journal[at] BY <1>1, <1>6, <2>1, <2>2 DEF ToSet
  <2>3. CASE \E j \in 1..at : journal[j].stage = "active" /\ e = journal[j]
    <3>1. PICK j \in 1..at : journal[j].stage = "active" /\ e = journal[j] BY <2>3
    <3>2. j \in 1..Len(journal) BY <1>1, <1>6, <2>1
    <3> QED BY <1>1, <3>1, <3>2 DEF ToSet
  <2> QED BY <1>3, <2>1, <2>2, <2>3
<1>8. (\E e \in ToSet(journal) : e.id = i) => \E e \in WindowAndOlder(i) : e.id = i
  BY <1>3, <1>4, <1>5, <1>6
<1> QED BY <1>7, <1>8

LEMMA StageIs ==
  ASSUME journal \in Seq(JournalEntry), NEW e \in JournalEntry, StageEntry(e)
  PROVE  /\ journal' \in Seq(JournalEntry)
         /\ ToSet(journal') = (ToSet(journal) \ OfStage("active")) \cup {e}
         /\ gone' = gone \cup Chapters_(OfStage("active"))
<1> DEFINE kept == Without(OfStage("active"))
<1>1. kept \in Seq(JournalEntry) /\ ToSet(kept) = ToSet(journal) \ OfStage("active")
  BY WithoutIs
<1>2. journal' = Append(kept, e)
  BY DEF StageEntry
<1> HIDE DEF kept
<1>3. journal' \in Seq(JournalEntry) /\ ToSet(journal') = ToSet(kept) \cup {e}
  BY <1>1, <1>2, AppendedSet
<1> QED BY <1>1, <1>3 DEF StageEntry

Flipped(e) == [e EXCEPT !.stage = "active"]

LEMMA FlippedEntry ==
  ASSUME NEW e \in JournalEntry
  PROVE  /\ Flipped(e) \in JournalEntry /\ Flipped(e).stage = "active"
         /\ Flipped(e).id = e.id /\ Flipped(e).sec = e.sec /\ Flipped(e).prev = e.prev
         /\ Flipped(e).notes = e.notes /\ Flipped(e).row = e.row /\ Flipped(e).sum = e.sum
BY DEF Flipped, JournalEntry, Entry

LEMMA FlipIs ==
  ASSUME journal \in Seq(JournalEntry), NEW i, FlipEntry(i)
  PROVE  /\ journal' \in Seq(JournalEntry)
         /\ \A f \in ToSet(journal') :
              \/ f \in ToSet(journal) /\ f.id # i /\ f.stage # "active"
              \/ \E e \in ToSet(journal) : e.id = i /\ f = Flipped(e)
              \/ f \in ToSet(journal) /\ \A e \in ToSet(journal) : e.id # i
         /\ \A e \in ToSet(journal) : e.id = i => Flipped(e) \in ToSet(journal')
         /\ \A e \in ToSet(journal) :
              e.id # i => e \in ToSet(journal') \/ (e.stage = "active" /\ e.sec \in gone')
         /\ gone' = gone \/ gone' = gone \cup Chapters_({e \in OfStage("active") : e.id # i})
<1>1. CASE ~ \E e \in ToSet(journal) : e.id = i
  BY <1>1 DEF FlipEntry
<1>2. CASE \E e \in ToSet(journal) : e.id = i
  <2> DEFINE others == {e \in OfStage("active") : e.id # i}
             kept == Without(others)
             t == [j \in DOMAIN kept |-> IF kept[j].id = i THEN [kept[j] EXCEPT !.stage = "active"]
                                         ELSE kept[j]]
  <2>1. kept \in Seq(JournalEntry) /\ ToSet(kept) = ToSet(journal) \ others
    BY WithoutIs
  <2>2. journal' = t /\ gone' = gone \cup Chapters_(others)
    BY <1>2 DEF FlipEntry
  <2> HIDE DEF kept
  <2>3. DOMAIN kept = 1..Len(kept) /\ Len(kept) \in Nat /\ \A j \in DOMAIN kept : kept[j] \in JournalEntry
    BY <2>1
  <2>4. t \in [1..Len(kept) -> JournalEntry]
    BY <2>3, FlippedEntry DEF Flipped
  <2>5. t \in Seq(JournalEntry) /\ DOMAIN t = DOMAIN kept
    BY <2>3, <2>4
  <2>6. \A j \in DOMAIN kept : t[j] = IF kept[j].id = i THEN Flipped(kept[j]) ELSE kept[j]
    BY DEF Flipped
  <2> HIDE DEF t
  <2>7. ASSUME NEW f \in ToSet(t)
        PROVE  \/ f \in ToSet(journal) /\ f.id # i /\ f.stage # "active"
               \/ \E e \in ToSet(journal) : e.id = i /\ f = Flipped(e)
    <3>1. PICK j \in DOMAIN kept : f = t[j] BY <2>5 DEF ToSet
    <3>2. kept[j] \in ToSet(journal) \ others BY <2>1 DEF ToSet
    <3> QED BY <2>6, <3>1, <3>2 DEF OfStage
  <2>8. ASSUME NEW e \in ToSet(journal), e \notin others
        PROVE  (IF e.id = i THEN Flipped(e) ELSE e) \in ToSet(t)
    <3>1. PICK j \in DOMAIN kept : e = kept[j] BY <2>1, <2>8 DEF ToSet
    <3> QED BY <2>5, <2>6, <3>1 DEF ToSet
  <2>9. \A e \in others : e.stage = "active" /\ e.id # i /\ e.sec \in Chapters_(others)
    BY DEF OfStage, Chapters_
  <2>10. \A e \in ToSet(journal) : e.id = i => Flipped(e) \in ToSet(t)
    BY <2>8, <2>9
  <2> HIDE DEF others
  <2>11. \A e \in ToSet(journal) : e.id # i =>
           e \in ToSet(t) \/ (e.stage = "active" /\ e.sec \in gone')
    BY <2>2, <2>8, <2>9
  <2> QED BY <2>2, <2>5, <2>7, <2>10, <2>11 DEF others
<1> QED BY <1>1, <1>2

-----------------------------------------------------------------------------
(* Every step keeps the types and the numbers.                                *)

LEMMA WellPlacedMoved ==
  ASSUME NEW c \in CallType, NEW a \in CallPlaces, WellPlaced(c),
         c.kind = "delete" => a \in DeleteSteps \cup RollbackSteps,
         c.kind \in {"undo", "startup"} => a \in UndoSteps \ {"find"},
         c.kind = "finalize" => a = "drop", c.kind = "hydrate" => a = "read",
         InHand(c) \/ (c.kind = "delete" /\ a \in {"flush", "read"})
           \/ c.kind \in {"finalize", "hydrate"}
  PROVE  WellPlaced([c EXCEPT !.at = a])
BY CallMoved DEF WellPlaced, InHand

LEMMA GoesSane ==
  ASSUME Sane, NEW c \in calls, NEW a \in CallPlaces, Goes(c, a),
         WellPlaced([c EXCEPT !.at = a]),
         UNCHANGED <<boot, renderer>>, budget'.click = budget.click,
         \A e \in ToSet(journal') : Knows(e.id, e.sec)
  PROVE  CallsTyped' /\ RendererTyped' /\ OneChapterEach'
<1> DEFINE d == [c EXCEPT !.at = a]
<1>1. c \in CallType BY DEF Sane, Typed, CallsTyped
<1>2. d \in CallType /\ d.kind = c.kind /\ d.id = c.id /\ d.sec = c.sec
  BY <1>1, CallMoved
<1>3. calls' = (calls \ {c}) \cup {d} /\ replies' = replies
  BY DEF Goes
<1>4. WellPlaced(d) OBVIOUS
<1> HIDE DEF d
<1>5. CallsTyped'
  BY <1>2, <1>3, <1>4 DEF Sane, Typed, CallsTyped
<1>6. RendererTyped'
  BY <1>3 DEF Sane, Typed, RendererTyped, renderer
<1>7. \A i \in Ids, s \in 0..NumChapters : Knows(i, s)' => Knows(i, s)
  BY <1>2, <1>3 DEF Knows, renderer
<1>8. OneChapterEach'
  BY <1>7, KnowsFrame DEF Sane, Typed, GhostsTyped
<1> QED BY <1>5, <1>6, <1>8

LEMMA AnswersSane ==
  ASSUME Sane, NEW c \in calls, NEW i \in 0..MaxDeleteClicks, NEW s \in 0..NumChapters,
         NEW ok \in BOOLEAN, Answers(c, i, s, ok),
         c.kind \in {"delete", "hydrate"} /\ i # 0 => Knows(i, s),
         UNCHANGED <<boot, renderer>>, budget'.click = budget.click,
         \A e \in ToSet(journal') : Knows(e.id, e.sec)
  PROVE  CallsTyped' /\ RendererTyped' /\ OneChapterEach'
<1> DEFINE r == [kind |-> c.kind, id |-> i, sec |-> s, ok |-> ok]
<1>1. c \in CallType /\ replies \in Seq(ReplyType) /\ budget.click \in Int
  BY DEF Sane, Typed, CallsTyped, RendererTyped, GhostsTyped
<1>2. calls' = calls \ {c}
  BY DEF Answers
<1>3. \/ replies' = replies
      \/ c.kind # "startup" /\ replies' = Append(replies, r)
  BY DEF Answers
<1>4. c.kind # "startup" => r \in ReplyType
  BY <1>1 DEF CallType, ReplyType
<1>5. r.kind = c.kind /\ r.id = i /\ r.sec = s
  OBVIOUS
<1> HIDE DEF r
<1>6. replies' \in Seq(ReplyType) /\ (ToSet(replies') = ToSet(replies)
        \/ (c.kind # "startup" /\ ToSet(replies') = ToSet(replies) \cup {r}))
  <2>1. CASE replies' = replies BY <1>1, <2>1
  <2>2. CASE c.kind # "startup" /\ replies' = Append(replies, r)
    <3>1. replies' \in Seq(ReplyType) BY <1>1, <1>4, <2>2
    <3>2. ToSet(replies') = ToSet(replies) \cup {r} BY <1>1, <1>4, <2>2, AppendedSet
    <3> QED BY <2>2, <3>1, <3>2
  <2> QED BY <1>3, <2>1, <2>2
<1>7. CallsTyped'
  BY <1>2 DEF Sane, Typed, CallsTyped
<1>8. RendererTyped'
  BY <1>6 DEF Sane, Typed, RendererTyped, renderer
<1>9. \A j \in Ids, t \in 0..NumChapters : Knows(j, t)' => Knows(j, t)
  BY <1>2, <1>5, <1>6 DEF Knows, renderer, Ids
<1>10. OneChapterEach'
  BY <1>1, <1>9, KnowsFrame DEF Sane
<1> QED BY <1>7, <1>8, <1>10

\* Most steps leave the journal alone or make it shorter.
LEMMA JournalKnown ==
  ASSUME ToSet(journal') \subseteq ToSet(journal)
  PROVE  \A e \in ToSet(journal') : Knows(e.id, e.sec)
BY DEF Knows

LEMMA JournalUnchanged ==
  ASSUME journal' = journal PROVE \A e \in ToSet(journal') : Knows(e.id, e.sec)
BY DEF Knows

LEMMA MergedTyped ==
  ASSUME StoresTyped, NEW e \in JournalEntry, MergeMeta(e)
  PROVE  sectionIndex' \subseteq Chapters /\ notes' \in [Chapters -> Nat]
BY DEF StoresTyped, MergeMeta, JournalEntry, Entry

LEMMA PreviousSiblingTyped ==
  ASSUME sectionIndex \subseteq Chapters, NEW c \in Chapters
  PROVE  /\ PreviousSibling(c) \in 0..NumChapters
         /\ PreviousSibling(c) < c
         /\ PreviousSibling(c) = 0 \/ PreviousSibling(c) \in sectionIndex
         /\ \A d \in sectionIndex : d < c => d <= PreviousSibling(c)
<1> DEFINE B == {0} \cup {d \in sectionIndex : d < c}
<1>1. NumChapters \in Nat
  BY DeleteAssumption
<1>2. c \in 1..NumChapters /\ \A d \in sectionIndex : d \in 1..NumChapters
  BY DEF Chapters
<1>3. c \in Nat /\ c > 0
  BY <1>1, <1>2
<1>4. \A d \in B : d < c /\ (d = 0 \/ d \in sectionIndex)
  BY <1>3
<1>5. PreviousSibling(c) = Max(B)
  BY DEF PreviousSibling
<1>6. \A d \in sectionIndex : d < c => d \in B
  OBVIOUS
<1>7. 0 \in B
  OBVIOUS
<1> HIDE DEF B
<1>8. ASSUME NEW d \in B PROVE d \in 0..NumChapters
  <2>1. d = 0 \/ d \in 1..NumChapters BY <1>2, <1>4
  <2> QED BY <1>1, <2>1
<1>9. B \subseteq 0..NumChapters /\ B # {}
  BY <1>7, <1>8
<1>10. Max(B) \in B /\ \A k \in B : Max(B) >= k
  BY <1>1, <1>9, GreatestIsMax
<1>11. Max(B) \in 0..NumChapters
  BY <1>8, <1>10
<1>12. ASSUME NEW d \in sectionIndex, d < c PROVE d <= Max(B)
  <2>1. d \in B BY <1>6, <1>12
  <2>2. d \in 0..NumChapters BY <1>8, <2>1
  <2> QED BY <1>10, <1>11, <2>1, <2>2
<1> QED BY <1>4, <1>5, <1>10, <1>11, <1>12

\* What a handler is, by its kind and place.
LEMMA CallIs ==
  ASSUME Sane, NEW c \in calls
  PROVE  /\ c \in CallType /\ WellPlaced(c)
         /\ c.kind \in Kinds /\ c.id \in 0..MaxDeleteClicks /\ c.sec \in 0..NumChapters
         /\ c.at \in CallPlaces /\ c.doc \in Seq(Chapters)
         /\ InHand(c) => /\ c.entry \in JournalEntry /\ c.entry.id = c.id
                         /\ c.entry.sec = c.sec /\ c.sec \in Chapters /\ c.id \in Ids
BY DEF Sane, Typed, CallsTyped, CallType, WellPlaced, JournalEntry, Entry

LEMMA DeleteReadSane ==
  ASSUME Sane, NEW c \in calls, c.kind = "delete", DeleteRead(c),
         UNCHANGED <<boot, renderer, budget>>
  PROVE  Sane'
<1>1. c \in CallType /\ WellPlaced(c) BY CallIs
<1>2. StoresTyped' /\ GhostsTyped'
  BY DEF DeleteRead, stores, ghosts, Sane, Typed, StoresTyped, GhostsTyped
<1>3. \A e \in ToSet(journal') : Knows(e.id, e.sec)
  BY JournalUnchanged DEF DeleteRead, stores
<1>4. c.id \in Ids /\ c.sec \in Chapters /\ c.id \in 0..MaxDeleteClicks /\ c.sec \in 0..NumChapters
  BY <1>1 DEF WellPlaced, CallType
<1>5. CASE c.sec \in sectionIndex /\ Contains(proposal, c.sec)
  <2> DEFINE e == [id |-> c.id, sec |-> c.sec, stage |-> "staged",
                   prev |-> PreviousSibling(c.sec), notes |-> notes[c.sec],
                   row |-> c.sec \in rows, sum |-> c.sec \in summaries]
             d == [c EXCEPT !.at = "stage", !.doc = proposal, !.entry = e]
  <2>1. PreviousSibling(c.sec) \in 0..NumChapters
    BY <1>4, PreviousSiblingTyped DEF Sane, Typed, StoresTyped
  <2>2. notes[c.sec] \in Nat
    BY <1>4 DEF Sane, Typed, StoresTyped
  <2>3. e \in JournalEntry /\ e.id = c.id /\ e.sec = c.sec
    BY <1>4, <2>1, <2>2 DEF JournalEntry, Entry, Ids
  <2> HIDE DEF e
  <2>4. d \in CallType /\ d.kind = "delete" /\ d.at = "stage" /\ d.id = c.id /\ d.sec = c.sec
        /\ d.entry = e
    BY <1>1, <2>3 DEF CallType, CallPlaces, DeleteSteps, Sane, Typed, StoresTyped
  <2>5. WellPlaced(d)
    BY <1>4, <2>3, <2>4 DEF WellPlaced, DeleteSteps, RollbackSteps
  <2>6. calls' = (calls \ {c}) \cup {d} /\ replies' = replies
    BY <1>5 DEF DeleteRead, e
  <2> HIDE DEF d
  <2>7. CallsTyped'
    BY <2>4, <2>5, <2>6 DEF Sane, Typed, CallsTyped
  <2>8. RendererTyped'
    BY <2>6 DEF Sane, Typed, RendererTyped, renderer
  <2>9. \A i \in Ids, s \in 0..NumChapters : Knows(i, s)' => Knows(i, s)
    BY <1>3, <2>4, <2>6 DEF Knows, renderer
  <2>10. OneChapterEach'
    BY <2>9, KnowsFrame DEF Sane, Typed, GhostsTyped
  <2> QED BY <1>2, <2>7, <2>8, <2>10 DEF Sane, Typed
<1>6. CASE ~(c.sec \in sectionIndex /\ Contains(proposal, c.sec))
  <2>1. Answers(c, c.id, c.sec, FALSE)
    BY <1>6 DEF DeleteRead
  <2>2. Knows(c.id, c.sec)
    BY DEF Knows
  <2>3. CallsTyped' /\ RendererTyped' /\ OneChapterEach'
    BY <1>3, <1>4, <2>1, <2>2, AnswersSane
  <2> QED BY <1>2, <2>3 DEF Sane, Typed
<1> QED BY <1>5, <1>6

LEMMA DeleteStageSane ==
  ASSUME Sane, NEW c \in calls, c.kind = "delete", DeleteStage(c),
         UNCHANGED <<boot, renderer, budget>>
  PROVE  Sane'
<1> USE DEF DeleteStage
<1>1. c \in CallType /\ WellPlaced(c) /\ InHand(c) BY CallIs DEF InHand
<1>2. c.entry \in JournalEntry /\ c.entry.id = c.id /\ c.entry.sec = c.sec /\ c.sec \in Chapters
  BY <1>1, CallIs
<1>3. /\ journal' \in Seq(JournalEntry)
      /\ ToSet(journal') = (ToSet(journal) \ OfStage("active")) \cup {c.entry}
      /\ gone' = gone \cup Chapters_(OfStage("active"))
  BY <1>2, StageIs DEF Sane, Typed, StoresTyped
<1>4. Knows(c.entry.id, c.entry.sec)
  BY <1>2 DEF Knows
<1>5. \A e \in ToSet(journal') : Knows(e.id, e.sec)
  BY <1>3, <1>4 DEF Knows
<1>6. WellPlaced([c EXCEPT !.at = "summaries"])
  BY <1>1, WellPlacedMoved DEF CallPlaces, DeleteSteps
<1>7. CallsTyped' /\ RendererTyped' /\ OneChapterEach'
  BY <1>5, <1>6, GoesSane DEF CallPlaces, DeleteSteps
<1>8. StoresTyped'
  BY <1>2, <1>3 DEF Sane, Typed, StoresTyped
<1>9. \A e \in ToSet(journal) : e.sec \in Chapters
  BY DEF Sane, Typed, StoresTyped, ToSet, JournalEntry, Entry
<1>10. GhostsTyped'
  BY <1>2, <1>3, <1>9 DEF Sane, Typed, GhostsTyped, Chapters_, OfStage
<1> QED BY <1>7, <1>8, <1>10 DEF Sane, Typed

\* Steps of a deletion or a restoration that leave the journal alone and go on.
LEMMA StepSane ==
  ASSUME Sane, NEW c \in calls, InHand(c), NEW a \in CallPlaces, Goes(c, a),
         c.kind = "delete" => a \in DeleteSteps \cup RollbackSteps,
         c.kind \in {"undo", "startup"} => a \in UndoSteps \ {"find"},
         proposal' \in Seq(Chapters), sectionIndex' \subseteq Chapters,
         notes' \in [Chapters -> Nat], rows' \subseteq Chapters, summaries' \subseteq Chapters,
         botched' \subseteq Chapters,
         UNCHANGED <<journal, boot, renderer, budget, gone, rushed>>
  PROVE  Sane'
<1>1. c \in CallType /\ WellPlaced(c) BY CallIs
<1>2. WellPlaced([c EXCEPT !.at = a])
  BY <1>1, WellPlacedMoved DEF InHand
<1>3. CallsTyped' /\ RendererTyped' /\ OneChapterEach'
  BY <1>2, JournalUnchanged, GoesSane
<1> QED BY <1>3 DEF Sane, Typed, StoresTyped, GhostsTyped

LEMMA DeleteStepsSane ==
  ASSUME Sane, NEW c \in calls, c.kind = "delete",
         DeleteSummaries(c) \/ DeleteRows(c) \/ DeleteSave(c),
         UNCHANGED <<boot, renderer, budget>>
  PROVE  Sane'
<1>1. InHand(c) BY DEF InHand, DeleteSummaries, DeleteRows, DeleteSave
<1>2. c.entry \in JournalEntry /\ c.sec \in Chapters /\ c.doc \in Seq(Chapters)
  BY <1>1, CallIs
<1>3. RemoveFirst(c.doc, c.sec) \in Seq(Chapters)
  BY <1>2, RemovedIs
<1>4. CASE DeleteSummaries(c)
  BY <1>1, <1>4, StepSane
     DEF DeleteSummaries, ghosts, CallPlaces, DeleteSteps, Sane, Typed, StoresTyped, GhostsTyped
<1>5. CASE DeleteRows(c)
  BY <1>1, <1>5, StepSane
     DEF DeleteRows, ghosts, CallPlaces, DeleteSteps, Sane, Typed, StoresTyped, GhostsTyped
<1>6. CASE DeleteSave(c)
  BY <1>1, <1>3, <1>6, StepSane
     DEF DeleteSave, ghosts, CallPlaces, DeleteSteps, Sane, Typed, StoresTyped, GhostsTyped
<1> QED BY <1>4, <1>5, <1>6

LEMMA UndoStepsSane ==
  ASSUME Sane, NEW c \in calls, c.kind \in {"undo", "startup"},
         UndoMeta(c) \/ UndoRows(c) \/ UndoSummaries(c) \/ UndoSave(c),
         UNCHANGED <<boot, renderer, budget>>
  PROVE  Sane'
<1>1. InHand(c) BY DEF InHand, UndoMeta, UndoRows, UndoSummaries, UndoSave
<1>2. c.entry \in JournalEntry /\ c.sec \in Chapters /\ c.doc \in Seq(Chapters)
  BY <1>1, CallIs
<1>3. Restored(c.doc, c.entry) \in Seq(Chapters)
  BY <1>2, RestoredIs DEF JournalEntry
<1>4. CASE UndoMeta(c)
  <2>1. sectionIndex' \subseteq Chapters /\ notes' \in [Chapters -> Nat]
    BY <1>2, <1>4, MergedTyped DEF UndoMeta, Sane, Typed
  <2> QED BY <1>1, <1>4, <2>1, StepSane
     DEF UndoMeta, ghosts, CallPlaces, UndoSteps, Sane, Typed, StoresTyped, GhostsTyped
<1>5. CASE UndoRows(c)
  BY <1>1, <1>2, <1>5, StepSane
     DEF UndoRows, ghosts, CallPlaces, UndoSteps, Sane, Typed, StoresTyped, GhostsTyped
<1>6. CASE UndoSummaries(c)
  BY <1>1, <1>2, <1>6, StepSane
     DEF UndoSummaries, ghosts, CallPlaces, UndoSteps, Sane, Typed, StoresTyped, GhostsTyped
<1>7. CASE UndoSave(c)
  BY <1>1, <1>2, <1>3, <1>7, StepSane
     DEF UndoSave, ghosts, CallPlaces, UndoSteps, Sane, Typed, StoresTyped, GhostsTyped
<1> QED BY <1>4, <1>5, <1>6, <1>7

LEMMA RollbackSane ==
  ASSUME Sane, NEW c \in calls, c.kind = "delete", Rollback(c),
         UNCHANGED <<boot, renderer, budget>>
  PROVE  Sane'
<1>1. InHand(c) BY DEF InHand, Rollback
<1>2. c.entry \in JournalEntry /\ c.sec \in Chapters /\ c.doc \in Seq(Chapters) /\ c.id \in Ids
  BY <1>1, CallIs
<1>3. CASE c.at = "back-meta"
  <2>1. MergeMeta(c.entry) /\ Goes(c, "back-save")
        /\ UNCHANGED <<proposal, journal, rows, summaries, ghosts>>
    BY <1>3 DEF Rollback
  <2>2. sectionIndex' \subseteq Chapters /\ notes' \in [Chapters -> Nat]
    BY <1>2, <2>1, MergedTyped DEF Sane, Typed
  <2> QED BY <1>1, <2>1, <2>2, StepSane
     DEF ghosts, CallPlaces, RollbackSteps, Sane, Typed, StoresTyped, GhostsTyped
<1>4. CASE c.at = "back-save"
  BY <1>1, <1>2, <1>4, StepSane
     DEF Rollback, ghosts, CallPlaces, RollbackSteps, Sane, Typed, StoresTyped, GhostsTyped
<1>5. CASE c.at = "back-rows"
  BY <1>1, <1>2, <1>5, StepSane
     DEF Rollback, ghosts, CallPlaces, RollbackSteps, Sane, Typed, StoresTyped, GhostsTyped
<1>6. CASE c.at = "back-summaries"
  BY <1>1, <1>2, <1>6, StepSane
     DEF Rollback, ghosts, CallPlaces, RollbackSteps, Sane, Typed, StoresTyped, GhostsTyped
<1>7. CASE c.at = "back-drop"
  <2>1. /\ Answers(c, c.id, c.sec, FALSE)
        /\ journal' = Without({e \in ToSet(journal) : e.id = c.id})
        /\ UNCHANGED <<proposal, sectionIndex, notes, rows, summaries, ghosts>>
    BY <1>7 DEF Rollback
  <2>2. journal' \in Seq(JournalEntry) /\ ToSet(journal') \subseteq ToSet(journal)
    BY <2>1, WithoutIs DEF Sane, Typed, StoresTyped
  <2>3. Knows(c.id, c.sec) BY DEF Knows
  <2>4. c.id \in 0..MaxDeleteClicks /\ c.sec \in 0..NumChapters BY CallIs
  <2>5. CallsTyped' /\ RendererTyped' /\ OneChapterEach'
    BY <2>1, <2>2, <2>3, <2>4, JournalKnown, AnswersSane
  <2> QED BY <2>1, <2>2, <2>5 DEF Sane, Typed, StoresTyped, GhostsTyped, ghosts
<1> QED BY <1>3, <1>4, <1>5, <1>6, <1>7 DEF Rollback

LEMMA DeleteFlipSane ==
  ASSUME Sane, NEW c \in calls, c.kind = "delete", DeleteFlip(c),
         UNCHANGED <<boot, renderer, budget>>
  PROVE  Sane'
<1> USE DEF DeleteFlip
<1>1. InHand(c) /\ c.id \in 0..MaxDeleteClicks /\ c.sec \in 0..NumChapters
  BY CallIs DEF InHand
<1>2. journal \in Seq(JournalEntry) BY DEF Sane, Typed, StoresTyped
<1>3. /\ journal' \in Seq(JournalEntry)
      /\ \A f \in ToSet(journal') : f \in ToSet(journal) \/ \E e \in ToSet(journal) : f = Flipped(e)
      /\ gone' = gone \/ gone' = gone \cup Chapters_({e \in OfStage("active") : e.id # c.id})
  BY <1>2, FlipIs
<1>4. \A e \in ToSet(journal) : e \in JournalEntry
  BY <1>2 DEF ToSet
<1>5. \A f \in ToSet(journal') : Knows(f.id, f.sec)
  BY <1>3, <1>4, FlippedEntry DEF Knows
<1>6. Knows(c.id, c.sec) BY DEF Knows
<1>7. CallsTyped' /\ RendererTyped' /\ OneChapterEach'
  BY <1>1, <1>5, <1>6, AnswersSane
<1>8. GhostsTyped'
  BY <1>3, <1>4 DEF Sane, Typed, GhostsTyped, Chapters_, OfStage, JournalEntry, Entry
<1> QED BY <1>3, <1>7, <1>8 DEF Sane, Typed, StoresTyped

\* A handler that goes on with another document or entry to work with.
LEMMA MovesSane ==
  ASSUME Sane, NEW c \in calls, NEW d \in CallType, WellPlaced(d),
         d.kind = c.kind, d.id = c.id, d.sec = c.sec,
         calls' = (calls \ {c}) \cup {d},
         UNCHANGED <<stores, boot, replies, renderer, ghosts, budget>>
  PROVE  Sane'
<1>1. CallsTyped' /\ RendererTyped' /\ StoresTyped' /\ GhostsTyped'
  BY DEF Sane, Typed, CallsTyped, RendererTyped, StoresTyped, GhostsTyped, renderer, stores, ghosts
<1>2. \A i \in Ids, s \in 0..NumChapters : Knows(i, s)' => Knows(i, s)
  BY DEF Knows, renderer, stores
<1>3. OneChapterEach'
  BY <1>2, KnowsFrame DEF Sane, Typed, GhostsTyped
<1> QED BY <1>1, <1>3 DEF Sane, Typed

LEMMA UndoFindSane ==
  ASSUME Sane, NEW c \in calls, c.kind \in {"undo", "startup"}, UndoFind(c),
         UNCHANGED <<boot, renderer, budget>>
  PROVE  Sane'
<1>1. c \in CallType /\ WellPlaced(c) /\ c.at = "find"
  BY CallIs DEF UndoFind
<1>2. c.kind = "undo"
  BY <1>1 DEF WellPlaced
<1>3. UNCHANGED <<stores, ghosts>>
  BY DEF UndoFind
<1>4. CASE \E e \in ToSet(journal) : e.id = c.id
  <2> DEFINE e == CHOOSE e \in ToSet(journal) : e.id = c.id
             d == [c EXCEPT !.at = "load", !.entry = e]
  <2>1. e \in ToSet(journal) /\ e.id = c.id
    BY <1>4
  <2>2. calls' = (calls \ {c}) \cup {d} /\ replies' = replies
    BY <1>4 DEF UndoFind
  <2> HIDE DEF e
  <2>3. e \in JournalEntry /\ e.id \in Ids /\ e.sec \in Chapters
    BY <2>1 DEF Sane, Typed, StoresTyped, ToSet, JournalEntry, Entry
  <2>4. Knows(e.id, e.sec) /\ Knows(e.id, c.sec)
    BY <1>2, <2>1 DEF Knows
  <2>5. c.sec \in 0..NumChapters /\ e.sec \in 0..NumChapters
    BY <1>1, <2>3 DEF CallType, Chapters
  <2>6. e.sec = c.sec
    BY <2>3, <2>4, <2>5 DEF Sane, OneChapterEach
  <2>7. d \in CallType /\ d.kind = c.kind /\ d.id = c.id /\ d.sec = c.sec
        /\ d.at = "load" /\ d.entry = e
    BY <1>1, <2>3 DEF CallType, CallPlaces, UndoSteps
  <2> HIDE DEF d
  <2>8. WellPlaced(d)
    BY <1>2, <2>1, <2>3, <2>6, <2>7 DEF WellPlaced, UndoSteps
  <2> QED BY <1>3, <2>2, <2>7, <2>8, MovesSane
<1>5. CASE ~ \E e \in ToSet(journal) : e.id = c.id
  <2>1. Answers(c, c.id, c.sec, TRUE)
    BY <1>5 DEF UndoFind
  <2>2. \A e \in ToSet(journal') : Knows(e.id, e.sec)
    BY <1>3, JournalUnchanged DEF stores
  <2>3. CallsTyped' /\ RendererTyped' /\ OneChapterEach'
    BY <1>2, <2>1, <2>2, CallIs, AnswersSane
  <2> QED BY <1>3, <2>3 DEF Sane, Typed, StoresTyped, GhostsTyped, stores, ghosts
<1> QED BY <1>4, <1>5

LEMMA UndoLoadSane ==
  ASSUME Sane, NEW c \in calls, c.kind \in {"undo", "startup"}, UndoLoad(c),
         UNCHANGED <<boot, renderer, budget>>
  PROVE  Sane'
<1> DEFINE d == [c EXCEPT !.at = "meta", !.doc = proposal]
<1>1. c \in CallType /\ WellPlaced(c) /\ c.at = "load" /\ InHand(c)
  BY CallIs DEF UndoLoad, InHand
<1>2. calls' = (calls \ {c}) \cup {d} /\ UNCHANGED <<stores, ghosts, replies>>
  BY DEF UndoLoad
<1>3. d \in CallType /\ d.kind = c.kind /\ d.id = c.id /\ d.sec = c.sec /\ d.at = "meta"
      /\ d.entry = c.entry
  BY <1>1 DEF CallType, CallPlaces, UndoSteps, Sane, Typed, StoresTyped
<1> HIDE DEF d
<1>4. WellPlaced(d)
  BY <1>1, <1>3 DEF WellPlaced, UndoSteps, InHand
<1> QED BY <1>2, <1>3, <1>4, MovesSane

\* The answers that leave a shorter journal.
LEMMA ClosingSane ==
  ASSUME Sane, NEW c \in calls, c.kind \in {"undo", "startup", "finalize"},
         Answers(c, c.id, c.sec, TRUE), journal' = Without(WindowAndOlder(c.id)),
         gone' \subseteq gone \cup Chapters_(WindowAndOlder(c.id)),
         UNCHANGED <<proposal, sectionIndex, notes, rows, summaries, botched, rushed>>,
         UNCHANGED <<boot, renderer, budget>>
  PROVE  Sane'
<1>1. journal \in Seq(JournalEntry)
  BY DEF Sane, Typed, StoresTyped
<1>2. journal' \in Seq(JournalEntry) /\ ToSet(journal') \subseteq ToSet(journal)
  BY <1>1, WithoutIs
<1>3. CallsTyped' /\ RendererTyped' /\ OneChapterEach'
  BY <1>2, CallIs, JournalKnown, AnswersSane
<1>4. \A e \in WindowAndOlder(c.id) : e \in JournalEntry
  BY <1>1, WindowIs DEF ToSet
<1>5. Chapters_(WindowAndOlder(c.id)) \subseteq Chapters
  BY <1>4 DEF Chapters_, JournalEntry, Entry
<1> QED BY <1>2, <1>3, <1>5 DEF Sane, Typed, StoresTyped, GhostsTyped

LEMMA ListPendingSane ==
  ASSUME Sane, NEW c \in calls, ListPending(c), UNCHANGED <<boot, renderer, budget>>
  PROVE  Sane'
<1> DEFINE I == {j \in 1..Len(journal) : journal[j].stage = "active"}
           at == SelectLastInSeq(journal, LAMBDA e : e.stage = "active")
<1>1. Len(journal) \in Nat /\ DOMAIN journal = 1..Len(journal)
      /\ \A j \in 1..Len(journal) : journal[j] \in JournalEntry
  BY DEF Sane, Typed, StoresTyped
<1>2. at = IF I # {} THEN Max(I) ELSE 0
  BY DEF SelectLastInSeq
<1>3. /\ c.kind = "hydrate" /\ UNCHANGED <<stores, ghosts>>
      /\ IF at = 0 THEN Answers(c, 0, 0, TRUE)
         ELSE Answers(c, journal[at].id, journal[at].sec, TRUE)
  BY DEF ListPending
<1> HIDE DEF at, I
<1>4. at \in 0..Len(journal)
  <2>1. I \subseteq 1..Len(journal) BY DEF I
  <2> QED BY <1>1, <1>2, <2>1, LastOf
<1>5. \A e \in ToSet(journal') : Knows(e.id, e.sec)
  BY <1>3, JournalUnchanged DEF stores
<1>6. CASE at = 0
  <2>1. 0 \in 0..MaxDeleteClicks /\ 0 \in 0..NumChapters
    BY DeleteAssumption
  <2>2. CallsTyped' /\ RendererTyped' /\ OneChapterEach'
    BY <1>3, <1>5, <1>6, <2>1, AnswersSane
  <2> QED BY <1>3, <2>2 DEF Sane, Typed, StoresTyped, GhostsTyped, stores, ghosts
<1>7. CASE at # 0
  <2> DEFINE e == journal[at]
  <2>1. at \in 1..Len(journal)
    BY <1>1, <1>4, <1>7
  <2>2. e \in JournalEntry /\ e \in ToSet(journal)
    BY <1>1, <2>1 DEF ToSet
  <2>3. Answers(c, e.id, e.sec, TRUE)
    BY <1>3, <1>7
  <2> HIDE DEF e
  <2>4. e.id \in 0..MaxDeleteClicks /\ e.sec \in 0..NumChapters
    BY <2>2 DEF JournalEntry, Entry, Ids, Chapters
  <2>5. Knows(e.id, e.sec)
    BY <2>2 DEF Knows
  <2>6. CallsTyped' /\ RendererTyped' /\ OneChapterEach'
    BY <1>3, <1>5, <2>3, <2>4, <2>5, AnswersSane
  <2> QED BY <1>3, <2>6 DEF Sane, Typed, StoresTyped, GhostsTyped, stores, ghosts
<1> QED BY <1>6, <1>7

LEMMA HandleSane == ASSUME Sane, Handle PROVE Sane'
<1>1. PICK c \in calls : DeleteHandler(c) \/ UndoHandler(c) \/ FinalizeDelete(c) \/ ListPending(c)
  BY DEF Handle
<1>2. UNCHANGED <<boot, renderer, budget>>
  BY DEF Handle
<1>3. CASE DeleteHandler(c)
  <2>1. c.kind = "delete" BY <1>3 DEF DeleteHandler
  <2>2. CASE DeleteRead(c) BY <1>2, <2>1, <2>2, DeleteReadSane
  <2>3. CASE DeleteStage(c) BY <1>2, <2>1, <2>3, DeleteStageSane
  <2>4. CASE DeleteSummaries(c) \/ DeleteRows(c) \/ DeleteSave(c)
    BY <1>2, <2>1, <2>4, DeleteStepsSane
  <2>5. CASE DeleteFlip(c) BY <1>2, <2>1, <2>5, DeleteFlipSane
  <2>6. CASE Rollback(c) BY <1>2, <2>1, <2>6, RollbackSane
  <2> QED BY <1>3, <2>2, <2>3, <2>4, <2>5, <2>6 DEF DeleteHandler
<1>4. CASE UndoHandler(c)
  <2>1. c.kind \in {"undo", "startup"} BY <1>4 DEF UndoHandler
  <2>2. CASE UndoFind(c) BY <1>2, <2>1, <2>2, UndoFindSane
  <2>3. CASE UndoLoad(c) BY <1>2, <2>1, <2>3, UndoLoadSane
  <2>4. CASE UndoMeta(c) \/ UndoRows(c) \/ UndoSummaries(c) \/ UndoSave(c)
    BY <1>2, <2>1, <2>4, UndoStepsSane
  <2>5. CASE UndoDrop(c)
    BY <1>2, <2>1, <2>5, ClosingSane DEF UndoDrop
  <2> QED BY <1>4, <2>2, <2>3, <2>4, <2>5 DEF UndoHandler
<1>5. CASE FinalizeDelete(c)
  BY <1>2, <1>5, ClosingSane DEF FinalizeDelete
<1>6. CASE ListPending(c)
  BY <1>2, <1>6, ListPendingSane
<1> QED BY <1>1, <1>3, <1>4, <1>5, <1>6

LEMMA HeadAndTail ==
  ASSUME NEW S, NEW s \in Seq(S), s # <<>>
  PROVE  /\ Head(s) \in S /\ Head(s) \in ToSet(s)
         /\ Tail(s) \in Seq(S) /\ ToSet(Tail(s)) \subseteq ToSet(s)
         /\ ToSet(s) = ToSet(Tail(s)) \cup {Head(s)}
<1>1. Len(s) \in Nat /\ Len(s) > 0 /\ DOMAIN s = 1..Len(s)
  OBVIOUS
<1>2. Head(s) = s[1] /\ 1 \in DOMAIN s
  BY <1>1
<1>3. Tail(s) \in Seq(S) /\ DOMAIN Tail(s) = 1..Len(s) - 1
  BY <1>1
<1>4. \A i \in 1..Len(s) - 1 : Tail(s)[i] = s[i + 1] /\ i + 1 \in DOMAIN s
  BY <1>1
<1>5. \A i \in 1..Len(s) : i = 1 \/ (i - 1 \in 1..Len(s) - 1 /\ i - 1 + 1 = i)
  BY <1>1
<1>6. ToSet(Tail(s)) \subseteq ToSet(s)
  BY <1>3, <1>4 DEF ToSet
<1>7. ToSet(s) \subseteq ToSet(Tail(s)) \cup {Head(s)}
  <2> SUFFICES ASSUME NEW i \in 1..Len(s) PROVE s[i] \in ToSet(Tail(s)) \cup {Head(s)}
    BY <1>1 DEF ToSet
  <2>1. CASE i = 1 BY <1>2, <2>1
  <2>2. CASE i - 1 \in 1..Len(s) - 1 /\ i - 1 + 1 = i
    <3>1. Tail(s)[i - 1] = s[i] BY <1>4, <2>2
    <3> QED BY <1>3, <2>2, <3>1 DEF ToSet
  <2> QED BY <1>5, <2>1, <2>2
<1>8. Head(s) \in S
  BY <1>1, <1>2
<1>9. Head(s) \in ToSet(s)
  BY <1>2 DEF ToSet
<1> QED BY <1>3, <1>6, <1>7, <1>8, <1>9

LEMMA SpentIs ==
  ASSUME GhostsTyped, NEW what \in {"click", "trouble"}, Spend(what)
  PROVE  /\ budget' \in [click : 0..MaxDeleteClicks, trouble : Nat]
         /\ what = "trouble" => budget'.click = budget.click
         /\ what = "click" => budget'.click = budget.click - 1 /\ budget.click \in Ids
         /\ budget'.click \in Int /\ budget'.click <= budget.click
         /\ ~rushed
BY DeleteAssumption DEF GhostsTyped, Spend, Ids

LEMMA NewCall ==
  ASSUME NEW k \in Kinds, NEW i \in 0..MaxDeleteClicks, NEW s \in 0..NumChapters,
         NEW a \in CallPlaces
  PROVE  /\ Call(k, i, s, a) \in CallType
         /\ Call(k, i, s, a).kind = k /\ Call(k, i, s, a).id = i
         /\ Call(k, i, s, a).sec = s /\ Call(k, i, s, a).at = a
BY DEF Call, CallType

LEMMA EmptySeqIs ==
  ASSUME NEW S
  PROVE  <<>> \in Seq(S) /\ ToSet(<<>>) = {}
BY DEF ToSet

LEMMA NothingTyped ==
  /\ None \in [id : 0..MaxDeleteClicks, sec : 0..NumChapters] /\ None.id = 0 /\ None.sec = 0
  /\ 0 \in 0..MaxDeleteClicks /\ 0 \in 0..NumChapters
BY DeleteAssumption DEF None

LEMMA FailSane == ASSUME Sane, Fail PROVE Sane'
<1>1. PICK c \in calls :
        /\ c.at # "flush" /\ Spend("trouble")
        /\ IF c.kind = "delete" /\ c.at \in {"summaries", "rows", "save"}
           THEN Goes(c, "back-meta") ELSE Answers(c, c.id, c.sec, FALSE)
        /\ proposal' \in {proposal} \cup (IF c.at = "save" THEN
             {IF c.kind = "delete" THEN RemoveFirst(c.doc, c.sec) ELSE Restored(c.doc, c.entry)}
             ELSE {})
        /\ botched' = IF \/ c.kind = "undo" /\ c.at \in UndoSteps \ {"find", "load", "meta"}
                         \/ c.kind = "startup" /\ c.at = "save" /\ Contains(c.doc, c.sec)
                      THEN botched \cup {c.sec} ELSE botched
        /\ UNCHANGED <<sectionIndex, journal, notes, rows, summaries, boot, renderer, gone, rushed>>
  BY DEF Fail
<1>2. c \in CallType /\ WellPlaced(c) /\ c.kind \in Kinds
  BY CallIs
<1>3. c.at = "save" => InHand(c)
  BY <1>2 DEF InHand, WellPlaced, Kinds
<1>4. c.at = "save" => /\ RemoveFirst(c.doc, c.sec) \in Seq(Chapters)
                       /\ Restored(c.doc, c.entry) \in Seq(Chapters)
  BY <1>3, CallIs, RemovedIs, RestoredIs DEF JournalEntry
<1>5. proposal' \in Seq(Chapters)
  BY <1>1, <1>4 DEF Sane, Typed, StoresTyped
<1>6. c.kind = "undo" /\ c.at \in UndoSteps \ {"find", "load", "meta"} => c.sec \in Chapters
  BY <1>2, CallIs DEF InHand
<1>7. c.kind = "startup" => c.sec \in Chapters
  BY <1>2, CallIs DEF InHand, WellPlaced
<1>8. /\ budget' \in [click : 0..MaxDeleteClicks, trouble : Nat]
      /\ budget'.click = budget.click
  BY <1>1, SpentIs DEF Sane, Typed
<1>9. StoresTyped' /\ GhostsTyped'
  BY <1>1, <1>5, <1>6, <1>7, <1>8 DEF Sane, Typed, StoresTyped, GhostsTyped
<1>10. \A e \in ToSet(journal') : Knows(e.id, e.sec)
  BY <1>1, JournalUnchanged
<1>11. CASE c.kind = "delete" /\ c.at \in {"summaries", "rows", "save"}
  <2>1. InHand(c) BY <1>11 DEF InHand
  <2>2. WellPlaced([c EXCEPT !.at = "back-meta"])
    BY <1>2, <1>11, <2>1, WellPlacedMoved DEF CallPlaces, RollbackSteps
  <2>3. CallsTyped' /\ RendererTyped' /\ OneChapterEach'
    BY <1>1, <1>8, <1>10, <1>11, <2>2, GoesSane DEF CallPlaces, RollbackSteps
  <2> QED BY <1>9, <2>3 DEF Sane, Typed
<1>12. CASE ~(c.kind = "delete" /\ c.at \in {"summaries", "rows", "save"})
  <2>1. Answers(c, c.id, c.sec, FALSE) BY <1>1, <1>12
  <2>2. c.kind \in {"delete", "hydrate"} /\ c.id # 0 => Knows(c.id, c.sec)
    BY <1>2 DEF Knows, WellPlaced
  <2>3. CallsTyped' /\ RendererTyped' /\ OneChapterEach'
    BY <1>1, <1>2, <1>8, <1>10, <2>1, <2>2, CallIs, AnswersSane
  <2> QED BY <1>9, <2>3 DEF Sane, Typed
<1> QED BY <1>11, <1>12

LEMMA CrashSane == ASSUME Sane, Crash PROVE Sane'
<1>1. /\ Spend("trouble") /\ calls' = {} /\ replies' = <<>> /\ boot' = journal
      /\ window' = None /\ timer' = 0 /\ mutating' = FALSE /\ bound' = FALSE
      /\ botched' = botched \cup {c.sec : c \in {d \in calls :
           d.kind = "undo" /\ d.at \in {"rows", "summaries", "save", "drop"}}}
      /\ UNCHANGED <<stores, gone, rushed>>
  BY DEF Crash
<1>2. \A c \in calls : c.kind = "undo" /\ c.at \in {"rows", "summaries", "save", "drop"}
        => c.sec \in Chapters
  BY CallIs DEF InHand
<1>3. /\ budget' \in [click : 0..MaxDeleteClicks, trouble : Nat]
      /\ budget'.click = budget.click /\ budget.click \in Int
  BY <1>1, SpentIs DEF Sane, Typed, GhostsTyped
<1>4. StoresTyped' /\ GhostsTyped' /\ CallsTyped'
  BY <1>1, <1>2, <1>3 DEF Sane, Typed, StoresTyped, GhostsTyped, CallsTyped, stores
<1>5. RendererTyped'
  BY <1>1, NothingTyped, EmptySeqIs DEF RendererTyped
<1>6. ToSet(replies') = {}
  BY <1>1 DEF ToSet
<1>7. \A i \in Ids, s \in 0..NumChapters : Knows(i, s)' => Knows(i, s)
  BY <1>1, <1>6, NothingTyped DEF Knows, stores, Ids
<1>8. OneChapterEach'
  BY <1>3, <1>7, KnowsFrame DEF Sane
<1> QED BY <1>4, <1>5, <1>8 DEF Sane, Typed

LEMMA CleanUpSane == ASSUME Sane, CleanUp PROVE Sane'
<1> DEFINE e == Head(boot)
           d == [Call("startup", e.id, e.sec, "load") EXCEPT !.entry = e]
<1>0. journal \in Seq(JournalEntry) /\ boot \in Seq(JournalEntry) /\ boot # <<>>
  BY DEF Sane, Typed, StoresTyped, CleanUp
<1>1. e \in JournalEntry /\ e \in ToSet(boot) /\ boot' = Tail(boot)
      /\ boot' \in Seq(JournalEntry) /\ ToSet(boot') \subseteq ToSet(boot)
  BY <1>0, HeadAndTail DEF CleanUp
<1>2. /\ calls = {}
      /\ \/ e.stage = "staged" /\ calls' = {d} /\ UNCHANGED <<journal, gone>>
         \/ journal' = Without({e}) /\ gone' = gone \cup {e.sec} /\ UNCHANGED calls
      /\ UNCHANGED <<proposal, sectionIndex, notes, rows, summaries, replies, renderer,
                     botched, rushed, budget>>
  BY DEF CleanUp
<1> HIDE DEF e
<1>3. e.id \in Ids /\ e.sec \in Chapters /\ e.id \in 0..MaxDeleteClicks /\ e.sec \in 0..NumChapters
  BY <1>1 DEF JournalEntry, Entry, Ids, Chapters
<1>4. d \in CallType /\ d.kind = "startup" /\ d.id = e.id /\ d.sec = e.sec /\ d.at = "load" /\ d.entry = e
  <2> DEFINE k == Call("startup", e.id, e.sec, "load")
  <2>1. k \in CallType /\ k.kind = "startup" /\ k.id = e.id /\ k.sec = e.sec /\ k.at = "load"
    BY <1>3, NewCall DEF Kinds, CallPlaces, UndoSteps
  <2>2. d = [k EXCEPT !.entry = e] OBVIOUS
  <2> HIDE DEF k, d
  <2> QED BY <1>1, <2>1, <2>2 DEF CallType
<1> HIDE DEF d
<1>5. WellPlaced(d)
  BY <1>1, <1>4 DEF WellPlaced, UndoSteps
<1>6. CallsTyped'
  BY <1>2, <1>4, <1>5 DEF Sane, Typed, CallsTyped
<1>7. journal' \in Seq(JournalEntry) /\ ToSet(journal') \subseteq ToSet(journal)
  BY <1>0, <1>2, WithoutIs
<1>8. StoresTyped' /\ GhostsTyped' /\ RendererTyped'
  BY <1>1, <1>2, <1>3, <1>7 DEF Sane, Typed, StoresTyped, GhostsTyped, RendererTyped, renderer
<1>9. \A i \in Ids, s \in 0..NumChapters : Knows(i, s)' => Knows(i, s)
  BY <1>1, <1>2, <1>4, <1>7 DEF Knows, renderer
<1>10. OneChapterEach'
  BY <1>2, <1>9, KnowsFrame DEF Sane, Typed, GhostsTyped
<1> QED BY <1>6, <1>8, <1>10 DEF Sane, Typed

LEMMA ClickDeleteSane == ASSUME Sane, NEW c \in Chapters, ClickDelete(c) PROVE Sane'
<1> DEFINE f == Call("finalize", window.id, window.sec, "drop")
           n == budget.click
           d == Call("delete", n, c, "flush")
<1>1. /\ Spend("click") /\ mutating' = TRUE
      /\ timer' = IF timer = window.id THEN 0 ELSE timer
      /\ calls' \subseteq calls \cup {f, d}
      /\ rushed' = (rushed \/ Undoing)
      /\ UNCHANGED <<stores, boot, replies, window, bound, gone, botched>>
  BY DEF ClickDelete
<1>2. window.id \in 0..MaxDeleteClicks /\ window.sec \in 0..NumChapters
  BY DEF Sane, Typed, RendererTyped
<1>3. /\ budget' \in [click : 0..MaxDeleteClicks, trouble : Nat]
      /\ budget'.click = n - 1 /\ n \in Ids /\ n \in 0..MaxDeleteClicks /\ n \in Int
  BY <1>1, SpentIs DEF Sane, Typed, Ids
<1>4. c \in 0..NumChapters
  BY DEF Chapters
<1>5. f \in CallType /\ f.kind = "finalize" /\ f.at = "drop"
  BY <1>2, NewCall DEF Kinds, CallPlaces, UndoSteps
<1>6. d \in CallType /\ d.kind = "delete" /\ d.at = "flush" /\ d.id = n /\ d.sec = c
  BY <1>3, <1>4, NewCall DEF Kinds, CallPlaces, DeleteSteps
<1> HIDE DEF f, d, n
<1>7. WellPlaced(f) /\ WellPlaced(d)
  BY <1>3, <1>5, <1>6 DEF WellPlaced, InHand, DeleteSteps
<1>8. CallsTyped'
  BY <1>1, <1>5, <1>6, <1>7 DEF Sane, Typed, CallsTyped
<1>9. StoresTyped' /\ RendererTyped' /\ GhostsTyped'
  BY <1>1, <1>3, NothingTyped DEF Sane, Typed, StoresTyped, RendererTyped, GhostsTyped, stores, Undoing
<1>10. \A i \in Ids, s \in 0..NumChapters : Knows(i, s)' => Knows(i, s) \/ (i = n /\ s = c)
  BY <1>1, <1>5, <1>6 DEF Knows, stores
<1>11. ASSUME NEW s \in 0..NumChapters PROVE ~Knows(n, s)
  BY <1>3 DEF Sane, OneChapterEach, n
<1>12. budget'.click < n /\ \A i \in Ids : i > n => i > budget'.click
  BY <1>3 DEF Ids
<1>13. OneChapterEach'
  BY <1>3, <1>4, <1>10, <1>11, <1>12 DEF Sane, OneChapterEach, n
<1> QED BY <1>8, <1>9, <1>13 DEF Sane, Typed

LEMMA FlushSane == ASSUME Sane, Flush PROVE Sane'
<1>1. PICK c \in calls :
        /\ c.at = "flush"
        /\ \/ Goes(c, "read") /\ UNCHANGED <<mutating, budget>>
           \/ /\ Spend("trouble") /\ calls' = calls \ {c} /\ mutating' = FALSE
              /\ UNCHANGED replies
        /\ UNCHANGED <<stores, boot, window, timer, bound, ghosts>>
  BY DEF Flush
<1>2. c \in CallType /\ WellPlaced(c) /\ c.kind = "delete"
  BY <1>1, CallIs DEF WellPlaced, UndoSteps, Kinds
<1>3. CASE Goes(c, "read") /\ UNCHANGED <<mutating, budget>>
  <2>1. WellPlaced([c EXCEPT !.at = "read"])
    BY <1>2, WellPlacedMoved DEF CallPlaces, DeleteSteps
  <2>2. UNCHANGED <<boot, renderer>> /\ budget'.click = budget.click
    BY <1>1, <1>3 DEF renderer
  <2>3. \A e \in ToSet(journal') : Knows(e.id, e.sec)
    BY <1>1, JournalUnchanged DEF stores
  <2>4. CallsTyped' /\ RendererTyped' /\ OneChapterEach'
    BY <1>3, <2>1, <2>2, <2>3, GoesSane DEF CallPlaces, DeleteSteps
  <2> QED BY <1>1, <1>3, <2>4 DEF Sane, Typed, StoresTyped, GhostsTyped, stores, ghosts
<1>4. CASE Spend("trouble") /\ calls' = calls \ {c} /\ mutating' = FALSE /\ UNCHANGED replies
  <2>1. /\ budget' \in [click : 0..MaxDeleteClicks, trouble : Nat]
        /\ budget'.click = budget.click /\ budget.click \in Int
    BY <1>4, SpentIs DEF Sane, Typed, GhostsTyped
  <2>2. Typed'
    BY <1>1, <1>4, <2>1 DEF Sane, Typed, StoresTyped, CallsTyped, RendererTyped, GhostsTyped, stores, ghosts
  <2>3. \A i \in Ids, s \in 0..NumChapters : Knows(i, s)' => Knows(i, s)
    BY <1>1, <1>4 DEF Knows, stores
  <2>4. OneChapterEach'
    BY <2>1, <2>3, KnowsFrame DEF Sane
  <2> QED BY <2>2, <2>4 DEF Sane
<1> QED BY <1>1, <1>3, <1>4

\* The renderer starts one handler and changes its own state.
LEMMA StartedSane ==
  ASSUME Sane, NEW d \in CallType, WellPlaced(d), calls' \subseteq calls \cup {d},
         d.kind # "startup", d.kind \in {"delete", "undo"} /\ d.id \in Ids => Knows(d.id, d.sec),
         UNCHANGED <<stores, boot, replies, mutating, gone, botched>>, rushed' \in BOOLEAN,
         budget' \in [click : 0..MaxDeleteClicks, trouble : Nat], budget'.click <= budget.click,
         window' \in {window, None}, timer' \in {timer, 0}, bound' \in BOOLEAN
  PROVE  Sane'
<1>1. CallsTyped'
  BY DEF Sane, Typed, CallsTyped
<1>2. StoresTyped' /\ GhostsTyped' /\ RendererTyped'
  BY NothingTyped DEF Sane, Typed, StoresTyped, GhostsTyped, RendererTyped, stores
<1>3. \A i \in Ids, s \in 0..NumChapters : Knows(i, s)' => Knows(i, s)
  BY NothingTyped DEF Knows, stores, Ids
<1>4. OneChapterEach'
  BY <1>3, KnowsFrame DEF Sane
<1> QED BY <1>1, <1>2, <1>4 DEF Sane, Typed

LEMMA ClickUndoSane == ASSUME Sane, ClickUndo PROVE Sane'
<1> DEFINE i == IF bound THEN window.id ELSE 0
           d == Call("undo", i, window.sec, "find")
<1>1. /\ Spend("click") /\ calls' = calls \cup {d}
      /\ timer' = IF bound /\ timer = window.id THEN 0 ELSE timer
      /\ rushed' = (rushed \/ Undoing \/ mutating \/ ~bound)
      /\ UNCHANGED <<stores, boot, replies, window, mutating, bound, gone, botched>>
  BY DEF ClickUndo
<1>2. i \in 0..MaxDeleteClicks /\ window.sec \in 0..NumChapters /\ bound \in BOOLEAN
      /\ mutating \in BOOLEAN
  BY NothingTyped DEF Sane, Typed, RendererTyped
<1>3. /\ budget' \in [click : 0..MaxDeleteClicks, trouble : Nat]
      /\ budget'.click <= budget.click /\ rushed \in BOOLEAN
  BY <1>1, SpentIs DEF Sane, Typed, GhostsTyped
<1>4. d \in CallType /\ d.kind = "undo" /\ d.at = "find" /\ d.id = i /\ d.sec = window.sec
  BY <1>2, NewCall DEF Kinds, CallPlaces, UndoSteps
<1>5. i \in Ids => i = window.id
  BY DEF Ids
<1> HIDE DEF d, i
<1>6. WellPlaced(d)
  BY <1>4 DEF WellPlaced, InHand, UndoSteps
<1>7. d.id \in Ids => Knows(d.id, d.sec)
  BY <1>4, <1>5 DEF Knows
<1>8. rushed' \in BOOLEAN
  BY <1>1, <1>2, <1>3 DEF Undoing
<1> QED BY <1>1, <1>2, <1>3, <1>4, <1>6, <1>7, <1>8, StartedSane

LEMMA FinalizeTimerSane == ASSUME Sane, FinalizeTimer PROVE Sane'
<1> DEFINE d == Call("finalize", timer, 0, "drop")
<1>1. timer' = 0 /\ calls' = calls \cup {d}
      /\ UNCHANGED <<stores, boot, replies, window, mutating, bound, ghosts, budget>>
  BY DEF FinalizeTimer
<1>2. timer \in 0..MaxDeleteClicks /\ bound \in BOOLEAN /\ rushed \in BOOLEAN
      /\ budget \in [click : 0..MaxDeleteClicks, trouble : Nat]
  BY DEF Sane, Typed, RendererTyped, GhostsTyped
<1>3. d \in CallType /\ d.kind = "finalize" /\ d.at = "drop"
  BY <1>2, NothingTyped, NewCall DEF Kinds, CallPlaces, UndoSteps
<1> HIDE DEF d
<1>4. WellPlaced(d)
  BY <1>3 DEF WellPlaced, InHand
<1>5. budget.click <= budget.click BY <1>2
<1> QED BY <1>1, <1>2, <1>3, <1>4, <1>5, StartedSane DEF ghosts

LEMMA OpenProjectSane == ASSUME Sane, OpenProject PROVE Sane'
<1> DEFINE d == Call("hydrate", 0, 0, "read")
<1>1. bound' = TRUE /\ window' = None /\ calls' = calls \cup {d}
      /\ UNCHANGED <<stores, boot, replies, timer, mutating, ghosts, budget>>
  BY DEF OpenProject
<1>2. rushed \in BOOLEAN /\ budget \in [click : 0..MaxDeleteClicks, trouble : Nat]
  BY DEF Sane, Typed, GhostsTyped
<1>3. d \in CallType /\ d.kind = "hydrate" /\ d.at = "read" /\ d.id = 0
  BY NothingTyped, NewCall DEF Kinds, CallPlaces, DeleteSteps
<1> HIDE DEF d
<1>4. WellPlaced(d)
  BY <1>3 DEF WellPlaced, InHand
<1>5. budget.click <= budget.click BY <1>2
<1> QED BY <1>1, <1>2, <1>3, <1>4, <1>5, StartedSane DEF ghosts

LEMMA SwitchProjectSane == ASSUME Sane, SwitchProject PROVE Sane'
<1>1. /\ Spend("trouble") /\ bound' = FALSE /\ window' = None
      /\ UNCHANGED <<stores, calls, boot, replies, timer, mutating, ghosts>>
  BY DEF SwitchProject
<1>2. /\ budget' \in [click : 0..MaxDeleteClicks, trouble : Nat]
      /\ budget'.click = budget.click /\ budget.click \in Int
  BY <1>1, SpentIs DEF Sane, Typed, GhostsTyped
<1>3. Typed'
  BY <1>1, <1>2, NothingTyped
     DEF Sane, Typed, StoresTyped, CallsTyped, RendererTyped, GhostsTyped, stores, ghosts
<1>4. \A i \in Ids, s \in 0..NumChapters : Knows(i, s)' => Knows(i, s)
  BY <1>1, NothingTyped DEF Knows, stores, Ids
<1>5. OneChapterEach'
  BY <1>2, <1>4, KnowsFrame DEF Sane
<1> QED BY <1>3, <1>5 DEF Sane

LEMMA ReplySane == ASSUME Sane, Reply PROVE Sane'
<1> DEFINE r == Head(replies)
           shown == [id |-> r.id, sec |-> r.sec]
<1>1. replies # <<>> /\ replies' = Tail(replies) /\ UNCHANGED <<stores, calls, boot, ghosts, budget>>
      /\ (OnDeleteReply(r) \/ OnUndoReply(r) \/ OnFinalizeReply(r) \/ OnHydrateReply(r))
  BY DEF Reply
<1>2. replies \in Seq(ReplyType)
  BY DEF Sane, Typed, RendererTyped
<1>3. r \in ReplyType /\ r \in ToSet(replies) /\ replies' \in Seq(ReplyType)
      /\ ToSet(replies') \subseteq ToSet(replies)
  BY <1>1, <1>2, HeadAndTail
<1> HIDE DEF r
<1>4. r.id \in 0..MaxDeleteClicks /\ r.sec \in 0..NumChapters
  BY <1>3 DEF ReplyType
<1>5. /\ window' \in {window, None} \/ (r.kind \in {"delete", "hydrate"} /\ window' = shown)
      /\ timer' \in {timer, r.id} /\ mutating' \in {mutating, FALSE} /\ bound' = bound
  BY <1>1 DEF OnDeleteReply, OnUndoReply, OnFinalizeReply, OnHydrateReply
<1>6. shown \in [id : 0..MaxDeleteClicks, sec : 0..NumChapters] /\ shown.id = r.id /\ shown.sec = r.sec
  BY <1>4
<1> HIDE DEF shown
<1>7. RendererTyped'
  BY <1>3, <1>4, <1>5, <1>6, NothingTyped DEF Sane, Typed, RendererTyped
<1>8. StoresTyped' /\ CallsTyped' /\ GhostsTyped'
  BY <1>1 DEF Sane, Typed, StoresTyped, CallsTyped, GhostsTyped, stores, ghosts
<1>9. \A i \in Ids, s \in 0..NumChapters : Knows(i, s)' => Knows(i, s)
  BY <1>1, <1>3, <1>5, <1>6, NothingTyped DEF Knows, stores, Ids
<1>10. OneChapterEach'
  BY <1>1, <1>9, KnowsFrame DEF Sane, Typed, GhostsTyped
<1> QED BY <1>7, <1>8, <1>10 DEF Sane, Typed

LEMMA SaneInit == DeleteInit => Sane
<1> SUFFICES ASSUME DeleteInit PROVE Sane
  OBVIOUS
<1> USE DEF DeleteInit
<1>1. NumChapters \in Nat /\ MaxDeleteClicks \in Nat /\ MaxTroubles \in Nat
  BY DeleteAssumption
<1>2. proposal \in Seq(Chapters)
  BY <1>1 DEF Chapters
<1>3. StoresTyped
  BY <1>2 DEF StoresTyped
<1>4. ToSet(journal) = {} /\ ToSet(boot) = {} /\ ToSet(replies) = {}
  BY DEF ToSet
<1>5. RendererTyped
  BY NothingTyped, EmptySeqIs DEF RendererTyped
<1>6. CallsTyped
  BY DEF CallsTyped
<1>8. GhostsTyped
  <2>1. MaxDeleteClicks \in 0..MaxDeleteClicks BY <1>1
  <2> QED BY <1>1, <2>1 DEF GhostsTyped
<1>7. OneChapterEach
  BY <1>4, NothingTyped DEF OneChapterEach, Knows, Ids
<1> QED BY <1>3, <1>5, <1>6, <1>7, <1>8 DEF Sane, Typed

LEMMA SaneNext == Sane /\ [DeleteNext]_deleteVars => Sane'
<1> SUFFICES ASSUME Sane, [DeleteNext]_deleteVars PROVE Sane'
  OBVIOUS
<1>1. CASE UNCHANGED deleteVars
  BY <1>1 DEF deleteVars, stores, renderer, ghosts, Sane, Typed, StoresTyped, CallsTyped,
     RendererTyped, GhostsTyped, OneChapterEach, Knows
<1>2. CASE DeleteNext
  BY <1>2, HandleSane, FailSane, CrashSane, CleanUpSane, ClickDeleteSane, FlushSane,
     ClickUndoSane, FinalizeTimerSane, SwitchProjectSane, OpenProjectSane, ReplySane
     DEF DeleteNext
<1> QED BY <1>1, <1>2

\* In every state, the stores, the handlers, the replies and the window hold
\* what their types say, a handler is at a step of its own kind, and whatever
\* names one deletion names the same chapter.
THEOREM AlwaysSane == DeleteSpec => []Sane
<1>1. DeleteInit => Sane
  BY SaneInit
<1>2. Sane /\ [DeleteNext]_deleteVars => Sane'
  BY SaneNext
<1> QED BY <1>1, <1>2, PTL DEF DeleteSpec

\* The model's variables keep their types (chapter-structure-delete-service.ts,
\* chapterStructureStore.ts).
THEOREM DeleteTypeCorrect == DeleteSpec => []DeleteTypeOK
<1>1. Sane => DeleteTypeOK
  <2> SUFFICES ASSUME Sane PROVE DeleteTypeOK
    OBVIOUS
  <2>1. \A e \in JournalEntry : e \in Entry
    BY DEF JournalEntry
  <2>2. journal \in Seq(Entry) /\ boot \in Seq(Entry)
    BY <2>1 DEF Sane, Typed, StoresTyped
  <2>3. ASSUME NEW c \in calls
        PROVE  /\ c.kind \in Kinds /\ c.doc \in Seq(Chapters)
               /\ c.at \in DeleteSteps \cup RollbackSteps \cup UndoSteps
               /\ c.entry \in Entry \cup {None}
    BY <2>1 DEF Sane, Typed, CallsTyped, CallType, CallPlaces
  <2>4. window.sec \in Chapters \cup {0} /\ {window.id, timer} \subseteq 0..MaxDeleteClicks
    BY DeleteAssumption DEF Sane, Typed, RendererTyped, Chapters
  <2> QED BY <2>2, <2>3, <2>4 DEF DeleteTypeOK, Sane, Typed, StoresTyped, RendererTyped, GhostsTyped
<1> QED BY <1>1, AlwaysSane, PTL

-----------------------------------------------------------------------------
(* Who is at work.  Until an undo has overlapped, at most one handler writes, *)
(* the lock is held while a chapter is deleted and until its answer has been  *)
(* taken, and nothing but the cleanup happens before the start-up is over.    *)

Writer(c) == c.kind \in {"delete", "undo", "startup"}

DeleteReplies == {i \in DOMAIN replies : replies[i].kind = "delete"}

Alone ==
  /\ \A c, d \in calls : Writer(c) /\ Writer(d) => c = d
  /\ \A c \in calls : c.kind = "delete" => mutating /\ Up /\ DeleteReplies = {}
  /\ \A i, j \in DeleteReplies : mutating /\ i = j
  /\ ~Up => /\ replies = <<>> /\ timer = 0 /\ window = None
            /\ \A c \in calls : c.kind = "startup"

\* What a step of a handler does to the handlers and the replies: it goes on,
\* or it ends with an answer, for getActivePendingDeletion one about an active
\* entry; a deletion answers that it succeeded at its last step only.
Moved(c) == \E d \in CallType : /\ calls' = (calls \ {c}) \cup {d}
                                /\ d.kind = c.kind /\ d.id = c.id /\ d.sec = c.sec
                                /\ replies' = replies

Ended(c) ==
  \E i \in 0..MaxDeleteClicks, s \in 0..NumChapters, ok \in BOOLEAN :
    /\ Answers(c, i, s, ok)
    /\ c.kind # "hydrate" => i = c.id
    /\ c.kind = "hydrate" => i = 0 \/ \E e \in OfStage("active") : e.id = i
    /\ c.kind = "delete" /\ ok => DeleteFlip(c)

LEMMA GoesMoved ==
  ASSUME Sane, NEW c \in calls, NEW a \in CallPlaces, Goes(c, a)
  PROVE  Moved(c)
<1>1. c \in CallType BY CallIs
<1>2. [c EXCEPT !.at = a] \in CallType /\ [c EXCEPT !.at = a].kind = c.kind
      /\ [c EXCEPT !.at = a].id = c.id /\ [c EXCEPT !.at = a].sec = c.sec
  BY <1>1, CallMoved
<1> QED BY <1>2 DEF Goes, Moved

LEMMA AnswersEnded ==
  ASSUME Sane, NEW c \in calls, c.kind # "hydrate", NEW ok \in BOOLEAN,
         Answers(c, c.id, c.sec, ok), c.kind = "delete" /\ ok => DeleteFlip(c)
  PROVE  Ended(c)
BY CallIs DEF Ended

LEMMA DeleteShape ==
  ASSUME Sane, NEW c \in calls, DeleteHandler(c)
  PROVE  Moved(c) \/ Ended(c)
<1>1. c.kind = "delete" /\ c \in CallType
  BY CallIs DEF DeleteHandler
<1>2. CASE DeleteRead(c)
  <2> DEFINE d == [c EXCEPT !.at = "stage", !.doc = proposal,
               !.entry = [id |-> c.id, sec |-> c.sec, stage |-> "staged",
                          prev |-> PreviousSibling(c.sec), notes |-> notes[c.sec],
                          row |-> c.sec \in rows, sum |-> c.sec \in summaries]]
  <2>1. d.kind = c.kind /\ d.id = c.id /\ d.sec = c.sec
    BY <1>1 DEF CallType
  <2>2. CASE c.sec \in sectionIndex /\ Contains(proposal, c.sec)
    <3>1. calls' = (calls \ {c}) \cup {d} /\ replies' = replies
      BY <1>2, <2>2 DEF DeleteRead
    <3> HIDE DEF d
    <3>2. d \in CallType
      <4>1. d \in calls' BY <3>1
      <4>2. WellPlaced(c) BY CallIs
      <4>3. c.sec \in Chapters /\ c.id \in Ids BY <1>1, <4>2 DEF WellPlaced
      <4>4. PreviousSibling(c.sec) \in 0..NumChapters
        BY <4>3, PreviousSiblingTyped DEF Sane, Typed, StoresTyped
      <4>5. notes[c.sec] \in Nat BY <4>3 DEF Sane, Typed, StoresTyped
      <4> DEFINE e == [id |-> c.id, sec |-> c.sec, stage |-> "staged",
                       prev |-> PreviousSibling(c.sec), notes |-> notes[c.sec],
                       row |-> c.sec \in rows, sum |-> c.sec \in summaries]
      <4>6. e \in JournalEntry
        BY <4>3, <4>4, <4>5 DEF JournalEntry, Entry, Ids
      <4>7. d = [c EXCEPT !.at = "stage", !.doc = proposal, !.entry = e] BY DEF d
      <4> HIDE DEF e
      <4> QED BY <1>1, <4>6, <4>7 DEF CallType, CallPlaces, DeleteSteps, Sane, Typed, StoresTyped
    <3> QED BY <2>1, <3>1, <3>2 DEF Moved
  <2>3. CASE ~(c.sec \in sectionIndex /\ Contains(proposal, c.sec))
    <3>1. Answers(c, c.id, c.sec, FALSE) BY <1>2, <2>3 DEF DeleteRead
    <3> QED BY <1>1, <3>1, AnswersEnded
  <2> QED BY <2>2, <2>3
<1>3. CASE DeleteStage(c) \/ DeleteSummaries(c) \/ DeleteRows(c) \/ DeleteSave(c)
  BY <1>3, GoesMoved
     DEF DeleteStage, DeleteSummaries, DeleteRows, DeleteSave, CallPlaces, DeleteSteps
<1>4. CASE DeleteFlip(c)
  <2>1. Answers(c, c.id, c.sec, TRUE) BY <1>4 DEF DeleteFlip
  <2> QED BY <1>1, <1>4, <2>1, AnswersEnded
<1>5. CASE Rollback(c)
  <2>1. \/ \E a \in RollbackSteps : Goes(c, a)
        \/ Answers(c, c.id, c.sec, FALSE)
    BY <1>5 DEF Rollback, RollbackSteps
  <2>2. CASE \E a \in RollbackSteps : Goes(c, a)
    BY <2>2, GoesMoved DEF CallPlaces
  <2>3. CASE Answers(c, c.id, c.sec, FALSE)
    BY <1>1, <2>3, AnswersEnded
  <2> QED BY <2>1, <2>2, <2>3
<1> QED BY <1>2, <1>3, <1>4, <1>5 DEF DeleteHandler

LEMMA UndoShape ==
  ASSUME Sane, Sane', NEW c \in calls, UndoHandler(c)
  PROVE  Moved(c) \/ Ended(c)
<1>1. c.kind \in {"undo", "startup"} /\ c \in CallType
  BY CallIs DEF UndoHandler
<1>2. CASE UndoFind(c)
  <2> DEFINE d == [c EXCEPT !.at = "load", !.entry = CHOOSE e \in ToSet(journal) : e.id = c.id]
  <2>1. d.kind = c.kind /\ d.id = c.id /\ d.sec = c.sec
    BY <1>1 DEF CallType
  <2>2. CASE \E e \in ToSet(journal) : e.id = c.id
    <3>1. calls' = (calls \ {c}) \cup {d} /\ replies' = replies
      BY <1>2, <2>2 DEF UndoFind
    <3> HIDE DEF d
    <3>2. d \in CallType
      BY <3>1 DEF Sane, Typed, CallsTyped
    <3> QED BY <2>1, <3>1, <3>2 DEF Moved
  <2>3. CASE ~ \E e \in ToSet(journal) : e.id = c.id
    <3>1. Answers(c, c.id, c.sec, TRUE) BY <1>2, <2>3 DEF UndoFind
    <3> QED BY <1>1, <3>1, AnswersEnded
  <2> QED BY <2>2, <2>3
<1>3. CASE UndoLoad(c)
  <2> DEFINE d == [c EXCEPT !.at = "meta", !.doc = proposal]
  <2>1. d.kind = c.kind /\ d.id = c.id /\ d.sec = c.sec
    BY <1>1 DEF CallType
  <2>2. calls' = (calls \ {c}) \cup {d} /\ replies' = replies
    BY <1>3 DEF UndoLoad
  <2> HIDE DEF d
  <2>3. d \in CallType
    BY <2>2 DEF Sane, Typed, CallsTyped
  <2> QED BY <2>1, <2>2, <2>3 DEF Moved
<1>4. CASE UndoMeta(c) \/ UndoRows(c) \/ UndoSummaries(c) \/ UndoSave(c)
  BY <1>4, GoesMoved
     DEF UndoMeta, UndoRows, UndoSummaries, UndoSave, CallPlaces, UndoSteps
<1>5. CASE UndoDrop(c)
  <2>1. Answers(c, c.id, c.sec, TRUE) BY <1>5 DEF UndoDrop
  <2> QED BY <1>1, <2>1, AnswersEnded
<1> QED BY <1>2, <1>3, <1>4, <1>5 DEF UndoHandler

LEMMA ListShape ==
  ASSUME Sane, NEW c \in calls, ListPending(c)
  PROVE  Ended(c)
<1> DEFINE I == {j \in 1..Len(journal) : journal[j].stage = "active"}
           at == SelectLastInSeq(journal, LAMBDA e : e.stage = "active")
<1>1. Len(journal) \in Nat /\ DOMAIN journal = 1..Len(journal)
      /\ \A j \in 1..Len(journal) : journal[j] \in JournalEntry
  BY DEF Sane, Typed, StoresTyped
<1>2. at = IF I # {} THEN Max(I) ELSE 0
  BY DEF SelectLastInSeq
<1>3. /\ c.kind = "hydrate"
      /\ IF at = 0 THEN Answers(c, 0, 0, TRUE)
         ELSE Answers(c, journal[at].id, journal[at].sec, TRUE)
  BY DEF ListPending
<1> HIDE DEF at
<1>4. at \in 0..Len(journal) /\ (at # 0 <=> I # {}) /\ (I # {} => at \in I)
  <2>1. I \subseteq 1..Len(journal) OBVIOUS
  <2> HIDE DEF I
  <2> QED BY <1>1, <1>2, <2>1, LastOf
<1>5. CASE at = 0
  <2>1. Answers(c, 0, 0, TRUE) BY <1>3, <1>5
  <2> QED BY <1>3, <2>1, NothingTyped DEF Ended
<1>6. CASE at # 0
  <2> DEFINE e == journal[at]
  <2>1. at \in 1..Len(journal) /\ e.stage = "active" BY <1>4, <1>6
  <2>2. Answers(c, e.id, e.sec, TRUE) BY <1>3, <1>6
  <2>3. e \in JournalEntry /\ e \in OfStage("active") BY <1>1, <2>1 DEF OfStage, ToSet
  <2> HIDE DEF e
  <2>4. e.id \in 0..MaxDeleteClicks /\ e.sec \in 0..NumChapters
    BY <2>3 DEF JournalEntry, Entry, Ids, Chapters
  <2> QED BY <1>3, <2>2, <2>3, <2>4 DEF Ended
<1> QED BY <1>5, <1>6

LEMMA HandleShape ==
  ASSUME Sane, Sane', Handle
  PROVE  /\ \E c \in calls : Moved(c) \/ Ended(c)
         /\ UNCHANGED <<boot, renderer, budget>>
<1>1. PICK c \in calls : DeleteHandler(c) \/ UndoHandler(c) \/ FinalizeDelete(c) \/ ListPending(c)
  BY DEF Handle
<1>2. CASE FinalizeDelete(c)
  <2>1. c.kind = "finalize" /\ Answers(c, c.id, c.sec, TRUE) BY <1>2 DEF FinalizeDelete
  <2> QED BY <2>1, AnswersEnded DEF Handle
<1> QED BY <1>1, <1>2, DeleteShape, UndoShape, ListShape DEF Handle

LEMMA FailShape ==
  ASSUME Sane, Fail
  PROVE  /\ \E c \in calls : Moved(c) \/ Ended(c)
         /\ UNCHANGED <<boot, renderer>>
<1>1. PICK c \in calls :
        /\ IF c.kind = "delete" /\ c.at \in {"summaries", "rows", "save"}
           THEN Goes(c, "back-meta") ELSE Answers(c, c.id, c.sec, FALSE)
        /\ UNCHANGED <<boot, renderer>>
  BY DEF Fail
<1>2. CASE c.kind = "delete" /\ c.at \in {"summaries", "rows", "save"}
  BY <1>1, <1>2, GoesMoved DEF CallPlaces, RollbackSteps
<1>3. CASE ~(c.kind = "delete" /\ c.at \in {"summaries", "rows", "save"})
  <2>1. Answers(c, c.id, c.sec, FALSE) BY <1>1, <1>3
  <2>2. c.kind = "hydrate" => c.id = 0 BY CallIs DEF WellPlaced
  <2> QED BY <1>1, <2>1, <2>2, CallIs DEF Ended
<1> QED BY <1>2, <1>3

LEMMA MovedAlone ==
  ASSUME Alone, NEW c \in calls, Moved(c), UNCHANGED <<boot, renderer>>
  PROVE  Alone'
<1>1. PICK d \in CallType : /\ calls' = (calls \ {c}) \cup {d} /\ d.kind = c.kind
                            /\ replies' = replies
  BY DEF Moved
<1>2. Up' = Up
  BY <1>1 DEF Up
<1>3. DeleteReplies' = DeleteReplies
  BY <1>1 DEF DeleteReplies
<1>4. \A a, b \in calls' : Writer(a) /\ Writer(b) => a = b
  BY <1>1 DEF Alone, Writer
<1>5. \A a \in calls' : a.kind = "delete" => mutating' /\ Up' /\ DeleteReplies' = {}
  BY <1>1, <1>2, <1>3 DEF Alone, renderer
<1>6. ~Up' => /\ replies' = <<>> /\ timer' = 0 /\ window' = None
              /\ \A a \in calls' : a.kind = "startup"
  BY <1>1, <1>2 DEF Alone, renderer
<1> QED BY <1>3, <1>4, <1>5, <1>6 DEF Alone, renderer, Writer

LEMMA EndedAlone ==
  ASSUME Sane, Alone, NEW c \in calls, Ended(c), UNCHANGED <<boot, renderer>>
  PROVE  Alone'
<1>1. PICK i \in 0..MaxDeleteClicks, s \in 0..NumChapters, ok \in BOOLEAN : Answers(c, i, s, ok)
  BY DEF Ended
<1> DEFINE r == [kind |-> c.kind, id |-> i, sec |-> s, ok |-> ok]
<1>2. calls' = calls \ {c}
  BY <1>1 DEF Answers
<1>3. \/ replies' = replies /\ c.kind = "startup"
      \/ replies' = Append(replies, r) /\ c.kind # "startup"
  BY <1>1 DEF Answers
<1>4. Len(replies) \in Nat /\ DOMAIN replies = 1..Len(replies)
  BY DEF Sane, Typed, RendererTyped
<1>5. r.kind = c.kind OBVIOUS
<1> HIDE DEF r
<1>6. CASE replies' = replies /\ c.kind = "startup"
  <2>1. DeleteReplies' = DeleteReplies BY <1>6 DEF DeleteReplies
  <2>2. \A a \in calls' : a.kind = "delete" => mutating' /\ Up' /\ DeleteReplies' = {}
    BY <1>2, <2>1 DEF Alone, Up, renderer
  <2>3. ~Up' => ~Up BY <1>2 DEF Up
  <2> QED BY <1>2, <1>6, <2>1, <2>2, <2>3 DEF Alone, renderer, Writer
<1>7. CASE replies' = Append(replies, r) /\ c.kind # "startup"
  <2>1. DOMAIN replies' = 1..Len(replies) + 1 /\ replies'[Len(replies) + 1] = r
        /\ \A j \in 1..Len(replies) : replies'[j] = replies[j]
    BY <1>7 DEF Sane, Typed, RendererTyped
  <2>2. Up /\ Up'
    BY <1>2, <1>7 DEF Alone, Up
  <2>3. \A j \in DeleteReplies' : j \in DeleteReplies \/ (j = Len(replies) + 1 /\ c.kind = "delete")
    BY <1>4, <1>5, <2>1 DEF DeleteReplies
  <2>4. CASE c.kind = "delete"
    <3>1. DeleteReplies = {} /\ mutating BY <2>4 DEF Alone
    <3>2. \A a \in calls' : ~Writer(a)
      BY <1>2, <2>4 DEF Alone, Writer
    <3> QED BY <2>2, <2>3, <3>1, <3>2 DEF Alone, Writer, renderer
  <2>5. CASE c.kind # "delete"
    <3>1. \A j \in DeleteReplies' : j \in DeleteReplies BY <2>3, <2>5
    <3> QED BY <1>2, <2>2, <3>1 DEF Alone, Writer, renderer
  <2> QED BY <2>4, <2>5
<1> QED BY <1>3, <1>6, <1>7

LEMMA ReplyAlone == ASSUME Sane, Alone, Reply PROVE Alone'
<1> DEFINE r == Head(replies)
<1>1. replies # <<>> /\ replies' = Tail(replies) /\ UNCHANGED <<calls, boot>> /\ mutating' \in {mutating, FALSE}
      /\ (r.kind # "delete" => mutating' = mutating)
  BY DEF Reply, OnDeleteReply, OnUndoReply, OnFinalizeReply, OnHydrateReply
<1>2. Len(replies) \in Nat /\ Len(replies) > 0 /\ DOMAIN replies = 1..Len(replies)
      /\ DOMAIN replies' = 1..Len(replies) - 1 /\ r = replies[1]
      /\ \A j \in 1..Len(replies) - 1 : replies'[j] = replies[j + 1]
  BY <1>1 DEF Sane, Typed, RendererTyped
<1> HIDE DEF r
<1>3. \A j \in DeleteReplies' : j \in Nat /\ j > 0 /\ j + 1 \in DeleteReplies
  BY <1>2 DEF DeleteReplies
<1>4. Up /\ Up'
  BY <1>1 DEF Alone, Up
<1>5. CASE r.kind = "delete"
  <2>1. 1 \in DeleteReplies BY <1>2, <1>5 DEF DeleteReplies
  <2>2. \A j \in DeleteReplies' : FALSE BY <1>3, <2>1 DEF Alone
  <2>3. \A a \in calls : a.kind # "delete" BY <2>1 DEF Alone
  <2> QED BY <1>1, <1>4, <2>2, <2>3 DEF Alone
<1>6. CASE r.kind # "delete"
  <2>1. mutating' = mutating BY <1>1, <1>6
  <2>2. \A i, j \in DeleteReplies' : mutating /\ i = j BY <1>3 DEF Alone
  <2>3. DeleteReplies = {} => DeleteReplies' = {} BY <1>3
  <2> QED BY <1>1, <1>4, <2>1, <2>2, <2>3 DEF Alone
<1> QED BY <1>5, <1>6

LEMMA FlushAlone == ASSUME Sane, Alone, Flush PROVE Alone'
<1>1. PICK c \in calls :
        /\ c.at = "flush"
        /\ \/ Goes(c, "read") /\ UNCHANGED <<mutating, budget>>
           \/ /\ Spend("trouble") /\ calls' = calls \ {c} /\ mutating' = FALSE
              /\ UNCHANGED replies
        /\ UNCHANGED <<stores, boot, window, timer, bound, ghosts>>
  BY DEF Flush
<1>2. c.kind = "delete"
  BY <1>1, CallIs DEF WellPlaced, UndoSteps, Kinds
<1>3. CASE Goes(c, "read") /\ UNCHANGED <<mutating, budget>>
  BY <1>1, <1>3, GoesMoved, MovedAlone DEF renderer, CallPlaces, DeleteSteps
<1>4. CASE calls' = calls \ {c} /\ mutating' = FALSE /\ UNCHANGED replies
  <2>1. Up' /\ DeleteReplies = {} BY <1>1, <1>2, <1>4 DEF Alone, Up
  <2>2. DeleteReplies' = {} BY <1>4, <2>1 DEF DeleteReplies
  <2>3. \A a \in calls' : ~Writer(a) BY <1>2, <1>4 DEF Alone, Writer
  <2> QED BY <2>1, <2>2, <2>3 DEF Alone, Writer
<1> QED BY <1>1, <1>3, <1>4

LEMMA ClickDeleteAlone ==
  ASSUME Sane, Alone, NEW c \in Chapters, ClickDelete(c), ~rushed'
  PROVE  Alone'
<1> DEFINE f == Call("finalize", window.id, window.sec, "drop")
           d == Call("delete", budget.click, c, "flush")
<1>1. /\ Up /\ mutating' = TRUE /\ UNCHANGED <<boot, replies>> /\ ~Undoing
      /\ calls' = calls \cup (IF window = None THEN {} ELSE {f}) \cup (IF mutating THEN {} ELSE {d})
  BY DEF ClickDelete
<1>2. f.kind = "finalize" /\ d.kind = "delete"
  BY DEF Call
<1> HIDE DEF f, d
<1>3. Up'
  BY <1>1, <1>2 DEF Up
<1>4. DeleteReplies' = DeleteReplies
  BY <1>1 DEF DeleteReplies
<1>5. ~mutating => DeleteReplies = {} /\ \A a \in calls : ~Writer(a)
  BY <1>1 DEF Alone, Undoing, Up, Writer
<1>6. CASE mutating
  BY <1>1, <1>2, <1>3, <1>4, <1>6 DEF Alone, Writer
<1>7. CASE ~mutating
  BY <1>1, <1>2, <1>3, <1>4, <1>5, <1>7 DEF Alone, Writer
<1> QED BY <1>6, <1>7

LEMMA ClickUndoAlone ==
  ASSUME Sane, Alone, ClickUndo, ~rushed'
  PROVE  Alone' /\ bound /\ ~mutating /\ \A c \in calls : ~Writer(c)
<1> DEFINE d == Call("undo", IF bound THEN window.id ELSE 0, window.sec, "find")
<1>1. /\ Up /\ mutating' = mutating /\ UNCHANGED <<boot, replies>> /\ ~Undoing /\ ~mutating /\ bound
      /\ calls' = calls \cup {d}
  BY DEF ClickUndo
<1>2. d.kind = "undo"
  BY DEF Call
<1> HIDE DEF d
<1>3. Up'
  BY <1>1, <1>2 DEF Up
<1>4. \A a \in calls : ~Writer(a)
  BY <1>1 DEF Alone, Undoing, Up, Writer
<1>5. DeleteReplies' = DeleteReplies
  BY <1>1 DEF DeleteReplies
<1> QED BY <1>1, <1>2, <1>3, <1>4, <1>5 DEF Alone, Writer

LEMMA AloneNext ==
  ASSUME Sane, Sane', Alone, ~rushed', [DeleteNext]_deleteVars
  PROVE  Alone'
<1>1. CASE Handle BY <1>1, HandleShape, MovedAlone, EndedAlone
<1>2. CASE Fail BY <1>2, FailShape, MovedAlone, EndedAlone
<1>3. CASE Crash
  <2>1. DeleteReplies' = {} BY <1>3 DEF Crash, DeleteReplies
  <2> QED BY <1>3, <2>1 DEF Crash, Alone
<1>4. CASE CleanUp
  <2> DEFINE d == [Call("startup", Head(boot).id, Head(boot).sec, "load") EXCEPT !.entry = Head(boot)]
  <2>1. boot # <<>> /\ calls = {} /\ (calls' = {d} \/ calls' = {}) /\ UNCHANGED <<replies, renderer>>
    BY <1>4 DEF CleanUp
  <2>2. d.kind = "startup" BY DEF Call
  <2> HIDE DEF d
  <2>3. ~Up BY <2>1 DEF Up
  <2>4. DeleteReplies' = {} /\ replies' = <<>> /\ timer' = 0 /\ window' = None
    BY <2>1, <2>3 DEF Alone, DeleteReplies, renderer
  <2> QED BY <2>1, <2>2, <2>4 DEF Alone
<1>5. CASE \E c \in Chapters : ClickDelete(c) BY <1>5, ClickDeleteAlone
<1>6. CASE Flush BY <1>6, FlushAlone
<1>7. CASE ClickUndo BY <1>7, ClickUndoAlone
<1>8. CASE FinalizeTimer
  <2> DEFINE d == Call("finalize", timer, 0, "drop")
  <2>1. timer # 0 /\ calls' = calls \cup {d} /\ UNCHANGED <<boot, replies, mutating>>
    BY <1>8 DEF FinalizeTimer
  <2>2. d.kind = "finalize" BY DEF Call
  <2> HIDE DEF d
  <2>3. Up /\ Up' BY <2>1, <2>2 DEF Alone, Up
  <2>4. DeleteReplies' = DeleteReplies BY <2>1 DEF DeleteReplies
  <2> QED BY <2>1, <2>2, <2>3, <2>4 DEF Alone, Writer
<1>9. CASE SwitchProject
  <2>1. DeleteReplies' = DeleteReplies /\ Up' BY <1>9 DEF DeleteReplies, SwitchProject, Up
  <2> QED BY <1>9, <2>1 DEF Alone, SwitchProject
<1>10. CASE OpenProject
  <2> DEFINE d == Call("hydrate", 0, 0, "read")
  <2>1. Up /\ calls' = calls \cup {d} /\ UNCHANGED <<boot, replies, mutating>>
    BY <1>10 DEF OpenProject
  <2>2. d.kind = "hydrate" BY DEF Call
  <2> HIDE DEF d
  <2>3. Up' BY <2>1, <2>2 DEF Up
  <2>4. DeleteReplies' = DeleteReplies BY <2>1 DEF DeleteReplies
  <2> QED BY <2>1, <2>2, <2>3, <2>4 DEF Alone, Writer
<1>11. CASE Reply BY <1>11, ReplyAlone
<1>12. CASE UNCHANGED deleteVars
  <2>1. DeleteReplies' = DeleteReplies /\ Up' = Up BY <1>12 DEF deleteVars, DeleteReplies, Up
  <2> QED BY <1>12, <2>1 DEF Alone, deleteVars, renderer
<1> QED BY <1>1, <1>2, <1>3, <1>4, <1>5, <1>6, <1>7, <1>8, <1>9, <1>10, <1>11, <1>12 DEF DeleteNext

LEMMA AloneInit == DeleteInit => Alone
<1> SUFFICES ASSUME DeleteInit PROVE Alone
  OBVIOUS
<1>1. DeleteReplies = {} BY DEF DeleteInit, DeleteReplies
<1>2. Up BY DEF DeleteInit, Up
<1> QED BY <1>1, <1>2 DEF DeleteInit, Alone

-----------------------------------------------------------------------------
(* What is safe to throw away.  A number is open while a finalize of it may   *)
(* come; no staged entry's is, and an entry belongs to one deletion.  The     *)
(* handler that writes has read the document as it still is, its entry is in  *)
(* the journal while the chapter is cut out, and the chapter is back before   *)
(* the entry goes.                                                            *)

Early == {"flush", "read", "stage"}

Open(i) == \/ window.id = i \/ timer = i
           \/ \E c \in calls : c.kind \in {"undo", "finalize"} /\ c.id = i
           \/ \E r \in ToSet(replies) : r.kind \in {"delete", "hydrate"} /\ r.ok /\ r.id = i

Closed ==
  /\ \A e \in ToSet(journal) : e.stage = "staged" => ~Open(e.id)
  /\ \A e, f \in ToSet(journal) : e.id = f.id => e = f
  /\ \A c \in calls : c.kind = "delete" =>
       ~Open(c.id) /\ \A e \in ToSet(journal) : e.id = c.id => c.at \notin Early /\ e = c.entry
  /\ \A i \in Ids : Open(i) => i > budget.click

InStep(c) ==
  /\ c.kind = "delete" =>
       /\ c.at \notin {"flush", "read"} => c.sec \in ToSet(c.doc) /\ c.entry.stage = "staged"
       /\ c.at \in {"stage", "summaries", "rows", "save", "back-rows", "back-summaries", "back-drop"} =>
            proposal = c.doc
       /\ c.at \in {"flip", "back-meta", "back-save"} =>
            proposal \in {c.doc, RemoveFirst(c.doc, c.sec)}
       /\ c.at \notin Early => c.entry \in ToSet(journal)
  /\ c.kind \in {"undo", "startup"} =>
       /\ c.at \in {"meta", "rows", "summaries", "save"} => proposal = c.doc
       /\ c.at = "drop" => c.sec \in ToSet(proposal)

Places == \A c \in calls : InStep(c)

Kept == \A s \in Chapters \ gone : s \in ToSet(proposal) \/ \E e \in ToSet(journal) : e.sec = s

Safe == Closed /\ Places /\ Kept

\* An answer that opens no window: a deletion that failed, an undo, a finalize,
\* or the active entry the journal was asked for.
EndedQuietly(c) ==
  \E i \in 0..MaxDeleteClicks, s \in 0..NumChapters, ok \in BOOLEAN :
    /\ Answers(c, i, s, ok)
    /\ c.kind = "hydrate" => i = 0 \/ \E e \in OfStage("active") : e.id = i
    /\ c.kind = "delete" => ~ok

LEMMA OpenMoved ==
  ASSUME NEW c \in calls, Moved(c), UNCHANGED renderer, NEW i, Open(i)'
  PROVE  Open(i)
BY DEF Moved, Open, renderer

LEMMA OpenEnded ==
  ASSUME Sane, NEW c \in calls, EndedQuietly(c), UNCHANGED renderer, NEW i, Open(i)'
  PROVE  Open(i) \/ i = 0 \/ \E e \in OfStage("active") : e.id = i
<1>1. PICK j \in 0..MaxDeleteClicks, s \in 0..NumChapters, ok \in BOOLEAN :
        /\ Answers(c, j, s, ok)
        /\ c.kind = "hydrate" => j = 0 \/ \E e \in OfStage("active") : e.id = j
        /\ c.kind = "delete" => ~ok
  BY DEF EndedQuietly
<1> DEFINE r == [kind |-> c.kind, id |-> j, sec |-> s, ok |-> ok]
<1>2. /\ calls' = calls \ {c}
      /\ \/ replies' = replies
         \/ c.kind # "startup" /\ replies' = Append(replies, r)
  BY <1>1 DEF Answers
<1>3. replies \in Seq(ReplyType) /\ (c.kind # "startup" => r \in ReplyType)
  BY CallIs DEF Sane, Typed, RendererTyped, ReplyType
<1>4. r.kind = c.kind /\ r.id = j /\ r.ok = ok
  OBVIOUS
<1> HIDE DEF r
<1>5. ToSet(replies') \subseteq ToSet(replies) \cup {r}
  BY <1>2, <1>3, AppendedSet
<1> QED BY <1>1, <1>2, <1>4, <1>5 DEF Open, renderer

\* The journal gets no entry, no number is opened.
LEMMA ClosedFrame ==
  ASSUME Closed, ToSet(journal') \subseteq ToSet(journal), \A i \in Ids : Open(i)' => Open(i),
         Sane, Sane', budget'.click <= budget.click,
         \A d \in calls' : d.kind = "delete" => \E c \in calls :
           /\ c.kind = "delete" /\ c.id = d.id
           /\ c.at \in Early \/ (c.entry = d.entry /\ d.at \notin Early)
  PROVE  Closed'
<1>1. \A e \in ToSet(journal) : e.id \in Ids
  BY DEF Sane, Typed, StoresTyped, ToSet, JournalEntry
<1>2. \A e \in ToSet(journal') : e.stage = "staged" => ~Open(e.id)'
  BY <1>1 DEF Closed
<1>3. \A e, f \in ToSet(journal') : e.id = f.id => e = f
  BY DEF Closed
<1>4. ASSUME NEW d \in calls', d.kind = "delete"
      PROVE  ~Open(d.id)' /\ \A e \in ToSet(journal') : e.id = d.id => d.at \notin Early /\ e = d.entry
  <2>1. PICK c \in calls : /\ c.kind = "delete" /\ c.id = d.id
                           /\ c.at \in Early \/ (c.entry = d.entry /\ d.at \notin Early)
    BY <1>4
  <2>2. c.id \in Ids BY <2>1, CallIs DEF WellPlaced
  <2> QED BY <2>1, <2>2 DEF Closed
<1>5. \A i \in Ids : Open(i)' => i > budget'.click
  BY DEF Closed, Ids, Sane, Typed, GhostsTyped
<1> QED BY <1>2, <1>3, <1>4, <1>5 DEF Closed

\* The number of an active entry is not that of a deletion under way, nor of a
\* staged entry.
LEMMA ActiveIsNotStaged ==
  ASSUME Sane, Closed, Places, NEW a \in OfStage("active")
  PROVE  /\ \A e \in ToSet(journal) : e.stage = "staged" => e.id # a.id
         /\ \A c \in calls : c.kind = "delete" => c.id # a.id
<1>1. a \in ToSet(journal) /\ a.stage = "active" BY DEF OfStage
<1>2. \A e \in ToSet(journal) : e.stage = "staged" => e.id # a.id
  BY <1>1 DEF Closed
<1>3. ASSUME NEW c \in calls, c.kind = "delete", c.id = a.id PROVE FALSE
  <2>1. c.at \notin Early /\ a = c.entry BY <1>1, <1>3 DEF Closed
  <2>2. c.entry.stage = "staged" BY <1>3, <2>1 DEF Places, InStep, Early
  <2> QED BY <1>1, <2>1, <2>2
<1> QED BY <1>2, <1>3

LEMMA ClosedQuiet ==
  ASSUME Sane, Sane', Closed, Places, NEW c \in calls, EndedQuietly(c), UNCHANGED renderer,
         ToSet(journal') \subseteq ToSet(journal), budget'.click = budget.click
  PROVE  Closed'
<1>1. calls' = calls \ {c}
  BY DEF EndedQuietly, Answers
<1>2. \A i \in Ids : Open(i)' => Open(i) \/ \E e \in OfStage("active") : e.id = i
  BY OpenEnded DEF Ids
<1>3. \A e \in ToSet(journal) : e.id \in Ids /\ e \in JournalEntry
  BY DEF Sane, Typed, StoresTyped, ToSet, JournalEntry
<1>4. \A e \in ToSet(journal') : e.stage = "staged" => ~Open(e.id)'
  BY <1>2, <1>3, ActiveIsNotStaged DEF Closed
<1>5. \A e, f \in ToSet(journal') : e.id = f.id => e = f
  BY DEF Closed
<1>6. ASSUME NEW d \in calls', d.kind = "delete"
      PROVE  ~Open(d.id)' /\ \A e \in ToSet(journal') : e.id = d.id => d.at \notin Early /\ e = d.entry
  <2>1. d \in calls /\ d.id \in Ids BY <1>1, <1>6, CallIs DEF WellPlaced
  <2> QED BY <1>2, <1>6, <2>1, ActiveIsNotStaged DEF Closed
<1>7. ASSUME NEW i \in Ids, Open(i)' PROVE i > budget'.click
  <2>1. CASE Open(i) BY <2>1 DEF Closed
  <2>2. CASE \E e \in OfStage("active") : e.id = i
    <3>1. PICK e \in ToSet(journal) : e.id = i BY <2>2 DEF OfStage
    <3>2. Knows(i, e.sec) /\ e.sec \in 0..NumChapters
      BY <1>3, <3>1 DEF Knows, JournalEntry, Entry, Chapters
    <3> QED BY <3>2 DEF Sane, OneChapterEach
  <2> QED BY <1>2, <1>7, <2>1, <2>2
<1> QED BY <1>4, <1>5, <1>6, <1>7 DEF Closed

\* Only the handler that writes is about the document.
LEMMA OnlyWriter ==
  ASSUME Alone, NEW c \in calls, Writer(c), NEW d,
         calls' \subseteq (calls \ {c}) \cup {d}, InStep(d)'
  PROVE  Places'
<1>1. \A b \in calls \ {c} : ~Writer(b)
  BY DEF Alone
<1>2. \A b \in calls \ {c} : InStep(b)'
  BY <1>1 DEF InStep, Writer
<1> QED BY <1>2 DEF Places

LEMMA WriterEnded ==
  ASSUME Alone, NEW c \in calls, Writer(c), calls' = calls \ {c}
  PROVE  Places'
BY DEF Alone, Writer, Places, InStep

LEMMA KeptFrame ==
  ASSUME Kept, gone \subseteq gone',
         \A s \in ToSet(proposal) : s \in ToSet(proposal') \/ \E e \in ToSet(journal') : e.sec = s,
         \A e \in ToSet(journal) :
           e.sec \in gone' \/ e.sec \in ToSet(proposal') \/ \E f \in ToSet(journal') : f.sec = e.sec
  PROVE  Kept'
BY DEF Kept

\* A handler that writes goes on and leaves the journal alone.
LEMMA GoesSafe ==
  ASSUME Sane, Sane', Alone, Safe, NEW c \in calls, Writer(c), NEW d \in CallType,
         calls' = (calls \ {c}) \cup {d}, replies' = replies,
         d.kind = c.kind, d.id = c.id, d.sec = c.sec,
         c.kind = "delete" => c.at \in Early \/ (d.entry = c.entry /\ d.at \notin Early),
         InStep(d)', journal' = journal, UNCHANGED <<renderer, gone>>,
         budget'.click = budget.click,
         \A s \in ToSet(proposal) : s \in ToSet(proposal') \/ \E e \in ToSet(journal) : e.sec = s
  PROVE  Safe'
<1>1. Moved(c) BY DEF Moved
<1>2. \A b \in calls' : b.kind = "delete" => \E a \in calls :
        /\ a.kind = "delete" /\ a.id = b.id
        /\ a.at \in Early \/ (a.entry = b.entry /\ b.at \notin Early)
  <2> SUFFICES ASSUME NEW b \in calls', b.kind = "delete"
               PROVE  \E a \in calls : /\ a.kind = "delete" /\ a.id = b.id
                                       /\ a.at \in Early \/ (a.entry = b.entry /\ b.at \notin Early)
    OBVIOUS
  <2>1. CASE b = d BY <2>1
  <2>2. CASE b # d BY <2>2
  <2> QED BY <2>1, <2>2
<1>3. budget'.click <= budget.click
  BY DEF Sane, Typed, GhostsTyped
<1>4. Closed'
  BY <1>1, <1>2, <1>3, OpenMoved, ClosedFrame DEF Safe
<1>5. Places'
  BY OnlyWriter
<1>6. Kept'
  BY KeptFrame DEF Safe
<1> QED BY <1>4, <1>5, <1>6 DEF Safe

\* The facts a reader of a step needs.
LEMMA InSets ==
  ASSUME Sane
  PROVE  /\ proposal \in Seq(Chapters) /\ journal \in Seq(JournalEntry)
         /\ ToSet(proposal) \subseteq Chapters
         /\ \A e \in ToSet(journal) : e \in JournalEntry /\ e.id \in Ids /\ e.sec \in Chapters
BY DEF Sane, Typed, StoresTyped, ToSet, JournalEntry, Entry

LEMMA DeleteReadSafe ==
  ASSUME Sane, Sane', Alone, Safe, NEW c \in calls, c.kind = "delete", DeleteRead(c),
         UNCHANGED <<boot, renderer, budget>>
  PROVE  Safe'
<1>1. c \in CallType /\ WellPlaced(c) /\ c.at = "read"
  BY CallIs DEF DeleteRead
<1>2. UNCHANGED <<proposal, journal, gone>>
  BY DEF DeleteRead, stores, ghosts
<1>3. \A s \in ToSet(proposal) : s \in ToSet(proposal')
  BY <1>2
<1>4. CASE c.sec \in sectionIndex /\ Contains(proposal, c.sec)
  <2>1. PICK e : e = [id |-> c.id, sec |-> c.sec, stage |-> "staged",
                      prev |-> PreviousSibling(c.sec), notes |-> notes[c.sec],
                      row |-> c.sec \in rows, sum |-> c.sec \in summaries]
    OBVIOUS
  <2>2. PICK d : d = [c EXCEPT !.at = "stage", !.doc = proposal, !.entry = e]
    OBVIOUS
  <2>3. calls' = (calls \ {c}) \cup {d} /\ replies' = replies
    BY <1>4, <2>1, <2>2 DEF DeleteRead
  <2>4. /\ d.kind = c.kind /\ d.id = c.id /\ d.sec = c.sec /\ d.at = "stage"
        /\ d.doc = proposal /\ d.entry = e /\ e.stage = "staged"
    BY <1>1, <2>1, <2>2 DEF CallType
  <2>5. d \in CallType
    BY <2>3 DEF Sane, Typed, CallsTyped
  <2>6. d.sec \in ToSet(d.doc)
    BY <1>4, <2>4, InSets, ContainsIs
  <2>7. InStep(d)'
    BY <1>2, <2>4, <2>6 DEF InStep, Early
  <2> QED BY <1>1, <1>2, <1>3, <2>3, <2>4, <2>5, <2>7, GoesSafe DEF Writer, Early
<1>5. CASE ~(c.sec \in sectionIndex /\ Contains(proposal, c.sec))
  <2>1. Answers(c, c.id, c.sec, FALSE) BY <1>5 DEF DeleteRead
  <2>2. EndedQuietly(c) BY <2>1, CallIs DEF EndedQuietly
  <2>3. Closed' BY <1>2, <2>2, ClosedQuiet DEF Safe
  <2>4. Places' BY <2>1, WriterEnded DEF Answers, Writer
  <2>5. Kept' BY <1>2, KeptFrame DEF Safe
  <2> QED BY <2>3, <2>4, <2>5 DEF Safe
<1> QED BY <1>4, <1>5

LEMMA DeleteStageSafe ==
  ASSUME Sane, Sane', Alone, Safe, NEW c \in calls, c.kind = "delete", DeleteStage(c),
         UNCHANGED <<boot, renderer, budget>>
  PROVE  Safe'
<1>1. c \in CallType /\ WellPlaced(c) /\ c.at = "stage" /\ InHand(c) /\ Writer(c)
  BY CallIs DEF DeleteStage, InHand, Writer
<1>2. c.entry \in JournalEntry /\ c.entry.id = c.id /\ c.entry.sec = c.sec /\ c.id \in Ids
  BY <1>1, CallIs
<1>3. /\ ToSet(journal') = (ToSet(journal) \ OfStage("active")) \cup {c.entry}
      /\ gone' = gone \cup Chapters_(OfStage("active"))
  BY <1>2, InSets, StageIs DEF DeleteStage
<1>4. Goes(c, "summaries") /\ proposal' = proposal
  BY DEF DeleteStage
<1>5. PICK d : d = [c EXCEPT !.at = "summaries"] OBVIOUS
<1>6. d.kind = c.kind /\ d.id = c.id /\ d.sec = c.sec /\ d.at = "summaries"
      /\ d.doc = c.doc /\ d.entry = c.entry
  BY <1>1, <1>5, CallMoved DEF CallPlaces, DeleteSteps
<1>7. calls' = (calls \ {c}) \cup {d} /\ replies' = replies
  BY <1>4, <1>5 DEF Goes
<1>8. InStep(c)
  BY DEF Safe, Places
<1>9. InStep(d)'
  BY <1>1, <1>3, <1>4, <1>6, <1>8 DEF InStep, Early
<1>10. Places'
  BY <1>1, <1>7, <1>9, OnlyWriter
<1>11. \A i : Open(i)' => Open(i)
  BY <1>6, <1>7 DEF Open, renderer
<1>12. c.entry.stage = "staged"
  BY <1>1, <1>8 DEF InStep
<1>13. ~Open(c.id) /\ \A e \in ToSet(journal) : e.id # c.id
  BY <1>1 DEF Safe, Closed, Early
<1>14. \A e \in ToSet(journal') : e.stage = "staged" => ~Open(e.id)'
  BY <1>2, <1>3, <1>11, <1>13 DEF Safe, Closed
<1>15. \A e, f \in ToSet(journal') : e.id = f.id => e = f
  BY <1>2, <1>3, <1>13 DEF Safe, Closed
<1>16. ASSUME NEW b \in calls', b.kind = "delete"
       PROVE  ~Open(b.id)' /\ \A e \in ToSet(journal') : e.id = b.id => b.at \notin Early /\ e = b.entry
  <2>1. b = d
    BY <1>1, <1>7, <1>16 DEF Alone, Writer
  <2> QED BY <1>3, <1>6, <1>11, <1>13, <2>1 DEF Early
<1>17. \A i \in Ids : Open(i)' => i > budget'.click
  BY <1>11 DEF Safe, Closed
<1>18. Closed'
  BY <1>14, <1>15, <1>16, <1>17 DEF Closed
<1>19. \A e \in ToSet(journal) : e \in ToSet(journal') \/ e.sec \in gone'
  BY <1>3 DEF Chapters_
<1>20. Kept'
  BY <1>3, <1>4, <1>19 DEF Safe, Kept
<1> QED BY <1>10, <1>18, <1>20 DEF Safe

LEMMA DeleteStepsSafe ==
  ASSUME Sane, Sane', Alone, Safe, NEW c \in calls, c.kind = "delete",
         DeleteSummaries(c) \/ DeleteRows(c) \/ DeleteSave(c),
         UNCHANGED <<boot, renderer, budget>>
  PROVE  Safe'
<1>1. /\ c.at \in {"summaries", "rows", "save"} /\ journal' = journal /\ gone' = gone
      /\ c.at # "save" => proposal' = proposal
      /\ c.at = "save" => proposal' = RemoveFirst(c.doc, c.sec)
  BY DEF DeleteSummaries, DeleteRows, DeleteSave, ghosts
<1>2. PICK a \in {"rows", "save", "flip"} : Goes(c, a) /\ (a = "flip" <=> c.at = "save")
  BY DEF DeleteSummaries, DeleteRows, DeleteSave
<1>3. c \in CallType /\ InHand(c) /\ a \in CallPlaces
  BY <1>1, CallIs DEF InHand, CallPlaces, DeleteSteps
<1>4. PICK d : d = [c EXCEPT !.at = a] OBVIOUS
<1>5. d \in CallType /\ d.kind = c.kind /\ d.id = c.id /\ d.sec = c.sec /\ d.at = a
      /\ d.doc = c.doc /\ d.entry = c.entry
  BY <1>3, <1>4, CallMoved
<1>6. calls' = (calls \ {c}) \cup {d} /\ replies' = replies
  BY <1>2, <1>4 DEF Goes
<1>7. InStep(c)
  BY DEF Safe, Places
<1>8. proposal = c.doc /\ c.entry \in ToSet(journal) /\ c.sec \in ToSet(c.doc)
      /\ c.entry.stage = "staged" /\ c.entry.sec = c.sec
  BY <1>1, <1>3, <1>7, CallIs DEF InStep, Early
<1>9. InStep(d)'
  BY <1>1, <1>2, <1>5, <1>8 DEF InStep, Early
<1>10. \A s \in ToSet(proposal) : s \in ToSet(proposal') \/ \E e \in ToSet(journal) : e.sec = s
  <2>1. ToSet(c.doc) \ {c.sec} \subseteq ToSet(RemoveFirst(c.doc, c.sec))
    BY <1>3, CallIs, RemovedIs
  <2> QED BY <1>1, <1>8, <2>1
<1> QED BY <1>1, <1>2, <1>5, <1>6, <1>9, <1>10, GoesSafe DEF Writer, Early

LEMMA DeleteFlipSafe ==
  ASSUME Sane, Sane', Alone, Safe, NEW c \in calls, c.kind = "delete", DeleteFlip(c),
         UNCHANGED <<boot, renderer, budget>>
  PROVE  Safe'
<1>1. c \in CallType /\ WellPlaced(c) /\ c.at = "flip" /\ InHand(c) /\ Writer(c)
  BY CallIs DEF DeleteFlip, InHand, Writer
<1>2. Answers(c, c.id, c.sec, TRUE) /\ FlipEntry(c.id) /\ proposal' = proposal
  BY DEF DeleteFlip
<1>3. calls' = calls \ {c}
  BY <1>2 DEF Answers
<1>4. Places'
  BY <1>1, <1>3, WriterEnded
<1>5. InStep(c) /\ c.id \in Ids
  BY <1>1, CallIs DEF Safe, Places
<1>6. c.entry \in ToSet(journal) /\ c.entry.id = c.id
  BY <1>1, <1>5, CallIs DEF InStep, Early
<1>7. /\ \A f \in ToSet(journal') :
           \/ f \in ToSet(journal) /\ f.id # c.id /\ f.stage # "active"
           \/ \E e \in ToSet(journal) : e.id = c.id /\ f = Flipped(e)
           \/ f \in ToSet(journal) /\ \A e \in ToSet(journal) : e.id # c.id
      /\ \A e \in ToSet(journal) : e.id = c.id => Flipped(e) \in ToSet(journal')
      /\ \A e \in ToSet(journal) :
           e.id # c.id => e \in ToSet(journal') \/ (e.stage = "active" /\ e.sec \in gone')
      /\ gone' = gone \/ gone' = gone \cup Chapters_({e \in OfStage("active") : e.id # c.id})
  BY <1>2, InSets, FlipIs
<1>8. \A e \in ToSet(journal) : e.id = c.id => e = c.entry
  BY <1>6 DEF Safe, Closed
<1>9. c.entry \in JournalEntry
  BY <1>6, InSets
<1> DEFINE f == Flipped(c.entry)
<1>10. f.stage = "active" /\ f.id = c.id /\ f.sec = c.entry.sec
  BY <1>6, <1>9, FlippedEntry
<1>11. \A g \in ToSet(journal') : (g \in ToSet(journal) /\ g.id # c.id) \/ g = f
  BY <1>6, <1>7, <1>8
<1>12. f \in ToSet(journal')
  BY <1>6, <1>7
<1> HIDE DEF f
<1>13. PICK r : r = [kind |-> c.kind, id |-> c.id, sec |-> c.sec, ok |-> TRUE]
  OBVIOUS
<1>14. r.kind = "delete" /\ r.id = c.id /\ r \in ReplyType /\ replies' = Append(replies, r)
  BY <1>2, <1>13, CallIs DEF ReplyType, Kinds, Answers
<1>15. ToSet(replies') = ToSet(replies) \cup {r}
  BY <1>14, AppendedSet DEF Sane, Typed, RendererTyped
<1>16. \A i : Open(i)' => Open(i) \/ i = c.id
  BY <1>3, <1>14, <1>15 DEF Open, renderer
<1>17. \A g \in ToSet(journal') : g.stage = "staged" => ~Open(g.id)'
  BY <1>10, <1>11, <1>16 DEF Safe, Closed
<1>18. \A g, h \in ToSet(journal') : g.id = h.id => g = h
  BY <1>10, <1>11 DEF Safe, Closed
<1>19. \A b \in calls' : b.kind # "delete"
  BY <1>1, <1>3 DEF Alone, Writer
<1>20. Knows(c.id, c.sec) /\ c.sec \in 0..NumChapters
  BY CallIs DEF Knows
<1>21. \A i \in Ids : Open(i)' => i > budget'.click
  BY <1>5, <1>16, <1>20 DEF Safe, Closed, Sane, OneChapterEach
<1>22. Closed'
  BY <1>17, <1>18, <1>19, <1>21 DEF Closed
<1>23. \A e \in ToSet(journal) : e.sec \in gone' \/ \E g \in ToSet(journal') : g.sec = e.sec
  BY <1>7, <1>8, <1>10, <1>12
<1>24. Kept'
  BY <1>2, <1>7, <1>23, KeptFrame DEF Safe
<1> QED BY <1>4, <1>22, <1>24 DEF Safe

LEMMA RollbackSafe ==
  ASSUME Sane, Sane', Alone, Safe, NEW c \in calls, c.kind = "delete", Rollback(c),
         UNCHANGED <<boot, renderer, budget>>
  PROVE  Safe'
<1>1. c.at \in RollbackSteps /\ gone' = gone
  BY DEF Rollback, RollbackSteps, ghosts
<1>2. c \in CallType /\ InHand(c) /\ Writer(c) /\ c.entry.sec = c.sec /\ c.entry.id = c.id
  BY <1>1, CallIs DEF InHand, RollbackSteps, Writer
<1>3. InStep(c)
  BY DEF Safe, Places
<1>4. /\ c.sec \in ToSet(c.doc) /\ c.entry.stage = "staged" /\ c.entry \in ToSet(journal)
      /\ c.at \in {"back-rows", "back-summaries", "back-drop"} => proposal = c.doc
      /\ c.at \in {"back-meta", "back-save"} => proposal \in {c.doc, RemoveFirst(c.doc, c.sec)}
  BY <1>1, <1>2, <1>3 DEF InStep, Early, RollbackSteps
<1>5. CASE c.at # "back-drop"
  <2>1. /\ journal' = journal
        /\ c.at # "back-save" => proposal' = proposal
        /\ c.at = "back-save" => proposal' = c.doc
    BY <1>1, <1>5 DEF Rollback, RollbackSteps
  <2>2. PICK a \in RollbackSteps : Goes(c, a) /\ (c.at = "back-meta" <=> a = "back-save")
                                   /\ a # "back-meta"
    BY <1>5 DEF Rollback, RollbackSteps
  <2>3. PICK d : d = [c EXCEPT !.at = a] OBVIOUS
  <2>4. d \in CallType /\ d.kind = c.kind /\ d.id = c.id /\ d.sec = c.sec /\ d.at = a
        /\ d.doc = c.doc /\ d.entry = c.entry
    BY <1>2, <2>3, CallMoved DEF CallPlaces
  <2>5. calls' = (calls \ {c}) \cup {d} /\ replies' = replies
    BY <2>2, <2>3 DEF Goes
  <2>6. InStep(d)'
    BY <1>1, <1>4, <2>1, <2>2, <2>4 DEF InStep, Early, RollbackSteps
  <2>7. ToSet(RemoveFirst(c.doc, c.sec)) \subseteq ToSet(c.doc)
    BY <1>2, CallIs, RemovedIs
  <2>8. \A s \in ToSet(proposal) : s \in ToSet(proposal')
    BY <1>4, <2>1, <2>7
  <2>9. c.kind = "delete" => d.entry = c.entry /\ d.at \notin Early
    BY <2>2, <2>4 DEF Early, RollbackSteps
  <2> QED BY <1>1, <1>2, <2>1, <2>4, <2>5, <2>6, <2>8, <2>9, GoesSafe
<1>6. CASE c.at = "back-drop"
  <2>1. /\ Answers(c, c.id, c.sec, FALSE) /\ proposal' = proposal
        /\ journal' = Without({e \in ToSet(journal) : e.id = c.id})
    BY <1>6 DEF Rollback
  <2>2. ToSet(journal') = ToSet(journal) \ {e \in ToSet(journal) : e.id = c.id}
    BY <2>1, InSets, WithoutIs
  <2>3. EndedQuietly(c) BY <2>1, CallIs DEF EndedQuietly
  <2>4. Closed' BY <2>2, <2>3, ClosedQuiet DEF Safe
  <2>5. Places' BY <1>2, <2>1, WriterEnded DEF Answers
  <2>6. \A e \in ToSet(journal) : e.id = c.id => e.sec \in ToSet(proposal')
    BY <1>2, <1>4, <1>6, <2>1 DEF Safe, Closed
  <2>7. Kept'
    BY <1>1, <2>1, <2>2, <2>6, KeptFrame DEF Safe
  <2> QED BY <2>4, <2>5, <2>7 DEF Safe
<1> QED BY <1>5, <1>6

LEMMA UndoStepsSafe ==
  ASSUME Sane, Sane', Alone, Safe, NEW c \in calls, c.kind \in {"undo", "startup"},
         UndoMeta(c) \/ UndoRows(c) \/ UndoSummaries(c) \/ UndoSave(c),
         UNCHANGED <<boot, renderer, budget>>
  PROVE  Safe'
<1>1. /\ c.at \in {"meta", "rows", "summaries", "save"} /\ journal' = journal /\ gone' = gone
      /\ c.at # "save" => proposal' = proposal
      /\ c.at = "save" => proposal' = Restored(c.doc, c.entry)
  BY DEF UndoMeta, UndoRows, UndoSummaries, UndoSave, ghosts
<1>2. PICK a \in {"rows", "summaries", "save", "drop"} : Goes(c, a) /\ (a = "drop" <=> c.at = "save")
  BY DEF UndoMeta, UndoRows, UndoSummaries, UndoSave
<1>3. c \in CallType /\ InHand(c) /\ a \in CallPlaces
  BY <1>1, CallIs DEF InHand, CallPlaces, UndoSteps
<1>4. PICK d : d = [c EXCEPT !.at = a] OBVIOUS
<1>5. d \in CallType /\ d.kind = c.kind /\ d.id = c.id /\ d.sec = c.sec /\ d.at = a
      /\ d.doc = c.doc /\ d.entry = c.entry
  BY <1>3, <1>4, CallMoved
<1>6. calls' = (calls \ {c}) \cup {d} /\ replies' = replies
  BY <1>2, <1>4 DEF Goes
<1>7. proposal = c.doc /\ c.entry.sec = c.sec
  BY <1>1, <1>3, CallIs DEF Safe, Places, InStep
<1>8. ToSet(Restored(c.doc, c.entry)) = ToSet(c.doc) \cup {c.sec}
  BY <1>3, <1>7, CallIs, RestoredIs DEF JournalEntry
<1>9. InStep(d)'
  BY <1>1, <1>2, <1>5, <1>7, <1>8 DEF InStep
<1>10. \A s \in ToSet(proposal) : s \in ToSet(proposal')
  BY <1>1, <1>7, <1>8
<1>11. c.kind # "delete" OBVIOUS
<1> QED BY <1>1, <1>5, <1>6, <1>9, <1>10, <1>11, GoesSafe DEF Writer

LEMMA UndoFindSafe ==
  ASSUME Sane, Sane', Alone, Safe, NEW c \in calls, c.kind \in {"undo", "startup"},
         UndoFind(c) \/ UndoLoad(c), UNCHANGED <<boot, renderer, budget>>
  PROVE  Safe'
<1>0. UNCHANGED <<proposal, journal, gone>>
  BY DEF UndoFind, UndoLoad, stores, ghosts
<1>1. c \in CallType BY CallIs
<1>2. CASE UndoFind(c) /\ ~ \E e \in ToSet(journal) : e.id = c.id
  <2>1. Answers(c, c.id, c.sec, TRUE) BY <1>2 DEF UndoFind
  <2>2. EndedQuietly(c) BY <2>1, CallIs DEF EndedQuietly
  <2>3. Closed' BY <1>0, <2>2, ClosedQuiet DEF Safe
  <2>4. Places' BY <2>1, WriterEnded DEF Answers, Writer
  <2>5. Kept' BY <1>0, KeptFrame DEF Safe
  <2> QED BY <2>3, <2>4, <2>5 DEF Safe
<1>3. CASE UndoFind(c) /\ \E e \in ToSet(journal) : e.id = c.id
  <2>1. PICK d : d = [c EXCEPT !.at = "load", !.entry = CHOOSE e \in ToSet(journal) : e.id = c.id]
    OBVIOUS
  <2>2. calls' = (calls \ {c}) \cup {d} /\ replies' = replies
    BY <1>3, <2>1 DEF UndoFind
  <2>3. d.kind = c.kind /\ d.id = c.id /\ d.sec = c.sec /\ d.at = "load"
    BY <1>1, <2>1 DEF CallType
  <2>4. d \in CallType
    BY <2>2 DEF Sane, Typed, CallsTyped
  <2>5. InStep(d)'
    BY <2>3 DEF InStep
  <2>6. \A s \in ToSet(proposal) : s \in ToSet(proposal') BY <1>0
  <2> QED BY <1>0, <2>2, <2>3, <2>4, <2>5, <2>6, GoesSafe DEF Writer
<1>4. CASE UndoLoad(c)
  <2>1. PICK d : d = [c EXCEPT !.at = "meta", !.doc = proposal]
    OBVIOUS
  <2>2. calls' = (calls \ {c}) \cup {d} /\ replies' = replies
    BY <1>4, <2>1 DEF UndoLoad
  <2>3. d.kind = c.kind /\ d.id = c.id /\ d.sec = c.sec /\ d.at = "meta" /\ d.doc = proposal
    BY <1>1, <2>1 DEF CallType
  <2>4. d \in CallType
    BY <2>2 DEF Sane, Typed, CallsTyped
  <2>5. InStep(d)'
    BY <1>0, <2>3 DEF InStep
  <2>6. \A s \in ToSet(proposal) : s \in ToSet(proposal') BY <1>0
  <2> QED BY <1>0, <2>2, <2>3, <2>4, <2>5, <2>6, GoesSafe DEF Writer
<1> QED BY <1>2, <1>3, <1>4

\* The last step of an undo, and a finalize: entries are thrown away with their
\* chapters, except the chapter that has just been put back.
LEMMA ClosingSafe ==
  ASSUME Sane, Sane', Alone, Safe, NEW c \in calls,
         c.kind = "finalize" \/ (c.kind \in {"undo", "startup"} /\ c.at = "drop"),
         Answers(c, c.id, c.sec, TRUE), journal' = Without(WindowAndOlder(c.id)),
         c.kind = "finalize" => gone' = gone \cup Chapters_(WindowAndOlder(c.id)),
         c.kind # "finalize" => gone' = gone \cup (Chapters_(WindowAndOlder(c.id)) \ {c.sec}),
         proposal' = proposal, UNCHANGED <<boot, renderer, budget>>
  PROVE  Safe'
<1>1. ToSet(journal') = ToSet(journal) \ WindowAndOlder(c.id)
  BY InSets, WithoutIs
<1>2. \A e \in WindowAndOlder(c.id) : e \in ToSet(journal) /\ (e.id = c.id \/ e.stage = "active")
  BY InSets, WindowIs
<1>3. EndedQuietly(c)
  BY CallIs DEF EndedQuietly
<1>4. calls' = calls \ {c}
  BY DEF Answers
<1>5. Closed'
  BY <1>1, <1>3, ClosedQuiet DEF Safe
<1>6. CASE c.kind = "finalize"
  <2>1. Open(c.id) BY <1>6 DEF Open
  <2>2. \A e \in WindowAndOlder(c.id) : e.stage # "staged"
    BY <1>2, <2>1 DEF Safe, Closed
  <2>3. ASSUME NEW b \in calls' PROVE InStep(b)'
    <3>1. InStep(b) /\ b \in calls BY <1>4 DEF Safe, Places
    <3>2. CASE b.kind = "delete" /\ b.at \notin Early
      <4>1. b.entry \in ToSet(journal) /\ b.entry.stage = "staged"
        BY <3>1, <3>2 DEF InStep, Early
      <4>2. b.entry \in ToSet(journal') BY <1>1, <2>2, <4>1
      <4> QED BY <3>1, <4>2 DEF InStep
    <3>3. CASE ~(b.kind = "delete" /\ b.at \notin Early)
      BY <3>1, <3>3 DEF InStep
    <3> QED BY <3>2, <3>3
  <2>4. Places' BY <2>3 DEF Places
  <2>5. Kept'
    BY <1>1, <1>6, KeptFrame DEF Safe, Chapters_
  <2> QED BY <1>5, <2>4, <2>5 DEF Safe
<1>7. CASE c.kind \in {"undo", "startup"} /\ c.at = "drop"
  <2>1. Places' BY <1>4, <1>7, WriterEnded DEF Writer
  <2>2. c.sec \in ToSet(proposal)
    BY <1>7 DEF Safe, Places, InStep
  <2>3. \A e \in ToSet(journal) : e.sec \in gone' \/ e.sec \in ToSet(proposal') \/ e \in ToSet(journal')
    BY <1>1, <1>7, <2>2 DEF Chapters_
  <2>4. gone \subseteq gone' BY <1>7
  <2>5. Kept'
    BY <2>3, <2>4, KeptFrame DEF Safe
  <2> QED BY <1>5, <2>1, <2>5 DEF Safe
<1> QED BY <1>6, <1>7

LEMMA HandleSafe ==
  ASSUME Sane, Sane', Alone, Safe, Handle
  PROVE  Safe'
<1>1. PICK c \in calls : DeleteHandler(c) \/ UndoHandler(c) \/ FinalizeDelete(c) \/ ListPending(c)
  BY DEF Handle
<1>2. UNCHANGED <<boot, renderer, budget>>
  BY DEF Handle
<1>3. CASE DeleteHandler(c)
  <2>1. c.kind = "delete" BY <1>3 DEF DeleteHandler
  <2>2. CASE DeleteRead(c) BY <1>2, <2>1, <2>2, DeleteReadSafe
  <2>3. CASE DeleteStage(c) BY <1>2, <2>1, <2>3, DeleteStageSafe
  <2>4. CASE DeleteSummaries(c) \/ DeleteRows(c) \/ DeleteSave(c)
    BY <1>2, <2>1, <2>4, DeleteStepsSafe
  <2>5. CASE DeleteFlip(c) BY <1>2, <2>1, <2>5, DeleteFlipSafe
  <2>6. CASE Rollback(c) BY <1>2, <2>1, <2>6, RollbackSafe
  <2> QED BY <1>3, <2>2, <2>3, <2>4, <2>5, <2>6 DEF DeleteHandler
<1>4. CASE UndoHandler(c)
  <2>1. c.kind \in {"undo", "startup"} BY <1>4 DEF UndoHandler
  <2>2. CASE UndoFind(c) \/ UndoLoad(c) BY <1>2, <2>1, <2>2, UndoFindSafe
  <2>3. CASE UndoMeta(c) \/ UndoRows(c) \/ UndoSummaries(c) \/ UndoSave(c)
    BY <1>2, <2>1, <2>3, UndoStepsSafe
  <2>4. CASE UndoDrop(c)
    BY <1>2, <2>1, <2>4, ClosingSafe DEF UndoDrop
  <2> QED BY <1>4, <2>2, <2>3, <2>4 DEF UndoHandler
<1>5. CASE FinalizeDelete(c)
  BY <1>2, <1>5, ClosingSafe DEF FinalizeDelete
<1>6. CASE ListPending(c)
  <2>1. UNCHANGED <<proposal, journal, gone>> /\ c.kind = "hydrate"
    BY <1>6 DEF ListPending, stores, ghosts
  <2>2. Ended(c) BY <1>6, ListShape
  <2>3. EndedQuietly(c) BY <2>1, <2>2 DEF Ended, EndedQuietly
  <2>4. Closed' BY <1>2, <2>1, <2>3, ClosedQuiet DEF Safe
  <2>5. calls' = calls \ {c} BY <2>3 DEF EndedQuietly, Answers
  <2>6. Places' BY <2>1, <2>5 DEF Safe, Places, InStep
  <2>7. Kept' BY <2>1, KeptFrame DEF Safe
  <2> QED BY <2>4, <2>6, <2>7 DEF Safe
<1> QED BY <1>1, <1>3, <1>4, <1>5, <1>6

LEMMA FailSafe ==
  ASSUME Sane, Sane', Alone, Safe, Fail
  PROVE  Safe'
<1>1. PICK c \in calls :
        /\ c.at # "flush" /\ Spend("trouble")
        /\ IF c.kind = "delete" /\ c.at \in {"summaries", "rows", "save"}
           THEN Goes(c, "back-meta") ELSE Answers(c, c.id, c.sec, FALSE)
        /\ proposal' \in {proposal} \cup (IF c.at = "save" THEN
             {IF c.kind = "delete" THEN RemoveFirst(c.doc, c.sec) ELSE Restored(c.doc, c.entry)}
             ELSE {})
        /\ UNCHANGED <<journal, boot, renderer, gone>>
  BY DEF Fail
<1>2. c \in CallType /\ WellPlaced(c) /\ c.kind \in Kinds /\ InStep(c)
  BY CallIs DEF Safe, Places
<1>3. budget'.click = budget.click
  BY <1>1, SpentIs DEF Sane, Typed
<1>4. CASE c.kind = "delete" /\ c.at \in {"summaries", "rows", "save"}
  <2>1. Goes(c, "back-meta") BY <1>1, <1>4
  <2>2. InHand(c) BY <1>4 DEF InHand
  <2>3. PICK d : d = [c EXCEPT !.at = "back-meta"] OBVIOUS
  <2>4. d \in CallType /\ d.kind = c.kind /\ d.id = c.id /\ d.sec = c.sec /\ d.at = "back-meta"
        /\ d.doc = c.doc /\ d.entry = c.entry
    BY <1>2, <2>3, CallMoved DEF CallPlaces, RollbackSteps
  <2>5. calls' = (calls \ {c}) \cup {d} /\ replies' = replies
    BY <2>1, <2>3 DEF Goes
  <2>6. proposal = c.doc /\ c.entry \in ToSet(journal) /\ c.sec \in ToSet(c.doc)
        /\ c.entry.stage = "staged" /\ c.entry.sec = c.sec
    BY <1>2, <1>4, <2>2, CallIs DEF InStep, Early
  <2>7. proposal' \in {c.doc, RemoveFirst(c.doc, c.sec)}
    BY <1>1, <1>4, <2>6
  <2>8. InStep(d)'
    BY <1>1, <1>4, <2>4, <2>6, <2>7 DEF InStep, Early
  <2>9. ToSet(c.doc) \ {c.sec} \subseteq ToSet(RemoveFirst(c.doc, c.sec))
    BY <1>2, CallIs, RemovedIs
  <2>10. \A s \in ToSet(proposal) : s \in ToSet(proposal') \/ \E e \in ToSet(journal) : e.sec = s
    BY <2>6, <2>7, <2>9
  <2> QED BY <1>1, <1>3, <1>4, <2>4, <2>5, <2>8, <2>10, GoesSafe DEF Writer, Early
<1>5. CASE ~(c.kind = "delete" /\ c.at \in {"summaries", "rows", "save"})
  <2>1. Answers(c, c.id, c.sec, FALSE) BY <1>1, <1>5
  <2>2. calls' = calls \ {c} BY <2>1 DEF Answers
  <2>3. c.kind = "hydrate" => c.id = 0 BY <1>2 DEF WellPlaced
  <2>4. EndedQuietly(c) BY <2>1, <2>3, CallIs DEF EndedQuietly
  <2>5. Closed' BY <1>1, <1>3, <2>4, ClosedQuiet DEF Safe
  <2>6. CASE c.kind \in {"undo", "startup"} /\ c.at = "save"
    <3>1. InHand(c) BY <2>6 DEF InHand
    <3>2. proposal = c.doc /\ c.entry.sec = c.sec
      BY <1>2, <2>6, <3>1, CallIs DEF InStep
    <3>3. ToSet(Restored(c.doc, c.entry)) = ToSet(c.doc) \cup {c.sec}
      BY <3>1, <3>2, CallIs, RestoredIs DEF JournalEntry
    <3>4. \A s \in ToSet(proposal) : s \in ToSet(proposal')
      BY <1>1, <2>6, <3>2, <3>3
    <3>5. Places' BY <2>2, <2>6, WriterEnded DEF Writer
    <3>6. Kept' BY <1>1, <3>4, KeptFrame DEF Safe
    <3> QED BY <2>5, <3>5, <3>6 DEF Safe
  <2>7. CASE ~(c.kind \in {"undo", "startup"} /\ c.at = "save")
    <3>1. c.at # "save"
      BY <1>2, <1>5, <2>7 DEF WellPlaced, Kinds
    <3>2. proposal' = proposal BY <1>1, <3>1
    <3>3. Places' BY <1>1, <2>2, <3>2 DEF Safe, Places, InStep
    <3>4. Kept' BY <1>1, <3>2, KeptFrame DEF Safe
    <3> QED BY <2>5, <3>3, <3>4 DEF Safe
  <2> QED BY <2>6, <2>7
<1> QED BY <1>4, <1>5

\* A step that leaves the document and the journal alone and starts no writer,
\* or one that has not read anything yet, and opens no number.
LEMMA QuietSafe ==
  ASSUME Sane, Sane', Safe, UNCHANGED <<proposal, journal, gone>>,
         \A d \in calls' : d \in calls \/ (d.kind \in {"finalize", "hydrate", "undo", "startup"}
                                           /\ d.at \notin {"meta", "rows", "summaries", "save"}
                                           /\ (d.at = "drop" => d.kind = "finalize")),
         \A i \in Ids : Open(i)' => Open(i), budget'.click <= budget.click
  PROVE  Safe'
<1>1. \A b \in calls' : b.kind = "delete" => \E a \in calls :
        /\ a.kind = "delete" /\ a.id = b.id
        /\ a.at \in Early \/ (a.entry = b.entry /\ b.at \notin Early)
  <2> SUFFICES ASSUME NEW b \in calls', b.kind = "delete"
               PROVE  \E a \in calls : /\ a.kind = "delete" /\ a.id = b.id
                                       /\ a.at \in Early \/ (a.entry = b.entry /\ b.at \notin Early)
    OBVIOUS
  <2>1. b \in calls OBVIOUS
  <2> QED BY <2>1
<1>2. Closed'
  BY <1>1, ClosedFrame DEF Safe
<1>3. ASSUME NEW d \in calls' PROVE InStep(d)'
  <2>1. CASE d \in calls BY <2>1 DEF Safe, Places, InStep
  <2>2. CASE d \notin calls BY <2>2 DEF InStep
  <2> QED BY <2>1, <2>2
<1>4. Places' BY <1>3 DEF Places
<1>5. Kept' BY KeptFrame DEF Safe
<1> QED BY <1>2, <1>4, <1>5 DEF Safe

LEMMA CleanUpSafe ==
  ASSUME Sane, Sane', Alone, Safe, CleanUp
  PROVE  Safe'
<1> DEFINE e == Head(boot)
<1>1. /\ calls = {} /\ UNCHANGED <<proposal, replies, renderer, budget>>
      /\ \/ /\ calls' = {[Call("startup", e.id, e.sec, "load") EXCEPT !.entry = e]}
            /\ UNCHANGED <<journal, gone>>
         \/ journal' = Without({e}) /\ gone' = gone \cup {e.sec} /\ UNCHANGED calls
  BY DEF CleanUp
<1> HIDE DEF e
<1>2. PICK d : d = [Call("startup", e.id, e.sec, "load") EXCEPT !.entry = e]
  OBVIOUS
<1>3. d.kind = "startup" /\ d.at = "load"
  BY <1>2 DEF Call
<1>4. \A i : Open(i)' => Open(i)
  BY <1>1, <1>2, <1>3 DEF Open, renderer
<1>5. budget'.click <= budget.click
  BY <1>1 DEF Sane, Typed, GhostsTyped
<1>6. CASE calls' = {d} /\ UNCHANGED <<journal, gone>>
  BY <1>1, <1>3, <1>4, <1>5, <1>6, QuietSafe
<1>7. CASE journal' = Without({e}) /\ gone' = gone \cup {e.sec} /\ UNCHANGED calls
  <2>1. ToSet(journal') = ToSet(journal) \ {e}
    BY <1>7, InSets, WithoutIs
  <2>2. \A b \in calls' : b.kind = "delete" => \E a \in calls :
        /\ a.kind = "delete" /\ a.id = b.id
        /\ a.at \in Early \/ (a.entry = b.entry /\ b.at \notin Early)
    BY <1>1, <1>7
  <2>3. Closed' BY <1>4, <1>5, <2>1, <2>2, ClosedFrame DEF Safe
  <2>4. Places' BY <1>1, <1>7 DEF Places
  <2>5. Kept' BY <1>1, <1>7, <2>1, KeptFrame DEF Safe
  <2> QED BY <2>3, <2>4, <2>5 DEF Safe
<1> QED BY <1>1, <1>2, <1>6, <1>7

LEMMA ClickDeleteSafe ==
  ASSUME Sane, Sane', Alone, Safe, NEW c \in Chapters, ClickDelete(c)
  PROVE  Safe'
<1>1. PICK f, d : f = Call("finalize", window.id, window.sec, "drop")
                  /\ d = Call("delete", budget.click, c, "flush")
  OBVIOUS
<1>2. /\ Spend("click") /\ UNCHANGED <<proposal, journal, gone, replies, window>>
      /\ timer' = IF timer = window.id THEN 0 ELSE timer
      /\ calls' \subseteq calls \cup {f, d}
  BY <1>1 DEF ClickDelete, stores
<1>3. f.kind = "finalize" /\ f.id = window.id /\ f.at = "drop"
      /\ d.kind = "delete" /\ d.id = budget.click /\ d.at = "flush"
  BY <1>1 DEF Call
<1>4. budget'.click = budget.click - 1 /\ budget.click \in Ids /\ budget.click \in Int
  BY <1>2, SpentIs DEF Sane, Typed, Ids
<1>5. \A i \in Ids : Open(i)' => Open(i)
  BY <1>2, <1>3 DEF Open, Ids
<1>6. ~Open(budget.click)
  BY <1>4 DEF Safe, Closed
<1>7. \A e \in ToSet(journal) : e.id # budget.click
  <2> SUFFICES ASSUME NEW e \in ToSet(journal), e.id = budget.click PROVE FALSE
    OBVIOUS
  <2>1. Knows(e.id, e.sec) /\ e.sec \in 0..NumChapters
    BY InSets DEF Knows, Chapters
  <2> QED BY <1>4, <2>1 DEF Sane, OneChapterEach
<1>8. Places'
  BY <1>2, <1>3 DEF Safe, Places, InStep, Early
<1>9. \A b \in calls' : b.kind = "delete" =>
        ~Open(b.id)' /\ \A e \in ToSet(journal') : e.id = b.id => b.at \notin Early /\ e = b.entry
  <2> SUFFICES ASSUME NEW b \in calls', b.kind = "delete"
               PROVE  ~Open(b.id)' /\ \A e \in ToSet(journal') : e.id = b.id =>
                                                    b.at \notin Early /\ e = b.entry
    OBVIOUS
  <2>1. CASE b = d BY <1>2, <1>3, <1>4, <1>5, <1>6, <1>7, <2>1
  <2>2. CASE b \in calls
    <3>1. b.id \in Ids BY <2>2, CallIs DEF WellPlaced
    <3> QED BY <1>2, <1>5, <2>2, <3>1 DEF Safe, Closed
  <2> QED BY <1>2, <1>3, <2>1, <2>2
<1>10. \A i \in Ids : Open(i)' => i > budget'.click
  BY <1>4, <1>5 DEF Safe, Closed, Ids
<1>11. \A e \in ToSet(journal') : e.stage = "staged" => ~Open(e.id)'
  BY <1>2, <1>5, InSets DEF Safe, Closed
<1>12. Closed'
  BY <1>2, <1>9, <1>10, <1>11 DEF Safe, Closed
<1>13. Kept'
  BY <1>2, KeptFrame DEF Safe
<1> QED BY <1>8, <1>12, <1>13 DEF Safe

LEMMA FlushSafe ==
  ASSUME Sane, Sane', Alone, Safe, Flush
  PROVE  Safe'
<1>1. PICK c \in calls :
        /\ c.at = "flush"
        /\ \/ Goes(c, "read") /\ UNCHANGED <<mutating, budget>>
           \/ /\ Spend("trouble") /\ calls' = calls \ {c} /\ mutating' = FALSE
              /\ UNCHANGED replies
        /\ UNCHANGED <<stores, boot, window, timer, bound, ghosts>>
  BY DEF Flush
<1>2. c.kind = "delete" /\ c \in CallType /\ Writer(c)
  BY <1>1, CallIs DEF WellPlaced, UndoSteps, Kinds, Writer
<1>3. UNCHANGED <<proposal, journal, gone>>
  BY <1>1 DEF stores, ghosts
<1>4. CASE Goes(c, "read") /\ UNCHANGED <<mutating, budget>>
  <2>1. PICK d : d = [c EXCEPT !.at = "read"] OBVIOUS
  <2>2. d \in CallType /\ d.kind = c.kind /\ d.id = c.id /\ d.sec = c.sec /\ d.at = "read"
    BY <1>2, <2>1, CallMoved DEF CallPlaces, DeleteSteps
  <2>3. calls' = (calls \ {c}) \cup {d} /\ replies' = replies
    BY <1>4, <2>1 DEF Goes
  <2>4. InStep(d)'
    BY <1>2, <2>2 DEF InStep, Early
  <2>5. \A s \in ToSet(proposal) : s \in ToSet(proposal') BY <1>3
  <2>6. UNCHANGED renderer BY <1>1, <1>4 DEF renderer
  <2> QED BY <1>1, <1>2, <1>3, <1>4, <2>2, <2>3, <2>4, <2>5, <2>6, GoesSafe DEF Early
<1>5. CASE Spend("trouble") /\ calls' = calls \ {c} /\ UNCHANGED replies
  <2>1. budget'.click <= budget.click
    BY <1>5, SpentIs DEF Sane, Typed
  <2>2. \A i \in Ids : Open(i)' => Open(i)
    BY <1>1, <1>5 DEF Open
  <2>3. \A d \in calls' : d \in calls BY <1>5
  <2> QED BY <1>3, <2>1, <2>2, <2>3, QuietSafe
<1> QED BY <1>1, <1>4, <1>5

\* The steps of the renderer, and a crash.
LEMMA RendererSafe ==
  ASSUME Sane, Sane', Safe, ClickUndo \/ FinalizeTimer \/ SwitchProject \/ OpenProject \/ Crash
  PROVE  Safe'
<1>1. PICK u, f, h : /\ u = Call("undo", IF bound THEN window.id ELSE 0, window.sec, "find")
                     /\ f = Call("finalize", timer, 0, "drop")
                     /\ h = Call("hydrate", 0, 0, "read")
  OBVIOUS
<1>2. /\ u.kind = "undo" /\ u.at = "find" /\ (u.id = 0 \/ u.id = window.id)
      /\ f.kind = "finalize" /\ f.id = timer
      /\ h.kind = "hydrate" /\ h.at = "read" /\ h.id = 0
  BY <1>1 DEF Call
<1>3. UNCHANGED <<proposal, journal, gone>>
  BY DEF ClickUndo, FinalizeTimer, SwitchProject, OpenProject, Crash, stores, ghosts
<1>4. budget'.click <= budget.click
  <2>1. CASE ClickUndo BY <2>1, SpentIs DEF ClickUndo, Sane, Typed
  <2>2. CASE SwitchProject \/ Crash BY <2>2, SpentIs DEF SwitchProject, Crash, Sane, Typed
  <2>3. CASE FinalizeTimer \/ OpenProject
    BY <2>3 DEF FinalizeTimer, OpenProject, Sane, Typed, GhostsTyped
  <2> QED BY <2>1, <2>2, <2>3
<1>5. \/ calls' = calls \cup {u} \/ calls' = calls \cup {f} \/ calls' = calls \cup {h}
      \/ calls' = calls \/ calls' = {}
  BY <1>1 DEF ClickUndo, FinalizeTimer, SwitchProject, OpenProject, Crash
<1>6. ASSUME NEW i \in Ids, Open(i)' PROVE Open(i)
  <2>0. i # 0 /\ None.id = 0 BY DEF Ids, None
  <2>1. CASE ClickUndo BY <1>1, <1>2, <1>6, <2>0, <2>1 DEF Open, ClickUndo
  <2>2. CASE FinalizeTimer BY <1>1, <1>2, <1>6, <2>0, <2>2 DEF Open, FinalizeTimer
  <2>3. CASE SwitchProject BY <1>6, <2>0, <2>3 DEF Open, SwitchProject
  <2>4. CASE OpenProject BY <1>1, <1>2, <1>6, <2>0, <2>4 DEF Open, OpenProject
  <2>5. CASE Crash
    <3>1. ToSet(replies') = {} BY <2>5, EmptySeqIs DEF Crash
    <3> QED BY <1>6, <2>0, <2>5, <3>1 DEF Open, Crash
  <2> QED BY <2>1, <2>2, <2>3, <2>4, <2>5
<1>7. \A d \in calls' : d \in calls \/ (d.kind \in {"finalize", "hydrate", "undo", "startup"}
                                        /\ d.at \notin {"meta", "rows", "summaries", "save"}
                                        /\ (d.at = "drop" => d.kind = "finalize"))
  <2>1. f.at = "drop" BY <1>1 DEF Call
  <2> QED BY <1>2, <1>5, <2>1
<1> QED BY <1>3, <1>4, <1>6, <1>7, QuietSafe

LEMMA ReplySafe ==
  ASSUME Sane, Sane', Safe, Reply
  PROVE  Safe'
<1>1. PICK r : r = Head(replies)
  OBVIOUS
<1>2. replies # <<>> /\ replies' = Tail(replies) /\ UNCHANGED <<stores, calls, ghosts, budget>>
      /\ (OnDeleteReply(r) \/ OnUndoReply(r) \/ OnFinalizeReply(r) \/ OnHydrateReply(r))
  BY <1>1 DEF Reply
<1>3. r \in ToSet(replies) /\ ToSet(replies') \subseteq ToSet(replies)
  BY <1>1, <1>2, HeadAndTail DEF Sane, Typed, RendererTyped
<1>4. UNCHANGED <<proposal, journal, gone>>
  BY <1>2 DEF stores, ghosts
<1>5. ASSUME NEW i \in Ids, Open(i)' PROVE Open(i)
  <2>0. i # 0 /\ None.id = 0 BY DEF Ids, None
  <2>1. CASE OnDeleteReply(r) BY <1>2, <1>3, <1>5, <2>1 DEF Open, OnDeleteReply
  <2>2. CASE OnUndoReply(r) BY <1>2, <1>3, <1>5, <2>0, <2>2 DEF Open, OnUndoReply
  <2>3. CASE OnFinalizeReply(r) BY <1>2, <1>3, <1>5, <2>0, <2>3 DEF Open, OnFinalizeReply
  <2>4. CASE OnHydrateReply(r) BY <1>2, <1>3, <1>5, <2>4 DEF Open, OnHydrateReply
  <2> QED BY <1>2, <2>1, <2>2, <2>3, <2>4
<1>6. budget'.click <= budget.click
  BY <1>2 DEF Sane, Typed, GhostsTyped
<1>7. \A d \in calls' : d \in calls BY <1>2
<1> QED BY <1>4, <1>5, <1>6, <1>7, QuietSafe

LEMMA SafeInit == DeleteInit => Safe
<1> SUFFICES ASSUME DeleteInit PROVE Safe
  OBVIOUS
<1>1. ToSet(journal) = {} /\ ToSet(replies) = {} /\ calls = {}
  BY DEF DeleteInit, ToSet
<1>2. window.id = 0 /\ timer = 0 BY DEF DeleteInit, None
<1>3. \A i \in Ids : ~Open(i) BY <1>1, <1>2 DEF Open, Ids
<1>4. Closed /\ Places BY <1>1, <1>3 DEF Closed, Places
<1>5. ToSet(proposal) = Chapters BY DEF DeleteInit, ToSet
<1> QED BY <1>4, <1>5 DEF Safe, Kept

LEMMA SafeNext ==
  ASSUME Sane, Sane', Alone, Safe, [DeleteNext]_deleteVars
  PROVE  Safe'
<1>1. CASE UNCHANGED deleteVars
  BY <1>1 DEF deleteVars, stores, renderer, ghosts, Safe, Closed, Places, Kept, InStep, Open
<1>2. CASE DeleteNext
  BY <1>2, HandleSafe, FailSafe, CleanUpSafe, ClickDeleteSafe, FlushSafe, RendererSafe, ReplySafe
     DEF DeleteNext
<1> QED BY <1>1, <1>2

\* Once an undo has overlapped, it stays so.
LEMMA RushedStays == ASSUME [DeleteNext]_deleteVars, rushed PROVE rushed'
<1>1. CASE Handle
  BY <1>1 DEF Handle, DeleteHandler, UndoHandler, FinalizeDelete, ListPending, DeleteRead, DeleteStage,
     DeleteSummaries, DeleteRows, DeleteSave, DeleteFlip, Rollback, UndoFind, UndoLoad, UndoMeta,
     UndoRows, UndoSummaries, UndoSave, UndoDrop, ghosts
<1>2. CASE Fail BY <1>2 DEF Fail
<1>3. CASE Crash \/ CleanUp \/ Flush BY <1>3 DEF Crash, CleanUp, Flush, ghosts
<1>4. CASE \E c \in Chapters : ClickDelete(c) BY <1>4 DEF ClickDelete
<1>5. CASE ClickUndo BY <1>5 DEF ClickUndo
<1>6. CASE FinalizeTimer \/ SwitchProject \/ OpenProject \/ Reply
  BY <1>6 DEF FinalizeTimer, SwitchProject, OpenProject, Reply, ghosts
<1>7. CASE UNCHANGED deleteVars BY <1>7 DEF deleteVars, ghosts
<1> QED BY <1>1, <1>2, <1>3, <1>4, <1>5, <1>6, <1>7 DEF DeleteNext

Calm == ~rushed => Alone /\ Safe

LEMMA CalmNext == Sane /\ Calm /\ [DeleteNext]_deleteVars => Calm'
<1> SUFFICES ASSUME Sane, Calm, [DeleteNext]_deleteVars, ~rushed' PROVE Alone' /\ Safe'
  BY DEF Calm
<1>1. Sane' BY SaneNext
<1>2. ~rushed BY RushedStays
<1>3. Alone /\ Safe BY <1>2 DEF Calm
<1> QED BY <1>1, <1>3, AloneNext, SafeNext

\* Until an undo overlaps a deletion or another undo, one handler writes at a
\* time, and what it may throw away is safe elsewhere.
THEOREM AlwaysCalm == DeleteSpec => []Calm
<1>1. DeleteInit => Calm
  BY AloneInit, SafeInit DEF Calm
<1> QED BY <1>1, CalmNext, AlwaysSane, PTL DEF DeleteSpec

\* No crash, no failed step and no order of finalizing, undoing and deleting
\* loses a chapter whose window is open, until an undo overlaps a deletion or
\* another undo (rushed): its text is in proposal.md or in the journal of
\* proposal.meta.json (chapter-structure-delete-service.ts).
THEOREM NoChapterLost == DeleteSpec => []NothingLost
<1>1. Sane /\ Calm => NothingLost
  <2> SUFFICES ASSUME Sane, Calm, ~rushed, NEW s \in Chapters \ gone
               PROVE  Contains(proposal, s) \/ \E e \in ToSet(journal) : e.sec = s
    BY DEF NothingLost
  <2>1. s \in ToSet(proposal) \/ \E e \in ToSet(journal) : e.sec = s
    BY DEF Calm, Safe, Kept
  <2> QED BY <2>1, InSets, ContainsIs
<1> QED BY <1>1, AlwaysSane, AlwaysCalm, PTL

-----------------------------------------------------------------------------
(* What the stores hold of one chapter: of a chapter no undo was broken off   *)
(* of, all of them or none when no handler has it in hand, and otherwise what *)
(* the handler has left and put back so far.                                  *)

Whole(e) == e.row /\ e.sum /\ e.notes > 0

EntriesOf(s) == {e \in ToSet(journal) : e.sec = s}

Present(s) == /\ s \in ToSet(proposal) /\ s \in sectionIndex /\ notes[s] > 0
              /\ s \in rows /\ s \in summaries

Absent(s) == /\ s \notin ToSet(proposal) /\ s \notin sectionIndex /\ notes[s] = 0
             /\ s \notin rows /\ s \notin summaries

Settled(s) == /\ EntriesOf(s) = {} => Present(s) \/ Absent(s)
              /\ \A e \in EntriesOf(s) : e.stage = "active" => Absent(s)

\* A deletion that finds a staged entry of its chapter promises nothing: it is
\* counted as botched by its next step.
DeletesWhole(c) ==
  /\ c.at = "stage" => \/ \E e \in EntriesOf(c.sec) : e.stage = "staged"
                       \/ Present(c.sec) /\ Whole(c.entry) /\ EntriesOf(c.sec) = {}
  /\ c.at # "stage" => Whole(c.entry)
  /\ c.at \in {"summaries", "rows", "save", "flip"} => c.sec \notin sectionIndex /\ notes[c.sec] = 0
  /\ c.at \in {"rows", "save", "flip"} => c.sec \notin summaries
  /\ c.at \in {"save", "flip"} => c.sec \notin rows
  /\ c.at = "flip" => c.sec \notin ToSet(proposal)
  /\ c.at \in {"back-save", "back-rows", "back-summaries", "back-drop"} =>
       c.sec \in sectionIndex /\ notes[c.sec] > 0
  /\ c.at \in {"back-summaries", "back-drop"} => c.sec \in rows
  /\ c.at = "back-drop" => c.sec \in summaries

RestoresWhole(c) ==
  /\ Whole(c.entry) /\ \A e \in EntriesOf(c.sec) : e = c.entry
  /\ c.at \in {"rows", "summaries", "save", "drop"} => c.sec \in sectionIndex /\ notes[c.sec] > 0
  /\ c.at \in {"summaries", "save", "drop"} => c.sec \in rows
  /\ c.at \in {"save", "drop"} => c.sec \in summaries
  /\ c.kind = "undo" =>
       /\ c.entry.stage = "active"
       /\ c.at \in {"load", "meta"} => Absent(c.sec)
       /\ c.at \in {"rows", "summaries", "save", "drop"} => notes[c.sec] = c.entry.notes
  /\ c.kind = "startup" => /\ c.entry.stage = "staged"
                           /\ c.entry \in ToSet(journal) \/ Present(c.sec)

InOrder(c) == IF c.kind = "delete" THEN DeletesWhole(c) ELSE RestoresWhole(c)

TidyAt(s) ==
  /\ Once(proposal, s)
  /\ \A c \in calls : c.kind = "delete" /\ InHand(c) => Once(c.doc, s)
  /\ \A e \in ToSet(journal) \cup ToSet(boot) : e.sec = s => Whole(e)
  /\ \A e, f \in ToSet(journal) \cup ToSet(boot) : e.sec = s /\ f.sec = s => e = f
  /\ \A e \in ToSet(boot) : e.sec = s /\ e.stage = "staged" => e \in ToSet(journal) \/ Present(s)
  /\ \A c \in calls : InHand(c) /\ c.sec = s => InOrder(c)
  /\ (\A c \in calls : ~(InHand(c) /\ c.sec = s)) => Settled(s)

Tidy == \A s \in Chapters \ botched : TidyAt(s)

\* A step leaves what the stores hold of a chapter.
SameStores(s) ==
  /\ s \in ToSet(proposal') <=> s \in ToSet(proposal)
  /\ s \in sectionIndex' <=> s \in sectionIndex
  /\ notes'[s] = notes[s]
  /\ s \in rows' <=> s \in rows
  /\ s \in summaries' <=> s \in summaries

LEMMA SameHolds ==
  ASSUME NEW s, SameStores(s)
  PROVE  (Present(s)' <=> Present(s)) /\ (Absent(s)' <=> Absent(s))
BY DEF SameStores, Present, Absent

\* A step of a handler that writes, as another chapter sees it.
LEMMA OtherTidy ==
  ASSUME Alone, NEW s, TidyAt(s), NEW c \in calls, Writer(c), c.sec # s,
         NEW d, calls' \subseteq (calls \ {c}) \cup {d}, d.sec = c.sec,
         d.kind = "delete" /\ InHand(d) => Once(d.doc, s),
         SameStores(s), Once(proposal', s), ToSet(boot') \subseteq ToSet(boot),
         \A e \in ToSet(journal') : e.sec = s => e \in ToSet(journal),
         \A e \in ToSet(journal) : e.sec = s => e \in ToSet(journal') \/ e.stage = "active"
  PROVE  TidyAt(s)'
<1>1. \A b \in calls : InHand(b) => b = c
  BY DEF Alone, Writer, InHand
<1>2. \A b \in calls' : ~(InHand(b) /\ b.sec = s)
  BY <1>1
<1>3. Settled(s)
  BY <1>1 DEF TidyAt
<1>4. Settled(s)'
  BY <1>3, SameHolds DEF Settled, EntriesOf
<1>5. \A b \in calls' : b.kind = "delete" /\ InHand(b) => Once(b.doc, s)
  BY DEF TidyAt
<1>6. \A e \in ToSet(boot') : e.sec = s /\ e.stage = "staged" => e \in ToSet(journal') \/ Present(s)'
  BY SameHolds DEF TidyAt
<1>7. \A e \in ToSet(journal') \cup ToSet(boot') : e.sec = s => e \in ToSet(journal) \cup ToSet(boot)
  OBVIOUS
<1>8. \A e \in ToSet(journal') \cup ToSet(boot') : e.sec = s => Whole(e)
  BY <1>7 DEF TidyAt
<1>9. \A e, f \in ToSet(journal') \cup ToSet(boot') : e.sec = s /\ f.sec = s => e = f
  BY <1>7 DEF TidyAt
<1>10. InHand(d)' <=> InHand(d)
  BY DEF InHand
<1> QED BY <1>2, <1>4, <1>5, <1>6, <1>8, <1>9 DEF TidyAt, InHand, Whole

\* The step as the chapter in hand sees it: the handler goes on,
LEMMA HandTidy ==
  ASSUME Alone, NEW s, TidyAt(s), NEW c \in calls, Writer(c),
         NEW d, calls' \subseteq (calls \ {c}) \cup {d}, d \in calls', d.sec = s, InHand(d), InOrder(d)',
         d.kind = "delete" => Once(d.doc, s),
         Once(proposal', s), ToSet(boot') \subseteq ToSet(boot),
         \A e \in ToSet(boot') : e.sec = s /\ e.stage = "staged" => e \in ToSet(journal') \/ Present(s)',
         \A e \in ToSet(journal') : e.sec = s => e \in ToSet(journal) \cup ToSet(boot)
           \/ (Whole(e) /\ EntriesOf(s)' = {e} /\ boot' = <<>>)
  PROVE  TidyAt(s)'
<1>1. \A b \in calls' : InHand(b) => b = d
  BY DEF Alone, Writer, InHand
<1>2. \A e \in ToSet(journal') \cup ToSet(boot') : e.sec = s => Whole(e)
  BY DEF TidyAt
<1>3. ASSUME NEW e \in ToSet(journal') \cup ToSet(boot'), NEW f \in ToSet(journal') \cup ToSet(boot'),
             e.sec = s, f.sec = s
      PROVE  e = f
  <2>1. CASE e \in ToSet(journal) \cup ToSet(boot) /\ f \in ToSet(journal) \cup ToSet(boot)
    BY <1>3, <2>1 DEF TidyAt
  <2>2. CASE \E g \in ToSet(journal') : EntriesOf(s)' = {g} /\ boot' = <<>>
    BY <1>3, <2>2, EmptySeqIs DEF EntriesOf
  <2> QED BY <1>3, <2>1, <2>2
<1>4. \A b \in calls' : b.kind = "delete" /\ InHand(b) => Once(b.doc, s)
  BY <1>1
<1>5. \A b \in calls' : InHand(b) /\ b.sec = s => InOrder(b)'
  BY <1>1
<1>6. (\A b \in calls' : ~(InHand(b) /\ b.sec = s)) => Settled(s)'
  OBVIOUS
<1> QED BY <1>2, <1>3, <1>4, <1>5, <1>6 DEF TidyAt, InHand, Whole

\* ... or ends.
LEMMA EndTidy ==
  ASSUME Alone, NEW s, TidyAt(s), NEW c \in calls, Writer(c), calls' \subseteq calls \ {c},
         Settled(s)', Once(proposal', s), ToSet(boot') \subseteq ToSet(boot),
         \A e \in ToSet(boot') : e.sec = s /\ e.stage = "staged" => e \in ToSet(journal') \/ Present(s)',
         \A e \in ToSet(journal') : e.sec = s => e \in ToSet(journal)
           \/ (Whole(e) /\ EntriesOf(s)' = {e} /\ boot' = <<>>)
  PROVE  TidyAt(s)'
<1>1. \A b \in calls' : ~InHand(b)
  BY DEF Alone, Writer, InHand
<1>2. \A e \in ToSet(journal') \cup ToSet(boot') : e.sec = s => Whole(e)
  BY DEF TidyAt
<1>3. ASSUME NEW e \in ToSet(journal') \cup ToSet(boot'), NEW f \in ToSet(journal') \cup ToSet(boot'),
             e.sec = s, f.sec = s
      PROVE  e = f
  <2>1. CASE e \in ToSet(journal) \cup ToSet(boot) /\ f \in ToSet(journal) \cup ToSet(boot)
    BY <1>3, <2>1 DEF TidyAt
  <2>2. CASE \E g \in ToSet(journal') : EntriesOf(s)' = {g} /\ boot' = <<>>
    BY <1>3, <2>2, EmptySeqIs DEF EntriesOf
  <2> QED BY <1>3, <2>1, <2>2
<1> QED BY <1>1, <1>2, <1>3 DEF TidyAt, InHand, Whole

\* A step that writes nothing and takes no chapter in hand nor lets one go.
LEMMA QuietTidy ==
  ASSUME NEW s, TidyAt(s), UNCHANGED <<stores, boot>>,
         \A d \in calls' : InHand(d) => d \in calls,
         \A d \in calls : InHand(d) => d \in calls'
  PROVE  TidyAt(s)'
<1>1. Once(proposal', s) BY DEF TidyAt, stores
<1>2. (EntriesOf(s)' = EntriesOf(s)) /\ (Present(s)' <=> Present(s)) /\ (Absent(s)' <=> Absent(s))
  BY DEF EntriesOf, Present, Absent, stores
<1>3. Settled(s)' <=> Settled(s)
  BY <1>2 DEF Settled
<1>4. \A d : InOrder(d)' <=> InOrder(d)
  BY DEF InOrder, DeletesWhole, RestoresWhole, EntriesOf, Present, Absent, Whole, stores
<1> QED BY <1>1, <1>2, <1>3, <1>4 DEF TidyAt, InHand, Whole, stores

LEMMA NotInHand ==
  ASSUME Alone, NEW s, TidyAt(s), NEW c \in calls, Writer(c), ~(InHand(c) /\ c.sec = s)
  PROVE  Settled(s)
BY DEF Alone, Writer, InHand, TidyAt

LEMMA DeleteReadTidy ==
  ASSUME Sane, Alone, Safe, NEW s \in Chapters, TidyAt(s), s \notin botched',
         NEW c \in calls, c.kind = "delete", DeleteRead(c), UNCHANGED <<boot, renderer, budget>>
  PROVE  TidyAt(s)'
<1>1. c \in CallType /\ WellPlaced(c) /\ c.at = "read" /\ Writer(c) /\ ~InHand(c)
  BY CallIs DEF DeleteRead, Writer, InHand
<1>2. UNCHANGED stores
  BY DEF DeleteRead
<1>3. CASE ~(c.sec \in sectionIndex /\ Contains(proposal, c.sec))
  <2>1. calls' = calls \ {c} BY <1>3 DEF DeleteRead, Answers
  <2> QED BY <1>1, <1>2, <2>1, QuietTidy
<1>4. CASE c.sec \in sectionIndex /\ Contains(proposal, c.sec)
  <2>1. PICK e : e = [id |-> c.id, sec |-> c.sec, stage |-> "staged",
                      prev |-> PreviousSibling(c.sec), notes |-> notes[c.sec],
                      row |-> c.sec \in rows, sum |-> c.sec \in summaries]
    OBVIOUS
  <2>2. PICK d : d = [c EXCEPT !.at = "stage", !.doc = proposal, !.entry = e]
    OBVIOUS
  <2>3. calls' = (calls \ {c}) \cup {d}
    BY <1>4, <2>1, <2>2 DEF DeleteRead
  <2>4. /\ d.kind = "delete" /\ d.sec = c.sec /\ d.at = "stage"
        /\ d.doc = proposal /\ d.entry = e
        /\ e.notes = notes[c.sec] /\ e.row = (c.sec \in rows) /\ e.sum = (c.sec \in summaries)
    BY <1>1, <2>1, <2>2 DEF CallType
  <2>5. c.sec \in ToSet(proposal)
    BY <1>4, InSets, ContainsIs
  <2>6. Settled(s) /\ Once(proposal, s)
    BY <1>1, NotInHand DEF TidyAt
  <2>7. InHand(d)
    BY <2>4 DEF InHand
  <2>8. CASE c.sec = s
    <3>1. (\E f \in EntriesOf(s) : f.stage = "staged") \/ (EntriesOf(s) = {} /\ Present(s))
      <4>1. \A f \in EntriesOf(s) : f.stage \in {"staged", "active"}
        BY InSets DEF EntriesOf, JournalEntry, Entry
      <4> QED BY <2>5, <2>6, <2>8, <4>1 DEF Settled, Absent
    <3>2. Present(s) => Whole(e)
      BY <2>4, <2>8 DEF Present, Whole
    <3>3. EntriesOf(s)' = EntriesOf(s) /\ (Present(s)' <=> Present(s))
      BY <1>2 DEF EntriesOf, Present, stores
    <3>4. InOrder(d)'
      BY <2>4, <2>8, <3>1, <3>2, <3>3 DEF InOrder, DeletesWhole, Whole
    <3>5. \A f \in ToSet(boot') : f.sec = s /\ f.stage = "staged" => f \in ToSet(journal') \/ Present(s)'
      BY <1>2, <3>3 DEF TidyAt, stores
    <3> QED BY <1>1, <1>2, <2>3, <2>4, <2>6, <2>7, <2>8, <3>4, <3>5, HandTidy DEF stores
  <2>9. CASE c.sec # s
    <3>1. SameStores(s) BY <1>2 DEF SameStores, stores
    <3> QED BY <1>1, <1>2, <2>3, <2>4, <2>6, <2>9, <3>1, OtherTidy DEF stores
  <2> QED BY <2>8, <2>9
<1> QED BY <1>3, <1>4

LEMMA DeleteStageTidy ==
  ASSUME Sane, Alone, Safe, NEW s \in Chapters, TidyAt(s), s \notin botched',
         NEW c \in calls, c.kind = "delete", DeleteStage(c), UNCHANGED <<boot, renderer, budget>>
  PROVE  TidyAt(s)'
<1>1. c \in CallType /\ c.at = "stage" /\ InHand(c) /\ Writer(c)
  BY CallIs DEF DeleteStage, InHand, Writer
<1>2. c.entry \in JournalEntry /\ c.entry.sec = c.sec /\ c.sec \in Chapters
  BY <1>1, CallIs
<1>3. ToSet(journal') = (ToSet(journal) \ OfStage("active")) \cup {c.entry}
  BY <1>2, InSets, StageIs DEF DeleteStage
<1>4. /\ Goes(c, "summaries") /\ UNCHANGED <<proposal, rows, summaries>>
      /\ sectionIndex' = sectionIndex \ {c.sec} /\ notes' = [notes EXCEPT ![c.sec] = 0]
      /\ botched' = botched \cup (Chapters_(ToSet(journal)) \cap {c.sec})
  BY DEF DeleteStage
<1>5. PICK d : d = [c EXCEPT !.at = "summaries"] OBVIOUS
<1>6. d.kind = "delete" /\ d.sec = c.sec /\ d.at = "summaries" /\ d.doc = c.doc /\ d.entry = c.entry
  BY <1>1, <1>5, CallMoved DEF CallPlaces, DeleteSteps
<1>7. calls' = (calls \ {c}) \cup {d}
  BY <1>4, <1>5 DEF Goes
<1>8. Once(c.doc, s) /\ Once(proposal', s) /\ InHand(d)
  BY <1>1, <1>4, <1>6 DEF TidyAt, InHand
<1>9. notes \in [Chapters -> Nat]
  BY DEF Sane, Typed, StoresTyped
<1>10. CASE c.sec = s
  <2>1. EntriesOf(s) = {}
    BY <1>4, <1>10 DEF EntriesOf, Chapters_
  <2>2. Present(s) /\ Whole(c.entry)
    BY <1>1, <1>10, <2>1 DEF TidyAt, InOrder, DeletesWhole
  <2>3. EntriesOf(s)' = {c.entry}
    BY <1>2, <1>3, <1>10, <2>1 DEF EntriesOf
  <2>4. boot' = <<>> /\ boot = <<>>
    BY DEF Alone, Up
  <2>5. s \notin sectionIndex' /\ notes'[s] = 0
    BY <1>4, <1>9, <1>10
  <2>6. InOrder(d)'
    BY <1>6, <1>10, <2>2, <2>5 DEF InOrder, DeletesWhole, Whole
  <2>7. \A e \in ToSet(journal') : e.sec = s => e = c.entry
    BY <2>3 DEF EntriesOf
  <2> QED BY <1>1, <1>6, <1>7, <1>8, <1>10, <2>2, <2>3, <2>4, <2>6, <2>7, HandTidy, EmptySeqIs
<1>11. CASE c.sec # s
  <2>1. SameStores(s)
    BY <1>4, <1>9, <1>11 DEF SameStores
  <2>2. \A e \in ToSet(journal') : e.sec = s => e \in ToSet(journal)
    BY <1>2, <1>3, <1>11
  <2>3. \A e \in ToSet(journal) : e.sec = s => e \in ToSet(journal') \/ e.stage = "active"
    BY <1>3 DEF OfStage
  <2> QED BY <1>1, <1>6, <1>7, <1>8, <1>11, <2>1, <2>2, <2>3, OtherTidy
<1> QED BY <1>10, <1>11

\* A deletion or a restoration that goes on and leaves the journal alone.
LEMMA GoesTidy ==
  ASSUME Sane, Alone, Safe, NEW s \in Chapters, TidyAt(s), NEW c \in calls, Writer(c), InHand(c),
         NEW a, Goes(c, a), c.kind = "delete" => a \notin {"flush", "read"},
         c.kind # "delete" => a # "find", a \in CallPlaces,
         UNCHANGED <<journal, boot>>, Once(proposal', s),
         c.sec # s => SameStores(s),
         c.sec = s => InOrder([c EXCEPT !.at = a])',
         c.sec = s /\ Present(s) => Present(s)'
  PROVE  TidyAt(s)'
<1>0. c \in CallType BY CallIs
<1>1. PICK d : d = [c EXCEPT !.at = a] OBVIOUS
<1>2. d.kind = c.kind /\ d.sec = c.sec /\ d.at = a /\ d.doc = c.doc /\ d.entry = c.entry
  BY <1>0, <1>1, CallMoved
<1>3. calls' = (calls \ {c}) \cup {d}
  BY <1>1 DEF Goes
<1>4. d.kind = "delete" => Once(d.doc, s)
  BY <1>2 DEF TidyAt
<1>5. InHand(d)
  BY <1>2 DEF InHand
<1>6. CASE c.sec = s
  <2>1. InOrder(d)' BY <1>1, <1>6
  <2>2. \A e \in ToSet(boot') : e.sec = s /\ e.stage = "staged" => e \in ToSet(journal') \/ Present(s)'
    BY <1>6 DEF TidyAt
  <2> QED BY <1>2, <1>3, <1>4, <1>5, <1>6, <2>1, <2>2, HandTidy
<1>7. CASE c.sec # s
  BY <1>2, <1>3, <1>4, <1>7, OtherTidy
<1> QED BY <1>6, <1>7

LEMMA DeleteStepsTidy ==
  ASSUME Sane, Alone, Safe, NEW s \in Chapters, TidyAt(s), s \notin botched',
         NEW c \in calls, c.kind = "delete", DeleteSummaries(c) \/ DeleteRows(c) \/ DeleteSave(c),
         UNCHANGED <<boot, renderer, budget>>
  PROVE  TidyAt(s)'
<1>1. /\ c.at \in {"summaries", "rows", "save"} /\ UNCHANGED <<journal, sectionIndex, notes>>
      /\ c.at # "save" => proposal' = proposal
      /\ c.at = "save" => proposal' = RemoveFirst(c.doc, c.sec)
      /\ rows' = rows \/ rows' = rows \ {c.sec}
      /\ summaries' = summaries \/ summaries' = summaries \ {c.sec}
  BY DEF DeleteSummaries, DeleteRows, DeleteSave
<1>2. PICK a \in {"rows", "save", "flip"} :
        /\ Goes(c, a)
        /\ a = "rows" => c.at = "summaries" /\ summaries' = summaries \ {c.sec}
        /\ a = "save" => c.at = "rows" /\ summaries' = summaries /\ rows' = rows \ {c.sec}
        /\ a = "flip" => c.at = "save" /\ summaries' = summaries /\ rows' = rows
  BY DEF DeleteSummaries, DeleteRows, DeleteSave
<1>3. c \in CallType /\ InHand(c) /\ Writer(c) /\ a \in CallPlaces /\ c.doc \in Seq(Chapters)
  BY <1>1, CallIs DEF InHand, Writer, CallPlaces, DeleteSteps
<1>4. proposal = c.doc
  BY <1>1 DEF Safe, Places, InStep
<1>5. /\ ToSet(c.doc) \ {c.sec} \subseteq ToSet(RemoveFirst(c.doc, c.sec))
      /\ ToSet(RemoveFirst(c.doc, c.sec)) \subseteq ToSet(c.doc)
      /\ Once(c.doc, s) => Once(RemoveFirst(c.doc, c.sec), s)
      /\ Once(c.doc, c.sec) => c.sec \notin ToSet(RemoveFirst(c.doc, c.sec))
  BY <1>3, RemovedIs
<1>6. Once(c.doc, s)
  BY <1>4 DEF TidyAt
<1>7. Once(proposal', s)
  BY <1>1, <1>4, <1>5, <1>6
<1>8. c.sec # s => SameStores(s)
  BY <1>1, <1>4, <1>5 DEF SameStores
<1>9. PICK d : d = [c EXCEPT !.at = a] OBVIOUS
<1>10. d.kind = "delete" /\ d.sec = c.sec /\ d.at = a /\ d.entry = c.entry
  BY <1>3, <1>9, CallMoved
<1>11. ASSUME c.sec = s PROVE InOrder(d)' /\ ~Present(s)
  <2>1. DeletesWhole(c)
    BY <1>3, <1>11 DEF TidyAt, InOrder
  <2>2. Whole(c.entry) /\ s \notin sectionIndex /\ notes[s] = 0
        /\ (c.at \in {"rows", "save"} => s \notin summaries) /\ (c.at = "save" => s \notin rows)
    BY <1>1, <1>11, <2>1 DEF DeletesWhole
  <2>3. Whole(d.entry)' BY <1>10, <2>2 DEF Whole
  <2>4. DeletesWhole(d)'
    BY <1>1, <1>2, <1>5, <1>6, <1>10, <1>11, <2>2, <2>3 DEF DeletesWhole
  <2> QED BY <1>10, <2>2, <2>4 DEF InOrder, Present
<1> QED BY <1>1, <1>2, <1>3, <1>7, <1>8, <1>9, <1>11, GoesTidy

LEMMA DeleteFlipTidy ==
  ASSUME Sane, Alone, Safe, NEW s \in Chapters, TidyAt(s), s \notin botched',
         NEW c \in calls, c.kind = "delete", DeleteFlip(c), UNCHANGED <<boot, renderer, budget>>
  PROVE  TidyAt(s)'
<1>1. c.at = "flip" /\ InHand(c) /\ Writer(c) /\ FlipEntry(c.id) /\ calls' = calls \ {c}
      /\ UNCHANGED <<proposal, sectionIndex, notes, rows, summaries, boot>>
  BY CallIs DEF DeleteFlip, InHand, Writer, Answers
<1>2. c.entry \in ToSet(journal) /\ c.entry.id = c.id /\ c.entry.sec = c.sec
  BY <1>1, CallIs DEF Safe, Places, InStep, Early
<1>3. \A e \in ToSet(journal) : e.id = c.id => e = c.entry
  BY <1>2 DEF Safe, Closed
<1>4. PICK f : f = Flipped(c.entry) OBVIOUS
<1>5. f.sec = c.sec /\ f.notes = c.entry.notes /\ f.row = c.entry.row /\ f.sum = c.entry.sum
      /\ f.id = c.id
  BY <1>2, <1>4, InSets, FlippedEntry
<1>6. /\ \A g \in ToSet(journal') : (g \in ToSet(journal) /\ g.id # c.id) \/ g = f
      /\ f \in ToSet(journal')
      /\ \A e \in ToSet(journal) : e.id # c.id => e \in ToSet(journal') \/ e.stage = "active"
  BY <1>1, <1>2, <1>3, <1>4, InSets, FlipIs
<1>7. SameStores(s) /\ Once(proposal', s)
  BY <1>1 DEF SameStores, TidyAt
<1>8. CASE c.sec = s
  <2>1. DeletesWhole(c)
    BY <1>1, <1>8 DEF TidyAt, InOrder
  <2>2. Absent(s) /\ Whole(c.entry)
    BY <1>1, <1>8, <2>1 DEF DeletesWhole, Absent
  <2>3. Absent(s)' BY <1>7, <2>2, SameHolds
  <2>4. \A e \in ToSet(journal) : e.sec = s => e = c.entry
    BY <1>2, <1>8 DEF TidyAt
  <2>5. EntriesOf(s)' = {f}
    BY <1>2, <1>5, <1>6, <1>8, <2>4 DEF EntriesOf
  <2>6. Settled(s)'
    BY <2>3, <2>5 DEF Settled
  <2>7. Whole(f) BY <1>5, <2>2 DEF Whole
  <2>8. boot' = <<>> BY <1>1 DEF Alone, Up
  <2>9. \A e \in ToSet(journal') : e.sec = s => e = f
    BY <2>5 DEF EntriesOf
  <2> QED BY <1>1, <1>7, <2>5, <2>6, <2>7, <2>8, <2>9, EmptySeqIs, EndTidy
<1>9. CASE c.sec # s
  <2>1. \A e \in ToSet(journal') : e.sec = s => e \in ToSet(journal)
    BY <1>5, <1>6, <1>9
  <2>2. \A e \in ToSet(journal) : e.sec = s => e \in ToSet(journal') \/ e.stage = "active"
    BY <1>2, <1>3, <1>6, <1>9
  <2>3. Once(c.doc, s) BY <1>1 DEF TidyAt
  <2> QED BY <1>1, <1>7, <1>9, <2>1, <2>2, <2>3, OtherTidy
<1> QED BY <1>8, <1>9

LEMMA RollbackTidy ==
  ASSUME Sane, Alone, Safe, NEW s \in Chapters, TidyAt(s), s \notin botched',
         NEW c \in calls, c.kind = "delete", Rollback(c), UNCHANGED <<boot, renderer, budget>>
  PROVE  TidyAt(s)'
<1>1. c.at \in RollbackSteps
  BY DEF Rollback, RollbackSteps
<1>2. c \in CallType /\ InHand(c) /\ Writer(c) /\ c.sec \in Chapters /\ c.doc \in Seq(Chapters)
      /\ c.entry.sec = c.sec /\ c.entry.id = c.id
  BY <1>1, CallIs DEF InHand, Writer, RollbackSteps
<1>3. /\ c.sec \in ToSet(c.doc) /\ c.entry \in ToSet(journal)
      /\ c.at \in {"back-rows", "back-summaries", "back-drop"} => proposal = c.doc
      /\ c.at \in {"back-meta", "back-save"} => proposal \in {c.doc, RemoveFirst(c.doc, c.sec)}
  BY <1>1, <1>2 DEF Safe, Places, InStep, Early, RollbackSteps
<1>4. Once(c.doc, s) /\ Once(proposal, s)
  BY <1>2 DEF TidyAt
<1>5. c.sec = s => DeletesWhole(c) /\ Whole(c.entry)
  BY <1>1, <1>2 DEF TidyAt, InOrder, DeletesWhole, RollbackSteps
<1>6. /\ ToSet(c.doc) \ {c.sec} \subseteq ToSet(RemoveFirst(c.doc, c.sec))
      /\ ToSet(RemoveFirst(c.doc, c.sec)) \subseteq ToSet(c.doc)
  BY <1>2, RemovedIs
<1>7. notes \in [Chapters -> Nat] /\ c.entry \in JournalEntry /\ c.entry.notes \in Nat
  BY <1>2, CallIs DEF Sane, Typed, StoresTyped, JournalEntry, Entry
<1>8. CASE c.at # "back-drop"
  <2>1. journal' = journal
    BY <1>1, <1>8 DEF Rollback, RollbackSteps
  <2>2. PICK a \in RollbackSteps :
         /\ Goes(c, a)
         /\ a = "back-save" => /\ c.at = "back-meta" /\ MergeMeta(c.entry)
                               /\ UNCHANGED <<proposal, rows, summaries>>
         /\ a = "back-rows" => /\ c.at = "back-save" /\ proposal' = c.doc
                               /\ UNCHANGED <<sectionIndex, notes, rows, summaries>>
         /\ a = "back-summaries" => /\ c.at = "back-rows"
                                    /\ rows' = IF c.entry.row THEN rows \cup {c.sec} ELSE rows
                                    /\ UNCHANGED <<proposal, sectionIndex, notes, summaries>>
         /\ a = "back-drop" => /\ c.at = "back-summaries"
                               /\ summaries' = IF c.entry.sum THEN summaries \cup {c.sec} ELSE summaries
                               /\ UNCHANGED <<proposal, sectionIndex, notes, rows>>
         /\ a # "back-meta"
    BY <1>1, <1>8 DEF Rollback, RollbackSteps
  <2>3. a \in CallPlaces BY DEF CallPlaces
  <2>4. Once(proposal', s)
    BY <1>4, <2>2 DEF RollbackSteps
  <2>5. c.sec # s => SameStores(s)
    BY <1>2, <1>3, <1>6, <1>7, <2>2 DEF SameStores, RollbackSteps, MergeMeta
  <2>6. PICK d : d = [c EXCEPT !.at = a] OBVIOUS
  <2>7. d.kind = "delete" /\ d.sec = c.sec /\ d.at = a /\ d.entry = c.entry
    BY <1>2, <2>3, <2>6, CallMoved
  <2>8. ASSUME c.sec = s PROVE InOrder(d)'
    <3>1. Whole(d.entry)' /\ c.entry.row /\ c.entry.sum /\ c.entry.notes > 0
      BY <1>5, <2>7, <2>8 DEF Whole
    <3>2. a = "back-save" => s \in sectionIndex' /\ notes'[s] > 0
      BY <1>2, <1>7, <2>2, <2>8, <3>1 DEF MergeMeta
    <3>3. a # "back-save" => s \in sectionIndex' /\ notes'[s] > 0
      BY <1>5, <2>2, <2>8 DEF RollbackSteps, DeletesWhole
    <3>4. a \in {"back-summaries", "back-drop"} => s \in rows'
      BY <1>5, <2>2, <2>8, <3>1 DEF DeletesWhole
    <3>5. a = "back-drop" => s \in summaries'
      BY <2>2, <2>8, <3>1
    <3>6. DeletesWhole(d)'
      BY <2>2, <2>7, <2>8, <3>1, <3>2, <3>3, <3>4, <3>5 DEF DeletesWhole, RollbackSteps
    <3> QED BY <2>7, <3>6 DEF InOrder
  <2>9. ASSUME c.sec = s, Present(s) PROVE Present(s)'
    <3>1. s \in ToSet(proposal') BY <1>3, <2>2, <2>9 DEF Present, RollbackSteps
    <3>2. s \in sectionIndex' /\ notes'[s] > 0
      BY <1>2, <1>7, <2>2, <2>9 DEF Present, MergeMeta, RollbackSteps
    <3>3. s \in rows' /\ s \in summaries'
      BY <2>2, <2>9 DEF Present, RollbackSteps
    <3> QED BY <3>1, <3>2, <3>3 DEF Present
  <2>10. a \notin {"flush", "read"} BY DEF RollbackSteps
  <2> QED BY <1>2, <2>1, <2>2, <2>3, <2>4, <2>5, <2>6, <2>8, <2>9, <2>10, GoesTidy
<1>9. CASE c.at = "back-drop"
  <2>1. /\ calls' = calls \ {c} /\ UNCHANGED <<proposal, sectionIndex, notes, rows, summaries>>
        /\ journal' = Without({e \in ToSet(journal) : e.id = c.id})
    BY <1>9 DEF Rollback, Answers
  <2>2. ToSet(journal') = ToSet(journal) \ {e \in ToSet(journal) : e.id = c.id}
    BY <2>1, InSets, WithoutIs
  <2>3. SameStores(s) /\ Once(proposal', s)
    BY <1>4, <2>1 DEF SameStores
  <2>4. CASE c.sec = s
    <3>1. Present(s)
      BY <1>3, <1>5, <1>9, <2>4 DEF DeletesWhole, Present
    <3>2. Present(s)' BY <2>3, <3>1, SameHolds
    <3>3. EntriesOf(s)' = {}
      BY <1>2, <1>3, <2>2, <2>4 DEF EntriesOf, TidyAt
    <3>4. Settled(s)'
      BY <3>2, <3>3 DEF Settled
    <3> QED BY <1>2, <2>1, <2>2, <2>3, <3>2, <3>4, EndTidy
  <2>5. CASE c.sec # s
    <3>1. \A e \in ToSet(journal) : e.id = c.id => e.sec = c.sec
      BY <1>2, <1>3 DEF Safe, Closed
    <3>2. \A e \in ToSet(journal) : e.sec = s => e \in ToSet(journal')
      BY <2>2, <2>5, <3>1
    <3> QED BY <1>2, <1>4, <2>1, <2>2, <2>3, <2>5, <3>2, OtherTidy
  <2> QED BY <2>4, <2>5
<1> QED BY <1>8, <1>9

\* A handler takes or keeps its chapter in hand and writes nothing.
LEMMA ReadsTidy ==
  ASSUME Alone, NEW s, TidyAt(s), NEW c \in calls, Writer(c), NEW d,
         calls' = (calls \ {c}) \cup {d}, d.sec = c.sec, InHand(d), d.kind # "delete",
         UNCHANGED <<stores, boot>>, c.sec = s => InOrder(d)
  PROVE  TidyAt(s)'
<1>1. SameStores(s) /\ Once(proposal', s) /\ journal' = journal
  BY DEF SameStores, TidyAt, stores
<1>2. EntriesOf(s)' = EntriesOf(s) /\ (Present(s)' <=> Present(s)) /\ (Absent(s)' <=> Absent(s))
  BY <1>1, SameHolds DEF EntriesOf
<1>3. CASE c.sec = s
  <2>1. InOrder(d)'
    BY <1>2, <1>3 DEF InOrder, RestoresWhole, Whole, stores
  <2>2. \A e \in ToSet(boot') : e.sec = s /\ e.stage = "staged" => e \in ToSet(journal') \/ Present(s)'
    BY <1>1, <1>2 DEF TidyAt
  <2> QED BY <1>1, <1>3, <2>1, <2>2, HandTidy
<1>4. CASE c.sec # s
  BY <1>1, <1>4, OtherTidy
<1> QED BY <1>3, <1>4

LEMMA UndoFindTidy ==
  ASSUME Sane, Alone, Safe, NEW s \in Chapters, TidyAt(s), s \notin botched',
         NEW c \in calls, c.kind \in {"undo", "startup"}, UndoFind(c) \/ UndoLoad(c),
         UNCHANGED <<boot, renderer, budget>>
  PROVE  TidyAt(s)'
<1>1. c \in CallType /\ WellPlaced(c) /\ Writer(c) /\ UNCHANGED stores
  BY CallIs DEF UndoFind, UndoLoad, Writer
<1>2. CASE UndoFind(c) /\ ~ \E e \in ToSet(journal) : e.id = c.id
  <2>1. calls' = calls \ {c} /\ ~InHand(c) BY <1>2 DEF UndoFind, Answers, InHand
  <2> QED BY <1>1, <2>1, QuietTidy
<1>3. CASE UndoFind(c) /\ \E e \in ToSet(journal) : e.id = c.id
  <2>1. PICK e : e = CHOOSE f \in ToSet(journal) : f.id = c.id OBVIOUS
  <2>2. e \in ToSet(journal) /\ e.id = c.id BY <1>3, <2>1
  <2>3. PICK d : d = [c EXCEPT !.at = "load", !.entry = e] OBVIOUS
  <2>4. calls' = (calls \ {c}) \cup {d}
    BY <1>3, <2>1, <2>3 DEF UndoFind
  <2>5. d.kind = c.kind /\ d.id = c.id /\ d.sec = c.sec /\ d.at = "load" /\ d.entry = e
    BY <1>1, <2>3 DEF CallType
  <2>6. c.kind = "undo" /\ ~InHand(c)
    BY <1>1, <1>3 DEF UndoFind, WellPlaced, InHand
  <2>7. e.stage = "active"
    <3>1. Open(e.id) BY <2>2, <2>6 DEF Open
    <3>2. e.stage \in {"staged", "active"} BY <2>2, InSets DEF JournalEntry, Entry
    <3> QED BY <2>2, <3>1, <3>2 DEF Safe, Closed
  <2>8. ASSUME c.sec = s PROVE InOrder(d)
    <3>1. e.sec = s
      <4>1. Knows(e.id, e.sec) /\ e.id \in Ids /\ e.sec \in 0..NumChapters
        BY <2>2, InSets DEF Knows, Chapters
      <4>2. Knows(e.id, s) /\ s \in 0..NumChapters BY <2>2, <2>6, <2>8 DEF Knows, Chapters
      <4> QED BY <4>1, <4>2 DEF Sane, OneChapterEach
    <3>2. Settled(s) BY <1>1, <2>6, NotInHand
    <3>3. Absent(s) BY <2>2, <2>7, <3>1, <3>2 DEF Settled, EntriesOf
    <3>4. Whole(e) /\ \A f \in EntriesOf(s) : f = e
      BY <2>2, <3>1 DEF TidyAt, EntriesOf
    <3> QED BY <2>5, <2>6, <2>7, <2>8, <3>3, <3>4 DEF InOrder, RestoresWhole
  <2>9. InHand(d) BY <2>5, <2>6 DEF InHand
  <2> QED BY <1>1, <2>4, <2>5, <2>6, <2>8, <2>9, ReadsTidy
<1>4. CASE UndoLoad(c)
  <2>1. PICK d : d = [c EXCEPT !.at = "meta", !.doc = proposal] OBVIOUS
  <2>2. calls' = (calls \ {c}) \cup {d} /\ c.at = "load"
    BY <1>4, <2>1 DEF UndoLoad
  <2>3. d.kind = c.kind /\ d.sec = c.sec /\ d.at = "meta" /\ d.entry = c.entry
    BY <1>1, <2>1 DEF CallType
  <2>4. InHand(c) /\ InHand(d) BY <2>2, <2>3 DEF InHand
  <2>5. ASSUME c.sec = s PROVE InOrder(d)
    <3>1. RestoresWhole(c) BY <2>4, <2>5 DEF TidyAt, InOrder
    <3> QED BY <2>2, <2>3, <2>5, <3>1 DEF InOrder, RestoresWhole
  <2> QED BY <1>1, <2>2, <2>3, <2>4, <2>5, ReadsTidy
<1> QED BY <1>2, <1>3, <1>4

LEMMA UndoStepsTidy ==
  ASSUME Sane, Alone, Safe, NEW s \in Chapters, TidyAt(s), s \notin botched',
         NEW c \in calls, c.kind \in {"undo", "startup"},
         UndoMeta(c) \/ UndoRows(c) \/ UndoSummaries(c) \/ UndoSave(c),
         UNCHANGED <<boot, renderer, budget>>
  PROVE  TidyAt(s)'
<1>1. c.at \in {"meta", "rows", "summaries", "save"} /\ journal' = journal
  BY DEF UndoMeta, UndoRows, UndoSummaries, UndoSave
<1>2. c \in CallType /\ InHand(c) /\ Writer(c) /\ c.sec \in Chapters /\ c.doc \in Seq(Chapters)
      /\ c.entry \in Entry /\ c.entry.sec = c.sec /\ c.entry.notes \in Nat
  BY <1>1, CallIs DEF InHand, Writer, JournalEntry, Entry
<1>3. proposal = c.doc
  BY <1>1 DEF Safe, Places, InStep
<1>4. PICK a \in {"rows", "summaries", "save", "drop"} :
       /\ Goes(c, a)
       /\ a = "rows" => /\ c.at = "meta" /\ MergeMeta(c.entry) /\ UNCHANGED <<proposal, rows, summaries>>
       /\ a = "summaries" => /\ c.at = "rows" /\ UNCHANGED <<proposal, sectionIndex, notes, summaries>>
                             /\ rows' = IF c.entry.row THEN rows \cup {c.sec} ELSE rows
       /\ a = "save" => /\ c.at = "summaries" /\ UNCHANGED <<proposal, sectionIndex, notes, rows>>
                        /\ summaries' = IF c.entry.sum THEN summaries \cup {c.sec} ELSE summaries
       /\ a = "drop" => /\ c.at = "save" /\ UNCHANGED <<sectionIndex, notes, rows, summaries>>
                        /\ proposal' = Restored(c.doc, c.entry)
                        /\ Contains(c.doc, c.sec) => c.sec \in botched'
  BY DEF UndoMeta, UndoRows, UndoSummaries, UndoSave
<1>5. a \in CallPlaces /\ a # "find" BY DEF CallPlaces, UndoSteps
<1>6. /\ ToSet(Restored(c.doc, c.entry)) = ToSet(c.doc) \cup {c.sec}
      /\ \A d : d # c.sec /\ Once(c.doc, d) => Once(Restored(c.doc, c.entry), d)
      /\ c.sec \notin ToSet(c.doc) => Once(Restored(c.doc, c.entry), c.sec)
  BY <1>2, RestoredIs
<1>7. Once(proposal, s) BY DEF TidyAt
<1>8. Contains(c.doc, c.sec) <=> c.sec \in ToSet(c.doc) BY <1>2, ContainsIs
<1>9. Once(proposal', s)
  BY <1>3, <1>4, <1>6, <1>7, <1>8
<1>10. notes \in [Chapters -> Nat] BY DEF Sane, Typed, StoresTyped
<1>11. c.sec # s => SameStores(s)
  BY <1>2, <1>3, <1>4, <1>6, <1>10 DEF SameStores, MergeMeta
<1>12. PICK d : d = [c EXCEPT !.at = a] OBVIOUS
<1>13. d.kind = c.kind /\ d.sec = c.sec /\ d.at = a /\ d.entry = c.entry
  BY <1>2, <1>5, <1>12, CallMoved
<1>14. ASSUME c.sec = s, Present(s) PROVE Present(s)'
  <2>1. s \in ToSet(proposal') BY <1>3, <1>4, <1>6, <1>14 DEF Present
  <2>2. s \in sectionIndex' /\ notes'[s] > 0
    BY <1>2, <1>4, <1>10, <1>14 DEF Present, MergeMeta
  <2>3. s \in rows' /\ s \in summaries' BY <1>4, <1>14 DEF Present
  <2> QED BY <2>1, <2>2, <2>3 DEF Present
<1>15. ASSUME c.sec = s PROVE InOrder(d)'
  <2>1. RestoresWhole(c) BY <1>2, <1>15 DEF TidyAt, InOrder
  <2>2. Whole(d.entry)' /\ c.entry.row /\ c.entry.sum /\ c.entry.notes > 0
    BY <1>13, <2>1 DEF RestoresWhole, Whole
  <2>3. \A e \in EntriesOf(s)' : e = c.entry
    BY <1>1, <1>15, <2>1 DEF RestoresWhole, EntriesOf
  <2>4. a = "rows" => s \in sectionIndex' /\ notes'[s] > 0
    BY <1>2, <1>4, <1>10, <1>15, <2>2 DEF MergeMeta
  <2>5. a # "rows" => s \in sectionIndex' /\ notes'[s] > 0
    BY <1>4, <1>15, <2>1 DEF RestoresWhole
  <2>6. a \in {"summaries", "save", "drop"} => s \in rows'
    BY <1>4, <1>15, <2>1, <2>2 DEF RestoresWhole
  <2>7. a \in {"save", "drop"} => s \in summaries'
    BY <1>4, <1>15, <2>1, <2>2 DEF RestoresWhole
  <2>8. c.kind = "undo" /\ a = "rows" => notes'[s] = c.entry.notes
    <3>1. c.kind = "undo" /\ a = "rows" => notes[s] = 0
      BY <1>4, <1>15, <2>1 DEF RestoresWhole, Absent
    <3> QED BY <1>2, <1>4, <1>10, <1>15, <3>1 DEF MergeMeta
  <2>9. c.kind = "undo" /\ a # "rows" => notes'[s] = c.entry.notes
    BY <1>4, <1>15, <2>1 DEF RestoresWhole
  <2>10. c.kind = "undo" => c.entry.stage = "active"
    BY <2>1 DEF RestoresWhole
  <2>11. c.kind = "startup" => c.entry.stage = "staged" /\ (c.entry \in ToSet(journal') \/ Present(s)')
    BY <1>1, <1>14, <1>15, <2>1 DEF RestoresWhole
  <2>12. RestoresWhole(d)'
    BY <1>13, <1>15, <2>2, <2>3, <2>4, <2>5, <2>6, <2>7, <2>8, <2>9, <2>10, <2>11 DEF RestoresWhole
  <2>13. d.kind # "delete" BY <1>13
  <2> QED BY <2>12, <2>13 DEF InOrder
<1> QED BY <1>1, <1>2, <1>4, <1>5, <1>9, <1>11, <1>12, <1>14, <1>15, GoesTidy

\* Active entries are thrown away behind the handler that writes.
LEMMA DroppedTidy ==
  ASSUME Sane, NEW s, TidyAt(s), UNCHANGED <<proposal, sectionIndex, notes, rows, summaries>>,
         ToSet(journal') \subseteq ToSet(journal), ToSet(boot') \subseteq ToSet(boot),
         \A e \in ToSet(journal) : e.sec = s => e \in ToSet(journal') \/ e.stage = "active",
         \A d \in calls' : InHand(d) => d \in calls,
         \A d \in calls : InHand(d) => d \in calls'
  PROVE  TidyAt(s)'
<1>1. SameStores(s) /\ Once(proposal', s)
  BY DEF SameStores, TidyAt
<1>2. (Present(s)' <=> Present(s)) /\ (Absent(s)' <=> Absent(s))
  BY <1>1, SameHolds
<1>3. /\ EntriesOf(s)' \subseteq EntriesOf(s)
      /\ \A e \in EntriesOf(s) : e \in EntriesOf(s)' \/ e.stage = "active"
  BY DEF EntriesOf
<1>4. Settled(s) => Settled(s)'
  BY <1>2, <1>3 DEF Settled
<1>5. \A d \in calls : ~(InHand(d)' /\ ~InHand(d))
  BY DEF InHand
<1>6. ASSUME NEW d \in calls', InHand(d), d.sec = s PROVE InOrder(d)'
  <2>1. InOrder(d) BY <1>6 DEF TidyAt
  <2>2. CASE d.kind = "delete"
    <3>1. DeletesWhole(d) BY <2>1, <2>2 DEF InOrder
    <3>2. \A e \in EntriesOf(s) : e.stage = "staged" => e \in EntriesOf(s)'
      BY <1>3 DEF EntriesOf
    <3>3. d.at = "stage" => \/ \E e \in EntriesOf(s)' : e.stage = "staged"
                            \/ Present(s)' /\ Whole(d.entry)' /\ EntriesOf(s)' = {}
      BY <1>2, <1>3, <1>6, <3>1, <3>2 DEF DeletesWhole, Whole
    <3>4. DeletesWhole(d)'
      BY <1>6, <3>1, <3>3 DEF DeletesWhole, Whole
    <3> QED BY <2>2, <3>4 DEF InOrder
  <2>3. CASE d.kind # "delete"
    <3>1. RestoresWhole(d) BY <2>1, <2>3 DEF InOrder
    <3>2. \A e \in EntriesOf(s)' : e = d.entry
      BY <1>3, <1>6, <3>1 DEF RestoresWhole
    <3>3. d.kind = "startup" => d.entry \in ToSet(journal') \/ Present(s)'
      <4>1. d.kind = "startup" => d.entry.stage = "staged"
                                  /\ (d.entry \in ToSet(journal) \/ Present(s))
        BY <1>6, <3>1 DEF RestoresWhole
      <4>2. ASSUME d.kind = "startup", d.entry \in ToSet(journal), ~Present(s)
            PROVE  d.entry \in ToSet(journal')
        <5>1. d.entry.sec = s BY <1>6, CallIs
        <5> QED BY <4>1, <4>2, <5>1
      <4> QED BY <1>2, <4>1, <4>2
    <3>4. RestoresWhole(d)'
      BY <1>2, <1>6, <3>1, <3>2, <3>3 DEF RestoresWhole, Whole
    <3> QED BY <2>3, <3>4 DEF InOrder
  <2> QED BY <2>2, <2>3
<1>7. \A e \in ToSet(boot') : e.sec = s /\ e.stage = "staged" => e \in ToSet(journal') \/ Present(s)'
  BY <1>2 DEF TidyAt
<1>8. \A e \in ToSet(journal') \cup ToSet(boot') : e \in ToSet(journal) \cup ToSet(boot)
  OBVIOUS
<1>9. (\A d \in calls' : ~(InHand(d) /\ d.sec = s)) => Settled(s)'
  BY <1>4 DEF TidyAt
<1>10. \A d \in calls' : d.kind = "delete" /\ InHand(d) => Once(d.doc, s)
  BY DEF TidyAt
<1>11. \A e \in ToSet(journal') \cup ToSet(boot') : e.sec = s => Whole(e)
  BY <1>8 DEF TidyAt
<1>12. \A e, f \in ToSet(journal') \cup ToSet(boot') : e.sec = s /\ f.sec = s => e = f
  BY <1>8 DEF TidyAt
<1> QED BY <1>1, <1>6, <1>7, <1>9, <1>10, <1>11, <1>12 DEF TidyAt, InHand, Whole

LEMMA ClosingTidy ==
  ASSUME Sane, Alone, Safe, NEW s \in Chapters, TidyAt(s), s \notin botched',
         NEW c \in calls, (UndoHandler(c) /\ UndoDrop(c)) \/ FinalizeDelete(c),
         UNCHANGED <<boot, renderer, budget>>
  PROVE  TidyAt(s)'
<1>1. /\ journal' = Without(WindowAndOlder(c.id)) /\ calls' = calls \ {c}
      /\ UNCHANGED <<proposal, sectionIndex, notes, rows, summaries>>
  BY DEF UndoDrop, FinalizeDelete, Answers
<1>2. ToSet(journal') = ToSet(journal) \ WindowAndOlder(c.id)
  BY <1>1, InSets, WithoutIs
<1>3. /\ \A e \in WindowAndOlder(c.id) : e \in ToSet(journal) /\ (e.id = c.id \/ e.stage = "active")
      /\ (\E e \in ToSet(journal) : e.id = c.id) => \E e \in WindowAndOlder(c.id) : e.id = c.id
  BY InSets, WindowIs
<1>4. CASE FinalizeDelete(c)
  <2>1. Open(c.id) /\ ~InHand(c) BY <1>4 DEF FinalizeDelete, Open, InHand
  <2>2. \A e \in ToSet(journal) : e.id = c.id => e.stage = "active"
    BY <2>1, InSets DEF Safe, Closed, JournalEntry, Entry
  <2>3. \A e \in ToSet(journal) : e.sec = s => e \in ToSet(journal') \/ e.stage = "active"
    BY <1>2, <1>3, <2>2
  <2> QED BY <1>1, <1>2, <2>1, <2>3, DroppedTidy
<1>5. CASE UndoHandler(c) /\ UndoDrop(c)
  <2>1. c.kind \in {"undo", "startup"} /\ c.at = "drop"
    BY <1>5 DEF UndoHandler, UndoDrop
  <2>2. InHand(c) /\ Writer(c) /\ c.id \in Ids /\ c.sec \in Chapters /\ c.entry.id = c.id
        /\ c.entry.sec = c.sec
    BY <2>1, CallIs DEF InHand, Writer
  <2>3. SameStores(s) /\ Once(proposal', s)
    BY <1>1 DEF SameStores, TidyAt
  <2>4. CASE c.sec = s
    <3>1. RestoresWhole(c) BY <2>1, <2>2, <2>4 DEF TidyAt, InOrder
    <3>2. s \in ToSet(proposal) BY <2>1, <2>4 DEF Safe, Places, InStep
    <3>3. Present(s) BY <2>1, <2>4, <3>1, <3>2 DEF RestoresWhole, Present
    <3>4. Present(s)' BY <2>3, <3>3, SameHolds
    <3>5. \A e \in ToSet(journal) : e.sec = s => e \in WindowAndOlder(c.id)
      <4> SUFFICES ASSUME NEW e \in ToSet(journal), e.sec = s PROVE e \in WindowAndOlder(c.id)
        OBVIOUS
      <4>1. e = c.entry BY <2>4, <3>1 DEF RestoresWhole, EntriesOf
      <4>2. PICK f \in WindowAndOlder(c.id) : f.id = c.id BY <1>3, <2>2, <4>1
      <4>3. f = e BY <1>3, <2>2, <4>1, <4>2 DEF Safe, Closed
      <4> QED BY <4>2, <4>3
    <3>6. EntriesOf(s)' = {} BY <1>2, <3>5 DEF EntriesOf
    <3>7. Settled(s)' BY <3>4, <3>6 DEF Settled
    <3> QED BY <1>1, <1>2, <2>2, <2>3, <3>4, <3>7, EndTidy
  <2>5. CASE c.sec # s
    <3>1. \A e \in ToSet(journal) : e.id = c.id => e.sec = c.sec
      <4> SUFFICES ASSUME NEW e \in ToSet(journal), e.id = c.id PROVE e.sec = c.sec
        OBVIOUS
      <4>1. Knows(c.id, e.sec) /\ e.sec \in 0..NumChapters BY InSets DEF Knows, Chapters
      <4>2. Knows(c.id, c.sec) /\ c.sec \in 0..NumChapters BY <2>1, <2>2 DEF Knows, Chapters
      <4> QED BY <2>2, <4>1, <4>2 DEF Sane, OneChapterEach
    <3>2. \A e \in ToSet(journal) : e.sec = s => e \in ToSet(journal') \/ e.stage = "active"
      BY <1>2, <1>3, <2>5, <3>1
    <3>3. c.kind # "delete" BY <2>1
    <3> QED BY <1>1, <1>2, <2>2, <2>3, <2>5, <3>2, <3>3, OtherTidy
  <2> QED BY <2>4, <2>5
<1> QED BY <1>4, <1>5

LEMMA HandleTidy ==
  ASSUME Sane, Alone, Safe, NEW s \in Chapters, TidyAt(s), s \notin botched', Handle
  PROVE  TidyAt(s)'
<1>1. PICK c \in calls : DeleteHandler(c) \/ UndoHandler(c) \/ FinalizeDelete(c) \/ ListPending(c)
  BY DEF Handle
<1>2. UNCHANGED <<boot, renderer, budget>>
  BY DEF Handle
<1>3. CASE DeleteHandler(c)
  <2>1. c.kind = "delete" BY <1>3 DEF DeleteHandler
  <2>2. CASE DeleteRead(c) BY <1>2, <2>1, <2>2, DeleteReadTidy
  <2>3. CASE DeleteStage(c) BY <1>2, <2>1, <2>3, DeleteStageTidy
  <2>4. CASE DeleteSummaries(c) \/ DeleteRows(c) \/ DeleteSave(c)
    BY <1>2, <2>1, <2>4, DeleteStepsTidy
  <2>5. CASE DeleteFlip(c) BY <1>2, <2>1, <2>5, DeleteFlipTidy
  <2>6. CASE Rollback(c) BY <1>2, <2>1, <2>6, RollbackTidy
  <2> QED BY <1>3, <2>2, <2>3, <2>4, <2>5, <2>6 DEF DeleteHandler
<1>4. CASE UndoHandler(c)
  <2>1. c.kind \in {"undo", "startup"} BY <1>4 DEF UndoHandler
  <2>2. CASE UndoFind(c) \/ UndoLoad(c) BY <1>2, <2>1, <2>2, UndoFindTidy
  <2>3. CASE UndoMeta(c) \/ UndoRows(c) \/ UndoSummaries(c) \/ UndoSave(c)
    BY <1>2, <2>1, <2>3, UndoStepsTidy
  <2>4. CASE UndoDrop(c) BY <1>2, <1>4, <2>4, ClosingTidy
  <2> QED BY <1>4, <2>2, <2>3, <2>4 DEF UndoHandler
<1>5. CASE FinalizeDelete(c) BY <1>2, <1>5, ClosingTidy
<1>6. CASE ListPending(c)
  <2>1. c.kind = "hydrate" /\ UNCHANGED stores BY <1>6 DEF ListPending
  <2>2. Ended(c) BY <1>6, ListShape
  <2>3. calls' = calls \ {c} /\ ~InHand(c) BY <2>1, <2>2 DEF Ended, Answers, InHand
  <2> QED BY <1>2, <2>1, <2>3, QuietTidy
<1> QED BY <1>1, <1>3, <1>4, <1>5, <1>6

\* A handler that is broken off leaves its chapter with a staged entry, or as
\* it was before; an undo only before it has put anything back.
LEMMA BrokenOff ==
  ASSUME Sane, Safe, NEW s, TidyAt(s), NEW c \in calls, InHand(c), c.sec = s,
         c.kind = "undo" => c.at \in {"load", "meta"}
  PROVE  Settled(s)
<1>1. WellPlaced(c) /\ InStep(c)
  BY CallIs DEF Safe, Places
<1>2. ASSUME NEW e \in EntriesOf(s), e.stage = "staged" PROVE Settled(s)
  <2>1. \A f \in EntriesOf(s) : f = e BY DEF TidyAt, EntriesOf
  <2> QED BY <1>2, <2>1 DEF Settled
<1>3. c.entry.sec = s /\ (c.entry \in ToSet(journal) => c.entry \in EntriesOf(s))
  BY CallIs DEF EntriesOf
<1>4. CASE c.kind = "delete"
  <2>1. DeletesWhole(c) BY <1>4 DEF TidyAt, InOrder
  <2>2. CASE c.at = "stage"
    <3>1. \/ \E e \in EntriesOf(s) : e.stage = "staged"
          \/ Present(s) /\ EntriesOf(s) = {}
      BY <2>1, <2>2 DEF DeletesWhole
    <3>2. Present(s) /\ EntriesOf(s) = {} => Settled(s)
      BY DEF Settled
    <3> QED BY <1>2, <3>1, <3>2
  <2>3. CASE c.at # "stage"
    <3>1. c.entry \in EntriesOf(s) /\ c.entry.stage = "staged"
      BY <1>1, <1>3, <1>4, <2>3 DEF InStep, InHand, Early
    <3> QED BY <1>2, <3>1
  <2> QED BY <2>2, <2>3
<1>5. CASE c.kind = "undo"
  <2>1. Absent(s) BY <1>5 DEF TidyAt, InOrder, RestoresWhole
  <2> QED BY <2>1 DEF Settled
<1>6. CASE c.kind = "startup"
  <2>1. RestoresWhole(c) BY <1>6 DEF TidyAt, InOrder
  <2>2. c.entry.stage = "staged" /\ (c.entry \in EntriesOf(s) \/ Present(s))
        /\ \A e \in EntriesOf(s) : e = c.entry
    BY <1>3, <1>6, <2>1 DEF RestoresWhole
  <2> QED BY <2>2 DEF Settled
<1> QED BY <1>4, <1>5, <1>6 DEF InHand

LEMMA FailTidy ==
  ASSUME Sane, Sane', Alone, Safe, NEW s \in Chapters, TidyAt(s), s \notin botched', Fail
  PROVE  TidyAt(s)'
<1>1. PICK c \in calls :
        /\ c.at # "flush"
        /\ IF c.kind = "delete" /\ c.at \in {"summaries", "rows", "save"}
           THEN Goes(c, "back-meta") ELSE Answers(c, c.id, c.sec, FALSE)
        /\ proposal' \in {proposal} \cup (IF c.at = "save" THEN
             {IF c.kind = "delete" THEN RemoveFirst(c.doc, c.sec) ELSE Restored(c.doc, c.entry)}
             ELSE {})
        /\ botched' = IF \/ c.kind = "undo" /\ c.at \in UndoSteps \ {"find", "load", "meta"}
                         \/ c.kind = "startup" /\ c.at = "save" /\ Contains(c.doc, c.sec)
                      THEN botched \cup {c.sec} ELSE botched
        /\ UNCHANGED <<sectionIndex, journal, notes, rows, summaries, boot>>
  BY DEF Fail
<1>2. c \in CallType /\ WellPlaced(c) /\ InStep(c) /\ c.doc \in Seq(Chapters) /\ c.kind \in Kinds
  BY CallIs DEF Safe, Places
<1>3. Once(proposal, s) BY DEF TidyAt
<1>4. CASE c.kind = "delete" /\ c.at \in {"summaries", "rows", "save"}
  <2>1. InHand(c) /\ Writer(c) BY <1>4 DEF InHand, Writer
  <2>2. proposal = c.doc BY <1>2, <1>4 DEF InStep
  <2>3. /\ ToSet(c.doc) \ {c.sec} \subseteq ToSet(RemoveFirst(c.doc, c.sec))
        /\ ToSet(RemoveFirst(c.doc, c.sec)) \subseteq ToSet(c.doc)
        /\ Once(c.doc, s) => Once(RemoveFirst(c.doc, c.sec), s)
    BY <1>2, RemovedIs
  <2>4. proposal' = proposal \/ proposal' = RemoveFirst(c.doc, c.sec)
    BY <1>1, <1>4
  <2>5. Once(proposal', s) BY <1>3, <2>2, <2>3, <2>4
  <2>6. c.sec # s => SameStores(s)
    BY <1>1, <2>2, <2>3, <2>4 DEF SameStores
  <2>7. PICK d : d = [c EXCEPT !.at = "back-meta"] OBVIOUS
  <2>8. d.kind = "delete" /\ d.at = "back-meta" /\ d.entry = c.entry
    BY <1>2, <1>4, <2>7, CallMoved DEF CallPlaces, RollbackSteps
  <2>9. ASSUME c.sec = s PROVE InOrder(d)' /\ ~Present(s)
    <3>1. DeletesWhole(c) BY <1>4, <2>1, <2>9 DEF TidyAt, InOrder
    <3>2. Whole(c.entry) /\ s \notin sectionIndex
      BY <1>4, <2>9, <3>1 DEF DeletesWhole
    <3> QED BY <2>8, <3>2 DEF InOrder, DeletesWhole, Whole, Present
  <2>10. "back-meta" \in CallPlaces /\ Goes(c, "back-meta")
    BY <1>1, <1>4 DEF CallPlaces, RollbackSteps
  <2> QED BY <1>1, <1>4, <2>1, <2>5, <2>6, <2>7, <2>9, <2>10, GoesTidy
<1>5. CASE ~(c.kind = "delete" /\ c.at \in {"summaries", "rows", "save"})
  <2>1. calls' = calls \ {c} BY <1>1, <1>5 DEF Answers
  <2>2. CASE ~InHand(c)
    <3>1. c.at # "save" BY <1>2, <1>5, <2>2 DEF WellPlaced, InHand, Kinds
    <3>2. UNCHANGED stores BY <1>1, <3>1 DEF stores
    <3> QED BY <1>1, <2>1, <2>2, <3>2, QuietTidy
  <2>3. CASE InHand(c)
    <3>1. Writer(c) /\ c.sec \in Chapters /\ c.entry \in Entry /\ c.entry.sec = c.sec
      BY <2>3, CallIs DEF InHand, Writer, JournalEntry
    <3>2. /\ ToSet(Restored(c.doc, c.entry)) = ToSet(c.doc) \cup {c.sec}
          /\ \A e : e # c.sec /\ Once(c.doc, e) => Once(Restored(c.doc, c.entry), e)
          /\ c.sec \notin ToSet(c.doc) => Once(Restored(c.doc, c.entry), c.sec)
      BY <1>2, <3>1, RestoredIs
    <3>3. \/ proposal' = proposal
          \/ /\ c.at = "save" /\ c.kind \in {"undo", "startup"}
             /\ proposal' = Restored(c.doc, c.entry) /\ proposal = c.doc
      <4>1. c.at = "save" => c.kind \in {"undo", "startup"} /\ proposal = c.doc
        BY <1>2, <1>5, <2>3 DEF InHand, InStep
      <4>2. proposal' = proposal \/ (c.at = "save" /\ proposal' = Restored(c.doc, c.entry))
        BY <1>1, <1>5
      <4> QED BY <4>1, <4>2
    <3>4. CASE c.sec # s
      <4>1. Once(proposal', s) /\ SameStores(s)
        BY <1>1, <1>3, <3>2, <3>3, <3>4 DEF SameStores
      <4>2. c.kind = "delete" /\ InHand(c) => Once(c.doc, s) BY DEF TidyAt
      <4> QED BY <1>1, <2>1, <3>1, <3>4, <4>1, <4>2, OtherTidy
    <3>5. CASE c.sec = s
      <4>1. c.kind = "undo" => c.at \in {"load", "meta"}
        BY <1>1, <1>2, <2>3, <3>5 DEF WellPlaced, InHand
      <4>2. Settled(s) BY <2>3, <3>5, <4>1, BrokenOff
      <4>3. proposal' # proposal => c.kind = "startup" /\ c.sec \notin ToSet(c.doc)
        <5>1. Contains(c.doc, c.sec) <=> c.sec \in ToSet(c.doc) BY <1>2, ContainsIs
        <5> QED BY <1>1, <3>3, <3>5, <4>1, <5>1
      <4>4. Once(proposal', s) BY <1>3, <3>2, <3>3, <3>5, <4>3
      <4>5. s \in ToSet(proposal) => s \in ToSet(proposal') BY <3>2, <3>3
      <4>6. Present(s) => Present(s)' BY <1>1, <4>5 DEF Present
      <4>7. EntriesOf(s)' = EntriesOf(s) BY <1>1 DEF EntriesOf
      <4>8. Settled(s)'
        <5>1. CASE proposal' = proposal
          BY <1>1, <4>2, <4>7, <5>1 DEF Settled, Present, Absent
        <5>2. CASE proposal' # proposal
          <6>1. RestoresWhole(c) /\ c.kind = "startup"
            BY <2>3, <3>5, <4>3, <5>2 DEF TidyAt, InOrder
          <6>2. /\ \A e \in EntriesOf(s) : e = c.entry
                /\ c.entry.stage = "staged"
                /\ c.entry \in EntriesOf(s) \/ Present(s)
            BY <3>1, <3>5, <6>1 DEF RestoresWhole, EntriesOf
          <6> QED BY <4>6, <4>7, <6>2 DEF Settled
        <5> QED BY <5>1, <5>2
      <4>9. \A e \in ToSet(boot') : e.sec = s /\ e.stage = "staged" => e \in ToSet(journal') \/ Present(s)'
        BY <1>1, <4>6 DEF TidyAt
      <4> QED BY <1>1, <2>1, <3>1, <4>4, <4>8, <4>9, EndTidy
    <3> QED BY <3>4, <3>5
  <2> QED BY <2>2, <2>3
<1> QED BY <1>4, <1>5

LEMMA CrashTidy ==
  ASSUME Sane, Alone, Safe, NEW s \in Chapters, TidyAt(s), s \notin botched', Crash
  PROVE  TidyAt(s)'
<1>1. /\ calls' = {} /\ boot' = journal /\ UNCHANGED stores
      /\ botched' = botched \cup
           {c.sec : c \in {d \in calls : d.kind = "undo" /\ d.at \in {"rows", "summaries", "save", "drop"}}}
  BY DEF Crash
<1>2. Settled(s)
  <2>1. CASE \A c \in calls : ~(InHand(c) /\ c.sec = s)
    BY <2>1 DEF TidyAt
  <2>2. CASE \E c \in calls : InHand(c) /\ c.sec = s
    <3>1. PICK c \in calls : InHand(c) /\ c.sec = s BY <2>2
    <3>2. c.kind = "undo" => c.at \in {"load", "meta"}
      <4>1. WellPlaced(c) BY CallIs
      <4>2. ~(c.kind = "undo" /\ c.at \in {"rows", "summaries", "save", "drop"})
        BY <1>1, <3>1
      <4> QED BY <3>1, <4>1, <4>2 DEF WellPlaced, InHand, UndoSteps
    <3> QED BY <3>1, <3>2, BrokenOff
  <2> QED BY <2>1, <2>2
<1>3. Settled(s)'
  BY <1>1, <1>2 DEF Settled, Present, Absent, EntriesOf, stores
<1>4. Once(proposal', s) /\ journal' = journal BY <1>1 DEF TidyAt, stores
<1>5. \A e \in ToSet(journal') \cup ToSet(boot') : e \in ToSet(journal)
  BY <1>1, <1>4
<1>6. \A e \in ToSet(journal') \cup ToSet(boot') : e.sec = s => Whole(e)
  BY <1>5 DEF TidyAt
<1>7. \A e, f \in ToSet(journal') \cup ToSet(boot') : e.sec = s /\ f.sec = s => e = f
  BY <1>5 DEF TidyAt
<1> QED BY <1>1, <1>3, <1>4, <1>6, <1>7 DEF TidyAt, Whole

LEMMA CleanUpTidy ==
  ASSUME Sane, Alone, Safe, NEW s \in Chapters, TidyAt(s), s \notin botched', CleanUp
  PROVE  TidyAt(s)'
<1>1. PICK e : e = Head(boot) OBVIOUS
<1>2. PICK d : d = [Call("startup", e.id, e.sec, "load") EXCEPT !.entry = e] OBVIOUS
<1>3. /\ calls = {} /\ boot # <<>> /\ boot' = Tail(boot)
      /\ UNCHANGED <<proposal, sectionIndex, notes, rows, summaries>>
      /\ \/ e.stage = "staged" /\ calls' = {d} /\ journal' = journal
         \/ e.stage # "staged" /\ journal' = Without({e}) /\ calls' = calls
  BY <1>1, <1>2 DEF CleanUp
<1>4. e \in ToSet(boot) /\ ToSet(boot') \subseteq ToSet(boot) /\ e \in JournalEntry
  BY <1>1, <1>3, HeadAndTail DEF Sane, Typed, StoresTyped
<1>5. d.kind = "startup" /\ d.sec = e.sec /\ d.at = "load" /\ d.entry = e
  BY <1>2 DEF Call
<1>6. SameStores(s) BY <1>3 DEF SameStores
<1>7. (Present(s)' <=> Present(s)) /\ (Absent(s)' <=> Absent(s)) BY <1>6, SameHolds
<1>8. CASE e.stage = "staged" /\ calls' = {d} /\ journal' = journal
  <2>1. EntriesOf(s)' = EntriesOf(s) BY <1>8 DEF EntriesOf
  <2>2. Settled(s) BY <1>3 DEF TidyAt
  <2>3. Settled(s)' BY <1>7, <2>1, <2>2 DEF Settled
  <2>4. ASSUME e.sec = s PROVE InOrder(d)'
    <3>1. Whole(e) /\ (e \in ToSet(journal) \/ Present(s)) /\ \A f \in EntriesOf(s) : f = e
      BY <1>4, <1>8, <2>4 DEF TidyAt, EntriesOf
    <3>2. RestoresWhole(d)'
      BY <1>5, <1>7, <1>8, <2>1, <2>4, <3>1 DEF RestoresWhole, Whole
    <3> QED BY <1>5, <3>2 DEF InOrder
  <2>5. Once(proposal', s) BY <1>3 DEF TidyAt
  <2>6. \A f \in ToSet(journal') \cup ToSet(boot') : f \in ToSet(journal) \cup ToSet(boot)
    BY <1>4, <1>8
  <2>7. \A f \in ToSet(journal') \cup ToSet(boot') : f.sec = s => Whole(f)
    BY <2>6 DEF TidyAt
  <2>8. \A f, g \in ToSet(journal') \cup ToSet(boot') : f.sec = s /\ g.sec = s => f = g
    BY <2>6 DEF TidyAt
  <2>9. \A f \in ToSet(boot') : f.sec = s /\ f.stage = "staged" => f \in ToSet(journal') \/ Present(s)'
    BY <1>4, <1>7, <1>8 DEF TidyAt
  <2>10. \A b \in calls' : b = d BY <1>8
  <2> QED BY <1>5, <2>3, <2>4, <2>5, <2>7, <2>8, <2>9, <2>10 DEF TidyAt, Whole, InHand
<1>9. CASE e.stage # "staged" /\ journal' = Without({e}) /\ calls' = calls
  <2>1. ToSet(journal') = ToSet(journal) \ {e} BY <1>9, InSets, WithoutIs
  <2>2. e.stage = "active" BY <1>4, <1>9 DEF JournalEntry, Entry
  <2> QED BY <1>3, <1>4, <1>9, <2>1, <2>2, DroppedTidy
<1> QED BY <1>3, <1>8, <1>9

\* Nothing the renderer does puts a chapter in hand, or takes one out of it.
LEMMA RendererQuiet ==
  ASSUME Sane,
         \/ \E c \in Chapters : ClickDelete(c)
         \/ Flush \/ ClickUndo \/ FinalizeTimer \/ SwitchProject \/ OpenProject \/ Reply
         \/ UNCHANGED deleteVars
  PROVE  /\ UNCHANGED <<stores, boot, botched>>
         /\ \A d \in calls' : d \in calls \/ (~InHand(d) /\ d.kind # "startup")
         /\ \A d \in calls : InHand(d) => d \in calls'
<1>1. UNCHANGED <<stores, boot, botched>>
  BY DEF ClickDelete, Flush, ClickUndo, FinalizeTimer, SwitchProject, OpenProject, Reply, deleteVars, ghosts
<1> DEFINE quiet(d) == ~InHand(d) /\ d.kind # "startup"
<1>2. \A i, c : /\ quiet(Call("finalize", i, c, "drop")) /\ quiet(Call("delete", i, c, "flush"))
                /\ quiet(Call("undo", i, c, "find")) /\ quiet(Call("hydrate", i, c, "read"))
  BY DEF InHand, Call
<1>3. ASSUME NEW c \in calls, c.at = "flush"
      PROVE  quiet(c) /\ quiet([c EXCEPT !.at = "read"])
  <2>1. c \in CallType /\ WellPlaced(c) BY CallIs
  <2>2. c.kind \notin {"undo", "startup"} BY <1>3, <2>1 DEF WellPlaced, UndoSteps
  <2>3. [c EXCEPT !.at = "read"].at = "read" /\ [c EXCEPT !.at = "read"].kind = c.kind
    BY <2>1, CallMoved DEF CallPlaces, DeleteSteps
  <2> QED BY <1>3, <2>2, <2>3 DEF InHand
<1>4. CASE \E c \in Chapters : ClickDelete(c)
  <2>1. PICK c \in Chapters : ClickDelete(c) BY <1>4
  <2> HIDE DEF quiet
  <2>2. calls \subseteq calls' /\ \A d \in calls' : d \in calls \/ quiet(d)
    BY <1>2, <2>1 DEF ClickDelete
  <2> QED BY <1>1, <2>2 DEF quiet
<1>5. CASE Flush
  <2>1. PICK c \in calls : c.at = "flush" /\ (Goes(c, "read") \/ calls' = calls \ {c})
    BY <1>5 DEF Flush
  <2> QED BY <1>1, <1>3, <2>1 DEF Goes
<1>6. CASE ClickUndo \/ FinalizeTimer \/ OpenProject
  <2> HIDE DEF quiet
  <2>1. calls \subseteq calls' /\ \A d \in calls' : d \in calls \/ quiet(d)
    BY <1>2, <1>6 DEF ClickUndo, FinalizeTimer, OpenProject
  <2> QED BY <1>1, <2>1 DEF quiet
<1>7. CASE SwitchProject \/ Reply \/ UNCHANGED deleteVars
  <2>1. calls' = calls BY <1>7 DEF SwitchProject, Reply, deleteVars
  <2> QED BY <1>1, <2>1
<1> QED BY <1>4, <1>5, <1>6, <1>7

LEMMA RendererTidy ==
  ASSUME Sane, NEW s \in Chapters, TidyAt(s),
         \/ \E c \in Chapters : ClickDelete(c)
         \/ Flush \/ ClickUndo \/ FinalizeTimer \/ SwitchProject \/ OpenProject \/ Reply
         \/ UNCHANGED deleteVars
  PROVE  TidyAt(s)'
BY RendererQuiet, QuietTidy

LEMMA BotchedGrows == ASSUME [DeleteNext]_deleteVars PROVE botched \subseteq botched'
<1>1. CASE Handle
  BY <1>1 DEF Handle, DeleteHandler, UndoHandler, FinalizeDelete, ListPending, DeleteRead, DeleteStage,
     DeleteSummaries, DeleteRows, DeleteSave, DeleteFlip, Rollback, UndoFind, UndoLoad, UndoMeta,
     UndoRows, UndoSummaries, UndoSave, UndoDrop, ghosts
<1>2. CASE Fail BY <1>2 DEF Fail
<1>3. CASE Crash \/ CleanUp \/ Flush BY <1>3 DEF Crash, CleanUp, Flush, ghosts
<1>4. CASE \E c \in Chapters : ClickDelete(c) BY <1>4 DEF ClickDelete
<1>5. CASE ClickUndo BY <1>5 DEF ClickUndo
<1>6. CASE FinalizeTimer \/ SwitchProject \/ OpenProject \/ Reply
  BY <1>6 DEF FinalizeTimer, SwitchProject, OpenProject, Reply, ghosts
<1>7. CASE UNCHANGED deleteVars BY <1>7 DEF deleteVars, ghosts
<1> QED BY <1>1, <1>2, <1>3, <1>4, <1>5, <1>6, <1>7 DEF DeleteNext

LEMMA TidyNext ==
  ASSUME Sane, Sane', Alone, Safe, Tidy, [DeleteNext]_deleteVars
  PROVE  Tidy'
<1> SUFFICES ASSUME NEW s \in Chapters, s \notin botched' PROVE TidyAt(s)'
  BY DEF Tidy
<1>1. TidyAt(s) BY BotchedGrows DEF Tidy
<1>2. CASE Handle BY <1>1, <1>2, HandleTidy
<1>3. CASE Fail BY <1>1, <1>3, FailTidy
<1>4. CASE Crash BY <1>1, <1>4, CrashTidy
<1>5. CASE CleanUp BY <1>1, <1>5, CleanUpTidy
<1>6. CASE \/ \E c \in Chapters : ClickDelete(c)
           \/ Flush \/ ClickUndo \/ FinalizeTimer \/ SwitchProject \/ OpenProject \/ Reply
           \/ UNCHANGED deleteVars
  BY <1>1, <1>6, RendererTidy
<1> QED BY <1>2, <1>3, <1>4, <1>5, <1>6 DEF DeleteNext

LEMMA TidyInit == DeleteInit => Tidy
<1> SUFFICES ASSUME DeleteInit, NEW s \in Chapters PROVE TidyAt(s)
  BY DEF Tidy
<1>1. ToSet(journal) = {} /\ ToSet(boot) = {} /\ calls = {}
  BY EmptySeqIs DEF DeleteInit
<1>2. s \in ToSet(proposal) /\ Once(proposal, s)
  BY DEF DeleteInit, ToSet, Once
<1>3. Present(s) BY <1>2 DEF DeleteInit, Present
<1> QED BY <1>1, <1>2, <1>3 DEF TidyAt, Settled, EntriesOf

CalmTidy == ~rushed => Tidy

\* Until an undo overlaps a deletion or another undo, the stores hold all or
\* nothing of each chapter that no handler has in hand.
THEOREM AlwaysTidy == DeleteSpec => []CalmTidy
<1>1. DeleteInit => CalmTidy
  BY TidyInit DEF CalmTidy
<1>2. Sane /\ Sane' /\ Calm /\ CalmTidy /\ [DeleteNext]_deleteVars => CalmTidy'
  <2> SUFFICES ASSUME Sane, Sane', Calm, CalmTidy, [DeleteNext]_deleteVars, ~rushed' PROVE Tidy'
    BY DEF CalmTidy
  <2>1. ~rushed BY RushedStays
  <2> QED BY <2>1, TidyNext DEF Calm, CalmTidy
<1> QED BY <1>1, <1>2, AlwaysSane, AlwaysCalm, PTL DEF DeleteSpec

\* When nothing is under way and the journal has no entry of a chapter,
\* proposal.md, the section index, the annotations, the SQLite rows and the
\* summaries agree on whether it exists, unless it is botched and until an undo
\* overlaps a deletion or another undo (chapter-structure-delete-service.ts).
THEOREM StoresAlwaysAgree == DeleteSpec => []StoresAgree
<1>1. Sane /\ CalmTidy => StoresAgree
  <2> SUFFICES ASSUME Sane, CalmTidy, ~rushed, calls = {},
                      NEW s \in Chapters \ (botched \cup Chapters_(ToSet(journal)))
               PROVE  /\ Contains(proposal, s) = (s \in sectionIndex)
                      /\ Contains(proposal, s) = (notes[s] > 0)
                      /\ Contains(proposal, s) = (s \in rows)
                      /\ Contains(proposal, s) = (s \in summaries)
    BY DEF StoresAgree
  <2>1. EntriesOf(s) = {} BY DEF EntriesOf, Chapters_
  <2>2. Present(s) \/ Absent(s) BY <2>1 DEF CalmTidy, Tidy, TidyAt, Settled
  <2>3. Contains(proposal, s) <=> s \in ToSet(proposal) BY InSets, ContainsIs
  <2>4. Contains(proposal, s) \in BOOLEAN BY DEF Contains
  <2>5. CASE Present(s) BY <2>3, <2>4, <2>5 DEF Present
  <2>6. CASE Absent(s)
    <3>1. ~(notes[s] > 0) BY <2>6 DEF Absent
    <3> QED BY <2>3, <2>4, <2>6, <3>1 DEF Absent
  <2> QED BY <2>2, <2>5, <2>6
<1> QED BY <1>1, AlwaysSane, AlwaysTidy, PTL

-----------------------------------------------------------------------------
(* Where a deleted chapter belongs.  At most one entry is active; the entry   *)
(* of a deletion or an undo under way, and an active one, names the place of  *)
(* its chapter among those whose stores are settled.                          *)

\* A chapter of which the document says whether it exists: it has no staged
\* entry, and no handler has begun to write what the stores hold of it.
Taken(c) == InHand(c) /\ ~(c.kind = "delete" /\ c.at = "stage")

Loose(d) == /\ \A e \in EntriesOf(d) : e.stage # "staged"
            /\ \A c \in calls : ~(Taken(c) /\ c.sec = d)

Placed(e) ==
  /\ e.prev < e.sec
  /\ \A d \in Chapters \ botched : d # e.sec /\ Loose(d) =>
       /\ e.prev < d /\ d < e.sec => d \notin ToSet(proposal)
       /\ d = e.prev => d \in ToSet(proposal)

Active == OfStage("active")

OneActive == \A e, f \in Active : e = f

ActivePlaced ==
  \A e \in Active : e \in ToSet(boot) \/ (Up /\ (e.sec \notin botched => Placed(e)))

\* What UndoRestores supposes of an undo that comes to its last step.
Fitting(c) == /\ StrictlyAscending(c.doc) /\ c.sec \notin ToSet(c.doc)
              /\ Chapters_(ToSet(journal)) \subseteq {c.sec}
              /\ (ToSet(c.doc) \cup {c.entry.prev}) \cap botched = {}

HandPlaced(c) ==
  /\ c.kind = "delete" /\ c.at \notin Early => Active = {}
  /\ c.kind = "delete" /\ c.at \in {"stage", "summaries", "rows", "save", "flip"} /\ c.sec \notin botched =>
       Placed(c.entry)
  /\ c.kind = "undo" /\ c.at # "find" =>
       (\A e \in Active : e = c.entry) /\ (c.sec \notin botched => Placed(c.entry))
  /\ c.kind = "undo" /\ c.at = "drop" /\ c.sec \notin botched /\ Fitting(c) => StrictlyAscending(proposal)

Ordered == OneActive /\ ActivePlaced /\ \A c \in calls : HandPlaced(c)

LEMMA PlacedFrame ==
  ASSUME NEW e, Placed(e), botched \subseteq botched',
         \A d \in Chapters : d # e.sec /\ Loose(d)' =>
           Loose(d) /\ (d \in ToSet(proposal') <=> d \in ToSet(proposal))
  PROVE  Placed(e)'
BY DEF Placed

\* What a handler that writes leaves of the other chapters.
LEMMA OthersLoose ==
  ASSUME Alone, NEW c \in calls, Writer(c),
         \A e \in ToSet(journal) : e.stage = "staged" /\ e.sec # c.sec => e \in ToSet(journal'),
         NEW d, d # c.sec, Loose(d)'
  PROVE  Loose(d)
<1>1. \A b \in calls : Taken(b) => b = c
  BY DEF Alone, Writer, Taken, InHand
<1>2. \A e \in EntriesOf(d) : e.stage # "staged"
  BY DEF EntriesOf, Loose
<1> QED BY <1>1, <1>2 DEF Loose

\* A handler that has its chapter in hand goes on or ends.
LEMMA MovesOrdered ==
  ASSUME Sane, Alone, Ordered, NEW c \in calls, Writer(c), InHand(c), NEW d,
         calls' \subseteq (calls \ {c}) \cup {d},
         d.kind = c.kind, d.sec = c.sec, d.entry = c.entry,
         c.kind = "delete" => c.at \notin Early,
         d \in calls' /\ c.kind = "delete" /\ d.at \in {"stage", "summaries", "rows", "save", "flip"} =>
           c.at \in {"stage", "summaries", "rows", "save", "flip"},
         d \in calls' /\ d.kind = "undo" /\ d.at = "drop" /\ d.sec \notin botched' /\ Fitting(d)' =>
           StrictlyAscending(proposal'),
         ToSet(journal') \subseteq ToSet(journal), boot' = boot, botched \subseteq botched',
         \A e \in ToSet(journal) : e.stage = "staged" /\ e.sec # c.sec => e \in ToSet(journal'),
         \A x \in Chapters : x # c.sec => (x \in ToSet(proposal') <=> x \in ToSet(proposal))
  PROVE  Ordered'
<1>1. Active' \subseteq Active BY DEF Active, OfStage
<1>2. OneActive' BY <1>1 DEF Ordered, OneActive
<1>3. c.entry.sec = c.sec BY CallIs
<1>4. ASSUME Placed(c.entry) PROVE Placed(c.entry)'
  <2>1. \A x \in Chapters : x # c.entry.sec /\ Loose(x)' =>
          Loose(x) /\ (x \in ToSet(proposal') <=> x \in ToSet(proposal))
    BY <1>3, OthersLoose
  <2> QED BY <1>4, <2>1, PlacedFrame
<1>5. HandPlaced(c) BY DEF Ordered
<1>6. ActivePlaced'
  <2>1. CASE c.kind = "delete"
    <3>1. Active = {} BY <1>5, <2>1 DEF HandPlaced
    <3> QED BY <1>1, <3>1 DEF ActivePlaced
  <2>2. CASE c.kind = "undo"
    <3>1. (\A e \in Active : e = c.entry) /\ (c.sec \notin botched => Placed(c.entry))
      BY <1>5, <2>2 DEF HandPlaced, InHand
    <3>2. Up' BY <2>2 DEF Alone, Up
    <3> QED BY <1>1, <1>3, <1>4, <3>1, <3>2 DEF ActivePlaced
  <2>3. CASE c.kind = "startup"
    <3>1. \A e \in Active : e \in ToSet(boot) BY <2>3 DEF Ordered, ActivePlaced, Up
    <3> QED BY <1>1, <3>1 DEF ActivePlaced
  <2> QED BY <2>1, <2>2, <2>3 DEF Writer
<1>7. ASSUME NEW b \in calls' PROVE HandPlaced(b)'
  <2>1. CASE b = d
    <3>1. b.kind = "delete" /\ b.at \notin Early => Active' = {}
      BY <1>1, <1>5, <2>1 DEF HandPlaced
    <3>2. b.kind = "delete" /\ b.at \in {"stage", "summaries", "rows", "save", "flip"}
          /\ b.sec \notin botched' => Placed(b.entry)'
      BY <1>4, <1>5, <1>7, <2>1 DEF HandPlaced
    <3>3. b.kind = "undo" /\ b.at # "find" =>
            (\A e \in Active' : e = b.entry) /\ (b.sec \notin botched' => Placed(b.entry)')
      BY <1>1, <1>4, <1>5, <2>1 DEF HandPlaced, InHand
    <3>4. b.kind = "undo" /\ b.at = "drop" /\ b.sec \notin botched' /\ Fitting(b)' =>
            StrictlyAscending(proposal')
      BY <1>7, <2>1
    <3> QED BY <3>1, <3>2, <3>3, <3>4 DEF HandPlaced, Early, StrictlyAscending
  <2>2. CASE b # d
    <3>1. ~Writer(b) BY <2>2 DEF Alone
    <3> QED BY <3>1 DEF HandPlaced, Writer
  <2> QED BY <2>1, <2>2
<1> QED BY <1>2, <1>6, <1>7 DEF Ordered

\* A step that leaves the document and the staged entries, and lets no chapter
\* go that was being written.
LEMMA QuietOrdered ==
  ASSUME Sane, Ordered, proposal' = proposal, boot' = boot, botched \subseteq botched',
         ToSet(journal') \subseteq ToSet(journal),
         \A e \in ToSet(journal) : e.stage = "staged" => e \in ToSet(journal'),
         \A b \in calls' : b.kind # "startup" \/ b \in calls,
         \A b \in calls' : b \in calls \/ ~InHand(b) \/ HandPlaced(b)',
         \A b \in calls : Taken(b) => b \in calls'
  PROVE  Ordered'
<1>1. Active' \subseteq Active BY DEF Active, OfStage
<1>2. OneActive' BY <1>1 DEF Ordered, OneActive
<1>3. \A x : Loose(x)' => Loose(x)
  <2>1. \A b : Taken(b)' <=> Taken(b) BY DEF Taken, InHand
  <2> QED BY <2>1 DEF Loose, EntriesOf
<1>4. \A e : Placed(e) => Placed(e)'
  BY <1>3, PlacedFrame
<1>5. Up => Up' BY DEF Up
<1>6. ActivePlaced'
  BY <1>1, <1>4, <1>5 DEF Ordered, ActivePlaced
<1>7. ASSUME NEW b \in calls' PROVE HandPlaced(b)'
  <2>1. CASE b \in calls
    <3>1. HandPlaced(b) BY <2>1 DEF Ordered
    <3>2. b.kind = "undo" /\ b.at = "drop" /\ Fitting(b)' => Fitting(b)
      <4> SUFFICES ASSUME b.kind = "undo", b.at = "drop", Fitting(b)' PROVE Fitting(b)
        OBVIOUS
      <4>1. b.entry.sec = b.sec BY <2>1, CallIs DEF InHand
      <4>2. \A e \in ToSet(journal) : e.stage \in {"staged", "active"}
        BY InSets DEF JournalEntry, Entry
      <4>3. \A e \in ToSet(journal) : e.sec = b.sec
        <5> SUFFICES ASSUME NEW e \in ToSet(journal) PROVE e.sec = b.sec
          OBVIOUS
        <5>1. CASE e.stage = "staged" BY <5>1 DEF Fitting, Chapters_
        <5>2. CASE e.stage = "active" BY <3>1, <4>1, <5>2 DEF HandPlaced, Active, OfStage
        <5> QED BY <4>2, <5>1, <5>2
      <4> QED BY <4>3 DEF Fitting, Chapters_, StrictlyAscending
    <3> QED BY <1>1, <1>4, <3>1, <3>2 DEF HandPlaced, Early, StrictlyAscending
  <2>2. CASE b \notin calls
    <3>1. ~InHand(b) \/ HandPlaced(b)' BY <2>2
    <3> QED BY <3>1 DEF HandPlaced, InHand, Early
  <2> QED BY <2>1, <2>2
<1> QED BY <1>2, <1>6, <1>7 DEF Ordered

\* Put after its previous sibling, a chapter stands at its place when no other
\* one does between the two.
LEMMA RestoredAscends ==
  ASSUME NEW doc \in Seq(Chapters), NEW e \in Entry, StrictlyAscending(doc),
         e.sec \notin ToSet(doc), e.prev < e.sec, e.prev # 0 => e.prev \in ToSet(doc),
         \A x \in ToSet(doc) : ~(e.prev < x /\ x < e.sec)
  PROVE  StrictlyAscending(Restored(doc, e))
<1> DEFINE I == {i \in 1..Len(doc) : doc[i] = e.prev}
           at == SelectInSeq(doc, LAMBDA c : c = e.prev)
           k == IF e.prev # 0 /\ Contains(doc, e.prev) THEN at + 1 ELSE 1
           t == InsertAt(doc, k, e.sec)
<1>1. Len(doc) \in Nat /\ DOMAIN doc = 1..Len(doc) /\ e.sec \in Chapters /\ NumChapters \in Nat
      /\ e.prev \in 0..NumChapters
  BY DeleteAssumption DEF Entry
<1>2. at = IF I # {} THEN Min(I) ELSE 0
  BY DEF SelectInSeq
<1>3. Restored(doc, e) = t
  BY DEF Restored, at
<1>4. \A i \in 1..Len(doc) : doc[i] \in 1..NumChapters /\ doc[i] \in ToSet(doc)
  BY <1>1 DEF Chapters, ToSet
<1>5. e.prev # 0 => I # {} /\ Contains(doc, e.prev)
  BY <1>1, ContainsIs DEF ToSet
<1> HIDE DEF at
<1>6. at \in 0..Len(doc) /\ (I # {} => at \in I /\ at # 0)
  <2>1. I \subseteq 1..Len(doc) OBVIOUS
  <2> HIDE DEF I
  <2> QED BY <1>1, <1>2, <2>1, FirstOf
<1>7. e.sec \in 1..NumChapters /\ \A i \in 1..Len(doc) : doc[i] # e.sec
  BY <1>1, <1>4 DEF Chapters
<1>8. \A i, j \in 1..Len(doc) : i < j => doc[i] < doc[j]
  BY <1>1 DEF StrictlyAscending
<1>9. k \in 1..Len(doc) + 1
  BY <1>1, <1>6
<1>10. \A i \in 1..Len(doc) : IF i < k THEN doc[i] < e.sec ELSE doc[i] > e.sec
  <2>1. CASE e.prev = 0
    <3>1. k = 1 BY <2>1
    <3>2. \A i \in 1..Len(doc) : doc[i] > 0 /\ ~(0 < doc[i] /\ doc[i] < e.sec)
      BY <1>4, <2>1
    <3> HIDE DEF k
    <3> QED BY <1>1, <1>4, <1>7, <3>1, <3>2
  <2>2. CASE e.prev # 0
    <3>1. k = at + 1 /\ at \in 1..Len(doc) /\ doc[at] = e.prev
      BY <1>5, <1>6, <2>2
    <3> HIDE DEF k
    <3>2. ASSUME NEW i \in 1..Len(doc), i < k PROVE doc[i] < e.sec
      <4>1. i = at \/ i < at BY <1>1, <3>1, <3>2
      <4>2. doc[i] = e.prev \/ doc[i] < e.prev BY <1>8, <3>1, <4>1
      <4> QED BY <1>1, <1>4, <1>7, <4>2
    <3>3. ASSUME NEW i \in 1..Len(doc), ~(i < k) PROVE doc[i] > e.sec
      <4>1. at < i BY <1>1, <3>1, <3>3
      <4>2. e.prev < doc[i] BY <1>8, <3>1, <4>1
      <4>3. ~(doc[i] < e.sec) BY <1>4, <4>2
      <4> QED BY <1>1, <1>4, <1>7, <4>3
    <3> QED BY <3>2, <3>3
  <2> QED BY <2>1, <2>2
<1> HIDE DEF k
<1>11. /\ DOMAIN t = 1..Len(doc) + 1
       /\ \A i \in 1..Len(doc) + 1 :
            t[i] = IF i < k THEN doc[i] ELSE IF i = k THEN e.sec ELSE doc[i - 1]
  BY <1>1, <1>9, InsertedIs
<1> HIDE DEF t
<1>12. ASSUME NEW i \in DOMAIN t, NEW j \in DOMAIN t, i < j PROVE t[i] < t[j]
  <2>0. i \in 1..Len(doc) + 1 /\ j \in 1..Len(doc) + 1 /\ k \in 1..Len(doc) + 1 BY <1>9, <1>11
  <2>1. CASE j < k
    <3>1. i < k /\ i \in 1..Len(doc) /\ j \in 1..Len(doc) BY <1>1, <1>12, <2>0, <2>1
    <3>2. t[i] = doc[i] /\ t[j] = doc[j] BY <1>11, <2>0, <2>1, <3>1
    <3> QED BY <1>8, <1>12, <3>1, <3>2
  <2>2. CASE j = k
    <3>1. i < k /\ i \in 1..Len(doc) BY <1>1, <1>12, <2>0, <2>2
    <3>2. t[i] = doc[i] /\ t[j] = e.sec BY <1>11, <2>0, <2>2, <3>1
    <3> QED BY <1>10, <3>1, <3>2
  <2>3. CASE j > k /\ i < k
    <3>1. i \in 1..Len(doc) /\ j - 1 \in 1..Len(doc) /\ i < j - 1 BY <1>1, <1>12, <2>0, <2>3
    <3>2. t[i] = doc[i] /\ t[j] = doc[j - 1] BY <1>1, <1>11, <2>0, <2>3
    <3> QED BY <1>8, <3>1, <3>2
  <2>4. CASE j > k /\ i = k
    <3>1. j - 1 \in 1..Len(doc) /\ ~(j - 1 < k) BY <1>1, <2>0, <2>4
    <3>2. t[i] = e.sec /\ t[j] = doc[j - 1] BY <1>1, <1>11, <2>0, <2>4
    <3>3. doc[j - 1] > e.sec BY <1>10, <3>1
    <3> QED BY <1>4, <1>7, <3>1, <3>2, <3>3
  <2>5. CASE j > k /\ i > k
    <3>1. i - 1 \in 1..Len(doc) /\ j - 1 \in 1..Len(doc) /\ i - 1 < j - 1 BY <1>1, <1>12, <2>0, <2>5
    <3>2. t[i] = doc[i - 1] /\ t[j] = doc[j - 1] BY <1>1, <1>11, <2>0, <2>5
    <3> QED BY <1>8, <3>1, <3>2
  <2> QED BY <1>1, <2>0, <2>1, <2>2, <2>3, <2>4, <2>5
<1> QED BY <1>3, <1>12 DEF StrictlyAscending

LEMMA DeleteReadOrdered ==
  ASSUME Sane, Alone, Safe, Tidy, Ordered, NEW c \in calls, c.kind = "delete", DeleteRead(c),
         UNCHANGED <<boot, renderer, budget>>
  PROVE  Ordered'
<1>1. c \in CallType /\ WellPlaced(c) /\ c.at = "read" /\ Writer(c) /\ ~InHand(c)
  BY CallIs DEF DeleteRead, Writer, InHand
<1>2. UNCHANGED <<proposal, sectionIndex, journal, notes, botched>>
  BY DEF DeleteRead, stores, ghosts
<1>3. ~Taken(c) BY <1>1 DEF Taken
<1>4. CASE ~(c.sec \in sectionIndex /\ Contains(proposal, c.sec))
  <2>1. calls' = calls \ {c} BY <1>4 DEF DeleteRead, Answers
  <2> QED BY <1>2, <1>3, <2>1, QuietOrdered
<1>5. CASE c.sec \in sectionIndex /\ Contains(proposal, c.sec)
  <2>1. PICK e : e = [id |-> c.id, sec |-> c.sec, stage |-> "staged",
                      prev |-> PreviousSibling(c.sec), notes |-> notes[c.sec],
                      row |-> c.sec \in rows, sum |-> c.sec \in summaries]
    OBVIOUS
  <2>2. PICK d : d = [c EXCEPT !.at = "stage", !.doc = proposal, !.entry = e]
    OBVIOUS
  <2>3. calls' = (calls \ {c}) \cup {d}
    BY <1>5, <2>1, <2>2 DEF DeleteRead
  <2>4. d.kind = "delete" /\ d.sec = c.sec /\ d.at = "stage" /\ d.entry = e
        /\ e.sec = c.sec /\ e.prev = PreviousSibling(c.sec)
    BY <1>1, <2>1, <2>2 DEF CallType
  <2>5. c.sec \in Chapters /\ sectionIndex \subseteq Chapters
    BY <1>1 DEF WellPlaced, Sane, Typed, StoresTyped
  <2>6. /\ e.prev < c.sec
        /\ e.prev = 0 \/ e.prev \in sectionIndex
        /\ \A x \in sectionIndex : x < c.sec => x <= e.prev
        /\ e.prev \in 0..NumChapters
    BY <2>4, <2>5, PreviousSiblingTyped
  <2>7. ASSUME NEW x \in Chapters \ botched, x # c.sec, Loose(x)
        PROVE  /\ e.prev < x /\ x < c.sec => x \notin ToSet(proposal)
               /\ x = e.prev => x \in ToSet(proposal)
    <3>1. Settled(x)
      BY <1>1, NotInHand DEF Tidy
    <3>2. Present(x) \/ Absent(x)
      <4>1. \A f \in EntriesOf(x) : f.stage = "active"
        BY <2>7, InSets DEF Loose, EntriesOf, JournalEntry, Entry
      <4> QED BY <3>1, <4>1 DEF Settled
    <3>3. x \in sectionIndex <=> x \in ToSet(proposal) BY <3>2 DEF Present, Absent
    <3>4. x \in 1..NumChapters /\ NumChapters \in Nat BY DeleteAssumption DEF Chapters
    <3>5. x = e.prev => x \in sectionIndex BY <2>6, <3>4
    <3>6. e.prev < x /\ x < c.sec => x \notin sectionIndex BY <2>6, <3>4
    <3> QED BY <3>3, <3>5, <3>6
  <2>8. Placed(e) BY <2>4, <2>6, <2>7 DEF Placed
  <2>9. Placed(e)'
    <3>1. \A x \in Chapters : x # e.sec /\ Loose(x)' => Loose(x)
      BY <1>1, <1>2, <2>4, OthersLoose
    <3> QED BY <1>2, <2>8, <3>1, PlacedFrame
  <2>10. HandPlaced(d)' BY <2>4, <2>9 DEF HandPlaced, Early
  <2> QED BY <1>2, <1>3, <2>3, <2>4, <2>10, QuietOrdered
<1> QED BY <1>4, <1>5

LEMMA DeleteStageOrdered ==
  ASSUME Sane, Alone, Safe, Ordered, NEW c \in calls, c.kind = "delete", DeleteStage(c),
         UNCHANGED <<boot, renderer, budget>>
  PROVE  Ordered'
<1>1. c \in CallType /\ c.at = "stage" /\ InHand(c) /\ Writer(c)
  BY CallIs DEF DeleteStage, InHand, Writer
<1>2. c.entry \in JournalEntry /\ c.entry.sec = c.sec /\ c.entry.stage = "staged"
  BY <1>1, CallIs DEF Safe, Places, InStep
<1>3. ToSet(journal') = (ToSet(journal) \ OfStage("active")) \cup {c.entry}
  BY <1>2, InSets, StageIs DEF DeleteStage
<1>4. Goes(c, "summaries") /\ proposal' = proposal /\ botched \subseteq botched'
  BY DEF DeleteStage
<1>5. PICK d : d = [c EXCEPT !.at = "summaries"] OBVIOUS
<1>6. d.kind = "delete" /\ d.sec = c.sec /\ d.at = "summaries" /\ d.entry = c.entry
  BY <1>1, <1>5, CallMoved DEF CallPlaces, DeleteSteps
<1>7. calls' = (calls \ {c}) \cup {d}
  BY <1>4, <1>5 DEF Goes
<1>8. Active' = {}
  BY <1>2, <1>3 DEF Active, OfStage
<1>9. ASSUME c.sec \notin botched' PROVE Placed(c.entry)'
  <2>1. Placed(c.entry) BY <1>1, <1>4, <1>9 DEF Ordered, HandPlaced
  <2>2. \A e \in ToSet(journal) : e.stage = "staged" /\ e.sec # c.sec => e \in ToSet(journal')
    BY <1>3 DEF OfStage
  <2>3. \A x \in Chapters : x # c.entry.sec /\ Loose(x)' => Loose(x)
    BY <1>1, <1>2, <2>2, OthersLoose
  <2> QED BY <1>4, <2>1, <2>3, PlacedFrame
<1>10. HandPlaced(d)' BY <1>6, <1>8, <1>9 DEF HandPlaced
<1>11. \A b \in calls \ {c} : ~Writer(b) BY <1>1 DEF Alone
<1>12. \A b \in calls' : HandPlaced(b)' BY <1>7, <1>10, <1>11 DEF HandPlaced, Writer
<1> QED BY <1>8, <1>12 DEF Ordered, OneActive, ActivePlaced

LEMMA DeleteFlipOrdered ==
  ASSUME Sane, Alone, Safe, Ordered, NEW c \in calls, c.kind = "delete", DeleteFlip(c),
         UNCHANGED <<boot, renderer, budget>>
  PROVE  Ordered'
<1>1. c.at = "flip" /\ InHand(c) /\ Writer(c) /\ FlipEntry(c.id) /\ calls' = calls \ {c}
      /\ UNCHANGED <<proposal, boot, botched>>
  BY CallIs DEF DeleteFlip, InHand, Writer, Answers
<1>2. c.entry \in ToSet(journal) /\ c.entry.id = c.id /\ c.entry.sec = c.sec
  BY <1>1, CallIs DEF Safe, Places, InStep, Early
<1>3. \A e \in ToSet(journal) : e.id = c.id => e = c.entry
  BY <1>2 DEF Safe, Closed
<1>4. PICK f : f = Flipped(c.entry) OBVIOUS
<1>5. f.sec = c.sec /\ f.prev = c.entry.prev
  BY <1>2, <1>4, InSets, FlippedEntry
<1>6. /\ \A g \in ToSet(journal') : (g \in ToSet(journal) /\ g.stage # "active") \/ g = f
      /\ \A e \in ToSet(journal) : e.id # c.id => e \in ToSet(journal') \/ e.stage = "active"
  BY <1>1, <1>2, <1>3, <1>4, InSets, FlipIs
<1>7. \A g \in Active' : g = f BY <1>6 DEF Active, OfStage
<1>8. Up' BY <1>1 DEF Alone, Up
<1>9. ASSUME c.sec \notin botched' PROVE Placed(f)'
  <2>1. Placed(c.entry) BY <1>1, <1>9 DEF Ordered, HandPlaced
  <2>2. \A e \in ToSet(journal) : e.stage = "staged" /\ e.sec # c.sec => e \in ToSet(journal')
    BY <1>2, <1>3, <1>6
  <2>3. \A x \in Chapters : x # c.entry.sec /\ Loose(x)' => Loose(x)
    BY <1>1, <1>2, <2>2, OthersLoose
  <2>4. Placed(c.entry)' BY <1>1, <2>1, <2>3, PlacedFrame
  <2> QED BY <1>2, <1>5, <2>4 DEF Placed
<1>10. ActivePlaced' BY <1>5, <1>7, <1>8, <1>9 DEF ActivePlaced
<1>11. \A b \in calls' : ~Writer(b) BY <1>1 DEF Alone
<1>12. \A b \in calls' : HandPlaced(b)' BY <1>11 DEF HandPlaced, Writer
<1> QED BY <1>7, <1>10, <1>12 DEF Ordered, OneActive

LEMMA DeleteStepsOrdered ==
  ASSUME Sane, Alone, Safe, Ordered, NEW c \in calls, c.kind = "delete",
         DeleteSummaries(c) \/ DeleteRows(c) \/ DeleteSave(c) \/ Rollback(c),
         UNCHANGED <<boot, renderer, budget>>
  PROVE  Ordered'
<1>1. c.at \in {"summaries", "rows", "save"} \cup RollbackSteps /\ botched' = botched
  BY DEF DeleteSummaries, DeleteRows, DeleteSave, Rollback, RollbackSteps, ghosts
<1>2. c \in CallType /\ InHand(c) /\ Writer(c) /\ c.doc \in Seq(Chapters) /\ InStep(c)
      /\ c.entry.id = c.id /\ c.entry.sec = c.sec /\ c.at \notin Early
  BY <1>1, CallIs DEF InHand, Writer, RollbackSteps, Safe, Places, Early
<1>3. /\ ToSet(c.doc) \ {c.sec} \subseteq ToSet(RemoveFirst(c.doc, c.sec))
      /\ ToSet(RemoveFirst(c.doc, c.sec)) \subseteq ToSet(c.doc)
  BY <1>2, RemovedIs
<1>4. \/ proposal' = proposal
      \/ /\ proposal \in {c.doc, RemoveFirst(c.doc, c.sec)}
         /\ proposal' \in {c.doc, RemoveFirst(c.doc, c.sec)}
  <2>1. c.at \in {"save", "back-save"} => proposal \in {c.doc, RemoveFirst(c.doc, c.sec)}
    BY <1>2 DEF InStep
  <2>2. \/ proposal' = proposal
        \/ c.at = "save" /\ proposal' = RemoveFirst(c.doc, c.sec)
        \/ c.at = "back-save" /\ proposal' = c.doc
    BY DEF DeleteSummaries, DeleteRows, DeleteSave, Rollback
  <2> QED BY <2>1, <2>2
<1>5. \A x \in Chapters : x # c.sec => (x \in ToSet(proposal') <=> x \in ToSet(proposal))
  BY <1>3, <1>4
<1>6. CASE c.at # "back-drop"
  <2>1. journal' = journal
    BY <1>6 DEF DeleteSummaries, DeleteRows, DeleteSave, Rollback
  <2>2. PICK a \in {"rows", "save", "flip"} \cup RollbackSteps :
          Goes(c, a) /\ (a \in {"rows", "save", "flip"} => c.at \in {"summaries", "rows", "save"})
    <3>1. \/ /\ c.at \in {"summaries", "rows", "save"}
             /\ Goes(c, "rows") \/ Goes(c, "save") \/ Goes(c, "flip")
          \/ Goes(c, "back-save") \/ Goes(c, "back-rows") \/ Goes(c, "back-summaries")
          \/ Goes(c, "back-drop")
      BY <1>6 DEF DeleteSummaries, DeleteRows, DeleteSave, Rollback
    <3> QED BY <3>1 DEF RollbackSteps
  <2>3. PICK d : d = [c EXCEPT !.at = a] OBVIOUS
  <2>4. d.kind = "delete" /\ d.sec = c.sec /\ d.at = a /\ d.entry = c.entry
    BY <1>2, <2>3, CallMoved DEF CallPlaces, DeleteSteps
  <2>5. calls' = (calls \ {c}) \cup {d} BY <2>2, <2>3 DEF Goes
  <2>6. d.at \in {"stage", "summaries", "rows", "save", "flip"} =>
          c.at \in {"stage", "summaries", "rows", "save", "flip"}
    BY <2>2, <2>4 DEF RollbackSteps
  <2> QED BY <1>1, <1>2, <1>5, <2>1, <2>4, <2>5, <2>6, MovesOrdered
<1>7. CASE c.at = "back-drop"
  <2>1. calls' = calls \ {c} /\ journal' = Without({e \in ToSet(journal) : e.id = c.id})
    BY <1>7 DEF DeleteSummaries, DeleteRows, DeleteSave, Rollback, Answers
  <2>2. ToSet(journal') = ToSet(journal) \ {e \in ToSet(journal) : e.id = c.id}
    BY <2>1, InSets, WithoutIs
  <2>3. \A e \in ToSet(journal) : e.id = c.id => e = c.entry
    BY <1>2, <1>7 DEF InStep, Early, Safe, Closed
  <2>4. \A e \in ToSet(journal) : e.sec # c.sec => e \in ToSet(journal')
    BY <1>2, <2>2, <2>3
  <2> QED BY <1>1, <1>2, <1>5, <2>1, <2>2, <2>4, MovesOrdered
<1> QED BY <1>6, <1>7

LEMMA UndoFindOrdered ==
  ASSUME Sane, Alone, Safe, Ordered, NEW c \in calls, c.kind \in {"undo", "startup"}, UndoFind(c),
         UNCHANGED <<boot, renderer, budget>>
  PROVE  Ordered'
<1>1. c \in CallType /\ WellPlaced(c) /\ c.at = "find" /\ Writer(c) /\ ~InHand(c)
  BY CallIs DEF UndoFind, Writer, InHand
<1>2. c.kind = "undo" BY <1>1 DEF WellPlaced
<1>3. UNCHANGED <<proposal, journal, botched>>
  BY DEF UndoFind, stores, ghosts
<1>4. ~Taken(c) BY <1>1 DEF Taken
<1>5. CASE ~ \E e \in ToSet(journal) : e.id = c.id
  <2>1. calls' = calls \ {c} BY <1>5 DEF UndoFind, Answers
  <2> QED BY <1>3, <1>4, <2>1, QuietOrdered
<1>6. CASE \E e \in ToSet(journal) : e.id = c.id
  <2>1. PICK e : e = CHOOSE f \in ToSet(journal) : f.id = c.id OBVIOUS
  <2>2. e \in ToSet(journal) /\ e.id = c.id BY <1>6, <2>1
  <2>3. PICK d : d = [c EXCEPT !.at = "load", !.entry = e] OBVIOUS
  <2>4. d.kind = "undo" /\ d.at = "load" /\ d.sec = c.sec /\ d.entry = e
    BY <1>1, <1>2, <2>3 DEF CallType
  <2>5. calls' = (calls \ {c}) \cup {d}
    BY <1>6, <2>1, <2>3 DEF UndoFind
  <2>6. e \in JournalEntry /\ c.id \in Ids /\ e.sec \in 0..NumChapters /\ c.sec \in 0..NumChapters
    BY <2>2, CallIs, InSets DEF Chapters
  <2>7. e.sec = c.sec
    <3>1. Knows(c.id, e.sec) /\ Knows(c.id, c.sec) BY <1>2, <2>2 DEF Knows
    <3> QED BY <2>6, <3>1 DEF Sane, OneChapterEach
  <2>8. e \in Active
    <3>1. Open(c.id) BY <1>2 DEF Open
    <3> QED BY <2>2, <2>6, <3>1 DEF Safe, Closed, Active, OfStage, JournalEntry, Entry
  <2>9. \A f \in Active : f = e BY <2>8 DEF Ordered, OneActive
  <2>10. ToSet(boot) = {}
    <3>1. Up BY <1>2 DEF Alone
    <3> QED BY <3>1, EmptySeqIs DEF Up
  <2>11. c.sec \notin botched => Placed(e)
    BY <2>7, <2>8, <2>10 DEF Ordered, ActivePlaced
  <2>12. Placed(e) => Placed(e)'
    <3>1. \A x \in Chapters : x # e.sec /\ Loose(x)' => Loose(x)
      BY <1>1, <1>3, <2>7, OthersLoose
    <3> QED BY <1>3, <3>1, PlacedFrame
  <2>13. Active' = Active BY <1>3 DEF Active, OfStage
  <2>14. HandPlaced(d)' BY <1>3, <2>4, <2>9, <2>11, <2>12, <2>13 DEF HandPlaced
  <2> QED BY <1>2, <1>3, <1>4, <2>4, <2>5, <2>14, QuietOrdered
<1> QED BY <1>5, <1>6

LEMMA UndoLoadOrdered ==
  ASSUME Sane, Alone, Ordered, NEW c \in calls, c.kind \in {"undo", "startup"}, UndoLoad(c),
         UNCHANGED <<boot, renderer, budget>>
  PROVE  Ordered'
<1>1. c \in CallType /\ c.at = "load" /\ Writer(c) /\ InHand(c)
  BY CallIs DEF UndoLoad, Writer, InHand
<1>2. UNCHANGED <<proposal, journal, botched>>
  BY DEF UndoLoad, stores, ghosts
<1>3. PICK d : d = [c EXCEPT !.at = "meta", !.doc = proposal] OBVIOUS
<1>4. d.kind = c.kind /\ d.at = "meta" /\ d.sec = c.sec /\ d.entry = c.entry
  BY <1>1, <1>3 DEF CallType
<1>5. calls' = (calls \ {c}) \cup {d} BY <1>3 DEF UndoLoad
<1> QED BY <1>1, <1>2, <1>4, <1>5, MovesOrdered

\* The document an undo has saved has the chapter at its place.
LEMMA SavedAscends ==
  ASSUME Sane, Alone, Safe, Ordered, NEW c \in calls, c.kind = "undo", UndoSave(c),
         c.sec \notin botched, Fitting(c)
  PROVE  StrictlyAscending(proposal')
<1>1. c.at = "save" /\ InHand(c) /\ Writer(c) /\ proposal' = Restored(c.doc, c.entry)
  BY DEF UndoSave, InHand, Writer
<1>2. c.entry \in Entry /\ c.entry.sec = c.sec /\ c.doc \in Seq(Chapters) /\ proposal = c.doc
      /\ c.entry.prev \in 0..NumChapters
  BY <1>1, CallIs DEF Safe, Places, InStep, JournalEntry, Entry
<1>3. Placed(c.entry) BY <1>1 DEF Ordered, HandPlaced
<1>4. \A b \in calls : Taken(b) => b = c
  BY <1>1 DEF Alone, Writer, Taken, InHand
<1>5. \A x : x # c.sec => Loose(x)
  BY <1>4 DEF Fitting, Chapters_, Loose, EntriesOf
<1>6. ASSUME NEW x \in ToSet(c.doc) PROVE ~(c.entry.prev < x /\ x < c.entry.sec)
  <2>1. x \in Chapters /\ x \notin botched /\ x # c.sec
    BY <1>2, InSets DEF Fitting
  <2> QED BY <1>2, <1>3, <1>5, <2>1 DEF Placed
<1>7. ASSUME c.entry.prev # 0 PROVE c.entry.prev \in ToSet(c.doc)
  <2>1. c.entry.prev \in Chapters /\ c.entry.prev \notin botched
    BY <1>2, <1>7, DeleteAssumption DEF Fitting, Chapters
  <2>2. c.entry.prev # c.sec
    BY <1>2, <1>3, <2>1, DeleteAssumption DEF Placed, Chapters
  <2> QED BY <1>2, <1>3, <1>5, <2>1, <2>2 DEF Placed
<1>8. StrictlyAscending(c.doc) /\ c.entry.sec \notin ToSet(c.doc) /\ c.entry.prev < c.entry.sec
  BY <1>2, <1>3 DEF Fitting, Placed
<1>9. StrictlyAscending(Restored(c.doc, c.entry))
  BY <1>2, <1>6, <1>7, <1>8, RestoredAscends
<1> QED BY <1>1, <1>9

LEMMA UndoStepsOrdered ==
  ASSUME Sane, Alone, Safe, Ordered, NEW c \in calls, c.kind \in {"undo", "startup"},
         UndoMeta(c) \/ UndoRows(c) \/ UndoSummaries(c) \/ UndoSave(c),
         UNCHANGED <<boot, renderer, budget>>
  PROVE  Ordered'
<1>1. c.at \in {"meta", "rows", "summaries", "save"} /\ journal' = journal
  BY DEF UndoMeta, UndoRows, UndoSummaries, UndoSave
<1>2. c \in CallType /\ InHand(c) /\ Writer(c) /\ c.entry \in Entry /\ c.entry.sec = c.sec
      /\ c.doc \in Seq(Chapters) /\ proposal = c.doc
  BY <1>1, CallIs DEF InHand, Writer, JournalEntry, Safe, Places, InStep
<1>3. PICK a \in {"rows", "summaries", "save", "drop"} :
        Goes(c, a) /\ (a = "drop" => UndoSave(c))
  BY DEF UndoMeta, UndoRows, UndoSummaries, UndoSave
<1>4. PICK d : d = [c EXCEPT !.at = a] OBVIOUS
<1>5. d.kind = c.kind /\ d.at = a /\ d.sec = c.sec /\ d.entry = c.entry /\ d.doc = c.doc
  BY <1>2, <1>4, CallMoved DEF CallPlaces, UndoSteps
<1>6. calls' = (calls \ {c}) \cup {d} BY <1>3, <1>4 DEF Goes
<1>7. botched \subseteq botched'
  BY DEF UndoMeta, UndoRows, UndoSummaries, UndoSave, ghosts
<1>8. \A x \in Chapters : x # c.sec => (x \in ToSet(proposal') <=> x \in ToSet(proposal))
  <2>1. \/ proposal' = proposal
        \/ proposal' = Restored(c.doc, c.entry)
    BY DEF UndoMeta, UndoRows, UndoSummaries, UndoSave
  <2>2. ToSet(Restored(c.doc, c.entry)) = ToSet(c.doc) \cup {c.sec}
    BY <1>2, RestoredIs
  <2> QED BY <1>2, <2>1, <2>2
<1>9. ASSUME d.kind = "undo", d.at = "drop", d.sec \notin botched', Fitting(d)'
      PROVE  StrictlyAscending(proposal')
  <2>1. UndoSave(c) /\ c.kind = "undo" /\ c.sec \notin botched
    BY <1>3, <1>5, <1>7, <1>9
  <2>2. Fitting(c)
    BY <1>1, <1>5, <1>7, <1>9 DEF Fitting, StrictlyAscending, Chapters_
  <2> QED BY <2>1, <2>2, SavedAscends
<1>10. c.kind # "delete" BY DEF Writer
<1> QED BY <1>1, <1>2, <1>5, <1>6, <1>7, <1>8, <1>9, <1>10, MovesOrdered

LEMMA ClosingOrdered ==
  ASSUME Sane, Alone, Safe, Ordered, NEW c \in calls, (UndoHandler(c) /\ UndoDrop(c)) \/ FinalizeDelete(c),
         UNCHANGED <<boot, renderer, budget>>
  PROVE  Ordered'
<1>1. /\ journal' = Without(WindowAndOlder(c.id)) /\ calls' = calls \ {c}
      /\ UNCHANGED <<proposal, boot, botched>>
  BY DEF UndoDrop, FinalizeDelete, Answers
<1>2. /\ ToSet(journal') = ToSet(journal) \ WindowAndOlder(c.id)
      /\ \A e \in WindowAndOlder(c.id) : e \in ToSet(journal) /\ (e.id = c.id \/ e.stage = "active")
  BY <1>1, InSets, WithoutIs, WindowIs
<1>3. CASE FinalizeDelete(c)
  <2>1. c.kind = "finalize" BY <1>3 DEF FinalizeDelete
  <2>2. Open(c.id) BY <2>1 DEF Open
  <2>3. \A e \in ToSet(journal) : e.stage = "staged" => e \in ToSet(journal')
    BY <1>2, <2>2 DEF Safe, Closed
  <2>4. ~Taken(c) BY <2>1 DEF Taken, InHand
  <2> QED BY <1>1, <1>2, <2>3, <2>4, QuietOrdered
<1>4. CASE UndoHandler(c) /\ UndoDrop(c)
  <2>1. c.kind \in {"undo", "startup"} /\ c.at = "drop" /\ InHand(c) /\ Writer(c)
    BY <1>4 DEF UndoHandler, UndoDrop, InHand, Writer
  <2>2. ASSUME NEW e \in ToSet(journal), e.stage = "staged", e.sec # c.sec
        PROVE  e \in ToSet(journal')
    <3>1. Knows(e.id, e.sec) BY DEF Knows
    <3>2. e.id = c.id => Knows(e.id, c.sec) BY <2>1 DEF Knows
    <3>3. e.id \in Ids /\ e.sec \in 0..NumChapters /\ c.sec \in 0..NumChapters
      BY CallIs, InSets DEF Chapters
    <3>4. e.id # c.id BY <2>2, <3>1, <3>2, <3>3 DEF Sane, OneChapterEach
    <3> QED BY <1>2, <2>2, <3>4
  <2>3. c.kind # "delete" /\ c \notin calls' /\ calls' \subseteq (calls \ {c}) \cup {c}
    BY <1>1, <2>1
  <2> QED BY <1>1, <1>2, <2>1, <2>2, <2>3, MovesOrdered
<1> QED BY <1>3, <1>4

LEMMA HandleOrdered ==
  ASSUME Sane, Alone, Safe, Tidy, Ordered, Handle
  PROVE  Ordered'
<1>1. PICK c \in calls : DeleteHandler(c) \/ UndoHandler(c) \/ FinalizeDelete(c) \/ ListPending(c)
  BY DEF Handle
<1>2. UNCHANGED <<boot, renderer, budget>>
  BY DEF Handle
<1>3. CASE DeleteHandler(c)
  <2>1. c.kind = "delete" BY <1>3 DEF DeleteHandler
  <2>2. CASE DeleteRead(c) BY <1>2, <2>1, <2>2, DeleteReadOrdered
  <2>3. CASE DeleteStage(c) BY <1>2, <2>1, <2>3, DeleteStageOrdered
  <2>4. CASE DeleteSummaries(c) \/ DeleteRows(c) \/ DeleteSave(c) \/ Rollback(c)
    BY <1>2, <2>1, <2>4, DeleteStepsOrdered
  <2>5. CASE DeleteFlip(c) BY <1>2, <2>1, <2>5, DeleteFlipOrdered
  <2> QED BY <1>3, <2>2, <2>3, <2>4, <2>5 DEF DeleteHandler
<1>4. CASE UndoHandler(c)
  <2>1. c.kind \in {"undo", "startup"} BY <1>4 DEF UndoHandler
  <2>2. CASE UndoFind(c) BY <1>2, <2>1, <2>2, UndoFindOrdered
  <2>3. CASE UndoLoad(c) BY <1>2, <2>1, <2>3, UndoLoadOrdered
  <2>4. CASE UndoMeta(c) \/ UndoRows(c) \/ UndoSummaries(c) \/ UndoSave(c)
    BY <1>2, <2>1, <2>4, UndoStepsOrdered
  <2>5. CASE UndoDrop(c) BY <1>2, <1>4, <2>5, ClosingOrdered
  <2> QED BY <1>4, <2>2, <2>3, <2>4, <2>5 DEF UndoHandler
<1>5. CASE FinalizeDelete(c) BY <1>2, <1>5, ClosingOrdered
<1>6. CASE ListPending(c)
  <2>1. c.kind = "hydrate" /\ UNCHANGED <<proposal, journal, botched>>
    BY <1>6 DEF ListPending, stores, ghosts
  <2>2. Ended(c) BY <1>6, ListShape
  <2>3. calls' = calls \ {c} /\ ~Taken(c) BY <2>1, <2>2 DEF Ended, Answers, InHand, Taken
  <2> QED BY <1>2, <2>1, <2>3, QuietOrdered
<1> QED BY <1>1, <1>3, <1>4, <1>5, <1>6

LEMMA FailOrdered ==
  ASSUME Sane, Alone, Safe, Ordered, Fail
  PROVE  Ordered'
<1>1. PICK c \in calls :
        /\ c.at # "flush"
        /\ IF c.kind = "delete" /\ c.at \in {"summaries", "rows", "save"}
           THEN Goes(c, "back-meta") ELSE Answers(c, c.id, c.sec, FALSE)
        /\ proposal' \in {proposal} \cup (IF c.at = "save" THEN
             {IF c.kind = "delete" THEN RemoveFirst(c.doc, c.sec) ELSE Restored(c.doc, c.entry)}
             ELSE {})
        /\ botched \subseteq botched' /\ UNCHANGED <<journal, boot>>
  BY DEF Fail
<1>2. c \in CallType /\ WellPlaced(c) /\ c.kind \in Kinds /\ InStep(c) /\ c.doc \in Seq(Chapters)
  BY CallIs DEF Safe, Places
<1>3. CASE Taken(c)
  <2>1. Writer(c) /\ InHand(c) /\ c.entry \in Entry /\ c.entry.sec = c.sec
        /\ (c.kind = "delete" => c.at \notin Early)
    BY <1>2, <1>3, CallIs DEF Taken, InHand, Writer, Early, JournalEntry
  <2>2. PICK d : d = [c EXCEPT !.at = "back-meta"] OBVIOUS
  <2>3. d.kind = c.kind /\ d.at = "back-meta" /\ d.sec = c.sec /\ d.entry = c.entry
    BY <1>2, <2>2, CallMoved DEF CallPlaces, RollbackSteps
  <2>4. calls' \subseteq (calls \ {c}) \cup {d} BY <1>1, <2>2 DEF Goes, Answers
  <2>5. \A x \in Chapters : x # c.sec => (x \in ToSet(proposal') <=> x \in ToSet(proposal))
    <3>1. CASE proposal' = proposal BY <3>1
    <3>2. CASE c.at = "save" /\ c.kind = "delete" /\ proposal' = RemoveFirst(c.doc, c.sec)
      <4>1. proposal = c.doc BY <1>2, <3>2 DEF InStep
      <4> QED BY <1>2, <3>2, <4>1, RemovedIs
    <3>3. CASE c.at = "save" /\ c.kind # "delete" /\ proposal' = Restored(c.doc, c.entry)
      <4>1. proposal = c.doc BY <1>2, <2>1, <3>3 DEF InStep, Writer
      <4> QED BY <1>2, <2>1, <3>3, <4>1, RestoredIs
    <3> QED BY <1>1, <3>1, <3>2, <3>3
  <2> QED BY <1>1, <2>1, <2>3, <2>4, <2>5, MovesOrdered
<1>4. CASE ~Taken(c)
  <2>1. c.at # "save" /\ ~(c.kind = "delete" /\ c.at \in {"summaries", "rows", "save"})
    BY <1>2, <1>4 DEF Taken, InHand, WellPlaced, Kinds
  <2>2. calls' = calls \ {c} /\ proposal' = proposal BY <1>1, <2>1 DEF Answers
  <2> QED BY <1>1, <1>4, <2>2, QuietOrdered
<1> QED BY <1>3, <1>4

LEMMA CrashOrdered == ASSUME Ordered, Crash PROVE Ordered'
<1>1. calls' = {} /\ journal' = journal /\ boot' = journal
  BY DEF Crash, stores
<1>2. Active' = Active /\ Active \subseteq ToSet(journal)
  BY <1>1 DEF Active, OfStage
<1> QED BY <1>1, <1>2 DEF Ordered, OneActive, ActivePlaced

LEMMA CleanUpOrdered == ASSUME Sane, Ordered, CleanUp PROVE Ordered'
<1>1. PICK e : e = Head(boot) OBVIOUS
<1>2. PICK d : d = [Call("startup", e.id, e.sec, "load") EXCEPT !.entry = e] OBVIOUS
<1>3. /\ boot # <<>> /\ boot' = Tail(boot)
      /\ \/ e.stage = "staged" /\ calls' = {d} /\ journal' = journal
         \/ e.stage # "staged" /\ journal' = Without({e}) /\ calls' = {}
  BY <1>1, <1>2 DEF CleanUp
<1>4. ToSet(boot) = ToSet(boot') \cup {e}
  BY <1>1, <1>3, HeadAndTail DEF Sane, Typed, StoresTyped
<1>5. ToSet(journal') = ToSet(journal) \/ ToSet(journal') = ToSet(journal) \ {e}
  BY <1>3, InSets, WithoutIs
<1>6. Active' \subseteq Active \ {e}
  <2>1. CASE e.stage = "staged" BY <1>3, <2>1 DEF Active, OfStage
  <2>2. CASE e.stage # "staged"
    <3>1. ToSet(journal') = ToSet(journal) \ {e} BY <1>3, <2>2, InSets, WithoutIs
    <3> QED BY <3>1 DEF Active, OfStage
  <2> QED BY <2>1, <2>2
<1>7. Active \subseteq ToSet(boot) BY <1>3 DEF Ordered, ActivePlaced, Up
<1>8. d.kind = "startup" BY <1>2 DEF Call
<1>9. \A b \in calls' : HandPlaced(b)' BY <1>3, <1>8 DEF HandPlaced
<1> QED BY <1>4, <1>6, <1>7, <1>9 DEF Ordered, OneActive, ActivePlaced

LEMMA OrderedNext ==
  ASSUME Sane, Alone, Safe, Tidy, Ordered, [DeleteNext]_deleteVars
  PROVE  Ordered'
<1>1. CASE Handle BY <1>1, HandleOrdered
<1>2. CASE Fail BY <1>2, FailOrdered
<1>3. CASE Crash BY <1>3, CrashOrdered
<1>4. CASE CleanUp BY <1>4, CleanUpOrdered
<1>5. CASE \/ \E c \in Chapters : ClickDelete(c)
           \/ Flush \/ ClickUndo \/ FinalizeTimer \/ SwitchProject \/ OpenProject \/ Reply
           \/ UNCHANGED deleteVars
  <2>1. /\ UNCHANGED <<proposal, journal, boot, botched>>
        /\ \A d \in calls' : d \in calls \/ (~InHand(d) /\ d.kind # "startup")
        /\ \A d \in calls : Taken(d) => d \in calls'
    BY <1>5, RendererQuiet DEF stores, Taken
  <2> QED BY <2>1, QuietOrdered
<1> QED BY <1>1, <1>2, <1>3, <1>4, <1>5 DEF DeleteNext

LEMMA OrderedInit == DeleteInit => Ordered
<1> SUFFICES ASSUME DeleteInit PROVE Ordered
  OBVIOUS
<1>1. ToSet(journal) = {} /\ calls = {}
  BY EmptySeqIs DEF DeleteInit
<1> QED BY <1>1 DEF Ordered, OneActive, ActivePlaced, Active, OfStage

CalmOrdered == ~rushed => Ordered

\* Until an undo overlaps a deletion or another undo, at most one entry of the
\* journal has a window, and it and the entry of a deletion or an undo under
\* way say where the chapter stood among those that are settled.
THEOREM AlwaysOrdered == DeleteSpec => []CalmOrdered
<1>1. DeleteInit => CalmOrdered
  BY OrderedInit DEF CalmOrdered
<1>2. Sane /\ Calm /\ CalmTidy /\ CalmOrdered /\ [DeleteNext]_deleteVars => CalmOrdered'
  <2> SUFFICES ASSUME Sane, Calm, CalmTidy, CalmOrdered, [DeleteNext]_deleteVars, ~rushed' PROVE Ordered'
    BY DEF CalmOrdered
  <2>1. ~rushed BY RushedStays
  <2> QED BY <2>1, OrderedNext DEF Calm, CalmTidy, CalmOrdered
<1> QED BY <1>1, <1>2, AlwaysSane, AlwaysCalm, AlwaysTidy, PTL DEF DeleteSpec

\* An undo that comes to its last step has put everything back: the chapter at
\* its place between its siblings, its annotations once, its rows and summary
\* (undoDelete of chapter-structure-delete-service.ts).
THEOREM UndoAlwaysRestores == DeleteSpec => []UndoRestores
<1>1. Sane /\ Calm /\ CalmTidy /\ CalmOrdered => UndoRestores
  <2> SUFFICES ASSUME Sane, Calm, CalmTidy, CalmOrdered,
                      NEW c \in calls, c.kind = "undo", c.at = "drop", ~rushed, c.sec \notin botched
               PROVE  /\ c.sec \in sectionIndex /\ notes[c.sec] = c.entry.notes
                      /\ (c.entry.row => c.sec \in rows) /\ (c.entry.sum => c.sec \in summaries)
                      /\ (StrictlyAscending(c.doc) /\ ~Contains(c.doc, c.sec)
                          /\ Chapters_(ToSet(journal)) \subseteq {c.sec}
                          /\ (ToSet(c.doc) \cup {c.entry.prev}) \cap botched = {})
                           => StrictlyAscending(proposal) /\ Contains(proposal, c.sec)
    BY DEF UndoRestores
  <2>1. InHand(c) /\ c.sec \in Chapters /\ c.doc \in Seq(Chapters) BY CallIs DEF InHand
  <2>2. RestoresWhole(c) BY <2>1 DEF CalmTidy, Tidy, TidyAt, InOrder
  <2>3. Contains(proposal, c.sec)
    <3>1. c.sec \in ToSet(proposal) BY DEF Calm, Safe, Places, InStep
    <3> QED BY <3>1, InSets, ContainsIs
  <2>4. ASSUME StrictlyAscending(c.doc), ~Contains(c.doc, c.sec),
               Chapters_(ToSet(journal)) \subseteq {c.sec},
               (ToSet(c.doc) \cup {c.entry.prev}) \cap botched = {}
        PROVE  StrictlyAscending(proposal)
    <3>1. c.sec \notin ToSet(c.doc) BY <2>1, <2>4, ContainsIs
    <3>2. Fitting(c) BY <2>4, <3>1 DEF Fitting
    <3> QED BY <3>2 DEF CalmOrdered, Ordered, HandPlaced
  <2> QED BY <2>2, <2>3, <2>4 DEF RestoresWhole
<1> QED BY <1>1, AlwaysSane, AlwaysCalm, AlwaysTidy, AlwaysOrdered, PTL
=============================================================================
