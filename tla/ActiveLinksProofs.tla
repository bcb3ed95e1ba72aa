-------------------------- MODULE ActiveLinksProofs --------------------------
(***************************************************************************)
(* That the file of every portal is exact at any moment of the crawl, and  *)
(* that the crawl returns with exactly the portals that failed, for any    *)
(* number of portals, workers, rows and faults and any batch size.         *)
(***************************************************************************)
EXTENDS ActiveLinks, FiniteSetTheorems, SequenceTheorems, TLAPS

(***************************************************************************)
(* Rows in page order.  The rank of a row in a set of rows tells its place *)
(* in the ordered sequence; Serial is the rank among a portal's tenders.   *)
(***************************************************************************)
UpTo(R, r) == {q \in R : q <= r}
Rank(R, r) == Cardinality(UpTo(R, r))

(* A rank is a place, and grows along the rows. *)
LEMMA RankType ==
  ASSUME NEW R, IsFiniteSet(R), R \subseteq Nat, NEW r \in R
  PROVE  Rank(R, r) \in 1 .. Cardinality(R) /\ Rank(R, r) \in Nat
<1>1. UpTo(R, r) \subseteq R /\ r \in UpTo(R, r)
  BY DEF UpTo
<1>2. IsFiniteSet(UpTo(R, r)) /\ Cardinality(UpTo(R, r)) <= Cardinality(R)
  BY <1>1, FS_Subset
<1>3. Cardinality(UpTo(R, r)) \in Nat /\ Cardinality(R) \in Nat
  BY <1>2, FS_CardinalityType
<1>4. Cardinality(UpTo(R, r)) # 0
  BY <1>1, <1>2, FS_EmptySet
<1> QED
  BY <1>2, <1>3, <1>4 DEF Rank

LEMMA RankIncreasing ==
  ASSUME NEW R, IsFiniteSet(R), R \subseteq Nat, NEW p \in Nat, NEW r \in R, p < r
  PROVE  Rank(R, p) < Rank(R, r)
<1>1. UpTo(R, p) \subseteq UpTo(R, r) /\ UpTo(R, p) # UpTo(R, r) /\ UpTo(R, r) \subseteq R
  <2>1. \A q \in R : q \in Nat
    OBVIOUS
  <2>2. r \in UpTo(R, r) /\ r \notin UpTo(R, p)
    BY <2>1 DEF UpTo
  <2>3. \A q \in R : q <= p => q <= r
    BY <2>1
  <2> QED
    BY <2>2, <2>3 DEF UpTo
<1>2. IsFiniteSet(UpTo(R, r))
  BY <1>1, FS_Subset
<1>3. /\ Cardinality(UpTo(R, p)) <= Cardinality(UpTo(R, r))
      /\ Cardinality(UpTo(R, p)) # Cardinality(UpTo(R, r))
      /\ IsFiniteSet(UpTo(R, p))
  BY <1>1, <1>2, FS_Subset
<1>4. Cardinality(UpTo(R, p)) \in Nat /\ Cardinality(UpTo(R, r)) \in Nat
  BY <1>2, <1>3, FS_CardinalityType
<1> QED
  BY <1>3, <1>4 DEF Rank

LEMMA RankInjective ==
  ASSUME NEW R, IsFiniteSet(R), R \subseteq Nat, NEW p \in R, NEW r \in R,
         Rank(R, p) = Rank(R, r)
  PROVE  p = r
<1>1. p \in Nat /\ r \in Nat /\ Rank(R, p) \in Nat
  BY RankType
<1>2. ASSUME p < r PROVE FALSE
  <2>1. Rank(R, p) < Rank(R, r)
    BY <1>1, <1>2, RankIncreasing
  <2> QED
    BY <1>1, <2>1
<1>3. ASSUME r < p PROVE FALSE
  <2>1. Rank(R, r) < Rank(R, p)
    BY <1>1, <1>3, RankIncreasing
  <2> QED
    BY <1>1, <2>1
<1> QED
  BY <1>1, <1>2, <1>3

(* Every place has a row: ranks are different, and there are as many. *)
LEMMA RankOnto ==
  ASSUME NEW R, IsFiniteSet(R), R \subseteq Nat, NEW k \in 1 .. Cardinality(R)
  PROVE  \E r \in R : Rank(R, r) = k
<1> DEFINE f == [r \in R |-> Rank(R, r)]
           T == 1 .. Cardinality(R)
<1>1. Cardinality(R) \in Nat
  BY FS_CardinalityType
<1>2. IsFiniteSet(T) /\ Cardinality(T) = Cardinality(R)
  BY <1>1, FS_Interval
<1>3. f \in [R -> T]
  BY RankType
<1>4. \A p, r \in R : f[p] = f[r] => p = r
  BY RankInjective
<1>5. f \in Injection(R, T)
  BY <1>3, <1>4 DEF Injection, IsInjective
<1>6. f \in Surjection(R, T)
  BY <1>2, <1>5, FS_Injection
<1> QED
  BY <1>6 DEF Surjection

Increasing(s) == \A k, l \in DOMAIN s : k < l => s[k] < s[l]

(* In an increasing sequence of all rows every row is at its rank. *)
LEMMA PlaceIsRank ==
  ASSUME NEW R, IsFiniteSet(R), R \subseteq Nat, NEW s \in SetToSeqs(R), Increasing(s),
         NEW k \in 1 .. Cardinality(R)
  PROVE  s \in [1 .. Cardinality(R) -> R] /\ Rank(R, s[k]) = k
<1> DEFINE T == 1 .. Cardinality(R)
           f == [j \in 1 .. k |-> s[j]]
<1>1. Cardinality(R) \in Nat /\ IsFiniteSet(T) /\ Cardinality(T) = Cardinality(R)
  BY FS_CardinalityType, FS_Interval
<1>2. s \in [T -> R] /\ \A i1, j1 \in T : i1 # j1 => s[i1] # s[j1]
  BY DEF SetToSeqs
<1>3. s \in Injection(T, R)
  BY <1>2 DEF Injection, IsInjective
<1>4. s \in Surjection(T, R)
  BY <1>1, <1>3, FS_Injection
<1>5. f \in [1 .. k -> UpTo(R, s[k])]
  <2> SUFFICES ASSUME NEW j \in 1 .. k PROVE s[j] \in R /\ s[j] <= s[k]
    BY DEF UpTo
  <2>1. j \in T /\ j \in Nat /\ k \in Nat /\ (j = k \/ j < k)
    BY <1>1
  <2>2. s[j] \in R /\ s[k] \in R /\ s[j] \in Nat /\ s[k] \in Nat
    BY <1>2, <2>1
  <2>3. DOMAIN s = T
    BY <1>2
  <2>4. j < k => s[j] < s[k]
    BY <2>1, <2>3 DEF Increasing
  <2> QED
    BY <2>1, <2>2, <2>4
<1>6. \A q \in UpTo(R, s[k]) : \E j \in 1 .. k : f[j] = q
  <2> SUFFICES ASSUME NEW q \in UpTo(R, s[k]) PROVE \E j \in 1 .. k : f[j] = q
    OBVIOUS
  <2>1. PICK j \in T : s[j] = q
    BY <1>4 DEF Surjection, UpTo
  <2>2. q <= s[k] /\ q \in Nat /\ s[k] \in Nat
    BY <1>2 DEF UpTo
  <2>3. ~ (k < j)
    BY <1>1, <1>2, <2>1, <2>2 DEF Increasing
  <2> QED
    BY <1>1, <2>1, <2>3
<1>7. f \in Bijection(1 .. k, UpTo(R, s[k]))
  <2>1. f \in Injection(1 .. k, UpTo(R, s[k]))
    BY <1>1, <1>2, <1>5 DEF Injection, IsInjective
  <2>2. f \in Surjection(1 .. k, UpTo(R, s[k]))
    BY <1>5, <1>6 DEF Surjection
  <2> QED
    BY <2>1, <2>2 DEF Bijection
<1>8. IsFiniteSet(1 .. k) /\ Cardinality(1 .. k) = k
  BY <1>1, FS_Interval
<1>9. Cardinality(UpTo(R, s[k])) = k
  BY <1>7, <1>8, FS_Bijection DEF ExistsBijection
<1> QED
  BY <1>2, <1>9 DEF Rank

(* The ordered sequence exists: InOrder puts every row at its rank ... *)
LEMMA InOrderRank ==
  ASSUME NEW R, IsFiniteSet(R), R \subseteq Nat
  PROVE  /\ InOrder(R) \in [1 .. Cardinality(R) -> R]
         /\ \A k \in 1 .. Cardinality(R) : Rank(R, InOrder(R)[k]) = k
<1> DEFINE T == 1 .. Cardinality(R)
           s == [k \in T |-> CHOOSE r \in R : Rank(R, r) = k]
<1>0. Cardinality(R) \in Nat
  BY FS_CardinalityType
<1>1. \A k \in T : s[k] \in R /\ Rank(R, s[k]) = k
  BY RankOnto
<1>2. s \in SetToSeqs(R)
  <2>1. s \in [T -> R]
    BY <1>1
  <2>2. \A i1, j1 \in T : i1 # j1 => s[i1] # s[j1]
    BY <1>1
  <2> QED
    BY <2>1, <2>2 DEF SetToSeqs
<1>3. Increasing(s)
  <2> SUFFICES ASSUME NEW k \in T, NEW l \in T, k < l PROVE s[k] < s[l]
    BY DEF Increasing
  <2>1. s[k] \in R /\ s[l] \in R /\ Rank(R, s[k]) = k /\ Rank(R, s[l]) = l
    BY <1>1
  <2> DEFINE p == s[k]
             r == s[l]
  <2> HIDE DEF s, p, r
  <2>2. p \in R /\ r \in R /\ Rank(R, p) = k /\ Rank(R, r) = l
    BY <2>1 DEF p, r
  <2>3. k \in Nat /\ l \in Nat /\ p \in Nat /\ r \in Nat
    BY <1>0, <2>2
  <2>4. p = r \/ p < r \/ r < p
    BY <2>3
  <2>5. r < p => Rank(R, r) < Rank(R, p)
    BY <2>2, <2>3, RankIncreasing
  <2>6. p # r /\ ~ (r < p)
    BY <2>2, <2>3, <2>5
  <2> QED
    BY <2>4, <2>6 DEF p, r
<1>4. InOrder(R) \in SetToSeqs(R) /\ Increasing(InOrder(R))
  BY <1>2, <1>3 DEF InOrder, Increasing
<1>5. InOrder(R) \in [T -> R]
  BY <1>4 DEF SetToSeqs
<1> QED
  BY <1>4, <1>5, PlaceIsRank

(* ... and no other sequence does. *)
LEMMA InOrderUnique ==
  ASSUME NEW R, IsFiniteSet(R), R \subseteq Nat, NEW s \in [1 .. Cardinality(R) -> R],
         \A k \in 1 .. Cardinality(R) : Rank(R, s[k]) = k
  PROVE  s = InOrder(R)
<1> DEFINE T == 1 .. Cardinality(R)
<1>1. ASSUME NEW k \in T PROVE s[k] = InOrder(R)[k]
  <2>1. InOrder(R)[k] \in R /\ Rank(R, InOrder(R)[k]) = k
    BY InOrderRank
  <2>2. s[k] \in R /\ Rank(R, s[k]) = k
    OBVIOUS
  <2> QED
    BY <2>1, <2>2, RankInjective
<1>2. InOrder(R) \in [T -> R]
  BY InOrderRank
<1>3. s = [k \in T |-> s[k]] /\ InOrder(R) = [k \in T |-> InOrder(R)[k]]
  BY <1>2
<1> QED
  BY <1>1, <1>3

(* Two stretches of rows, one after the other, are ordered one by one. *)
LEMMA InOrderSplit ==
  ASSUME NEW A, NEW B, IsFiniteSet(A), IsFiniteSet(B), A \subseteq Nat, B \subseteq Nat,
         \A p \in A, q \in B : p < q
  PROVE  /\ IsFiniteSet(A \cup B) /\ Cardinality(A) \in Nat /\ Cardinality(B) \in Nat
         /\ Cardinality(A \cup B) = Cardinality(A) + Cardinality(B)
         /\ InOrder(A \cup B) =
              [k \in 1 .. Cardinality(A) + Cardinality(B) |->
                 IF k <= Cardinality(A) THEN InOrder(A)[k] ELSE InOrder(B)[k - Cardinality(A)]]
<1> DEFINE R == A \cup B
           a == Cardinality(A)
           b == Cardinality(B)
           s == [k \in 1 .. a + b |-> IF k <= a THEN InOrder(A)[k] ELSE InOrder(B)[k - a]]
<1>1. a \in Nat /\ b \in Nat
  BY FS_CardinalityType
<1>2. A \cap B = {}
  <2>1. \A p \in A : p \in Nat /\ ~ (p < p)
    OBVIOUS
  <2> QED
    BY <2>1
<1>3. IsFiniteSet(R) /\ Cardinality(R) = a + b /\ R \subseteq Nat
  <2>1. Cardinality(A \cap B) = 0
    BY <1>2, FS_EmptySet
  <2>2. IsFiniteSet(R) /\ Cardinality(R) = a + b - Cardinality(A \cap B)
    BY FS_Union
  <2> QED
    BY <1>1, <2>1, <2>2
<1>4. ASSUME NEW k \in 1 .. a + b PROVE s[k] \in R /\ Rank(R, s[k]) = k
  <2>1. CASE k <= a
    <3>1. k \in 1 .. a
      BY <1>1, <2>1
    <3>0. s[k] = InOrder(A)[k]
      BY <2>1
    <3> HIDE DEF s
    <3>2. s[k] \in A /\ s[k] \in Nat /\ Rank(A, s[k]) = k
      BY <3>0, <3>1, InOrderRank
    <3>3. \A q \in B : ~ (q <= s[k])
      BY <3>2
    <3>4. UpTo(R, s[k]) = UpTo(A, s[k])
      BY <3>3 DEF UpTo
    <3> QED
      BY <3>2, <3>4 DEF Rank
  <2>2. CASE ~ (k <= a)
    <3>1. k - a \in 1 .. b
      BY <1>1, <2>2
    <3>0. s[k] = InOrder(B)[k - a]
      BY <2>2
    <3> HIDE DEF s
    <3>2. s[k] \in B /\ s[k] \in Nat /\ Rank(B, s[k]) = k - a
      <4> DEFINE j == k - a
      <4>1. j \in 1 .. b /\ s[k] = InOrder(B)[j]
        BY <3>0, <3>1
      <4> HIDE DEF j
      <4>2. InOrder(B)[j] \in B /\ Rank(B, InOrder(B)[j]) = j
        BY <4>1, InOrderRank
      <4> QED
        BY <4>1, <4>2 DEF j
    <3>3. \A p \in A : p <= s[k]
      BY <3>2
    <3>4. UpTo(R, s[k]) = A \cup UpTo(B, s[k])
      BY <3>3 DEF UpTo
    <3>5. UpTo(B, s[k]) \subseteq B
      BY DEF UpTo
    <3>6. IsFiniteSet(UpTo(B, s[k])) /\ A \cap UpTo(B, s[k]) = {}
      BY <1>2, <3>5, FS_Subset
    <3>7. Cardinality(A \cap UpTo(B, s[k])) = 0
      BY <3>6, FS_EmptySet
    <3>8. Cardinality(UpTo(R, s[k]))
            = a + Cardinality(UpTo(B, s[k])) - Cardinality(A \cap UpTo(B, s[k]))
      BY <3>4, <3>6, FS_Union
    <3> QED
      BY <1>1, <3>2, <3>7, <3>8 DEF Rank
  <2> QED
    BY <2>1, <2>2
<1>5. s \in [1 .. Cardinality(R) -> R] /\ \A k \in 1 .. Cardinality(R) : Rank(R, s[k]) = k
  <2> HIDE DEF R
  <2> QED
    BY <1>3, <1>4
<1>6. s = InOrder(R)
  <2> HIDE DEF R, s
  <2> QED
    BY <1>3, <1>5, InOrderUnique
<1> QED
  BY <1>1, <1>3, <1>6

(***************************************************************************)
(* Lines: of two stretches, and of a batch that is numbered on.            *)
(***************************************************************************)
LEMMA Constants ==
  /\ NumUrls \in Nat /\ NumUrls > 0 /\ MaxSessionParallel \in Nat /\ MaxSessionParallel > 0
  /\ MaxRetries \in Nat /\ MaxRetries > 0 /\ MaxPolls \in Nat /\ MaxPolls > 0
  /\ BatchSize \in Nat /\ BatchSize > 0 /\ TableRows \in Nat /\ TableRows > 0
  BY BoundsAssumption

LEMMA RowsFinite ==
  ASSUME NEW u \in Urls, NEW R \in SUBSET ValidRows[u]
  PROVE  /\ R \subseteq 1 .. TableRows - 1 /\ R \subseteq Nat
         /\ IsFiniteSet(R) /\ Cardinality(R) \in 0 .. TableRows - 1
<1>1. ValidRows[u] \subseteq 1 .. TableRows - 1
  BY BoundsAssumption DEF Urls
<1>2. IsFiniteSet(1 .. TableRows - 1) /\ Cardinality(1 .. TableRows - 1) = TableRows - 1
  BY Constants, FS_Interval
<1>3. R \subseteq 1 .. TableRows - 1
  BY <1>1
<1>4. IsFiniteSet(R) /\ Cardinality(R) <= TableRows - 1
  BY <1>2, <1>3, FS_Subset
<1>5. Cardinality(R) \in Nat
  BY <1>4, FS_CardinalityType
<1> QED
  BY <1>3, <1>4, <1>5, Constants

LEMMA SerialType ==
  ASSUME NEW u \in Urls, NEW r \in ValidRows[u]
  PROVE  Serial(u, r) \in 1 .. TableRows - 1
<1>1. Serial(u, r) = Rank(ValidRows[u], r)
  BY DEF Serial, Rank, UpTo
<1>2. Rank(ValidRows[u], r) \in 1 .. Cardinality(ValidRows[u])
  BY RowsFinite, RankType
<1>3. Cardinality(ValidRows[u]) \in 0 .. TableRows - 1
  BY RowsFinite
<1> QED
  BY <1>1, <1>2, <1>3, Constants

LEMMA LinesType ==
  ASSUME NEW u \in Urls, NEW R \in SUBSET ValidRows[u]
  PROVE  LinesOf(u, R) \in Seq(Lines) /\ Len(LinesOf(u, R)) = Cardinality(R)
<1>1. Cardinality(R) \in Nat
  BY RowsFinite
<1>2. InOrder(R) \in [1 .. Cardinality(R) -> R]
  BY RowsFinite, InOrderRank
<1>3. ASSUME NEW k \in 1 .. Cardinality(R)
      PROVE  <<InOrder(R)[k], Serial(u, InOrder(R)[k])>> \in Lines
  <2>1. InOrder(R)[k] \in ValidRows[u]
    BY <1>2
  <2>2. InOrder(R)[k] \in 1 .. TableRows
    BY <2>1, RowsFinite, Constants
  <2>3. Serial(u, InOrder(R)[k]) \in 1 .. TableRows
    BY <2>1, SerialType, Constants
  <2> QED
    BY <2>2, <2>3 DEF Lines
<1> QED
  BY <1>1, <1>3 DEF LinesOf

LEMMA LinesSplit ==
  ASSUME NEW u \in Urls, NEW A \in SUBSET ValidRows[u], NEW B \in SUBSET ValidRows[u],
         \A p \in A, q \in B : p < q
  PROVE  LinesOf(u, A \cup B) = LinesOf(u, A) \o LinesOf(u, B)
<1> DEFINE a == Cardinality(A)
           b == Cardinality(B)
           R == A \cup B
<1>1. /\ IsFiniteSet(A) /\ IsFiniteSet(B) /\ A \subseteq Nat /\ B \subseteq Nat
  BY RowsFinite
<1>2. /\ a \in Nat /\ b \in Nat /\ Cardinality(R) = a + b
      /\ InOrder(R) = [k \in 1 .. a + b |-> IF k <= a THEN InOrder(A)[k] ELSE InOrder(B)[k - a]]
  BY <1>1, InOrderSplit
<1>3. /\ LinesOf(u, A) \in Seq(Lines) /\ Len(LinesOf(u, A)) = a
      /\ LinesOf(u, B) \in Seq(Lines) /\ Len(LinesOf(u, B)) = b
  BY LinesType
<1>4. /\ LinesOf(u, A) \o LinesOf(u, B) \in Seq(Lines)
      /\ Len(LinesOf(u, A) \o LinesOf(u, B)) = a + b
      /\ \A k \in 1 .. a + b : (LinesOf(u, A) \o LinesOf(u, B))[k]
            = IF k <= a THEN LinesOf(u, A)[k] ELSE LinesOf(u, B)[k - a]
  <2> HIDE DEF a, b
  <2> QED
    BY <1>3, ConcatProperties
<1>5. ASSUME NEW k \in 1 .. a + b
      PROVE  <<InOrder(R)[k], Serial(u, InOrder(R)[k])>>
               = IF k <= a THEN LinesOf(u, A)[k] ELSE LinesOf(u, B)[k - a]
  <2> HIDE DEF R
  <2>1. CASE k <= a
    BY <1>2, <2>1 DEF LinesOf
  <2>2. CASE ~ (k <= a)
    <3>1. k - a \in 1 .. b
      BY <1>2, <2>2
    <3> QED
      BY <1>2, <2>2, <3>1 DEF LinesOf
  <2> QED
    BY <2>1, <2>2
<1>6. /\ LinesOf(u, R) \in Seq(Lines) /\ Len(LinesOf(u, R)) = a + b
      /\ \A k \in 1 .. a + b : LinesOf(u, R)[k] = <<InOrder(R)[k], Serial(u, InOrder(R)[k])>>
  <2>1. R \in SUBSET ValidRows[u]
    OBVIOUS
  <2>2. LinesOf(u, R) \in Seq(Lines) /\ Len(LinesOf(u, R)) = Cardinality(R)
    <3> HIDE DEF R
    <3> QED BY <2>1, LinesType
  <2> HIDE DEF R, a, b
  <2> QED
    BY <1>2, <2>2 DEF LinesOf
<1> HIDE DEF R, a, b
<1>7. LinesOf(u, R) = LinesOf(u, A) \o LinesOf(u, B)
  <2> DEFINE s == LinesOf(u, R)
             t == LinesOf(u, A) \o LinesOf(u, B)
  <2>1. /\ s \in Seq(Lines) /\ t \in Seq(Lines) /\ Len(s) = Len(t)
        /\ \A k \in 1 .. Len(s) : s[k] = t[k]
    BY <1>4, <1>5, <1>6
  <2> HIDE DEF s, t
  <2>2. s = t
    BY <2>1, SeqEqual
  <2> QED
    BY <2>2 DEF s, t
<1> QED
  BY <1>7 DEF R

-----------------------------------------------------------------------------
(***************************************************************************)
(* The crawl.  Every portal that was fed is with one worker, extracted, or *)
(* failed; what a worker has numbered and saved follows from how far it is *)
(* in the table.                                                           *)
(***************************************************************************)
Below(u, n) == {q \in ValidRows[u] : q < n}
Busy(w) == pc[w] \notin {"idle", "gone"}
Failed(u) == \E k \in 1 .. Len(errCh) : errCh[k] = u

HeldInv ==
    /\ \A w \in Workers : Busy(w) =>
         url[w] < next /\ read[url[w]] = 0 /\ ~ Failed(url[w])
    /\ \A v, w \in Workers : Busy(v) /\ Busy(w) /\ url[v] = url[w] => v = w

FedInv ==
    \A u \in Urls :
        /\ u >= next => read[u] = 0 /\ ~ Failed(u)
        /\ u < next => read[u] # 0 \/ Failed(u) \/ \E w \in Workers : Busy(w) /\ url[w] = u
        /\ ~ (read[u] # 0 /\ Failed(u))

MainInv ==
    /\ main \in {"wait", "returned"} => next = NumUrls + 1
    /\ main = "returned" =>
         (\A w \in Workers : pc[w] = "gone") /\ firstErr = (errCh # <<>>)

LocalsInv(w) ==
    /\ pc[w] = "poll" => polls[w] < MaxPolls
    /\ pc[w] \notin {"poll", "extract", "report"} => polls[w] = 0 /\ count[w] = 0
    /\ pc[w] # "captcha" => attempt[w] = 0
    /\ pc[w] # "extract" => i[w] = 1 /\ serial[w] = 1 /\ header[w] = TRUE
    /\ pc[w] = "extract" =>
         /\ count[w] > 0
         /\ serial[w] = 1 + Cardinality(Below(url[w], Reached(w)))
         /\ header[w] = (Below(url[w], Reached(w)) = {})
         /\ \A b \in 1 .. TableRows : <<url[w], b>> \in unsaved => b + BatchSize <= i[w]

UnsavedInv ==
    \A u \in Urls : \A b \in 1 .. TableRows : <<u, b>> \in unsaved =>
        read[u] # 0 \/ \E w \in Workers : url[w] = u /\ pc[w] = "extract"

Inv ==
    /\ TypeOK /\ HeldInv /\ FedInv /\ MainInv
    /\ \A w \in Workers : LocalsInv(w)
    /\ UnsavedInv /\ FileExact

LEMMA InitInv == Init => Inv
<1> SUFFICES ASSUME Init PROVE Inv
  OBVIOUS
<1> USE Constants
<1>1. TypeOK
  <2>1. \A u \in Urls : Earlier(u) \in Seq(Lines)
    <3>1. Header \in Lines /\ Old \in Lines
      BY DEF Lines
    <3> QED
      BY <3>1 DEF Earlier
  <2>2. /\ errCh \in Seq(Urls) /\ main \in {"feed", "wait", "returned", "panicked"}
        /\ next \in 1 .. NumUrls + 1 /\ firstErr \in BOOLEAN
    <3>1. errCh = <<>> /\ <<>> \in Seq(Urls)
      BY EmptySeq DEF Init
    <3>2. next = 1 /\ 1 \in 1 .. NumUrls + 1 /\ firstErr = FALSE /\ main = "feed"
      BY DEF Init
    <3> QED
      BY <3>1, <3>2
  <2>3. /\ pc \in [Workers -> PCs] /\ url \in [Workers -> Urls]
        /\ header \in [Workers -> BOOLEAN]
    BY DEF Init, PCs, Urls
  <2>4. /\ attempt \in [Workers -> 0 .. MaxRetries - 1] /\ polls \in [Workers -> 0 .. MaxPolls]
        /\ count \in [Workers -> 0 .. TableRows]
    BY DEF Init
  <2>5. i \in [Workers -> 1 .. TableRows + BatchSize] /\ serial \in [Workers -> 1 .. TableRows]
    BY DEF Init
  <2>6. file \in [Urls -> Seq(Lines)] /\ read \in [Urls -> 0 .. TableRows]
    BY <2>1 DEF Init
  <2> QED
    BY <2>2, <2>3, <2>4, <2>5, <2>6 DEF Init, TypeOK
<1>2. \A w \in Workers : ~ Busy(w) /\ LocalsInv(w)
  BY DEF Init, Busy, LocalsInv
<1>3. \A u \in Urls : ~ Failed(u) /\ u >= next /\ read[u] = 0
  BY DEF Init, Failed, Urls
<1>4. HeldInv /\ FedInv /\ MainInv /\ UnsavedInv
  BY <1>2, <1>3 DEF Init, HeldInv, FedInv, MainInv, UnsavedInv, Urls
<1>5. FileExact
  <2> SUFFICES ASSUME NEW u \in Urls PROVE file[u] = Whole(u)
    BY DEF Init, FileExact
  <2>1. TendersRead(u) = {}
    <3>1. \A r \in ValidRows[u] : r \in Nat /\ ~ (r < 0)
      BY RowsFinite
    <3>2. read[u] = 0 /\ \A w \in Workers : pc[w] # "extract"
      BY DEF Init
    <3> QED
      BY <3>1, <3>2 DEF TendersRead
  <2>2. ~ Started(u)
    BY <2>1 DEF Started
  <2>3. LinesOf(u, {}) = <<>>
    BY FS_EmptySet DEF LinesOf
  <2>4. file[u] = Earlier(u) /\ Earlier(u) \in Seq(Lines)
    BY <1>1 DEF Init, TypeOK
  <2>5. {r \in TendersRead(u) : ~ Unsaved(u, r)} = {}
    BY <2>1
  <2>6. Earlier(u) \o <<>> = Earlier(u)
    BY <2>4, ConcatEmptySeq
  <2> QED
    BY <2>2, <2>3, <2>4, <2>5, <2>6 DEF Whole
<1> QED
  BY <1>1, <1>2, <1>4, <1>5 DEF Inv

(***************************************************************************)
(* A batch: its tenders follow those read before, and are numbered on.     *)
(***************************************************************************)
NextReached(w) == IF i[w] + BatchSize < count[w] THEN i[w] + BatchSize ELSE count[w]

LEMMA BatchFacts ==
  ASSUME TypeOK, NEW w \in Workers, i[w] < count[w]
  PROVE  /\ Reached(w) = i[w] /\ url[w] \in Urls
         /\ Batch(w) \in SUBSET ValidRows[url[w]]
         /\ Below(url[w], i[w]) \in SUBSET ValidRows[url[w]]
         /\ \A p \in Below(url[w], i[w]), q \in Batch(w) : p < q
         /\ Below(url[w], NextReached(w)) = Below(url[w], i[w]) \cup Batch(w)
         /\ Cardinality(Below(url[w], NextReached(w)))
              = Cardinality(Below(url[w], i[w])) + Cardinality(Batch(w))
<1> DEFINE u == url[w]
<1>1. /\ u \in Urls /\ i[w] \in Nat /\ count[w] \in Nat /\ i[w] + BatchSize \in Nat
      /\ batchEnd(w) - 1 = i[w] + BatchSize - 1 /\ BatchSize \in Nat
  <2>1. /\ i[w] \in 1 .. TableRows + BatchSize /\ count[w] \in 0 .. TableRows
        /\ url[w] \in Urls
    BY DEF TypeOK
  <2>2. i[w] + BatchSize \in Nat /\ i[w] \in Nat
    BY <2>1, Constants
  <2> QED
    BY <2>1, <2>2, Constants DEF batchEnd
<1>2. \A q \in ValidRows[u] : q \in Nat
  BY <1>1, RowsFinite
<1>3. Batch(w) = {r \in ValidRows[u] : i[w] <= r /\ r < i[w] + BatchSize /\ r < count[w]}
  BY <1>1, <1>2 DEF Batch
<1>4. \A p \in Below(u, i[w]), q \in Batch(w) : p < q
  BY <1>1, <1>2, <1>3 DEF Below
<1>5. Below(u, NextReached(w)) = Below(u, i[w]) \cup Batch(w)
  <2>1. \A q \in ValidRows[u] :
          q < NextReached(w) <=> (q < i[w] \/ (i[w] <= q /\ q < i[w] + BatchSize /\ q < count[w]))
    BY <1>1, <1>2 DEF NextReached
  <2> QED
    BY <1>3, <2>1 DEF Below
<1>6. Batch(w) \in SUBSET ValidRows[u] /\ Below(u, i[w]) \in SUBSET ValidRows[u]
  BY <1>3 DEF Below
<1>7. Cardinality(Below(u, NextReached(w))) = Cardinality(Below(u, i[w])) + Cardinality(Batch(w))
  <2> HIDE DEF u
  <2>1. /\ IsFiniteSet(Batch(w)) /\ Batch(w) \subseteq Nat
        /\ IsFiniteSet(Below(u, i[w])) /\ Below(u, i[w]) \subseteq Nat
    BY <1>1, <1>6, RowsFinite
  <2> QED
    BY <1>4, <1>5, <2>1, InOrderSplit
<1> QED
  BY <1>1, <1>4, <1>5, <1>6, <1>7 DEF Reached

LEMMA NumberedLines ==
  ASSUME TypeOK, NEW w \in Workers, i[w] < count[w],
         serial[w] = 1 + Cardinality(Below(url[w], i[w]))
  PROVE  Numbered(w) = LinesOf(url[w], Batch(w))
<1> DEFINE u == url[w]
           A == Below(u, i[w])
           B == Batch(w)
           b == Cardinality(B)
<1>1. /\ u \in Urls /\ B \in SUBSET ValidRows[u] /\ A \in SUBSET ValidRows[u]
      /\ \A p \in A, q \in B : p < q
  BY BatchFacts
<1>2. /\ IsFiniteSet(A) /\ IsFiniteSet(B) /\ A \subseteq Nat /\ B \subseteq Nat
      /\ Cardinality(A) \in Nat /\ b \in Nat
  <2> HIDE DEF u, A, B
  <2>1. Cardinality(A) \in 0 .. TableRows - 1 /\ Cardinality(B) \in 0 .. TableRows - 1
    BY <1>1, RowsFinite
  <2> QED
    BY <1>1, <2>1, RowsFinite DEF b
<1>3. /\ InOrder(B) \in [1 .. b -> B]
      /\ \A k \in 1 .. b : Rank(B, InOrder(B)[k]) = k
  <2> HIDE DEF B
  <2> QED
    BY <1>2, InOrderRank
<1>4. ASSUME NEW k \in 1 .. b PROVE Serial(u, InOrder(B)[k]) = serial[w] + k - 1
  <2> DEFINE r == InOrder(B)[k]
  <2>1. r \in B /\ r \in Nat /\ Rank(B, r) = k /\ k \in Nat
    BY <1>2, <1>3
  <2> HIDE DEF r
  <2>2. \A q \in ValidRows[u] : q \in Nat
    BY <1>1, RowsFinite
  <2>3. /\ i[w] \in Nat /\ count[w] \in Nat /\ BatchSize \in Nat
        /\ \A q : q \in B <=> q \in ValidRows[u] /\ q \in i[w] .. i[w] + BatchSize - 1 /\ q < count[w]
    <3>1. i[w] \in 1 .. TableRows + BatchSize /\ count[w] \in 0 .. TableRows
      BY DEF TypeOK
    <3>2. i[w] \in Nat /\ count[w] \in Nat /\ BatchSize \in Nat
      BY <3>1, Constants
    <3> QED
      BY <3>2 DEF Batch, batchEnd
  <2>4. {q \in ValidRows[u] : q <= r} = A \cup UpTo(B, r)
    <3>1. \A q \in ValidRows[u] : q <= r <=> q < i[w] \/ (q \in B /\ q <= r)
      <4> HIDE DEF B, u
      <4> QED BY <2>1, <2>2, <2>3
    <3>2. \A q \in B : q \in ValidRows[u]
      BY <1>1
    <3> HIDE DEF B, u
    <3> QED
      BY <3>1, <3>2 DEF UpTo, A, Below
  <2>5. A \cap UpTo(B, r) = {} /\ UpTo(B, r) \subseteq B
    <3> HIDE DEF A, B
    <3>1. \A p \in A : p \notin B
      BY <1>1, <1>2
    <3> QED
      BY <3>1 DEF UpTo
  <2> HIDE DEF A, B, u
  <2>6. IsFiniteSet(UpTo(B, r)) /\ Cardinality(A \cap UpTo(B, r)) = 0
    BY <1>2, <2>5, FS_Subset, FS_EmptySet
  <2>7. Cardinality(A \cup UpTo(B, r))
          = Cardinality(A) + Cardinality(UpTo(B, r)) - Cardinality(A \cap UpTo(B, r))
    BY <1>2, <2>6, FS_Union
  <2>8. Serial(u, r) = Cardinality(A) + k
    BY <1>2, <2>1, <2>4, <2>6, <2>7 DEF Serial, Rank
  <2>9. serial[w] = 1 + Cardinality(A)
    BY DEF A, u
  <2> QED
    BY <1>2, <2>1, <2>8, <2>9 DEF r
<1>5. Numbered(w) = [k \in 1 .. b |-> <<InOrder(B)[k], serial[w] + k - 1>>]
  BY DEF Numbered
<1>6. LinesOf(u, B) = [k \in 1 .. b |-> <<InOrder(B)[k], Serial(u, InOrder(B)[k])>>]
  BY DEF LinesOf
<1> HIDE DEF A, B, b
<1>7. Numbered(w) = LinesOf(u, B)
  BY <1>4, <1>5, <1>6
<1> QED
  BY <1>7 DEF B

(***************************************************************************)
(* The types.                                                              *)
(***************************************************************************)
LEMMA GoType ==
  ASSUME pc \in [Workers -> PCs], NEW w \in Workers, NEW from, NEW to \in PCs, Go(w, from, to)
  PROVE  pc' \in [Workers -> PCs]
  BY DEF Go

LEMMA LocalsEndType ==
  ASSUME TypeOK, NEW w \in Workers, LocalsEnd(w)
  PROVE  /\ polls' \in [Workers -> 0 .. MaxPolls] /\ count' \in [Workers -> 0 .. TableRows]
         /\ i' \in [Workers -> 1 .. TableRows + BatchSize]
         /\ serial' \in [Workers -> 1 .. TableRows] /\ header' \in [Workers -> BOOLEAN]
         /\ attempt' = attempt
<1> USE Constants DEF TypeOK, LocalsEnd, Set
<1>1. polls' \in [Workers -> 0 .. MaxPolls] /\ count' \in [Workers -> 0 .. TableRows]
  OBVIOUS
<1>2. i' \in [Workers -> 1 .. TableRows + BatchSize]
  OBVIOUS
<1>3. serial' \in [Workers -> 1 .. TableRows] /\ header' \in [Workers -> BOOLEAN]
  OBVIOUS
<1> QED
  BY <1>1, <1>2, <1>3

LEMMA BatchType ==
  ASSUME Inv, NEW w \in Workers, nextBatch(w)
  PROVE  /\ pc' \in [Workers -> PCs]
         /\ i' \in [Workers -> 1 .. TableRows + BatchSize]
         /\ serial' \in [Workers -> 1 .. TableRows]
         /\ Set(header, w, FALSE) \in [Workers -> BOOLEAN]
         /\ Base(w) \in Seq(Lines) /\ Numbered(w) \in Seq(Lines) /\ Written(w) \in Seq(Lines)
         /\ i[w] \in 1 .. TableRows
<1>1. TypeOK /\ LocalsInv(w) /\ pc[w] = "extract" /\ i[w] < count[w]
  BY DEF Inv, nextBatch, Go
<1>2. /\ i[w] \in 1 .. TableRows + BatchSize /\ count[w] \in 0 .. TableRows
      /\ url[w] \in Urls /\ serial[w] \in 1 .. TableRows
  BY <1>1 DEF TypeOK
<1>3. i[w] \in 1 .. TableRows /\ i[w] + BatchSize \in 1 .. TableRows + BatchSize
  BY <1>1, <1>2, Constants
<1>4. i' \in [Workers -> 1 .. TableRows + BatchSize]
  BY <1>1, <1>3 DEF TypeOK, nextBatch
<1>5. pc' \in [Workers -> PCs]
  BY <1>1, GoType DEF TypeOK, nextBatch, PCs
<1>6. Set(header, w, FALSE) \in [Workers -> BOOLEAN]
  BY <1>1 DEF TypeOK, Set
<1>7. serial[w] + Cardinality(Batch(w)) \in 1 .. TableRows
  <2>1. serial[w] = 1 + Cardinality(Below(url[w], i[w]))
    BY <1>1, BatchFacts DEF LocalsInv
  <2>2. /\ Cardinality(Below(url[w], NextReached(w))) \in 0 .. TableRows - 1
        /\ Cardinality(Below(url[w], i[w])) \in 0 .. TableRows - 1
        /\ Cardinality(Batch(w)) \in 0 .. TableRows - 1
    <3>1. Below(url[w], NextReached(w)) \in SUBSET ValidRows[url[w]]
      BY DEF Below
    <3> QED
      BY <1>1, <3>1, BatchFacts, RowsFinite
  <2>3. Cardinality(Below(url[w], NextReached(w)))
          = Cardinality(Below(url[w], i[w])) + Cardinality(Batch(w))
    BY <1>1, BatchFacts
  <2> QED
    BY <2>1, <2>2, <2>3, Constants
<1>8. serial' \in [Workers -> 1 .. TableRows]
  BY <1>1, <1>7 DEF TypeOK, nextBatch
<1>9. Base(w) \in Seq(Lines) /\ Numbered(w) \in Seq(Lines) /\ Written(w) \in Seq(Lines)
  <2>1. serial[w] = 1 + Cardinality(Below(url[w], i[w]))
    BY <1>1, BatchFacts DEF LocalsInv
  <2>2. Numbered(w) \in Seq(Lines)
    BY <1>1, <1>2, <2>1, BatchFacts, NumberedLines, LinesType
  <2>3. Base(w) \in Seq(Lines)
    BY <1>1, <1>2, EmptySeq DEF Base, TypeOK
  <2>4. Written(w) \in Seq(Lines)
    <3>1. /\ Header \in Lines
          /\ Header \in Lines => <<Header>> \in Seq(Lines)
      BY DEF Lines
    <3>2. (IF header[w] THEN <<Header>> ELSE <<>>) \in Seq(Lines)
      BY <3>1, EmptySeq
    <3> QED
      BY <2>2, <3>2, ConcatProperties DEF Written
  <2> QED
    BY <2>2, <2>3, <2>4
<1> QED
  BY <1>3, <1>4, <1>5, <1>6, <1>8, <1>9

LEMMA AppendedType ==
  ASSUME NEW f \in Seq(Lines), NEW lines \in Seq(Lines)
  PROVE  Appended(f, lines) \in Seq(Lines)
<1>1. lines # <<>> => Tail(lines) \in Seq(Lines)
  BY HeadTailProperties
<1> QED
  BY <1>1, ConcatProperties DEF Appended

\* A part of the lines of a batch.
LEMMA PartType ==
  ASSUME NEW lines \in Seq(Lines), NEW n \in 0 .. Len(lines), NEW part \in {<<>>, <<Torn>>}
  PROVE  /\ SubSeq(lines, 1, n) \in Seq(Lines) /\ part \in Seq(Lines)
         /\ SubSeq(lines, 1, n) \o part \in Seq(Lines)
<1>1. SubSeq(lines, 1, n) \in Seq(Lines)
  BY SubSeqProperties, ElementOfSeq, LenProperties
<1>2. part \in Seq(Lines)
  <2>1. Torn \in Lines
    BY DEF Lines
  <2>2. <<Torn>> \in Seq(Lines)
    BY <2>1
  <2> QED
    BY <2>2, EmptySeq
<1> QED
  BY <1>1, <1>2, ConcatProperties

LEMMA TypeStep == Inv /\ [Next]_vars => TypeOK'
<1> SUFFICES ASSUME Inv, [Next]_vars PROVE TypeOK'
  OBVIOUS
<1>0. TypeOK /\ \A w \in Workers : LocalsInv(w)
  BY DEF Inv
<1>1. CASE caller
  BY <1>0, <1>1 DEF caller, closeUrls, return, TypeOK, pageVars
<1>2. ASSUME NEW w \in Workers, panic(w) PROVE TypeOK'
  BY <1>0, <1>2 DEF panic, TypeOK, pageVars
<1>3. ASSUME NEW w \in Workers, take(w) PROVE TypeOK'
  <2>1. pc' \in [Workers -> PCs]
    BY <1>0, <1>3, GoType DEF take, TypeOK, PCs
  <2>2. url' \in [Workers -> Urls] /\ next' \in 1 .. NumUrls + 1
    BY <1>0, <1>3, Constants DEF take, TypeOK, Set, fed, Urls
  <2> QED
    BY <1>0, <1>3, <2>1, <2>2 DEF take, TypeOK, pageVars
<1>4. ASSUME NEW w \in Workers,
             leave(w) \/ noCaptcha(w) \/ hasCaptcha(w) \/ openList(w) \/ pollFails(w)
      PROVE  TypeOK'
  <2>1. pc' \in [Workers -> PCs]
    BY <1>0, <1>4, GoType DEF leave, noCaptcha, hasCaptcha, openList, pollFails, TypeOK, PCs
  <2> QED
    BY <1>0, <1>4, <2>1
       DEF leave, noCaptcha, hasCaptcha, openList, pollFails, TypeOK, pageVars, mainVars
<1>5. ASSUME NEW w \in Workers, report(w) PROVE TypeOK'
  <2>1. pc' \in [Workers -> PCs]
    BY <1>0, <1>5, GoType DEF report, TypeOK, PCs
  <2>2. errCh' \in Seq(Urls)
    BY <1>0, <1>5, AppendProperties DEF report, TypeOK
  <2>3. /\ polls' \in [Workers -> 0 .. MaxPolls] /\ count' \in [Workers -> 0 .. TableRows]
        /\ i' \in [Workers -> 1 .. TableRows + BatchSize]
        /\ serial' \in [Workers -> 1 .. TableRows] /\ header' \in [Workers -> BOOLEAN]
        /\ attempt' = attempt
    BY <1>0, <1>5, LocalsEndType DEF report
  <2> QED
    BY <1>0, <1>5, <2>1, <2>2, <2>3 DEF report, TypeOK
<1>6. ASSUME NEW w \in Workers, captchaEnds(w) \/ captchaAgain(w) PROVE TypeOK'
  <2>1. pc' \in [Workers -> PCs]
    BY <1>0, <1>6, GoType DEF captchaEnds, captchaAgain, TypeOK, PCs
  <2>2. attempt' \in [Workers -> 0 .. MaxRetries - 1]
    <3>1. CASE attempt' = Set(attempt, w, 0)
      <4>1. 0 \in 0 .. MaxRetries - 1
        BY Constants
      <4> QED
        BY <1>0, <3>1, <4>1 DEF TypeOK, Set
    <3>2. CASE attempt[w] + 1 < MaxRetries /\ attempt' = [attempt EXCEPT ![w] = @ + 1]
      <4>1. attempt[w] \in 0 .. MaxRetries - 1
        BY <1>0 DEF TypeOK
      <4>2. attempt[w] + 1 \in 0 .. MaxRetries - 1
        BY <3>2, <4>1, Constants
      <4> QED
        BY <1>0, <3>2, <4>2 DEF TypeOK
    <3> QED
      BY <1>6, <3>1, <3>2 DEF captchaEnds, captchaAgain
  <2> QED
    BY <1>0, <1>6, <2>1, <2>2 DEF captchaEnds, captchaAgain, TypeOK, mainVars
<1>7. ASSUME NEW w \in Workers, poll(w) PROVE TypeOK'
  <2>1. pc' \in [Workers -> PCs]
    BY <1>0, <1>7 DEF poll, Go, TypeOK, PCs
  <2>2. pc[w] = "poll" /\ polls[w] < MaxPolls
    BY <1>0, <1>7 DEF poll, Go, LocalsInv
  <2>3. polls' \in [Workers -> 0 .. MaxPolls]
    BY <1>0, <1>7, <2>2, Constants DEF poll, TypeOK
  <2>4. count' \in [Workers -> 0 .. TableRows]
    BY <1>0, <1>7, Constants DEF poll, TypeOK, Set
  <2> QED
    BY <1>0, <1>7, <2>1, <2>3, <2>4 DEF poll, TypeOK, mainVars
<1>8. ASSUME NEW w \in Workers, skipBatch(w) PROVE TypeOK'
  <2>1. nextBatch(w)
    BY <1>8 DEF skipBatch
  <2> QED
    BY <1>0, <1>8, <2>1, BatchType DEF skipBatch, nextBatch, TypeOK, mainVars
<1>9. ASSUME NEW w \in Workers, saveBatch(w) PROVE TypeOK'
  <2>1. nextBatch(w)
    BY <1>9 DEF saveBatch
  <2>2. Appended(Base(w), Written(w)) \in Seq(Lines)
    BY <2>1, BatchType, AppendedType
  <2>3. file' \in [Urls -> Seq(Lines)]
    BY <1>0, <1>9, <2>2 DEF saveBatch, TypeOK, Set
  <2> QED
    BY <1>0, <1>9, <2>1, <2>3, BatchType DEF saveBatch, nextBatch, TypeOK, mainVars
<1>10. ASSUME NEW w \in Workers, saveFails(w) PROVE TypeOK'
  <2>1. nextBatch(w)
    BY <1>10 DEF saveFails
  <2>2. unsaved' \subseteq Urls \X (1 .. TableRows)
    <3>1. url[w] \in Urls /\ i[w] \in 1 .. TableRows
      BY <1>0, <2>1, BatchType DEF TypeOK
    <3> QED
      BY <1>0, <1>10, <3>1 DEF saveFails, TypeOK
  <2> QED
    BY <1>0, <1>10, <2>1, <2>2, BatchType DEF saveFails, nextBatch, TypeOK, mainVars
<1>11. ASSUME NEW w \in Workers, extracted(w) PROVE TypeOK'
  <2>1. pc' \in [Workers -> PCs]
    BY <1>0, <1>11, GoType DEF extracted, TypeOK, PCs
  <2>2. read' \in [Urls -> 0 .. TableRows]
    BY <1>0, <1>11 DEF extracted, TypeOK, Set
  <2>3. /\ polls' \in [Workers -> 0 .. MaxPolls] /\ count' \in [Workers -> 0 .. TableRows]
        /\ i' \in [Workers -> 1 .. TableRows + BatchSize]
        /\ serial' \in [Workers -> 1 .. TableRows] /\ header' \in [Workers -> BOOLEAN]
        /\ attempt' = attempt
    BY <1>0, <1>11, LocalsEndType DEF extracted
  <2> QED
    BY <1>0, <1>11, <2>1, <2>2, <2>3 DEF extracted, TypeOK, mainVars
<1>12. CASE UNCHANGED vars
  BY <1>0, <1>12 DEF vars, mainVars, pageVars, TypeOK
<1>13. ASSUME NEW w \in Workers, saveBreaks(w) PROVE TypeOK'
  <2>1. nextBatch(w)
    BY <1>13 DEF saveBreaks
  <2>2. PICK n \in 0 .. Len(Written(w)) - 1, part \in {<<>>, <<Torn>>} :
          file' = Set(file, url[w], Appended(Base(w), SubSeq(Written(w), 1, n) \o part))
    BY <1>13 DEF saveBreaks
  <2>3. Written(w) \in Seq(Lines) /\ Base(w) \in Seq(Lines)
    BY <2>1, BatchType
  <2>4. n \in 0 .. Len(Written(w))
    BY <2>2, <2>3, LenProperties
  <2>5. Appended(Base(w), SubSeq(Written(w), 1, n) \o part) \in Seq(Lines)
    BY <2>3, <2>4, PartType, AppendedType
  <2>6. file' \in [Urls -> Seq(Lines)] /\ broken' \subseteq Urls
    BY <1>0, <1>13, <2>2, <2>5 DEF saveBreaks, TypeOK, Set
  <2> QED
    BY <1>0, <1>13, <2>1, <2>6, BatchType DEF saveBreaks, nextBatch, TypeOK, mainVars
<1> QED
  BY <1>1, <1>2, <1>3, <1>4, <1>5, <1>6, <1>7, <1>8, <1>9, <1>10, <1>11, <1>12, <1>13
     DEF Next, worker

(***************************************************************************)
(* Which portals are held, extracted and failed.                           *)
(***************************************************************************)
LEMMA HeldStep == Inv /\ [Next]_vars => HeldInv' /\ FedInv' /\ MainInv'
<1> SUFFICES ASSUME Inv, [Next]_vars PROVE HeldInv' /\ FedInv' /\ MainInv'
  OBVIOUS
<1>0. TypeOK /\ TypeOK' /\ HeldInv /\ FedInv /\ MainInv /\ \A w \in Workers : LocalsInv(w)
  BY TypeStep DEF Inv
<1>a. /\ pc \in [Workers -> PCs] /\ url \in [Workers -> Urls] /\ read \in [Urls -> 0 .. TableRows]
      /\ errCh \in Seq(Urls) /\ next \in 1 .. NumUrls + 1
      /\ \A u \in Urls : u \in 1 .. NumUrls
  BY <1>0 DEF TypeOK, Urls
(* Steps that leave alone who holds what. *)
<1>b. ASSUME UNCHANGED <<next, errCh, read, url>>, \A w \in Workers : Busy(w)' <=> Busy(w)
      PROVE  HeldInv' /\ FedInv'
  BY <1>0, <1>b DEF HeldInv, FedInv, Failed
<1>1. CASE closeUrls
  <2>1. \A w \in Workers : Busy(w)' <=> Busy(w)
    BY <1>1 DEF closeUrls, Busy
  <2>2. MainInv'
    BY <1>0, <1>1, <1>a, Constants DEF closeUrls, MainInv
  <2> QED
    BY <1>1, <1>b, <2>1, <2>2 DEF closeUrls
<1>2. CASE return
  <2>1. \A w \in Workers : Busy(w)' <=> Busy(w)
    BY <1>2 DEF return, Busy
  <2>2. MainInv'
    BY <1>0, <1>2 DEF return, WorkersDone, MainInv
  <2> QED
    BY <1>2, <1>b, <2>1, <2>2 DEF return
<1>3. ASSUME NEW w \in Workers, panic(w) PROVE HeldInv' /\ FedInv' /\ MainInv'
  <2>1. \A v \in Workers : Busy(v)' <=> Busy(v)
    BY <1>3 DEF panic, Busy
  <2>2. MainInv'
    BY <1>3 DEF panic, MainInv
  <2> QED
    BY <1>3, <1>b, <2>1, <2>2 DEF panic
<1>4. ASSUME NEW w \in Workers, take(w) PROVE HeldInv' /\ FedInv' /\ MainInv'
  <2>1. /\ pc[w] = "idle" /\ pc' = [pc EXCEPT ![w] = "session"]
        /\ url' = [url EXCEPT ![w] = next] /\ next' = next + 1 /\ next \in Urls
        /\ UNCHANGED <<main, errCh, firstErr, read>> /\ main = "feed"
    BY <1>4, <1>a, Constants DEF take, Go, Set, fed, mainVars, Urls
  <2>2. \A u \in Urls : Failed(u)' <=> Failed(u)
    BY <2>1 DEF Failed
  <2>3. \A v \in Workers : v # w => url'[v] = url[v] /\ (Busy(v)' <=> Busy(v))
    BY <1>a, <2>1 DEF Busy
  <2>4. url'[w] = next /\ Busy(w)' /\ ~ Busy(w)
    BY <1>a, <2>1 DEF Busy
  <2>5. read[next] = 0 /\ ~ Failed(next) /\ \A v \in Workers : Busy(v) => url[v] # next
    BY <1>0, <1>a, <2>1 DEF FedInv, HeldInv, Urls
  <2>6. HeldInv'
    <3>1. \A v \in Workers : Busy(v)' =>
            url'[v] < next' /\ read'[url'[v]] = 0 /\ ~ Failed(url'[v])
      BY <1>0, <1>a, <2>1, <2>3, <2>4, <2>5 DEF HeldInv, Urls
    <3>2. \A v, x \in Workers : Busy(v)' /\ Busy(x)' /\ url'[v] = url'[x] => v = x
      BY <1>0, <2>3, <2>4, <2>5 DEF HeldInv
    <3>3. \A v \in Workers : Failed(url'[v]) <=> Failed(url[v])'
      BY <2>1 DEF Failed
    <3> QED
      BY <3>1, <3>2, <3>3 DEF HeldInv
  <2>7. FedInv'
    <3> SUFFICES ASSUME NEW u \in Urls
        PROVE  /\ u >= next' => read'[u] = 0 /\ ~ Failed(u)'
               /\ u < next' => \/ read'[u] # 0 \/ Failed(u)'
                               \/ \E v \in Workers : Busy(v)' /\ url'[v] = u
               /\ ~ (read'[u] # 0 /\ Failed(u)')
      BY DEF FedInv
    <3>1. u \in Int /\ next \in Int
      BY <1>a
    <3>2. CASE u = next
      BY <2>1, <2>2, <2>4, <2>5, <3>1, <3>2
    <3>3. CASE u # next
      <4>1. u < next' <=> u < next
        BY <2>1, <3>1, <3>3
      <4>2. u >= next' => u >= next
        BY <2>1, <3>1
      <4> QED
        BY <1>0, <2>1, <2>2, <2>3, <2>4, <4>1, <4>2 DEF FedInv
    <3> QED
      BY <3>2, <3>3
  <2>8. MainInv'
    BY <1>0, <2>1 DEF MainInv
  <2> QED
    BY <2>6, <2>7, <2>8
<1>5. ASSUME NEW w \in Workers, leave(w) PROVE HeldInv' /\ FedInv' /\ MainInv'
  <2>1. \A v \in Workers : Busy(v)' <=> Busy(v)
    BY <1>5, <1>a DEF leave, Go, Busy
  <2>2. MainInv'
    BY <1>0, <1>5 DEF leave, Go, MainInv, mainVars
  <2> QED
    BY <1>5, <1>b, <2>1, <2>2 DEF leave, mainVars
(* A worker moves and keeps its portal. *)
<1>6. ASSUME NEW w \in Workers, NEW from \in PCs \ {"idle", "gone"},
             NEW to \in PCs \ {"idle", "gone"}, Go(w, from, to), UNCHANGED <<mainVars, read, url>>
      PROVE  HeldInv' /\ FedInv' /\ MainInv'
  <2>1. \A v \in Workers : Busy(v)' <=> Busy(v)
    BY <1>6, <1>a DEF Go, Busy
  <2>2. MainInv'
    BY <1>0, <1>6 DEF Go, MainInv, mainVars
  <2> QED
    BY <1>6, <1>b, <2>1, <2>2 DEF mainVars
(* A worker gives its portal back, failed or extracted. *)
<1>7. ASSUME NEW w \in Workers, Busy(w), pc' = [pc EXCEPT ![w] = "idle"], UNCHANGED <<main, next, url>>,
             \A u \in Urls : u # url[w] => read'[u] = read[u] /\ (Failed(u)' <=> Failed(u)),
             \/ read'[url[w]] # 0 /\ ~ Failed(url[w])'
             \/ read'[url[w]] = 0 /\ Failed(url[w])',
             main # "returned"
      PROVE  HeldInv' /\ FedInv' /\ MainInv'
  <2>1. \A v \in Workers : Busy(v)' <=> Busy(v) /\ v # w
    BY <1>7, <1>a DEF Busy
  <2>2. \A v \in Workers : v # w /\ Busy(v) => url[v] # url[w]
    BY <1>0, <1>7 DEF HeldInv
  <2>3. url[w] \in Urls /\ url[w] < next
    BY <1>0, <1>7, <1>a DEF HeldInv
  <2>4. HeldInv'
    <3>1. ASSUME NEW v \in Workers, Busy(v)'
          PROVE  url'[v] < next' /\ read'[url'[v]] = 0 /\ ~ Failed(url[v])'
      <4>1. Busy(v) /\ v # w /\ url[v] # url[w] /\ url[v] \in Urls
        BY <1>a, <2>1, <2>2, <3>1
      <4> QED
        BY <1>0, <1>7, <4>1 DEF HeldInv
    <3>2. \A v, x \in Workers : Busy(v)' /\ Busy(x)' /\ url'[v] = url'[x] => v = x
      BY <1>0, <1>7, <2>1 DEF HeldInv
    <3> QED
      BY <3>1, <3>2 DEF HeldInv
  <2>5. FedInv'
    <3> SUFFICES ASSUME NEW u \in Urls
        PROVE  /\ u >= next' => read'[u] = 0 /\ ~ Failed(u)'
               /\ u < next' => \/ read'[u] # 0 \/ Failed(u)'
                               \/ \E v \in Workers : Busy(v)' /\ url'[v] = u
               /\ ~ (read'[u] # 0 /\ Failed(u)')
      BY DEF FedInv
    <3>1. CASE u = url[w]
      <4>1. ~ (u >= next')
        BY <1>7, <1>a, <2>3, <3>1
      <4> QED
        BY <1>7, <3>1, <4>1
    <3>2. CASE u # url[w]
      BY <1>0, <1>7, <2>1, <3>2 DEF FedInv
    <3> QED
      BY <3>1, <3>2
  <2>6. MainInv'
    BY <1>0, <1>7 DEF MainInv
  <2> QED
    BY <2>4, <2>5, <2>6
<1>8. ASSUME NEW w \in Workers, report(w) PROVE HeldInv' /\ FedInv' /\ MainInv'
  <2>1. Busy(w) /\ pc' = [pc EXCEPT ![w] = "idle"] /\ UNCHANGED <<main, next, url, read>>
    BY <1>8 DEF report, Go, Busy
  <2>2. read[url[w]] = 0 /\ url[w] \in Urls
    BY <1>0, <1>a, <2>1 DEF HeldInv
  <2>3. \A u \in Urls : Failed(u)' <=> (Failed(u) \/ u = url[w])
    <3>1. /\ errCh' = Append(errCh, url[w]) /\ Len(errCh') = Len(errCh) + 1
          /\ \A k \in 1 .. Len(errCh) : errCh'[k] = errCh[k]
          /\ errCh'[Len(errCh) + 1] = url[w] /\ Len(errCh) \in Nat
      BY <1>8, <1>a, <2>2, AppendProperties DEF report
    <3>2. \A k \in 1 .. Len(errCh) + 1 : k \in 1 .. Len(errCh) \/ k = Len(errCh) + 1
      BY <3>1
    <3>3. \A k \in 1 .. Len(errCh) : k \in 1 .. Len(errCh) + 1
      BY <3>1
    <3>4. Len(errCh) + 1 \in 1 .. Len(errCh) + 1
      BY <3>1
    <3> QED
      BY <3>1, <3>2, <3>3, <3>4 DEF Failed
  <2>4. main # "returned"
    BY <1>0, <2>1 DEF MainInv, Busy
  <2> QED
    BY <1>7, <2>1, <2>2, <2>3, <2>4
<1>9. ASSUME NEW w \in Workers, extracted(w) PROVE HeldInv' /\ FedInv' /\ MainInv'
  <2>1. /\ Busy(w) /\ pc' = [pc EXCEPT ![w] = "idle"] /\ UNCHANGED <<main, next, url, errCh>>
        /\ read' = [read EXCEPT ![url[w]] = count[w]] /\ pc[w] = "extract"
    BY <1>9 DEF extracted, Go, Busy, Set, mainVars
  <2>2. url[w] \in Urls /\ ~ Failed(url[w]) /\ count[w] > 0 /\ count[w] \in 0 .. TableRows
    BY <1>0, <1>a, <2>1 DEF HeldInv, LocalsInv, TypeOK
  <2>3. \A u \in Urls : Failed(u)' <=> Failed(u)
    BY <2>1 DEF Failed
  <2>4. main # "returned"
    BY <1>0, <2>1 DEF MainInv, Busy
  <2>5. read'[url[w]] # 0 /\ \A u \in Urls : u # url[w] => read'[u] = read[u]
    BY <1>a, <2>1, <2>2
  <2>6. ~ Failed(url[w])'
    BY <2>1, <2>2 DEF Failed
  <2> QED
    BY <1>7, <2>1, <2>3, <2>4, <2>5, <2>6
<1>10. ASSUME NEW w \in Workers,
              \/ noCaptcha(w) \/ hasCaptcha(w) \/ captchaEnds(w) \/ captchaAgain(w)
              \/ openList(w) \/ pollFails(w) \/ poll(w)
              \/ skipBatch(w) \/ saveBatch(w) \/ saveFails(w) \/ saveBreaks(w)
       PROVE  HeldInv' /\ FedInv' /\ MainInv'
  <2>1. /\ UNCHANGED <<mainVars, read, url>>
        /\ \E from, to \in PCs \ {"idle", "gone"} : Go(w, from, to)
    <3>1. CASE noCaptcha(w) \/ hasCaptcha(w) \/ openList(w) \/ pollFails(w)
      BY <3>1 DEF noCaptcha, hasCaptcha, openList, pollFails, PCs
    <3>2. CASE captchaEnds(w) \/ captchaAgain(w)
      BY <3>2 DEF captchaEnds, captchaAgain, PCs
    <3>3. CASE poll(w)
      BY <3>3 DEF poll, PCs
    <3>4. CASE skipBatch(w) \/ saveBatch(w) \/ saveFails(w) \/ saveBreaks(w)
      BY <3>4 DEF skipBatch, saveBatch, saveFails, saveBreaks, nextBatch, PCs
    <3> QED
      BY <1>10, <3>1, <3>2, <3>3, <3>4
  <2> QED
    BY <1>6, <2>1
<1>11. CASE UNCHANGED vars
  <2>1. \A w \in Workers : Busy(w)' <=> Busy(w)
    BY <1>11 DEF vars, Busy
  <2>2. MainInv'
    BY <1>0, <1>11 DEF vars, mainVars, MainInv
  <2> QED
    BY <1>11, <1>b, <2>1, <2>2 DEF vars, mainVars
<1> QED
  BY <1>1, <1>2, <1>3, <1>4, <1>5, <1>8, <1>9, <1>10, <1>11 DEF Next, caller, worker

(***************************************************************************)
(* What a worker knows of its table.                                       *)
(***************************************************************************)

(* A worker that does nothing, while nothing is added to unsaved for it. *)
LEMMA LocalsKept ==
  ASSUME NEW v \in Workers, LocalsInv(v),
         pc'[v] = pc[v], url'[v] = url[v], attempt'[v] = attempt[v], polls'[v] = polls[v],
         count'[v] = count[v], i'[v] = i[v], serial'[v] = serial[v], header'[v] = header[v],
         pc[v] = "extract" =>
           \A b \in 1 .. TableRows : <<url[v], b>> \in unsaved' => <<url[v], b>> \in unsaved
  PROVE  LocalsInv(v)'
<1>1. Reached(v)' = Reached(v)
  BY DEF Reached
<1>2. Below(url[v], Reached(v))' = Below(url[v], Reached(v))
  BY <1>1 DEF Below
<1> QED
  BY <1>2 DEF LocalsInv

LEMMA BatchLocals ==
  ASSUME Inv, NEW w \in Workers, nextBatch(w),
         \/ Batch(w) = {} /\ header' = header
         \/ Batch(w) # {} /\ header' = Set(header, w, FALSE),
         unsaved' \subseteq unsaved \cup {<<url[w], i[w]>>}
  PROVE  LocalsInv(w)'
<1>1. /\ TypeOK /\ LocalsInv(w) /\ pc[w] = "extract" /\ pc'[w] = "extract" /\ i[w] < count[w]
      /\ UNCHANGED <<url, attempt, polls, count>>
  BY DEF Inv, nextBatch, Go, TypeOK
<1>2. /\ i'[w] = i[w] + BatchSize /\ serial'[w] = serial[w] + Cardinality(Batch(w))
      /\ i[w] \in Nat /\ count[w] \in Nat /\ serial[w] \in Nat
  BY <1>1, Constants DEF nextBatch, TypeOK
<1>3. Reached(w)' = NextReached(w)
  BY <1>1, <1>2 DEF Reached, NextReached
<1>4. /\ Below(url[w], Reached(w))' = Below(url[w], i[w]) \cup Batch(w)
      /\ Cardinality(Below(url[w], Reached(w))')
           = Cardinality(Below(url[w], i[w])) + Cardinality(Batch(w))
  <2>1. Below(url[w], Reached(w))' = Below(url[w], NextReached(w))
    BY <1>1, <1>3 DEF Below
  <2> QED
    BY <1>1, <2>1, BatchFacts
<1>5. /\ serial[w] = 1 + Cardinality(Below(url[w], i[w]))
      /\ header[w] = (Below(url[w], i[w]) = {})
  BY <1>1, BatchFacts DEF LocalsInv
<1>6. /\ Cardinality(Below(url[w], i[w])) \in 0 .. TableRows - 1
      /\ Cardinality(Batch(w)) \in 0 .. TableRows - 1
  BY <1>1, BatchFacts, RowsFinite
<1>7. serial'[w] = 1 + Cardinality(Below(url[w], Reached(w))')
  BY <1>2, <1>4, <1>5, <1>6
<1>8. header'[w] = (Below(url[w], Reached(w))' = {})
  <2>1. CASE Batch(w) = {}
    BY <1>4, <1>5, <2>1
  <2>2. CASE Batch(w) # {}
    <3>1. header'[w] = FALSE
      BY <1>1, <2>2 DEF Set, TypeOK
    <3> QED
      BY <1>4, <2>2, <3>1
  <2> QED
    BY <2>1, <2>2
<1>9. ASSUME NEW b \in 1 .. TableRows, <<url[w], b>> \in unsaved' PROVE b + BatchSize <= i'[w]
  <2>1. CASE b = i[w]
    BY <1>2, <2>1, Constants
  <2>2. CASE b # i[w]
    <3>1. <<url[w], b>> \in unsaved
      BY <1>9, <2>2
    <3>2. b + BatchSize <= i[w]
      BY <1>1, <3>1 DEF LocalsInv
    <3> QED
      BY <1>2, <3>2, Constants
  <2> QED
    BY <2>1, <2>2
<1> QED
  BY <1>1, <1>7, <1>8, <1>9 DEF LocalsInv

LEMMA LocalsStep == Inv /\ [Next]_vars => \A v \in Workers : LocalsInv(v)'
<1> SUFFICES ASSUME Inv, [Next]_vars PROVE \A v \in Workers : LocalsInv(v)'
  OBVIOUS
<1>0. TypeOK /\ HeldInv /\ UnsavedInv /\ \A w \in Workers : LocalsInv(w)
  BY DEF Inv
<1>a. /\ pc \in [Workers -> PCs] /\ url \in [Workers -> Urls]
      /\ attempt \in [Workers -> 0 .. MaxRetries - 1] /\ polls \in [Workers -> 0 .. MaxPolls]
      /\ count \in [Workers -> 0 .. TableRows]
      /\ i \in [Workers -> 1 .. TableRows + BatchSize] /\ serial \in [Workers -> 1 .. TableRows]
      /\ header \in [Workers -> BOOLEAN]
  BY <1>0 DEF TypeOK
(* It is enough to look at the worker that moves. *)
<1>b. ASSUME NEW w \in Workers, LocalsInv(w)',
             \A v \in Workers : v # w =>
               /\ pc'[v] = pc[v] /\ url'[v] = url[v] /\ attempt'[v] = attempt[v]
               /\ polls'[v] = polls[v] /\ count'[v] = count[v] /\ i'[v] = i[v]
               /\ serial'[v] = serial[v] /\ header'[v] = header[v],
             \A u \in Urls : \A b \in 1 .. TableRows :
               u # url[w] \/ pc[w] # "extract" =>
                 (<<u, b>> \in unsaved' => <<u, b>> \in unsaved)
      PROVE  \A v \in Workers : LocalsInv(v)'
  <2> SUFFICES ASSUME NEW v \in Workers, v # w PROVE LocalsInv(v)'
    BY <1>b
  <2>1. pc[v] = "extract" /\ pc[w] = "extract" => url[v] # url[w]
    BY <1>0 DEF HeldInv, Busy
  <2>2. url[v] \in Urls
    BY <1>a
  <2> QED
    BY <1>0, <1>b, <2>1, <2>2, LocalsKept
<1>1. CASE caller \/ UNCHANGED vars \/ \E w \in Workers : panic(w)
  BY <1>0, <1>1, LocalsKept DEF caller, closeUrls, return, panic, vars, pageVars
<1>2. ASSUME NEW w \in Workers, take(w) PROVE \A v \in Workers : LocalsInv(v)'
  <2>1. LocalsInv(w)'
    BY <1>0, <1>2, <1>a DEF take, Go, LocalsInv, pageVars
  <2> QED
    BY <1>2, <1>a, <1>b, <2>1 DEF take, Go, Set, pageVars
<1>3. ASSUME NEW w \in Workers,
             leave(w) \/ noCaptcha(w) \/ hasCaptcha(w) \/ openList(w) \/ pollFails(w)
      PROVE  \A v \in Workers : LocalsInv(v)'
  <2>1. LocalsInv(w)'
    BY <1>0, <1>3, <1>a, Constants
       DEF leave, noCaptcha, hasCaptcha, openList, pollFails, Go, LocalsInv, pageVars
  <2> QED
    BY <1>3, <1>a, <1>b, <2>1
       DEF leave, noCaptcha, hasCaptcha, openList, pollFails, Go, pageVars
<1>4. ASSUME NEW w \in Workers, captchaEnds(w) \/ captchaAgain(w)
      PROVE  \A v \in Workers : LocalsInv(v)'
  <2>1. LocalsInv(w)'
    BY <1>0, <1>4, <1>a DEF captchaEnds, captchaAgain, Go, Set, LocalsInv
  <2> QED
    BY <1>4, <1>a, <1>b, <2>1 DEF captchaEnds, captchaAgain, Go, Set
<1>5. ASSUME NEW w \in Workers, report(w) \/ extracted(w) PROVE \A v \in Workers : LocalsInv(v)'
  <2>1. LocalsInv(w)'
    BY <1>0, <1>5, <1>a DEF report, extracted, Go, LocalsEnd, Set, LocalsInv
  <2> QED
    BY <1>5, <1>a, <1>b, <2>1 DEF report, extracted, Go, LocalsEnd, Set
<1>6. ASSUME NEW w \in Workers, poll(w) PROVE \A v \in Workers : LocalsInv(v)'
  <2>1. PICK c \in count[w] .. TableRows :
          /\ polls' = [polls EXCEPT ![w] = @ + 1]
          /\ count' = Set(count, w, c)
          /\ \/ Settled(w, c) /\ Go(w, "poll", "extract")
             \/ ~ Settled(w, c) /\ Go(w, "poll", IF LastPoll(w) THEN "report" ELSE "poll")
          /\ UNCHANGED <<mainVars, url, attempt, i, serial, header, file, read, unsaved>>
    BY <1>6 DEF poll
  <2>2. /\ pc[w] = "poll" /\ i[w] = 1 /\ serial[w] = 1 /\ header[w] = TRUE /\ attempt[w] = 0
        /\ polls'[w] = polls[w] + 1 /\ count'[w] = c /\ url[w] \in Urls
        /\ UNCHANGED <<url, i, serial, header, attempt, unsaved>>
    BY <1>0, <1>a, <2>1 DEF Go, Set, LocalsInv
  <2>3. CASE Settled(w, c) /\ pc'[w] = "extract"
    <3>1. c > 0 /\ c \in Nat
      BY <1>a, <2>3 DEF Settled
    <3>2. Reached(w)' = 1
      BY <2>2, <3>1 DEF Reached
    <3>3. \A r \in ValidRows[url[w]] : ~ (r < 1)
      <4>1. ValidRows[url[w]] \subseteq 1 .. TableRows - 1
        BY <2>2, RowsFinite
      <4> QED
        BY <4>1, Constants
    <3>4. Below(url[w], Reached(w))' = {}
      BY <2>2, <3>2, <3>3 DEF Below
    <3>5. Cardinality(Below(url[w], Reached(w))') = 0
      BY <3>4, FS_EmptySet
    <3>6. \A b \in 1 .. TableRows : <<url[w], b>> \notin unsaved
      <4>1. read[url[w]] = 0 /\ \A v \in Workers : url[v] = url[w] => pc[v] # "extract"
        BY <1>0, <2>2 DEF HeldInv, Busy
      <4> QED
        BY <1>0, <2>2, <4>1 DEF UnsavedInv
    <3> QED
      <4>1. serial'[w] = 1 + Cardinality(Below(url[w], Reached(w))')
        BY <2>2, <3>5
      <4>2. header'[w] = (Below(url[w], Reached(w))' = {})
        BY <2>2, <3>4
      <4>3. count'[w] > 0
        BY <2>2, <3>1
      <4>4. LocalsInv(w)'
        BY <2>2, <2>3, <3>6, <4>1, <4>2, <4>3 DEF LocalsInv
      <4> QED
        BY <1>a, <1>b, <2>1, <4>4 DEF Go, Set
  <2>4. CASE pc'[w] = "report" \/ (pc'[w] = "poll" /\ ~ LastPoll(w))
    <3>1. pc'[w] = "poll" => polls'[w] < MaxPolls
      BY <1>a, <2>2, <2>4, Constants DEF LastPoll
    <3>2. LocalsInv(w)'
      BY <2>2, <2>4, <3>1 DEF LocalsInv
    <3> QED
      BY <3>2, <1>b, <1>a, <2>1 DEF Go, Set
  <2> QED
    BY <1>a, <2>1, <2>3, <2>4 DEF Go
<1>7. ASSUME NEW w \in Workers, skipBatch(w) \/ saveBatch(w) \/ saveFails(w) \/ saveBreaks(w)
      PROVE  \A v \in Workers : LocalsInv(v)'
  <2>1. nextBatch(w)
    BY <1>7 DEF skipBatch, saveBatch, saveFails, saveBreaks
  <2>2. /\ \/ Batch(w) = {} /\ header' = header
           \/ Batch(w) # {} /\ header' = Set(header, w, FALSE)
        /\ unsaved' \subseteq unsaved \cup {<<url[w], i[w]>>}
    BY <1>7 DEF skipBatch, saveBatch, saveFails, saveBreaks
  <2>3. LocalsInv(w)'
    BY <2>1, <2>2, BatchLocals
  <2>4. \A v \in Workers : v # w =>
               /\ pc'[v] = pc[v] /\ url'[v] = url[v] /\ attempt'[v] = attempt[v]
               /\ polls'[v] = polls[v] /\ count'[v] = count[v] /\ i'[v] = i[v]
               /\ serial'[v] = serial[v] /\ header'[v] = header[v]
    BY <1>a, <2>1, <2>2 DEF nextBatch, Go, Set
  <2>5. pc[w] = "extract"
    BY <2>1 DEF nextBatch, Go
  <2>6. \A u \in Urls : \A b \in 1 .. TableRows :
          u # url[w] => (<<u, b>> \in unsaved' => <<u, b>> \in unsaved)
    BY <2>2
  <2> QED
    BY <1>b, <2>3, <2>4, <2>5, <2>6
<1> QED
  BY <1>1, <1>2, <1>3, <1>4, <1>5, <1>6, <1>7 DEF Next, worker

(* A batch is not saved by a worker that extracts, whose portal is read then. *)
LEMMA UnsavedStep == Inv /\ [Next]_vars => UnsavedInv'
<1> SUFFICES ASSUME Inv, [Next]_vars PROVE UnsavedInv'
  OBVIOUS
<1>0. TypeOK /\ UnsavedInv /\ \A w \in Workers : LocalsInv(w)
  BY DEF Inv
<1>a. /\ pc \in [Workers -> PCs] /\ url \in [Workers -> Urls] /\ read \in [Urls -> 0 .. TableRows]
  BY <1>0 DEF TypeOK
<1>b. ASSUME UNCHANGED <<read, unsaved>>,
             \A v \in Workers : pc[v] = "extract" => pc'[v] = "extract" /\ url'[v] = url[v]
      PROVE  UnsavedInv'
  BY <1>0, <1>b DEF UnsavedInv
<1>1. CASE caller \/ UNCHANGED vars \/ \E w \in Workers : panic(w)
  BY <1>1, <1>b DEF caller, closeUrls, return, panic, vars
<1>2. ASSUME NEW w \in Workers,
             \/ take(w) \/ leave(w) \/ noCaptcha(w) \/ hasCaptcha(w) \/ openList(w)
             \/ pollFails(w) \/ report(w) \/ captchaEnds(w) \/ captchaAgain(w) \/ poll(w)
      PROVE  UnsavedInv'
  <2>1. /\ UNCHANGED <<read, unsaved>> /\ pc[w] # "extract"
        /\ \A v \in Workers : v # w => pc'[v] = pc[v] /\ url'[v] = url[v]
    <3>1. CASE take(w) \/ leave(w) \/ noCaptcha(w) \/ hasCaptcha(w) \/ openList(w)
      BY <1>a, <3>1 DEF take, leave, noCaptcha, hasCaptcha, openList, Go, Set
    <3>2. CASE pollFails(w) \/ report(w) \/ captchaEnds(w) \/ captchaAgain(w)
      BY <1>a, <3>2 DEF pollFails, report, captchaEnds, captchaAgain, Go, Set
    <3>3. CASE poll(w)
      BY <1>a, <3>3 DEF poll, Go
    <3> QED
      BY <1>2, <3>1, <3>2, <3>3
  <2> QED
    BY <1>b, <2>1
<1>3. ASSUME NEW w \in Workers, skipBatch(w) \/ saveBatch(w) \/ saveFails(w) \/ saveBreaks(w) PROVE UnsavedInv'
  <2>1. /\ UNCHANGED <<read, url>> /\ pc[w] = "extract"
        /\ \A v \in Workers : pc'[v] = pc[v]
        /\ unsaved' \subseteq unsaved \cup {<<url[w], i[w]>>}
    BY <1>3, <1>a DEF skipBatch, saveBatch, saveFails, saveBreaks, nextBatch, Go
  <2> SUFFICES ASSUME NEW u \in Urls, NEW b \in 1 .. TableRows, <<u, b>> \in unsaved'
      PROVE  read'[u] # 0 \/ \E v \in Workers : url'[v] = u /\ pc'[v] = "extract"
    BY DEF UnsavedInv
  <2>2. CASE u = url[w]
    BY <2>1, <2>2
  <2>3. CASE u # url[w]
    BY <1>0, <2>1, <2>3 DEF UnsavedInv
  <2> QED
    BY <2>2, <2>3
<1>4. ASSUME NEW w \in Workers, extracted(w) PROVE UnsavedInv'
  <2>1. /\ UNCHANGED <<unsaved, url>> /\ pc[w] = "extract" /\ count[w] > 0 /\ url[w] \in Urls
        /\ read' = [read EXCEPT ![url[w]] = count[w]]
        /\ \A v \in Workers : v # w => pc'[v] = pc[v]
    BY <1>0, <1>4, <1>a DEF extracted, Go, Set, LocalsInv
  <2>2. count[w] # 0
    BY <1>0, <2>1 DEF TypeOK
  <2> SUFFICES ASSUME NEW u \in Urls, NEW b \in 1 .. TableRows, <<u, b>> \in unsaved'
      PROVE  read'[u] # 0 \/ \E v \in Workers : url'[v] = u /\ pc'[v] = "extract"
    BY DEF UnsavedInv
  <2>3. CASE u = url[w]
    BY <1>a, <2>1, <2>2, <2>3
  <2>4. CASE u # url[w]
    BY <1>0, <1>a, <2>1, <2>4 DEF UnsavedInv
  <2> QED
    BY <2>3, <2>4
<1> QED
  BY <1>1, <1>2, <1>3, <1>4 DEF Next, worker

(***************************************************************************)
(* The files.                                                              *)
(***************************************************************************)

(* What is read of a portal that is being extracted, and of one that is not. *)
LEMMA ReadWhile ==
  ASSUME TypeOK, HeldInv, NEW w \in Workers, pc[w] = "extract"
  PROVE  TendersRead(url[w]) = Below(url[w], Reached(w))
<1>1. /\ url[w] \in Urls /\ read[url[w]] = 0
      /\ \A v \in Workers : url[v] = url[w] /\ pc[v] = "extract" => v = w
  BY DEF TypeOK, HeldInv, Busy
<1>2. \A r \in ValidRows[url[w]] : ~ (r < 0)
  <2>1. ValidRows[url[w]] \subseteq 1 .. TableRows - 1
    BY <1>1, RowsFinite
  <2> QED
    BY <2>1, Constants
<1> QED
  BY <1>1, <1>2 DEF TendersRead, Below

LEMMA ReadIdle ==
  ASSUME NEW u \in Urls, \A w \in Workers : url[w] = u => pc[w] # "extract"
  PROVE  TendersRead(u) = Below(u, read[u])
  BY DEF TendersRead, Below

LEMMA ReadSubset == \A u \in Urls : TendersRead(u) \in SUBSET ValidRows[u]
  BY DEF TendersRead

Saved(u) == {r \in TendersRead(u) : ~ Unsaved(u, r)}

(* A portal of which nothing more is read, and no other batch is unsaved. *)
LEMMA WholeKept ==
  ASSUME NEW u \in Urls, TendersRead(u)' = TendersRead(u),
         \A b : <<u, b>> \in unsaved' <=> <<u, b>> \in unsaved
  PROVE  Whole(u)' = Whole(u)
<1>1. \A r : Unsaved(u, r)' <=> Unsaved(u, r)
  BY DEF Unsaved
<1>2. Saved(u)' = Saved(u) /\ Started(u)' = Started(u)
  BY <1>1 DEF Saved, Started
<1>3. LinesOf(u, Saved(u))' = LinesOf(u, Saved(u)) /\ Earlier(u)' = Earlier(u)
  BY <1>2 DEF LinesOf, InOrder, Serial, Earlier
<1> QED
  BY <1>2, <1>3 DEF Whole, Saved

LEMMA EarlierType == \A u \in Urls : Earlier(u) \in Seq(Lines) /\ <<Header>> \in Seq(Lines)
<1>1. Header \in Lines /\ Old \in Lines
  BY DEF Lines
<1> QED
  BY <1>1 DEF Earlier

(* The batch at hand: what is read and what of it is not saved. *)
LEMMA BatchRead ==
  ASSUME Inv, NEW w \in Workers, nextBatch(w)
  PROVE  /\ url[w] \in Urls /\ i[w] \in Nat
         /\ TendersRead(url[w]) = Below(url[w], i[w])
         /\ TendersRead(url[w])' = Below(url[w], i[w]) \cup Batch(w)
         /\ \A u \in Urls : u # url[w] => TendersRead(u)' = TendersRead(u)
         /\ \A r \in Batch(w) : i[w] <= r /\ r < i[w] + BatchSize /\ r \in Nat
         /\ \A r \in Below(url[w], i[w]) : r < i[w] /\ r \in Nat
         /\ \A b : <<url[w], b>> \in unsaved => b \in Nat /\ b + BatchSize <= i[w]
         /\ Numbered(w) = LinesOf(url[w], Batch(w))
         /\ header[w] = (Below(url[w], i[w]) = {})
<1>1. /\ TypeOK /\ HeldInv /\ LocalsInv(w) /\ pc[w] = "extract" /\ pc'[w] = "extract"
      /\ i[w] < count[w] /\ UNCHANGED <<url, count, read>>
      /\ \A v \in Workers : v # w => pc'[v] = pc[v] /\ i'[v] = i[v]
      /\ i'[w] = i[w] + BatchSize
  BY DEF Inv, nextBatch, Go, TypeOK
<1>2. url[w] \in Urls /\ i[w] \in Nat /\ BatchSize \in Nat
  <2>1. i[w] \in 1 .. TableRows + BatchSize
    BY <1>1 DEF TypeOK
  <2> QED
    BY <1>1, <2>1, Constants DEF TypeOK
<1>3. Reached(w) = i[w] /\ Reached(w)' = NextReached(w)
  BY <1>1 DEF Reached, NextReached
<1>4. TendersRead(url[w]) = Below(url[w], i[w])
  BY <1>1, <1>3, ReadWhile
<1>5. TendersRead(url[w])' = Below(url[w], i[w]) \cup Batch(w)
  <2>1. TendersRead(url[w])' = Below(url[w], Reached(w))'
    <3>1. /\ read'[url[w]] = 0
          /\ \A v \in Workers : url'[v] = url[w] /\ pc'[v] = "extract" <=> v = w
      BY <1>1 DEF HeldInv, Busy
    <3>2. \A r \in ValidRows[url[w]] : ~ (r < 0)
      <4>1. ValidRows[url[w]] \subseteq 1 .. TableRows - 1
        BY <1>2, RowsFinite
      <4> QED
        BY <4>1, Constants
    <3> QED
      BY <1>1, <3>1, <3>2 DEF TendersRead, Below
  <2>2. Below(url[w], Reached(w))' = Below(url[w], NextReached(w))
    BY <1>1, <1>3 DEF Below
  <2> QED
    BY <1>1, <2>1, <2>2, BatchFacts
<1>6. ASSUME NEW u \in Urls, u # url[w] PROVE TendersRead(u)' = TendersRead(u)
  <2>1. \A v \in Workers : url[v] = u => /\ url'[v] = u /\ pc'[v] = pc[v] /\ Reached(v)' = Reached(v)
    BY <1>1, <1>6 DEF Reached
  <2>2. \A v \in Workers : url'[v] = u => url[v] = u
    BY <1>1
  <2> QED
    BY <1>1, <2>1, <2>2 DEF TendersRead
<1>7. \A r \in Batch(w) : i[w] <= r /\ r < i[w] + BatchSize /\ r \in Nat
  BY <1>2 DEF Batch, batchEnd
<1>8. \A r \in Below(url[w], i[w]) : r < i[w] /\ r \in Nat
  <2>1. \A r \in ValidRows[url[w]] : r \in Nat
    BY <1>2, RowsFinite
  <2> QED
    BY <2>1 DEF Below
<1>9. \A b : <<url[w], b>> \in unsaved => b \in Nat /\ b + BatchSize <= i[w]
  <2>1. \A b : <<url[w], b>> \in unsaved => b \in 1 .. TableRows
    BY <1>1 DEF TypeOK
  <2> QED
    BY <1>1, <2>1 DEF LocalsInv
<1>10. Numbered(w) = LinesOf(url[w], Batch(w)) /\ header[w] = (Below(url[w], i[w]) = {})
  BY <1>1, <1>3, NumberedLines DEF LocalsInv
<1> QED
  BY <1>2, <1>4, <1>5, <1>6, <1>7, <1>8, <1>9, <1>10

(* The first row of some. *)
LEMMA FirstRow ==
  ASSUME NEW u \in Urls, NEW R \in SUBSET ValidRows[u], R # {}
  PROVE  \E r \in R : \A q \in R : r <= q
<1>1. IsFiniteSet(R) /\ R \subseteq Nat /\ Cardinality(R) \in 0 .. TableRows - 1
  BY RowsFinite
<1>2. 1 \in 1 .. Cardinality(R)
  BY <1>1, FS_EmptySet, Constants
<1>3. PICK r \in R : Rank(R, r) = 1
  BY <1>1, <1>2, RankOnto
<1>4. ASSUME NEW q \in R, q < r PROVE FALSE
  <2>1. Rank(R, q) < 1
    BY <1>1, <1>3, <1>4, RankIncreasing
  <2>2. Rank(R, q) \in 1 .. Cardinality(R)
    BY <1>1, RankType
  <2> QED
    BY <1>1, <2>1, <2>2
<1>5. \A q \in R : r <= q
  BY <1>1, <1>4
<1> QED
  BY <1>5

(* A batch whose file was opened: its lines follow, after the header if there were none. *)
LEMMA WholeGrows ==
  ASSUME Inv, NEW w \in Workers, nextBatch(w), Batch(w) # {}, unsaved' = unsaved
  PROVE  Whole(url[w])' = (IF header[w] THEN <<Header>> ELSE Whole(url[w])) \o Numbered(w)
<1> DEFINE u == url[w]
           A == Below(u, i[w])
           B == Batch(w)
<1>1. /\ nextBatch(w) /\ B # {} /\ unsaved' = unsaved
      /\ TypeOK /\ UNCHANGED <<url, count>> /\ i[w] < count[w]
  BY DEF Inv, nextBatch
<1>2. /\ u \in Urls /\ i[w] \in Nat
      /\ TendersRead(u) = A /\ TendersRead(u)' = A \cup B
      /\ \A r \in B : i[w] <= r /\ r < i[w] + BatchSize /\ r \in Nat
      /\ \A r \in A : r < i[w] /\ r \in Nat
      /\ \A b : <<u, b>> \in unsaved => b \in Nat /\ b + BatchSize <= i[w]
      /\ Numbered(w) = LinesOf(u, B)
      /\ header[w] = (A = {})
  BY <1>1, BatchRead
<1>3. A \in SUBSET ValidRows[u] /\ B \in SUBSET ValidRows[u]
  BY <1>1, BatchFacts
<1>7. url' = url
  BY <1>1
<1>8. \A r : Unsaved(u, r)' <=> Unsaved(u, r)
  BY <1>1 DEF Unsaved
<1> HIDE DEF A, B
<1>9. \A r \in B : ~ Unsaved(u, r)
  <2> SUFFICES ASSUME NEW r \in B, NEW b \in 1 .. r, <<u, b>> \in unsaved, r < b + BatchSize
      PROVE  FALSE
    BY DEF Unsaved
  <2>1. b \in Nat /\ b + BatchSize <= i[w] /\ i[w] <= r /\ r \in Nat /\ i[w] \in Nat
    BY <1>2
  <2> QED
    BY <2>1, Constants
<1>10. Saved(u)' = Saved(u) \cup B /\ Saved(u) \subseteq A
  <2>1. Saved(u)' = {r \in TendersRead(u)' : ~ Unsaved(u, r)'}
    BY <1>7 DEF Saved
  <2> QED
    BY <1>2, <1>8, <1>9, <2>1 DEF Saved
<1>11. Saved(u) \in SUBSET ValidRows[u] /\ \A p \in Saved(u), q \in B : p < q
  BY <1>2, <1>3, <1>10
<1>12. LinesOf(u, Saved(u) \cup B) = LinesOf(u, Saved(u)) \o LinesOf(u, B)
  <2> HIDE DEF u
  <2> QED
    BY <1>2, <1>3, <1>11, LinesSplit
<1>13. LinesOf(u, Saved(u))' = LinesOf(u, Saved(u) \cup B)
  BY <1>7, <1>10 DEF LinesOf, InOrder, Serial
<1>14. Whole(u)' = (IF Started(u)' THEN <<Header>> ELSE Earlier(u)) \o LinesOf(u, Saved(u) \cup B)
  BY <1>7, <1>13 DEF Whole, Saved, Earlier
<1>15. Started(u)' <=> \E r \in A \cup B : ~ Unsaved(u, r) /\ \A q \in A \cup B : r <= q
  BY <1>2, <1>7, <1>8 DEF Started
<1>16. CASE A = {}
  <2>1. Started(u)'
    BY <1>1, <1>2, <1>3, <1>9, <1>15, <1>16, FirstRow
  <2>2. Saved(u) \cup B = B
    BY <1>10, <1>16
  <2>3. Whole(u)' = <<Header>> \o LinesOf(u, B)
    BY <1>14, <2>1, <2>2
  <2>4. header[w]
    BY <1>2, <1>16
  <2> QED
    BY <1>2, <2>3, <2>4
<1>17. CASE A # {}
  <2>1. Started(u)' <=> Started(u)
    <3>1. Started(u) <=> \E r \in A : ~ Unsaved(u, r) /\ \A q \in A : r <= q
      BY <1>2 DEF Started
    <3>2. \A p \in A, q \in B : p <= q /\ ~ (q <= p)
      BY <1>2
    <3> QED
      BY <1>15, <1>17, <3>1, <3>2
  <2> DEFINE top == IF Started(u) THEN <<Header>> ELSE Earlier(u)
  <2>2. top \in Seq(Lines)
    BY <1>2, EarlierType
  <2>3. Whole(u) = top \o LinesOf(u, Saved(u))
    BY DEF Whole, Saved
  <2>4. Whole(u)' = top \o (LinesOf(u, Saved(u)) \o LinesOf(u, B))
    BY <1>12, <1>14, <2>1
  <2>5. LinesOf(u, Saved(u)) \in Seq(Lines) /\ LinesOf(u, B) \in Seq(Lines)
    <3> HIDE DEF u
    <3> QED
      BY <1>2, <1>3, <1>11, LinesType
  <2> HIDE DEF top
  <2>6. (top \o LinesOf(u, Saved(u))) \o LinesOf(u, B)
          = top \o (LinesOf(u, Saved(u)) \o LinesOf(u, B))
    BY <2>2, <2>5, ConcatAssociative
  <2>7. ~ header[w]
    BY <1>2, <1>17
  <2> QED
    BY <1>2, <2>3, <2>4, <2>6, <2>7
<1> QED
  BY <1>16, <1>17

(* A batch whose file was not opened adds nothing. *)
LEMMA WholeStays ==
  ASSUME Inv, NEW w \in Workers, saveFails(w)
  PROVE  Whole(url[w])' = Whole(url[w])
<1> DEFINE u == url[w]
           A == Below(u, i[w])
           B == Batch(w)
<1>1. /\ nextBatch(w) /\ B # {} /\ unsaved' = unsaved \cup {<<u, i[w]>>}
      /\ TypeOK /\ UNCHANGED <<url, count, file>> /\ i[w] < count[w]
  BY DEF Inv, saveFails, nextBatch
<1>2. /\ u \in Urls /\ i[w] \in Nat
      /\ TendersRead(u) = A /\ TendersRead(u)' = A \cup B
      /\ \A r \in B : i[w] <= r /\ r < i[w] + BatchSize /\ r \in Nat
      /\ \A r \in A : r < i[w] /\ r \in Nat
  BY <1>1, BatchRead
<1>4. url' = url /\ i[w] # 0
  BY <1>1, Constants DEF TypeOK
<1> HIDE DEF A, B
<1>5. \A r \in B : Unsaved(u, r)'
  <2>1. <<u, i[w]>> \in unsaved' /\ \A r \in B : i[w] \in 1 .. r /\ r < i[w] + BatchSize
    BY <1>1, <1>2, <1>4
  <2> QED
    BY <1>4, <2>1 DEF Unsaved
<1>6. \A r \in A : Unsaved(u, r)' <=> Unsaved(u, r)
  <2>1. \A r \in A : i[w] \notin 1 .. r
    BY <1>2
  <2>2. \A b : <<u, b>> \in unsaved' <=> <<u, b>> \in unsaved \/ b = i[w]
    BY <1>1
  <2> QED
    BY <1>4, <2>1, <2>2 DEF Unsaved
<1>7. Saved(u)' = Saved(u)
  <2>1. Saved(u)' = {r \in TendersRead(u)' : ~ Unsaved(u, r)'}
    BY <1>4 DEF Saved
  <2> QED
    BY <1>2, <1>5, <1>6, <2>1 DEF Saved
<1>8. Started(u)' <=> Started(u)
  <2>1. Started(u)' <=> \E r \in A \cup B : ~ Unsaved(u, r)' /\ \A q \in A \cup B : r <= q
    BY <1>2, <1>4 DEF Started
  <2>2. Started(u) <=> \E r \in A : ~ Unsaved(u, r) /\ \A q \in A : r <= q
    BY <1>2 DEF Started
  <2>3. \A p \in A, q \in B : p <= q
    BY <1>2
  <2> QED
    BY <1>5, <1>6, <2>1, <2>2, <2>3
<1>9. LinesOf(u, Saved(u))' = LinesOf(u, Saved(u)) /\ Earlier(u)' = Earlier(u)
  BY <1>4, <1>7 DEF LinesOf, InOrder, Serial, Earlier
<1> QED
  BY <1>4, <1>8, <1>9 DEF Whole, Saved

(***************************************************************************)
(* Files of which a part is missing.                                       *)
(***************************************************************************)
LEMMA LineType ==
  ASSUME NEW s \in Seq(Lines)
  PROVE  /\ Len(s) \in Nat /\ DOMAIN s = 1 .. Len(s)
         /\ \A k \in DOMAIN s : s[k] \in Lines /\ s[k][1] \in Nat /\ s[k][2] \in Nat
<1>1. \A x \in Lines : x[1] \in Nat /\ x[2] \in Nat
  BY Constants DEF Lines, Header, Old, Torn
<1> QED
  BY <1>1, LenProperties, ElementOfSeq

LEMMA PartJoin ==
  ASSUME NEW s \in Seq(Lines), NEW a \in Seq(Lines), PartOf(s, a),
         NEW t \in Seq(Lines), NEW b \in Seq(Lines), PartOf(t, b),
         \A x \in ToSet(a), y \in ToSet(b) : Before(x, y)
  PROVE  PartOf(s \o t, a \o b)
<1>1. /\ Len(s) \in Nat /\ DOMAIN s = 1 .. Len(s) /\ Len(t) \in Nat /\ DOMAIN t = 1 .. Len(t)
      /\ Len(a) \in Nat /\ DOMAIN a = 1 .. Len(a) /\ Len(b) \in Nat /\ DOMAIN b = 1 .. Len(b)
  BY LineType
<1>2. /\ DOMAIN (s \o t) = 1 .. Len(s) + Len(t)
      /\ \A k \in 1 .. Len(s) + Len(t) : (s \o t)[k] = IF k <= Len(s) THEN s[k] ELSE t[k - Len(s)]
  BY ConcatProperties, LenProperties
<1>3. /\ DOMAIN (a \o b) = 1 .. Len(a) + Len(b)
      /\ \A k \in 1 .. Len(a) + Len(b) : (a \o b)[k] = IF k <= Len(a) THEN a[k] ELSE b[k - Len(a)]
  BY ConcatProperties, LenProperties
<1>4. ToSet(a) \cup ToSet(b) \subseteq ToSet(a \o b)
  <2>1. ASSUME NEW k \in 1 .. Len(a) PROVE a[k] \in ToSet(a \o b)
    <3>1. k \in DOMAIN (a \o b) /\ (a \o b)[k] = a[k]
      BY <1>1, <1>3
    <3> QED
      BY <3>1 DEF ToSet
  <2>2. ASSUME NEW k \in 1 .. Len(b) PROVE b[k] \in ToSet(a \o b)
    <3>1. k + Len(a) \in DOMAIN (a \o b) /\ (a \o b)[k + Len(a)] = b[k]
      BY <1>1, <1>3
    <3> QED
      BY <3>1 DEF ToSet
  <2> QED
    BY <1>1, <2>1, <2>2 DEF ToSet
<1>5. /\ \A k \in 1 .. Len(s) : s[k] \in ToSet(a) \cup {Torn}
      /\ \A k \in 1 .. Len(t) : t[k] \in ToSet(b) \cup {Torn}
  BY <1>1 DEF PartOf, ToSet
<1>6. ASSUME NEW k \in 1 .. Len(s) + Len(t)
      PROVE  \/ k \in 1 .. Len(s) /\ (s \o t)[k] = s[k]
             \/ k - Len(s) \in 1 .. Len(t) /\ (s \o t)[k] = t[k - Len(s)] /\ Len(s) < k
  BY <1>1, <1>2
<1>7. ToSet(s \o t) \subseteq ToSet(a \o b) \cup {Torn}
  <2>1. ASSUME NEW k \in 1 .. Len(s) + Len(t) PROVE (s \o t)[k] \in ToSet(a \o b) \cup {Torn}
    BY <1>4, <1>5, <1>6
  <2> QED
    BY <1>2, <2>1 DEF ToSet
<1>8. ASSUME NEW k \in 1 .. Len(s) + Len(t), NEW l \in 1 .. Len(s) + Len(t), k < l,
             Torn \notin {(s \o t)[k], (s \o t)[l]}
      PROVE  Before((s \o t)[k], (s \o t)[l])
  <2>1. CASE k \in 1 .. Len(s) /\ l \in 1 .. Len(s)
    <3>1. (s \o t)[k] = s[k] /\ (s \o t)[l] = s[l]
      BY <1>1, <1>6, <2>1
    <3> QED
      BY <1>1, <1>8, <2>1, <3>1 DEF PartOf
  <2>2. CASE k \in 1 .. Len(s) /\ l \notin 1 .. Len(s)
    <3>1. (s \o t)[k] = s[k] /\ l - Len(s) \in 1 .. Len(t) /\ (s \o t)[l] = t[l - Len(s)]
      BY <1>1, <1>6, <2>2
    <3>2. (s \o t)[k] \in ToSet(a) /\ (s \o t)[l] \in ToSet(b)
      BY <1>5, <1>8, <2>2, <3>1
    <3> QED
      BY <3>2
  <2>3. CASE k \notin 1 .. Len(s)
    <3>1. /\ k - Len(s) \in 1 .. Len(t) /\ (s \o t)[k] = t[k - Len(s)]
          /\ l - Len(s) \in 1 .. Len(t) /\ (s \o t)[l] = t[l - Len(s)]
          /\ k - Len(s) < l - Len(s)
      BY <1>1, <1>6, <1>8, <2>3
    <3> QED
      BY <1>1, <1>8, <3>1 DEF PartOf
  <2> QED
    BY <2>1, <2>2, <2>3
<1> QED
  BY <1>2, <1>7, <1>8 DEF PartOf

LEMMA PartTail ==
  ASSUME NEW t \in Seq(Lines), t # <<>>, NEW b, PartOf(t, b)
  PROVE  Tail(t) \in Seq(Lines) /\ PartOf(Tail(t), b)
<1>1. /\ Tail(t) \in Seq(Lines) /\ Len(t) \in Nat /\ DOMAIN t = 1 .. Len(t)
      /\ DOMAIN Tail(t) = 1 .. Len(t) - 1
      /\ \A k \in 1 .. Len(t) - 1 : Tail(t)[k] = t[k + 1] /\ k + 1 \in 1 .. Len(t)
  OBVIOUS
<1>2. ToSet(Tail(t)) \subseteq ToSet(t)
  BY <1>1 DEF ToSet
<1>3. ASSUME NEW k \in 1 .. Len(t) - 1, NEW l \in 1 .. Len(t) - 1, k < l,
             Torn \notin {Tail(t)[k], Tail(t)[l]}
      PROVE  Before(Tail(t)[k], Tail(t)[l])
  <2>1. /\ k + 1 \in DOMAIN t /\ l + 1 \in DOMAIN t /\ k + 1 < l + 1
        /\ Tail(t)[k] = t[k + 1] /\ Tail(t)[l] = t[l + 1]
    BY <1>1, <1>3
  <2> QED
    BY <1>3, <2>1 DEF PartOf
<1> QED
  BY <1>1, <1>2, <1>3 DEF PartOf

LEMMA PartPrefix ==
  ASSUME NEW b \in Seq(Lines), PartOf(b, b), NEW n \in 0 .. Len(b), NEW part \in {<<>>, <<Torn>>}
  PROVE  PartOf(SubSeq(b, 1, n) \o part, b)
<1>1. /\ Len(b) \in Nat /\ n \in Nat /\ DOMAIN b = 1 .. Len(b) /\ SubSeq(b, 1, n) \in Seq(Lines)
      /\ DOMAIN SubSeq(b, 1, n) = 1 .. n
      /\ \A k \in 1 .. n : SubSeq(b, 1, n)[k] = b[k] /\ k \in DOMAIN b
  BY LineType, PartType, SubSeqProperties, ElementOfSeq, LenProperties
<1>2. PartOf(SubSeq(b, 1, n), b)
  <2>1. ToSet(SubSeq(b, 1, n)) \subseteq ToSet(b)
    BY <1>1 DEF ToSet
  <2> QED
    BY <1>1, <2>1 DEF PartOf
<1>3. PartOf(part, <<>>)
  BY DEF PartOf, ToSet
<1>4. <<>> \in Seq(Lines) /\ b \o <<>> = b
  BY EmptySeq, ConcatEmptySeq
<1>5. part \in Seq(Lines)
  BY PartType
<1>6. ToSet(<<>>) = {}
  BY DEF ToSet
<1> QED
  BY <1>1, <1>2, <1>3, <1>4, <1>5, <1>6, PartJoin

LEMMA PartAppended ==
  ASSUME NEW s \in Seq(Lines), NEW a \in Seq(Lines), PartOf(s, a),
         NEW t \in Seq(Lines), NEW b \in Seq(Lines), PartOf(t, b),
         \A x \in ToSet(a), y \in ToSet(b) : Before(x, y)
  PROVE  PartOf(Appended(s, t), a \o b)
<1>1. t # <<>> => Tail(t) \in Seq(Lines) /\ PartOf(Tail(t), b)
  BY PartTail
<1> QED
  BY <1>1, PartJoin DEF Appended

(* The lines of some tenders are in order. *)
LEMMA LinesOrdered ==
  ASSUME NEW u \in Urls, NEW R \in SUBSET ValidRows[u]
  PROVE  /\ \A x \in ToSet(LinesOf(u, R)) : x[1] \in R /\ x # Torn
         /\ PartOf(LinesOf(u, R), LinesOf(u, R))
<1>1. /\ IsFiniteSet(R) /\ R \subseteq Nat /\ Cardinality(R) \in 0 .. TableRows - 1
      /\ R \subseteq 1 .. TableRows - 1
  BY RowsFinite
<1>2. /\ InOrder(R) \in [1 .. Cardinality(R) -> R]
      /\ \A k \in 1 .. Cardinality(R) : Rank(R, InOrder(R)[k]) = k
  BY <1>1, InOrderRank
<1>3. /\ DOMAIN LinesOf(u, R) = 1 .. Cardinality(R)
      /\ \A k \in 1 .. Cardinality(R) : LinesOf(u, R)[k][1] = InOrder(R)[k]
  BY DEF LinesOf
<1>4. ASSUME NEW k \in 1 .. Cardinality(R), NEW l \in 1 .. Cardinality(R), k < l
      PROVE  InOrder(R)[k] < InOrder(R)[l]
  <2>1. InOrder(R)[k] \in R /\ InOrder(R)[l] \in R
    BY <1>2
  <2>2. PICK p \in R, q \in R : p = InOrder(R)[k] /\ q = InOrder(R)[l]
    BY <2>1
  <2>3. Rank(R, p) = k /\ Rank(R, q) = l
    BY <1>2, <2>2
  <2>4. q < p => Rank(R, q) < Rank(R, p)
    BY <1>1, RankIncreasing
  <2>5. p \in Nat /\ q \in Nat /\ p # q
    BY <1>1, <1>4, <2>3
  <2> QED
    BY <1>4, <2>2, <2>3, <2>4, <2>5
<1>5. \A x \in ToSet(LinesOf(u, R)) : x[1] \in R
  BY <1>2, <1>3 DEF ToSet
<1>6. Torn[1] \notin R
  BY <1>1 DEF Torn
<1>7. \A k, l \in DOMAIN LinesOf(u, R) : k < l => Before(LinesOf(u, R)[k], LinesOf(u, R)[l])
  BY <1>3, <1>4 DEF Before
<1> QED
  BY <1>5, <1>6, <1>7 DEF PartOf

(* A whole file has its lines in order, those of tenders read so far at its end. *)
LEMMA WholeOrdered ==
  ASSUME NEW u \in Urls
  PROVE  /\ Whole(u) \in Seq(Lines) /\ PartOf(Whole(u), Whole(u))
         /\ \A x \in ToSet(Whole(u)) : (x[1] = 0 \/ x[1] \in TendersRead(u)) /\ x # Torn
<1> DEFINE top == IF Started(u) THEN <<Header>> ELSE Earlier(u)
           rest == LinesOf(u, Saved(u))
<1>1. Saved(u) \in SUBSET ValidRows[u] /\ Saved(u) \subseteq TendersRead(u)
  BY ReadSubset DEF Saved
<1>2. /\ rest \in Seq(Lines) /\ PartOf(rest, rest)
      /\ \A x \in ToSet(rest) : x[1] \in Saved(u) /\ x # Torn
  BY <1>1, LinesType, LinesOrdered
<1>3. top \in Seq(Lines) /\ (top = <<>> \/ top = <<Header>> \/ top = <<Header, Old>>)
  BY EarlierType DEF Earlier
<1>4. /\ \A x \in ToSet(top) : x[1] = 0 /\ x # Torn
      /\ PartOf(top, top)
  <2>1. Before(Header, Old) /\ Header[1] = 0 /\ Old[1] = 0 /\ Torn \notin {Header, Old}
    BY DEF Header, Old, Torn, Before
  <2> QED
    BY <1>3, <2>1 DEF PartOf, ToSet
<1>5. \A x \in ToSet(top), y \in ToSet(rest) : Before(x, y)
  <2>1. Saved(u) \subseteq 1 .. TableRows - 1
    BY <1>1, RowsFinite
  <2> QED
    BY <1>2, <1>4, <2>1, Constants DEF Before
<1>6. Whole(u) = top \o rest
  BY DEF Whole, Saved
<1> HIDE DEF top, rest
<1>7. ToSet(top \o rest) \subseteq ToSet(top) \cup ToSet(rest)
  <2>1. /\ Len(top) \in Nat /\ DOMAIN top = 1 .. Len(top) /\ Len(rest) \in Nat
        /\ DOMAIN rest = 1 .. Len(rest) /\ DOMAIN (top \o rest) = 1 .. Len(top) + Len(rest)
        /\ \A k \in 1 .. Len(top) + Len(rest) :
             (top \o rest)[k] = IF k <= Len(top) THEN top[k] ELSE rest[k - Len(top)]
    BY <1>2, <1>3, ConcatProperties, LenProperties
  <2>2. ASSUME NEW k \in 1 .. Len(top) + Len(rest)
        PROVE  (top \o rest)[k] \in ToSet(top) \cup ToSet(rest)
    <3>1. \/ k \in 1 .. Len(top)
          \/ k - Len(top) \in 1 .. Len(rest) /\ ~ k <= Len(top)
      BY <2>1
    <3> QED
      BY <2>1, <3>1 DEF ToSet
  <2> QED
    BY <2>1, <2>2 DEF ToSet
<1>8. PartOf(top \o rest, top \o rest) /\ top \o rest \in Seq(Lines)
  BY <1>2, <1>3, <1>4, <1>5, PartJoin, ConcatProperties
<1> QED
  BY <1>1, <1>2, <1>4, <1>6, <1>7, <1>8

(* What a batch makes of the file of its portal. *)
LEMMA SaveStep ==
  ASSUME Inv, NEW w \in Workers, saveBatch(w), url[w] \notin broken
  PROVE  file'[url[w]] = Whole(url[w])'
<1> DEFINE u == url[w]
<1>1. /\ nextBatch(w) /\ Batch(w) # {} /\ unsaved' = unsaved /\ u \in Urls
      /\ file \in [Urls -> Seq(Lines)] /\ file[u] = Whole(u)
      /\ file' = [file EXCEPT ![u] = Appended(Base(w), Written(w))]
  BY DEF Inv, TypeOK, FileExact, saveBatch, Set
<1>2. Whole(u)' = (IF header[w] THEN <<Header>> ELSE Whole(u)) \o Numbered(w)
  BY <1>1, WholeGrows
<1>3. Numbered(w) \in Seq(Lines) /\ Written(w) \in Seq(Lines)
  BY <1>1, BatchType
<1>4. Base(w) = <<>> \/ Last(Base(w)) # Torn
  <2>1. Whole(u) = <<>> \/ Last(Whole(u)) \in ToSet(Whole(u))
    <3>1. Whole(u) \in Seq(Lines)
      BY <1>1
    <3>2. Whole(u) # <<>> => Len(Whole(u)) \in DOMAIN Whole(u)
      BY <3>1, LenProperties, EmptySeq
    <3> QED
      BY <3>2 DEF Last, ToSet
  <2> QED
    BY <1>1, <2>1, WholeOrdered DEF Base
<1>5. Appended(Base(w), Written(w)) = Base(w) \o Written(w)
  BY <1>4 DEF Appended
<1>6. Base(w) \o Written(w) = (IF header[w] THEN <<Header>> ELSE Whole(u)) \o Numbered(w)
  <2>1. header[w] => Base(w) \o Written(w) = <<Header>> \o Numbered(w)
    BY <1>3, ConcatEmptySeq DEF Base, Written
  <2>2. ~ header[w] => Base(w) \o Written(w) = Whole(u) \o Numbered(w)
    BY <1>1, <1>3, ConcatEmptySeq DEF Base, Written
  <2> QED
    BY <2>1, <2>2
<1> QED
  BY <1>1, <1>2, <1>5, <1>6

(* The lines of a batch are in order. *)
LEMMA WrittenOrdered ==
  ASSUME Inv, NEW w \in Workers, nextBatch(w)
  PROVE  /\ Numbered(w) \in Seq(Lines) /\ PartOf(Numbered(w), Numbered(w))
         /\ \A x \in ToSet(Numbered(w)) : x[1] \in Batch(w) /\ x[1] \in Nat \ {0}
         /\ Written(w) \in Seq(Lines) /\ PartOf(Written(w), Written(w))
<1>1. url[w] \in Urls /\ Batch(w) \in SUBSET ValidRows[url[w]]
  <2>1. TypeOK /\ i[w] < count[w]
    BY DEF Inv, nextBatch
  <2> QED
    BY <2>1, BatchFacts
<1>2. Numbered(w) = LinesOf(url[w], Batch(w))
  BY BatchRead
<1>3. Numbered(w) \in Seq(Lines) /\ Written(w) \in Seq(Lines)
  BY BatchType
<1>4. Batch(w) \subseteq 1 .. TableRows - 1
  BY <1>1, RowsFinite
<1>5. /\ PartOf(Numbered(w), Numbered(w))
      /\ \A x \in ToSet(Numbered(w)) : x[1] \in Batch(w) /\ x[1] \in Nat \ {0}
  BY <1>1, <1>2, <1>4, LinesOrdered, Constants
<1>6. <<Header>> \in Seq(Lines) /\ ToSet(<<Header>>) = {Header} /\ PartOf(<<Header>>, <<Header>>)
  BY <1>1, EarlierType DEF ToSet, PartOf
<1>7. \A x \in ToSet(<<Header>>), y \in ToSet(Numbered(w)) : Before(x, y)
  BY <1>5, <1>6 DEF Before, Header
<1>8. PartOf(<<Header>> \o Numbered(w), <<Header>> \o Numbered(w))
  BY <1>3, <1>5, <1>6, <1>7, PartJoin
<1>9. <<>> \o Numbered(w) = Numbered(w)
  BY <1>3, ConcatEmptySeq
<1> QED
  BY <1>3, <1>5, <1>8, <1>9 DEF Written

(* A file to which all or a part of a batch is added, and of which some lines are missing. *)
LEMMA PartStep ==
  ASSUME Inv, NEW w \in Workers, nextBatch(w), Batch(w) # {}, unsaved' = unsaved,
         NEW lines \in Seq(Lines),
         PartOf(lines, Written(w)) \/ lines = Written(w)
  PROVE  PartOf(Appended(Base(w), lines), Whole(url[w])')
<1> DEFINE u == url[w]
<1>1. u \in Urls /\ file \in [Urls -> Seq(Lines)] /\ Batch(w) \in SUBSET ValidRows[u]
  <2>1. TypeOK /\ i[w] < count[w]
    BY DEF Inv, nextBatch
  <2> QED
    BY <2>1, BatchFacts DEF TypeOK
<1>2. /\ TendersRead(u) = Below(u, i[w]) /\ Numbered(w) = LinesOf(u, Batch(w))
      /\ \A r \in Batch(w) : i[w] <= r /\ r \in Nat
      /\ \A r \in Below(u, i[w]) : r < i[w] /\ r \in Nat
      /\ i[w] \in Nat
  BY BatchRead
<1>3. /\ Numbered(w) \in Seq(Lines) /\ PartOf(Numbered(w), Numbered(w))
      /\ \A x \in ToSet(Numbered(w)) : x[1] \in Batch(w)
      /\ Written(w) \in Seq(Lines) /\ PartOf(Written(w), Written(w))
  BY WrittenOrdered
<1>4. i[w] # 0
  <2>1. i \in [Workers -> 1 .. TableRows + BatchSize] /\ i[w] \in 1 .. TableRows + BatchSize
    BY DEF Inv, TypeOK
  <2> QED
    BY <2>1, Constants
<1>5. Whole(u)' = (IF header[w] THEN <<Header>> ELSE Whole(u)) \o Numbered(w)
  BY WholeGrows
<1>6. CASE header[w]
  <2>3. Written(w) = <<Header>> \o Numbered(w) /\ Base(w) = <<>>
    BY <1>6 DEF Written, Base
  <2>5. PartOf(lines, Written(w))
    BY <1>3
  <2>6. <<>> \in Seq(Lines) /\ PartOf(<<>>, <<>>) /\ ToSet(<<>>) = {} /\ <<>> \o Written(w) = Written(w)
    BY <1>3, EmptySeq, ConcatEmptySeq DEF PartOf, ToSet
  <2>7. PartOf(Appended(<<>>, lines), <<>> \o Written(w))
    BY <1>3, <2>5, <2>6, PartAppended
  <2> QED
    BY <1>5, <1>6, <2>3, <2>6, <2>7
<1>7. CASE ~ header[w]
  <2>1. Written(w) = Numbered(w) /\ Base(w) = file[u]
    BY <1>3, <1>7, ConcatEmptySeq DEF Written, Base
  <2>2. PartOf(lines, Numbered(w))
    BY <1>3, <2>1
  <2>3. /\ Whole(u) \in Seq(Lines) /\ PartOf(Whole(u), Whole(u))
        /\ \A x \in ToSet(Whole(u)) : x[1] = 0 \/ x[1] \in TendersRead(u)
    BY <1>1, WholeOrdered
  <2>4. PartOf(file[u], Whole(u)) /\ file[u] \in Seq(Lines)
    BY <1>1, <2>3 DEF Inv, FileExact
  <2>5. \A x \in ToSet(Whole(u)), y \in ToSet(Numbered(w)) : Before(x, y)
    BY <1>2, <1>3, <1>4, <2>3 DEF Before
  <2>6. PartOf(Appended(file[u], lines), Whole(u) \o Numbered(w))
    BY <1>3, <2>2, <2>3, <2>4, <2>5, PartAppended
  <2> QED
    BY <1>5, <1>7, <2>1, <2>6
<1> QED
  BY <1>6, <1>7

LEMMA FileStep == Inv /\ [Next]_vars => FileExact'
<1> SUFFICES ASSUME Inv, [Next]_vars PROVE FileExact'
  OBVIOUS
<1>0. TypeOK /\ HeldInv /\ HeldInv' /\ FileExact /\ \A w \in Workers : LocalsInv(w)
  BY HeldStep DEF Inv
<1>a. /\ pc \in [Workers -> PCs] /\ url \in [Workers -> Urls] /\ read \in [Urls -> 0 .. TableRows]
      /\ file \in [Urls -> Seq(Lines)]
  BY <1>0 DEF TypeOK
<1>c. ASSUME \A u \in Urls : TendersRead(u)' = TendersRead(u), UNCHANGED <<file, unsaved, broken>>
      PROVE  FileExact'
  BY <1>0, <1>c, WholeKept DEF FileExact
(* A step of a worker that does not extract, before and after. *)
<1>d. ASSUME UNCHANGED <<file, unsaved, broken, read>>,
             \A v \in Workers :
               \/ pc[v] = "extract" /\ pc'[v] = "extract" /\ url'[v] = url[v]
                    /\ i'[v] = i[v] /\ count'[v] = count[v]
               \/ pc[v] # "extract" /\ pc'[v] # "extract"
      PROVE  FileExact'
  <2>1. ASSUME NEW u \in Urls PROVE TendersRead(u)' = TendersRead(u)
    <3>1. \A v \in Workers : pc[v] = "extract" => Reached(v)' = Reached(v)
      BY <1>d DEF Reached
    <3>2. \A v \in Workers : url'[v] = u /\ pc'[v] = "extract" <=> url[v] = u /\ pc[v] = "extract"
      BY <1>d
    <3> QED
      BY <1>d, <3>1, <3>2 DEF TendersRead
  <2> QED
    BY <1>c, <1>d, <2>1
<1>1. CASE caller \/ UNCHANGED vars \/ \E w \in Workers : panic(w)
  BY <1>1, <1>d DEF caller, closeUrls, return, panic, vars, pageVars
<1>2. ASSUME NEW w \in Workers,
             \/ take(w) \/ leave(w) \/ noCaptcha(w) \/ hasCaptcha(w) \/ openList(w)
             \/ pollFails(w) \/ report(w) \/ captchaEnds(w) \/ captchaAgain(w)
      PROVE  FileExact'
  <2>1. /\ UNCHANGED <<file, unsaved, broken, read>> /\ pc[w] # "extract" /\ pc'[w] # "extract"
        /\ \A v \in Workers : v # w => /\ pc'[v] = pc[v] /\ url'[v] = url[v]
                                     /\ i'[v] = i[v] /\ count'[v] = count[v]
    <3>1. CASE take(w) \/ leave(w) \/ noCaptcha(w) \/ hasCaptcha(w) \/ openList(w)
      BY <1>a, <3>1 DEF take, leave, noCaptcha, hasCaptcha, openList, Go, Set, pageVars
    <3>2. CASE pollFails(w) \/ captchaEnds(w) \/ captchaAgain(w)
      BY <1>a, <3>2 DEF pollFails, captchaEnds, captchaAgain, Go, pageVars
    <3>3. CASE report(w)
      BY <1>0, <1>a, <3>3 DEF report, Go, LocalsEnd, Set, TypeOK
    <3> QED
      BY <1>2, <3>1, <3>2, <3>3
  <2> QED
    BY <1>d, <2>1
<1>3. ASSUME NEW w \in Workers, poll(w) PROVE FileExact'
  <2>1. /\ UNCHANGED <<file, unsaved, broken, read, url, i>> /\ pc[w] = "poll" /\ pc'[w] # "idle"
        /\ i[w] = 1 /\ count'[w] \in Nat /\ (pc'[w] = "extract" => count'[w] > 0)
        /\ \A v \in Workers : v # w => pc'[v] = pc[v] /\ count'[v] = count[v]
    <3>1. PICK c \in count[w] .. TableRows :
            /\ count' = Set(count, w, c)
            /\ \/ Settled(w, c) /\ Go(w, "poll", "extract")
               \/ ~ Settled(w, c) /\ Go(w, "poll", IF LastPoll(w) THEN "report" ELSE "poll")
            /\ UNCHANGED <<url, i, file, read, unsaved, broken>>
      BY <1>3 DEF poll
    <3>2. c \in Nat /\ (Settled(w, c) => c > 0)
      BY <1>0 DEF TypeOK, Settled
    <3>3. /\ pc[w] = "poll" /\ i[w] = 1
      BY <1>0, <3>1 DEF Go, LocalsInv
    <3>4. /\ count'[w] = c /\ \A v \in Workers : v # w => pc'[v] = pc[v] /\ count'[v] = count[v]
      BY <1>0, <1>a, <3>1 DEF Go, Set, TypeOK
    <3>5. pc'[w] # "idle" /\ (pc'[w] = "extract" => Settled(w, c))
      BY <1>a, <3>1 DEF Go
    <3> QED
      BY <3>1, <3>2, <3>3, <3>4, <3>5
  <2>2. CASE pc'[w] # "extract"
    BY <1>d, <2>1, <2>2
  <2>3. CASE pc'[w] = "extract"
    <3>1. Reached(w)' = 1
      BY <2>1, <2>3 DEF Reached
    <3>2. \A u \in Urls : \A r \in ValidRows[u] : ~ (r < 1)
      <4> SUFFICES ASSUME NEW u \in Urls PROVE \A r \in ValidRows[u] : ~ (r < 1)
        OBVIOUS
      <4>1. ValidRows[u] \subseteq 1 .. TableRows - 1
        BY RowsFinite
      <4> QED
        BY <4>1, Constants
    <3>3. \A v \in Workers : v # w => Reached(v)' = Reached(v)
      BY <2>1 DEF Reached
    <3>4. ASSUME NEW u \in Urls PROVE TendersRead(u)' = TendersRead(u)
      <4>1. ASSUME NEW r \in ValidRows[u]
            PROVE  (\E v \in Workers : url'[v] = u /\ pc'[v] = "extract" /\ r < Reached(v)')
                     <=> (\E v \in Workers : url[v] = u /\ pc[v] = "extract" /\ r < Reached(v))
        BY <2>1, <3>1, <3>2, <3>3
      <4> QED
        BY <2>1, <4>1 DEF TendersRead
    <3> QED
      BY <1>c, <2>1, <3>4
  <2> QED
    BY <2>2, <2>3
<1>4. ASSUME NEW w \in Workers, skipBatch(w) PROVE FileExact'
  <2>1. nextBatch(w) /\ Batch(w) = {} /\ UNCHANGED <<file, unsaved, broken>>
    BY <1>4 DEF skipBatch
  <2>2. ASSUME NEW u \in Urls PROVE TendersRead(u)' = TendersRead(u)
    <3>1. CASE u # url[w]
      BY <1>0, <2>1, <3>1, BatchRead
    <3>2. CASE u = url[w]
      <4>1. TendersRead(url[w])' = TendersRead(url[w])
        <5>1. /\ TendersRead(url[w]) = Below(url[w], i[w])
              /\ TendersRead(url[w])' = Below(url[w], i[w]) \cup Batch(w)
          BY <1>0, <2>1, BatchRead
        <5> QED
          BY <2>1, <5>1
      <4>2. url'[w] = url[w]
        BY <2>1 DEF nextBatch
      <4>3. TendersRead(u)' = TendersRead(url[w])'
        BY <3>2, <4>2
      <4> QED
        BY <3>2, <4>1, <4>3
    <3> QED
      BY <3>1, <3>2
  <2> QED
    BY <1>c, <2>1, <2>2
<1>5. ASSUME NEW w \in Workers, saveBatch(w) \/ saveFails(w) \/ saveBreaks(w) PROVE FileExact'
  <2>1. /\ nextBatch(w) /\ Batch(w) # {} /\ url' = url /\ url[w] \in Urls
        /\ unsaved' \subseteq unsaved \cup {<<url[w], i[w]>>} /\ unsaved \subseteq unsaved'
        /\ \A u \in Urls : u # url[w] => file'[u] = file[u] /\ (u \in broken' <=> u \in broken)
    BY <1>5, <1>a DEF saveBatch, saveFails, saveBreaks, nextBatch, Set
  <2>2. ASSUME NEW u \in Urls, u # url[w]
        PROVE  IF u \in broken' THEN PartOf(file'[u], Whole(u)') ELSE file'[u] = Whole(u)'
    <3>1. TendersRead(u)' = TendersRead(u)
      BY <2>1, <2>2, BatchRead
    <3>2. \A b : <<u, b>> \in unsaved' <=> <<u, b>> \in unsaved
      BY <2>1, <2>2
    <3>3. Whole(u)' = Whole(u)
      BY <3>1, <3>2, WholeKept
    <3> QED
      BY <1>0, <2>1, <2>2, <3>3 DEF FileExact
  <2>3. PICK u \in Urls : u = url[w]
    BY <2>1
  <2>4. IF u \in broken' THEN PartOf(file'[u], Whole(u)') ELSE file'[u] = Whole(u)'
    <3>1. CASE saveFails(w)
      <4>1. Whole(u)' = Whole(u)
        BY <2>1, <2>3, <3>1, WholeStays
      <4> QED
        BY <1>0, <3>1, <4>1 DEF saveFails, FileExact
    <3>2. CASE saveBatch(w)
      <4>1. CASE u \notin broken
        <5>1. file'[u] = Whole(u)'
          BY <2>1, <2>3, <3>2, <4>1, SaveStep
        <5> QED
          BY <3>2, <4>1, <5>1 DEF saveBatch
      <4>2. CASE u \in broken
        <5>1. Written(w) \in Seq(Lines)
          BY <2>1, BatchType
        <5>2. PartOf(Appended(Base(w), Written(w)), Whole(url[w])')
          BY <2>1, <3>2, <5>1, PartStep DEF saveBatch
        <5>3. file'[u] = Appended(Base(w), Written(w)) /\ u \in broken'
          BY <1>a, <2>3, <3>2, <4>2 DEF saveBatch, Set
        <5>4. Whole(u)' = Whole(url[w])'
          BY <2>1, <2>3
        <5> QED
          BY <5>2, <5>3, <5>4
      <4> QED
        BY <4>1, <4>2
    <3>3. CASE saveBreaks(w)
      <4>1. PICK n \in 0 .. Len(Written(w)) - 1, part \in {<<>>, <<Torn>>} :
              file' = Set(file, url[w], Appended(Base(w), SubSeq(Written(w), 1, n) \o part))
        BY <3>3 DEF saveBreaks
      <4>2. Written(w) \in Seq(Lines) /\ n \in 0 .. Len(Written(w))
        <5>1. Written(w) \in Seq(Lines)
          BY <2>1, BatchType
        <5> QED
          BY <4>1, <5>1, LenProperties
      <4>3. PICK lines \in Seq(Lines) : lines = SubSeq(Written(w), 1, n) \o part
        BY <4>2, PartType
      <4>4. PartOf(lines, Written(w))
        BY <2>1, <4>2, <4>3, WrittenOrdered, PartPrefix
      <4>5. PartOf(Appended(Base(w), lines), Whole(url[w])')
        BY <2>1, <3>3, <4>4, PartStep DEF saveBreaks
      <4>6. file'[u] = Appended(Base(w), lines) /\ u \in broken'
        BY <1>a, <2>3, <3>3, <4>1, <4>3 DEF saveBreaks, Set
      <4>7. Whole(u)' = Whole(url[w])'
        BY <2>1, <2>3
      <4> QED
        BY <4>5, <4>6, <4>7
    <3> QED
      BY <1>5, <3>1, <3>2, <3>3
  <2> QED
    BY <2>2, <2>3, <2>4 DEF FileExact
<1>6. ASSUME NEW w \in Workers, extracted(w) PROVE FileExact'
  <2>1. /\ UNCHANGED <<file, unsaved, broken, url>> /\ pc[w] = "extract" /\ pc'[w] = "idle"
        /\ read' = [read EXCEPT ![url[w]] = count[w]] /\ url[w] \in Urls /\ i[w] >= count[w]
        /\ \A v \in Workers : v # w => pc'[v] = pc[v] /\ i'[v] = i[v] /\ count'[v] = count[v]
    BY <1>0, <1>6, <1>a DEF extracted, Go, Set, LocalsEnd, TypeOK
  <2>2. Reached(w) = count[w]
    BY <1>0, <2>1 DEF Reached, TypeOK
  <2>3. \A v \in Workers : pc[v] = "extract" /\ url[v] = url[w] => v = w
    BY <1>0, <2>1 DEF HeldInv, Busy
  <2>4. TendersRead(url[w]) = Below(url[w], count[w])
    BY <1>0, <2>1, <2>2, ReadWhile
  <2>5. ASSUME NEW u \in Urls PROVE TendersRead(u)' = TendersRead(u)
    <3>1. CASE u = url[w]
      <4>1. \A v \in Workers : url'[v] = u => pc'[v] # "extract"
        BY <2>1, <2>3, <3>1
      <4>2. read'[u] = count[w]
        BY <1>a, <2>1, <3>1
      <4>3. TendersRead(u)' = Below(u, count[w])
        BY <4>1, <4>2 DEF TendersRead, Below
      <4> QED
        BY <2>4, <3>1, <4>3
    <3>2. CASE u # url[w]
      <4>1. read'[u] = read[u]
        BY <1>a, <2>1, <3>2
      <4>2. \A v \in Workers : url[v] = u =>
              url'[v] = u /\ pc'[v] = pc[v] /\ Reached(v)' = Reached(v)
        BY <2>1, <3>2 DEF Reached
      <4>3. \A v \in Workers : url'[v] = u <=> url[v] = u
        BY <2>1
      <4> QED
        BY <4>1, <4>2, <4>3 DEF TendersRead
    <3> QED
      BY <3>1, <3>2
  <2> QED
    BY <1>c, <2>1, <2>5
<1> QED
  BY <1>1, <1>2, <1>3, <1>4, <1>5, <1>6 DEF Next, worker

LEMMA NextInv == Inv /\ [Next]_vars => Inv'
  BY TypeStep, HeldStep, LocalsStep, UnsavedStep, FileStep DEF Inv

(***************************************************************************)
(* The inductive invariant of the crawl.                                   *)
(***************************************************************************)
THEOREM Invariance == Spec => []Inv
  BY InitInv, NextInv, PTL DEF Spec

(* The state of the crawl has its types, for every number of portals,      *)
(* workers and rows: errCh never holds more than it has room for, and the  *)
(* serial never passes the rows of the table.                              *)
THEOREM TypeOKAlways == Spec => []TypeOK
<1>1. Inv => TypeOK
  BY DEF Inv
<1> QED
  BY <1>1, Invariance, PTL

(* ExtractTenders: the file of every portal holds exactly its tenders read *)
(* so far, in order and numbered from 1, but those of unsaved batches, for *)
(* any size of batches and tables; and once a batch was written in part,   *)
(* some of those lines, still in order and once each, and torn ones.       *)
THEOREM FileExactAlways == Spec => []FileExact
<1>1. Inv => FileExact
  BY DEF Inv
<1> QED
  BY <1>1, Invariance, PTL

(* ActiveLinksBrowser: a crawl that returned has extracted every portal or *)
(* collected its error, never both, and says so in its own error.          *)
THEOREM ReturnExactAlways == Spec => []ReturnExact
<1>1. Inv => ReturnExact
  <2> SUFFICES ASSUME Inv, main = "returned" PROVE ReturnExact
    BY DEF ReturnExact
  <2>1. /\ TypeOK /\ FedInv /\ next = NumUrls + 1 /\ firstErr = (errCh # <<>>)
        /\ \A w \in Workers : ~ Busy(w)
    BY DEF Inv, MainInv, Busy
  <2>2. \A u \in Urls : u < next /\ NumUrls \in Nat
    BY <2>1, Constants DEF Urls
  <2>3. \A u \in Urls : (read[u] = 0) <=> Failed(u)
    BY <2>1, <2>2 DEF FedInv
  <2>4. firstErr <=> \E u \in Urls : Failed(u)
    <3>1. errCh \in Seq(Urls)
      BY <2>1 DEF TypeOK
    <3>2. CASE errCh = <<>>
      <4>1. \A u : ~ Failed(u)
        BY <3>2 DEF Failed
      <4> QED
        BY <2>1, <3>2, <4>1
    <3>3. CASE errCh # <<>>
      <4>1. 1 \in 1 .. Len(errCh) /\ errCh[1] \in Urls
        BY <3>1, <3>3
      <4>2. Failed(errCh[1])
        BY <4>1 DEF Failed
      <4> QED
        BY <2>1, <3>3, <4>1, <4>2
    <3> QED
      BY <3>2, <3>3
  <2>5. firstErr <=> \E u \in Urls : read[u] = 0
    BY <2>3, <2>4
  <2> QED
    BY <2>1, <2>3, <2>5, Zenon DEF ReturnExact, Failed, TypeOK
<1> QED
  BY <1>1, Invariance, PTL
==============================================================================
