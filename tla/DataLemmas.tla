--------------------------- MODULE DataLemmas -------------------------------
(***************************************************************************)
(* What several of the proofs need of numbers, sets and sequences.         *)
(***************************************************************************)
EXTENDS Integers, Lists, FiniteSetTheorems, SequenceTheorems, WellFoundedInduction,
        TLAPS

(* A set of natural numbers that is not empty has a least element.  What    *)
(* holds of each number if it holds of the smaller ones is proved with it:  *)
(* a least counterexample cannot be.                                        *)
LEMMA LeastNatural ==
  ASSUME NEW T \in SUBSET Nat, T # {}
  PROVE  \E x \in T : \A y \in T : x <= y
<1> DEFINE R == OpToRel(<, Nat)
<1>1. IsWellFoundedOn(R, Nat)
  BY NatLessThanWellFounded
<1>2. ASSUME NEW x \in T, NEW y \in T, y < x PROVE <<y, x>> \in R
  BY <1>2 DEF OpToRel
<1> HIDE DEF R
<1>3. PICK x \in T : \A y \in T : ~(<<y, x>> \in R)
  BY <1>1, WFMin
<1>4. ASSUME NEW y \in T PROVE x <= y
  <2>1. ~(y < x)
    BY <1>2, <1>3
  <2>2. x \in Nat /\ y \in Nat
    OBVIOUS
  <2> QED BY <2>1, <2>2
<1> QED BY <1>4

(* What holds of zero, and of a place if it holds of the one before, holds  *)
(* of all places: a least one for which it does not cannot be.              *)
LEMMA PlaceByPlace ==
  ASSUME NEW n \in Nat, NEW K, 0 \in K, \A k \in 1..n : k - 1 \in K => k \in K
  PROVE  0..n \subseteq K
<1> DEFINE U == { k \in 0..n : k \notin K }
<1>1. SUFFICES ASSUME U # {} PROVE FALSE
  OBVIOUS
<1>2. U \in SUBSET Nat
  OBVIOUS
<1>3. PICK k \in U : \A x \in U : k <= x
  <2> HIDE DEF U
  <2> QED BY <1>1, <1>2, LeastNatural
<1>4. k \in 1..n /\ k - 1 \in 0..n /\ ~(k <= k - 1)
  OBVIOUS
<1>5. k - 1 \in K
  BY <1>3, <1>4
<1> QED BY <1>4, <1>5

(* One to n are n numbers *)
LEMMA CountTo ==
  ASSUME NEW n \in Nat
  PROVE  IsFiniteSet(1..n) /\ Cardinality(1..n) = n
<1>1. IsFiniteSet(1..n)
  BY FS_Interval
<1>2. Cardinality(1..n) = IF 1 > n THEN 0 ELSE n - 1 + 1
  BY FS_Interval
<1> QED BY <1>1, <1>2

(* A sequence over a set is one over a larger set. *)
LEMMA WiderSeq ==
  ASSUME NEW S, NEW T, S \subseteq T, NEW s \in Seq(S)
  PROVE  s \in Seq(T)
BY SeqDef, LenProperties

(* A sequence is one over any set that has its elements. *)
LEMMA OfSeq ==
  ASSUME NEW S, NEW T, NEW s \in Seq(S), \A i \in 1..Len(s) : s[i] \in T PROVE s \in Seq(T)
<1>1. Len(s) \in Nat /\ s \in [1..Len(s) -> S]
  BY LenProperties
<1>2. s \in [1..Len(s) -> T]
  BY <1>1
<1> QED BY <1>1, <1>2

(* A function on the first n places is a sequence of length n. *)
LEMMA FunctionSeq ==
  ASSUME NEW S, NEW n \in Nat, NEW f \in [1..n -> S] PROVE f \in Seq(S) /\ Len(f) = n
<1>1. f \in Seq(S)
  BY SeqDef
<1>2. Len(f) \in Nat /\ DOMAIN f = 1..Len(f) /\ DOMAIN f = 1..n
  BY <1>1, LenProperties
<1>3. ~(Len(f) < n)
  <2>1. ASSUME Len(f) < n PROVE FALSE
    <3>1. n \in 1..n /\ n \notin 1..Len(f)
      BY <1>2, <2>1
    <3> QED BY <1>2, <3>1
  <2> QED BY <2>1
<1>4. ~(n < Len(f))
  <2>1. ASSUME n < Len(f) PROVE FALSE
    <3>1. Len(f) \in 1..Len(f) /\ Len(f) \notin 1..n
      BY <1>2, <2>1
    <3> QED BY <1>2, <3>1
  <2> QED BY <2>1
<1> QED BY <1>1, <1>2, <1>3, <1>4

(* A sequence of one and another. *)
LEMMA Second ==
  ASSUME NEW S, NEW a \in S, NEW b \in S PROVE Append(<< a >>, b) = << a, b >>
<1>1. << a >> \in Seq(S)
  OBVIOUS
<1> DEFINE s == << a >>
<1>2. s \in Seq(S) /\ Len(s) = 1 /\ s[1] = a
  OBVIOUS
<1> HIDE DEF s
<1>3. /\ Append(s, b) \in Seq(S) /\ Len(Append(s, b)) = Len(s) + 1
      /\ \A i \in 1..Len(s) : Append(s, b)[i] = s[i]
      /\ Append(s, b)[Len(s) + 1] = b
  <2>1. \A q \in Seq(S), e \in S :
          /\ Append(q, e) \in Seq(S) /\ Len(Append(q, e)) = Len(q) + 1
          /\ \A i \in 1..Len(q) : Append(q, e)[i] = q[i]
          /\ Append(q, e)[Len(q) + 1] = e
    BY AppendProperties
  <2> QED BY <1>2, <2>1
<1>4. Append(s, b) \in Seq(S) /\ << a, b >> \in Seq(S)
  BY <1>3
<1>5. Len(Append(s, b)) = Len(<< a, b >>)
  BY <1>2, <1>3
<1>6. \A i \in 1..Len(Append(s, b)) : Append(s, b)[i] = << a, b >>[i]
  BY <1>2, <1>3
<1> QED BY <1>4, <1>5, <1>6, SeqEqual DEF s

(* A sequence with a new first element. *)
LEMMA Prepended ==
  ASSUME NEW S, NEW s \in Seq(S), NEW x \in S
  PROVE  /\ << x >> \o s \in Seq(S) /\ DOMAIN s = 1..Len(s) /\ Len(s) \in Nat
         /\ DOMAIN (<< x >> \o s) = 1..Len(s) + 1
         /\ (<< x >> \o s)[1] = x
         /\ \A i \in 2..Len(s) + 1 : i - 1 \in 1..Len(s) /\ (<< x >> \o s)[i] = s[i - 1]
<1> DEFINE a == << x >>
<1>1. a \in Seq(S) /\ Len(a) = 1 /\ a[1] = x
  OBVIOUS
<1> HIDE DEF a
<1>2. Len(s) \in Nat /\ DOMAIN s = 1..Len(s)
  BY LenProperties
<1>3. /\ a \o s \in Seq(S) /\ Len(a \o s) = Len(a) + Len(s)
      /\ \A i \in 1..Len(a) + Len(s) :
           (a \o s)[i] = IF i <= Len(a) THEN a[i] ELSE s[i - Len(a)]
  BY <1>1, ConcatProperties
<1>4. DOMAIN (a \o s) = 1..Len(s) + 1
  BY <1>1, <1>2, <1>3, LenProperties
<1>5. (a \o s)[1] = x
  BY <1>1, <1>2, <1>3
<1>6. ASSUME NEW i \in 2..Len(s) + 1 PROVE i - 1 \in 1..Len(s) /\ (a \o s)[i] = s[i - 1]
  BY <1>1, <1>2, <1>3, <1>6
<1> QED BY <1>2, <1>3, <1>4, <1>5, <1>6 DEF a

(* A new element is one more. *)
LEMMA OneMore ==
  ASSUME NEW S, NEW x, NEW n \in Nat, IsFiniteSet(S), Cardinality(S) = n, x \notin S
  PROVE  IsFiniteSet(S \cup {x}) /\ Cardinality(S \cup {x}) = n + 1
BY FS_AddElement

-----------------------------------------------------------------------------
(* Folds, filters and sorts *)

(* The last of the first places *)
LEMMA LastPlace ==
  ASSUME NEW n \in Nat, NEW s, s \subseteq 1..n, n \in s PROVE Max(s) = n
<1>1. n \in s /\ \A y \in s : n >= y
  OBVIOUS
<1>2. \A x \in s : (\A y \in s : x >= y) => x = n
  BY <1>1
<1> QED BY <1>1, <1>2 DEF Max

(* A place that is not empty has a last one in it. *)
LEMMA SomeLast ==
  ASSUME NEW n \in Nat, NEW s, s \subseteq 1..n, s # {} PROVE Max(s) \in s
<1> DEFINE T == { k \in Nat : k <= n /\ n - k \in s }
<1>1. T \in SUBSET Nat /\ T # {}
  <2>1. PICK x \in s : TRUE
    OBVIOUS
  <2>2. x \in 1..n
    BY <2>1
  <2>3. n - x \in Nat /\ n - x <= n /\ n - (n - x) = x
    BY <2>2
  <2>4. n - x \in T
    BY <2>1, <2>3
  <2> QED BY <2>4
<1>2. PICK k \in T : \A y \in T : k <= y
  <2> HIDE DEF T
  <2> QED BY <1>1, LeastNatural
<1>3. n - k \in s /\ \A y \in s : n - k >= y
  <2>1. ASSUME NEW y \in s PROVE n - k >= y
    <3>1. y \in 1..n
      OBVIOUS
    <3>2. n - y \in T
      BY <3>1
    <3> QED BY <1>2, <3>1, <3>2
  <2> QED BY <1>2, <2>1
<1> QED BY <1>3 DEF Max

(* What a fold makes of the sets of the first n places, with a function for *)
(* its move, and that g is that                                             *)
FoldAt(move, base, v, g, s) ==
  IF s = {} THEN base ELSE move[<< g[s \ {Max(s)}], v[Max(s)] >>]
FoldedUp(move, base, v, g, n) ==
  g = [s \in SUBSET (1..n) |-> FoldAt(move, base, v, g, s)]

(* One place more *)
LEMMA FoldMore ==
  ASSUME NEW A, NEW B, NEW move \in [A \X B -> A], NEW base, NEW v, NEW n \in Nat,
         v[n + 1] \in B, NEW g \in [SUBSET (1..n) -> A], FoldedUp(move, base, v, g, n)
  PROVE  \E f \in [SUBSET (1..n + 1) -> A] : FoldedUp(move, base, v, f, n + 1)
<1> DEFINE f == [s \in SUBSET (1..n + 1) |->
                   IF n + 1 \in s THEN move[<< g[s \ {n + 1}], v[n + 1] >>] ELSE g[s]]
<1>1. \A s \in SUBSET (1..n + 1) :
        f[s] = IF n + 1 \in s THEN move[<< g[s \ {n + 1}], v[n + 1] >>] ELSE g[s]
  OBVIOUS
<1>2. f = [s \in SUBSET (1..n + 1) |-> f[s]]
  OBVIOUS
<1> HIDE DEF f
<1>3. \A s \in SUBSET (1..n) :
        g[s] = FoldAt(move, base, v, g, s) /\ s \in SUBSET (1..n + 1) /\ n + 1 \notin s
  BY DEF FoldedUp
<1>4. ASSUME NEW s \in SUBSET (1..n + 1) PROVE f[s] = FoldAt(move, base, v, f, s) /\ f[s] \in A
  <2>1. CASE n + 1 \in s
    <3>1. Max(s) = n + 1 /\ s # {}
      <4>1. n + 1 \in Nat /\ s \subseteq 1..n + 1
        OBVIOUS
      <4> QED BY <2>1, <4>1, LastPlace
    <3>2. s \ {n + 1} \in SUBSET (1..n)
      OBVIOUS
    <3>3. f[s \ {n + 1}] = g[s \ {n + 1}] /\ g[s \ {n + 1}] \in A
      BY <1>1, <1>3, <3>2
    <3> QED BY <1>1, <2>1, <3>1, <3>3 DEF FoldAt
  <2>2. CASE n + 1 \notin s
    <3>1. s \in SUBSET (1..n)
      BY <2>2
    <3>2. f[s] = FoldAt(move, base, v, g, s) /\ f[s] \in A
      BY <1>1, <1>3, <2>2, <3>1
    <3>3. s # {} => s \ {Max(s)} \in SUBSET (1..n)
      BY <3>1
    <3>4. s # {} => f[s \ {Max(s)}] = g[s \ {Max(s)}]
      BY <1>1, <1>3, <3>3
    <3> QED BY <3>2, <3>4 DEF FoldAt
  <2> QED BY <2>1, <2>2
<1>5. f \in [SUBSET (1..n + 1) -> A] /\ FoldedUp(move, base, v, f, n + 1)
  BY <1>2, <1>4 DEF FoldedUp
<1> QED BY <1>5

(* And so there is a fold. *)
LEMMA FoldAll ==
  ASSUME NEW A, NEW B, NEW move \in [A \X B -> A], NEW base \in A,
         NEW n \in Nat, NEW v \in [1..n -> B]
  PROVE  \E g \in [SUBSET (1..n) -> A] : FoldedUp(move, base, v, g, n)
<1> DEFINE Has(k) == \E g \in [SUBSET (1..k) -> A] : FoldedUp(move, base, v, g, k)
           T == { k \in 0..n : ~Has(k) }
<1>1. SUFFICES ASSUME T # {} PROVE FALSE
  <2> HIDE DEF Has
  <2>1. n \in 0..n
    OBVIOUS
  <2>2. T = {} => Has(n)
    BY <2>1
  <2> QED BY <2>2 DEF Has
<1>2. T \in SUBSET Nat
  OBVIOUS
<1>3. PICK k \in T : \A x \in T : k <= x
  <2> HIDE DEF T
  <2> QED BY <1>1, <1>2, LeastNatural
<1>4. k \in 0..n /\ ~Has(k)
  OBVIOUS
<1>5. k # 0
  <2> DEFINE g == [s \in SUBSET (1..0) |-> base]
  <2>1. g \in [SUBSET (1..0) -> A] /\ FoldedUp(move, base, v, g, 0)
    BY DEF FoldedUp, FoldAt
  <2>2. Has(0)
    BY <2>1
  <2> QED BY <1>4, <2>2
<1>6. k - 1 \in 0..n /\ ~(k <= k - 1) /\ k - 1 + 1 = k /\ k \in 1..n
  BY <1>4, <1>5
<1>7. Has(k - 1)
  BY <1>3, <1>6
<1>8. Has(k - 1 + 1)
  <2>1. PICK g \in [SUBSET (1..k - 1) -> A] : FoldedUp(move, base, v, g, k - 1)
    BY <1>7
  <2>2. k - 1 \in Nat /\ v[k - 1 + 1] \in B
    BY <1>6
  <2> HIDE DEF T
  <2> QED BY <2>1, <2>2, FoldMore
<1> HIDE DEF T, Has
<1>9. Has(k)
  BY <1>6, <1>8
<1> QED BY <1>4, <1>9

(* The sets of the first places *)
LEMMA SetOf ==
  ASSUME NEW n \in Nat
  PROVE  /\ {} \in SUBSET (1..n) /\ 1..0 = {}
         /\ \A k \in 1..n : /\ 1..k \in SUBSET (1..n) /\ 1..k # {} /\ Max(1..k) = k
                            /\ (1..k) \ {Max(1..k)} = 1..k - 1
<1>1. ASSUME NEW k \in 1..n
      PROVE  /\ 1..k \in SUBSET (1..n) /\ 1..k # {} /\ Max(1..k) = k
             /\ (1..k) \ {Max(1..k)} = 1..k - 1
  <2>1. k \in Nat /\ k \in 1..k /\ 1..k \in SUBSET (1..n) /\ (1..k) \ {k} = 1..k - 1
    OBVIOUS
  <2> QED BY <2>1, LastPlace
<1> QED BY <1>1

(* What the filter does, place by place.                                    *)
LEMMA KeptSteps ==
  ASSUME NEW T, NEW v \in Seq(T), NEW S
  PROVE  \E g : /\ g[1..0] = << >>
                /\ \A k \in 1..Len(v) :
                     g[1..k] = IF v[k] \in S THEN Append(g[1..k - 1], v[k]) ELSE g[1..k - 1]
                /\ Kept(v, S) = g[1..Len(v)]
<1> DEFINE n == Len(v)
           At(g, s) == IF s = {} THEN << >>
                       ELSE IF v[Max(s)] \in S THEN Append(g[s \ {Max(s)}], v[Max(s)])
                       ELSE g[s \ {Max(s)}]
           Is(g) == g = [s \in SUBSET (1..n) |-> At(g, s)]
           move == [p \in Seq(T) \X T |->
                      IF p[2] \in S THEN Append(p[1], p[2]) ELSE p[1]]
<1>1. n \in Nat /\ DOMAIN v = 1..n /\ v \in [1..n -> T]
  BY LenProperties
<1>2. move \in [Seq(T) \X T -> Seq(T)]
  BY AppendProperties
<1>3. PICK h \in [SUBSET (1..n) -> Seq(T)] : FoldedUp(move, << >>, v, h, n)
  <2>1. << >> \in Seq(T)
    OBVIOUS
  <2> HIDE DEF n, move
  <2> QED BY <1>1, <1>2, <2>1, FoldAll
<1>4. \A s \in SUBSET (1..n) : h[s] = At(h, s)
  <2>1. ASSUME NEW s \in SUBSET (1..n), s # {} PROVE h[s] = At(h, s)
    <3>1. Max(s) \in s
      BY <1>1, <2>1, SomeLast
    <3>2. h[s \ {Max(s)}] \in Seq(T) /\ v[Max(s)] \in T
      BY <1>1, <1>3, <3>1
    <3>3. h[s] = move[<< h[s \ {Max(s)}], v[Max(s)] >>]
      BY <1>3, <2>1 DEF FoldedUp, FoldAt
    <3> QED BY <2>1, <3>2, <3>3
  <2>2. h[{}] = << >>
    BY <1>3 DEF FoldedUp, FoldAt
  <2> QED BY <2>1, <2>2
<1>5. Is(h)
  <2>1. h = [s \in SUBSET (1..n) |-> h[s]]
    BY <1>3
  <2> QED BY <1>4, <2>1
<1> DEFINE g == CHOOSE f : Is(f)
<1>6. Is(g)
  <2> HIDE DEF Is
  <2> QED BY <1>5
<1>7. Kept(v, S) = g[1..n]
  BY <1>1 DEF Kept, FoldLeft, MapThenFoldSet
<1> HIDE DEF g
<1>8. \A s \in SUBSET (1..n) : g[s] = At(g, s)
  BY <1>6
<1>9. g[1..0] = << >>
  BY <1>1, <1>8, SetOf
<1>10. \A k \in 1..n :
         g[1..k] = IF v[k] \in S THEN Append(g[1..k - 1], v[k]) ELSE g[1..k - 1]
  BY <1>1, <1>8, SetOf
<1> QED BY <1>7, <1>9, <1>10

(* It keeps what passes, all of it, in its order.                           *)
KeepsBy(p, r, v, S) ==
  /\ p \in [1..Len(r) -> 1..Len(v)]
  /\ \A i \in 1..Len(r) : r[i] = v[p[i]] /\ v[p[i]] \in S
  /\ \A i, j \in 1..Len(r) : i < j => p[i] < p[j]
  /\ \A k \in 1..Len(v) : v[k] \in S => \E i \in 1..Len(r) : p[i] = k

LEMMA KeptOf ==
  ASSUME NEW T, NEW v \in Seq(T), NEW S
  PROVE  /\ Kept(v, S) \in Seq(T)
         /\ \E p : KeepsBy(p, Kept(v, S), v, S)
<1> DEFINE n == Len(v)
           Does(r, p, k) ==
             /\ p \in [1..Len(r) -> 1..k]
             /\ \A i \in 1..Len(r) : r[i] = v[p[i]] /\ v[p[i]] \in S
             /\ \A i, j \in 1..Len(r) : i < j => p[i] < p[j]
             /\ \A m \in 1..k : v[m] \in S => \E i \in 1..Len(r) : p[i] = m
           Holds(r, k) == r \in Seq(T) /\ \E p : Does(r, p, k)
<1>1. n \in Nat /\ v \in [1..n -> T]
  BY LenProperties
<1>2. PICK g :
        /\ g[1..0] = << >>
        /\ \A k \in 1..n :
             g[1..k] = IF v[k] \in S THEN Append(g[1..k - 1], v[k]) ELSE g[1..k - 1]
        /\ Kept(v, S) = g[1..n]
  BY KeptSteps
<1> DEFINE U == { k \in 0..n : ~Holds(g[1..k], k) }
<1>3. Holds(g[1..0], 0)
  <2>1. << >> \in Seq(T) /\ Len(<< >>) = 0
    OBVIOUS
  <2>2. Does(<< >>, [i \in 1..0 |-> i], 0)
    BY <2>1
  <2>3. Holds(<< >>, 0)
    <3> HIDE DEF Does
    <3> QED BY <2>1, <2>2
  <2> HIDE DEF Holds
  <2> QED BY <1>2, <2>3
<1>4. ASSUME NEW k \in 1..n, Holds(g[1..k - 1], k - 1) PROVE Holds(g[1..k], k)
  <2> DEFINE r == g[1..k - 1]
             q == g[1..k]
  <2>1. PICK p : Does(r, p, k - 1)
    BY <1>4
  <2>2. r \in Seq(T) /\ Len(r) \in Nat /\ v[k] \in T
    BY <1>1, <1>4, LenProperties
  <2>3. q = IF v[k] \in S THEN Append(r, v[k]) ELSE r
    BY <1>2
  <2> HIDE DEF r, q
  <2>4. \A i \in 1..Len(r) : p[i] \in 1..k - 1 /\ p[i] \in 1..k
    BY <2>1
  <2>5. ASSUME v[k] \notin S PROVE q \in Seq(T) /\ Does(q, p, k)
    <3>1. q = r
      BY <2>3, <2>5
    <3>2. p \in [1..Len(r) -> 1..k]
      BY <2>1, <2>4
    <3>3. \A m \in 1..k : v[m] \in S => m \in 1..k - 1
      BY <2>5
    <3> QED BY <2>1, <2>2, <3>1, <3>2, <3>3
  <2>6. ASSUME v[k] \in S
        PROVE  q \in Seq(T) /\ Does(q, [i \in 1..Len(r) + 1 |-> IF i <= Len(r) THEN p[i] ELSE k], k)
    <3> DEFINE o == [i \in 1..Len(r) + 1 |-> IF i <= Len(r) THEN p[i] ELSE k]
    <3>1. /\ q \in Seq(T) /\ Len(q) = Len(r) + 1
          /\ \A i \in 1..Len(r) : q[i] = r[i]
          /\ q[Len(r) + 1] = v[k]
      BY <2>2, <2>3, <2>6, AppendProperties
    <3>2. /\ \A i \in 1..Len(r) : i \in 1..Len(r) + 1 /\ o[i] = p[i]
          /\ Len(r) + 1 \in 1..Len(r) + 1 /\ o[Len(r) + 1] = k
          /\ \A i \in 1..Len(r) + 1 : i \in 1..Len(r) \/ i = Len(r) + 1
      BY <2>2
    <3>3. o \in [1..Len(q) -> 1..k]
      BY <2>2, <2>4, <3>1
    <3> HIDE DEF o
    <3>4. \A i \in 1..Len(q) : q[i] = v[o[i]] /\ v[o[i]] \in S
      BY <2>1, <2>2, <2>6, <3>1, <3>2
    <3>5. ASSUME NEW i \in 1..Len(q), NEW j \in 1..Len(q), i < j PROVE o[i] < o[j]
      <4>1. i \in 1..Len(r)
        BY <2>2, <3>1, <3>5
      <4>2. CASE j \in 1..Len(r)
        BY <2>1, <3>2, <3>5, <4>1, <4>2
      <4>3. CASE j = Len(r) + 1
        <5>1. o[i] \in 1..k - 1 /\ o[j] = k
          BY <2>4, <3>2, <4>1, <4>3
        <5> QED BY <5>1
      <4> QED BY <3>1, <3>2, <4>2, <4>3
    <3>6. ASSUME NEW m \in 1..k, v[m] \in S PROVE \E i \in 1..Len(q) : o[i] = m
      <4>1. CASE m = k
        BY <3>1, <3>2, <4>1
      <4>2. CASE m \in 1..k - 1
        <5>1. PICK i \in 1..Len(r) : p[i] = m
          BY <2>1, <3>6, <4>2
        <5> QED BY <3>1, <3>2, <5>1
      <4> QED BY <4>1, <4>2
    <3>7. Does(q, o, k)
      BY <3>3, <3>4, <3>5, <3>6
    <3> QED BY <3>1, <3>7 DEF o
  <2>7. q \in Seq(T) /\ \E o : Does(q, o, k)
    <3> HIDE DEF Does
    <3> QED BY <2>5, <2>6
  <2> QED BY <2>7 DEF q
<1> HIDE DEF Holds
<1>5. U = {}
  <2>1. SUFFICES ASSUME U # {} PROVE FALSE
    OBVIOUS
  <2>2. U \in SUBSET Nat
    OBVIOUS
  <2>3. PICK k \in U : \A x \in U : k <= x
    <3> HIDE DEF U
    <3> QED BY <2>1, <2>2, LeastNatural
  <2>4. k \in 1..n /\ k - 1 \in 0..n /\ ~(k <= k - 1)
    BY <1>3
  <2>5. Holds(g[1..k - 1], k - 1)
    BY <2>3, <2>4
  <2> QED BY <1>4, <2>3, <2>4, <2>5
<1>6. Holds(Kept(v, S), n)
  <2>1. n \in 0..n
    BY <1>1
  <2> QED BY <1>2, <1>5, <2>1
<1> QED BY <1>6 DEF Holds, KeepsBy

(* Where everything passes nothing changes.                                 *)
LEMMA KeptWhole ==
  ASSUME NEW T, NEW v \in Seq(T), NEW S, \A k \in 1..Len(v) : v[k] \in S
  PROVE  Kept(v, S) = v
<1> DEFINE n == Len(v)
           Same(r, k) == r \in Seq(T) /\ Len(r) = k /\ \A i \in 1..k : r[i] = v[i]
<1>1. n \in Nat /\ v \in [1..n -> T]
  BY LenProperties
<1>2. PICK g :
        /\ g[1..0] = << >>
        /\ \A k \in 1..n :
             g[1..k] = IF v[k] \in S THEN Append(g[1..k - 1], v[k]) ELSE g[1..k - 1]
        /\ Kept(v, S) = g[1..n]
  BY KeptSteps
<1> DEFINE U == { k \in 0..n : ~Same(g[1..k], k) }
<1>3. Same(g[1..0], 0)
  BY <1>2
<1>4. ASSUME NEW k \in 1..n, Same(g[1..k - 1], k - 1) PROVE Same(g[1..k], k)
  <2> DEFINE r == g[1..k - 1]
  <2>1. g[1..k] = Append(r, v[k]) /\ v[k] \in T
    BY <1>1, <1>2
  <2>2. r \in Seq(T) /\ Len(r) = k - 1 /\ \A i \in 1..k - 1 : r[i] = v[i]
    BY <1>4
  <2> HIDE DEF r
  <2>3. /\ Append(r, v[k]) \in Seq(T) /\ Len(Append(r, v[k])) = k
        /\ \A i \in 1..k - 1 : Append(r, v[k])[i] = r[i]
        /\ Append(r, v[k])[k] = v[k]
    BY <2>1, <2>2, AppendProperties
  <2> QED BY <2>1, <2>2, <2>3
<1> HIDE DEF Same
<1>5. U = {}
  <2>1. SUFFICES ASSUME U # {} PROVE FALSE
    OBVIOUS
  <2>2. U \in SUBSET Nat
    OBVIOUS
  <2>3. PICK k \in U : \A x \in U : k <= x
    <3> HIDE DEF U
    <3> QED BY <2>1, <2>2, LeastNatural
  <2>4. k \in 1..n /\ k - 1 \in 0..n /\ ~(k <= k - 1)
    BY <1>3
  <2>5. Same(g[1..k - 1], k - 1)
    BY <2>3, <2>4
  <2> QED BY <1>4, <2>3, <2>4, <2>5
<1>6. Same(Kept(v, S), n)
  <2>1. n \in 0..n
    BY <1>1
  <2> QED BY <1>2, <1>5, <2>1
<1> QED BY <1>1, <1>6, SeqEqual DEF Same

(* A sorted list has every member of a finite set, in an order that is total *)
LEMMA ArrangedIs ==
  ASSUME NEW S, IsFiniteSet(S), NEW R,
         \A x, y \in S : x # y => << x, y >> \in R \/ << y, x >> \in R,
         \A x \in S : << x, x >> \notin R,
         \A x, y, z \in S : << x, y >> \in R /\ << y, z >> \in R => << x, z >> \in R
  PROVE  /\ Arranged(S, R) \in [1..Cardinality(S) -> S] /\ Cardinality(S) \in Nat
         /\ \A x \in S : \E i \in 1..Cardinality(S) : Arranged(S, R)[i] = x
         /\ \A i, j \in 1..Cardinality(S) :
              i < j => << Arranged(S, R)[i], Arranged(S, R)[j] >> \in R
<1> DEFINE n == Cardinality(S)
           Below(x) == { y \in S : << y, x >> \in R }
           rank == [x \in S |-> Cardinality(Below(x)) + 1]
<1>1. n \in Nat
  BY FS_CardinalityType
<1>2. ASSUME NEW x \in S PROVE rank[x] \in 1..n
  <2>1. Below(x) \in SUBSET (S \ {x})
    OBVIOUS
  <2> HIDE DEF Below
  <2>2. IsFiniteSet(S \ {x}) /\ Cardinality(S \ {x}) = n - 1
    BY FS_RemoveElement
  <2>3. IsFiniteSet(Below(x)) /\ Cardinality(Below(x)) <= n - 1
    BY <2>1, <2>2, FS_Subset
  <2>4. Cardinality(Below(x)) \in Nat
    BY <2>3, FS_CardinalityType
  <2> HIDE DEF n
  <2> QED BY <1>1, <2>3, <2>4
<1>3. ASSUME NEW x \in S, NEW y \in S, << x, y >> \in R PROVE rank[x] < rank[y]
  <2>1. IsFiniteSet(Below(x)) /\ IsFiniteSet(Below(y))
    <3>1. Below(x) \in SUBSET S /\ Below(y) \in SUBSET S
      OBVIOUS
    <3> QED BY <3>1, FS_Subset
  <2>2. Below(x) \in SUBSET (Below(y) \ {x}) /\ x \in Below(y)
    BY <1>3
  <2> HIDE DEF Below
  <2>3. IsFiniteSet(Below(y) \ {x}) /\ Cardinality(Below(y) \ {x}) = Cardinality(Below(y)) - 1
    BY <2>1, <2>2, FS_RemoveElement
  <2>4. Cardinality(Below(x)) <= Cardinality(Below(y)) - 1
    BY <2>2, <2>3, FS_Subset
  <2>5. Cardinality(Below(x)) \in Nat /\ Cardinality(Below(y)) \in Nat
    BY <2>1, FS_CardinalityType
  <2> QED BY <2>4, <2>5
<1>4. \A x \in S : rank[x] \in 1..n
  BY <1>2
<1>5. \A x, y \in S : << x, y >> \in R => rank[x] < rank[y]
  BY <1>3
<1>6. DOMAIN rank = S /\ rank = [x \in S |-> rank[x]]
  OBVIOUS
<1> HIDE DEF rank, Below
<1>7. rank \in [S -> 1..n]
  BY <1>4, <1>6
<1>8. rank \in Injection(S, 1..n)
  <2>1. ASSUME NEW x \in S, NEW y \in S, rank[x] = rank[y] PROVE x = y
    <3>1. rank[x] \in Int /\ rank[y] \in Int
      BY <1>4
    <3>2. ~(rank[x] < rank[y]) /\ ~(rank[y] < rank[x])
      BY <2>1, <3>1
    <3> QED BY <1>5, <3>2
  <2> QED BY <1>7, <2>1 DEF Injection, IsInjective
<1>9. rank \in Surjection(S, 1..n)
  <2>1. IsFiniteSet(1..n) /\ Cardinality(1..n) = n
    BY <1>1, CountTo
  <2> QED BY <1>8, <2>1, FS_Injection
<1> DEFINE list == [i \in 1..n |-> CHOOSE x \in S : rank[x] = i]
           Lists == { l \in [1..n -> S] :
                      /\ \A x \in S : \E i \in DOMAIN l : l[i] = x
                      /\ \A i, j \in DOMAIN l : i < j => << l[i], l[j] >> \in R }
<1>10. \A i \in 1..n : list[i] \in S /\ rank[list[i]] = i
  BY <1>9 DEF Surjection
<1>11. DOMAIN list = 1..n /\ list \in [1..n -> S]
  BY <1>10
<1> HIDE DEF list, n
<1>12. \A x \in S : \E i \in 1..n : list[i] = x
  <2> TAKE x \in S
  <2>1. rank[x] \in 1..n
    BY <1>4
  <2>2. list[rank[x]] \in S /\ rank[list[rank[x]]] = rank[x]
    BY <1>10, <2>1
  <2>3. list[rank[x]] = x
    BY <1>4, <1>8, <2>2 DEF Injection, IsInjective
  <2> QED BY <2>1, <2>3
<1>13. \A i, j \in 1..n : i < j => << list[i], list[j] >> \in R
  <2> SUFFICES ASSUME NEW i \in 1..n, NEW j \in 1..n, i < j PROVE << list[i], list[j] >> \in R
    OBVIOUS
  <2>1. list[i] \in S /\ list[j] \in S /\ rank[list[i]] = i /\ rank[list[j]] = j
    BY <1>10
  <2>2. list[i] # list[j]
    BY <1>1, <2>1
  <2>3. ~(<< list[j], list[i] >> \in R)
    <3>1. ~(j < i)
      BY <1>1
    <3> QED BY <1>5, <2>1, <3>1
  <2> QED BY <2>1, <2>2, <2>3
<1>14. list \in Lists
  BY <1>11, <1>12, <1>13
<1>15. Arranged(S, R) \in Lists
  BY <1>14 DEF Arranged, n
<1> QED BY <1>1, <1>15 DEF n

(* What is in a filtered list was in the list, and passed                   *)
LEMMA KeptIn ==
  ASSUME NEW T, NEW v \in Seq(T), NEW S
  PROVE  /\ Kept(v, S) \in Seq(T)
         /\ \A i \in 1..Len(Kept(v, S)) : \E k \in 1..Len(v) : Kept(v, S)[i] = v[k] /\ v[k] \in S
<1>1. Kept(v, S) \in Seq(T)
  BY KeptOf
<1>2. PICK p : KeepsBy(p, Kept(v, S), v, S)
  BY KeptOf
<1> QED BY <1>1, <1>2 DEF KeepsBy

(* What a function makes of a finite set is finite                          *)
LEMMA ImageFinite ==
  ASSUME NEW S, IsFiniteSet(S), NEW f PROVE IsFiniteSet({ f[x] : x \in S })
<1> DEFINE T == { f[x] : x \in S }
           g == [x \in S |-> f[x]]
<1>1. g \in Surjection(S, T)
  BY DEF Surjection
<1> HIDE DEF g, T
<1>2. IsFiniteSet(T)
  BY <1>1, FS_Surjection
<1> QED BY <1>2 DEF T
=============================================================================
