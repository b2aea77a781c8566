------------------------ MODULE CdrTransferProofs ---------------------------
(***************************************************************************)
(* A sample arrives whole or not at all, for every length, every cut into  *)
(* slices, every chain of fragments and any number of writers that forward it. *)
(***************************************************************************)
EXTENDS CdrTransfer, DataLemmas, SequenceTheorems, TLAPS

-----------------------------------------------------------------------------
(* Sequences of slices *)

(* What FlattenSeq makes of the first i slices of w, and that f does so *)
JoinedAt(f, w, i) == IF i = 1 THEN w[i] ELSE f[i - 1] \o w[i]
Joins(f, w, m) == f = [i \in 1..m |-> JoinedAt(f, w, i)]

(* Where no such f is *)
Unjoined(w, n) == { m \in 1..n : ~\E f : Joins(f, w, m) }

(* The slices of a sequence can be joined one by one: the first, *)
LEMMA JoinsOne ==
  ASSUME NEW w PROVE \E f : Joins(f, w, 1)
<1>1. \A i \in 1..1 : [j \in 1..1 |-> w[j]][i] = JoinedAt([j \in 1..1 |-> w[j]], w, i)
  BY DEF JoinedAt
<1> QED BY <1>1 DEF Joins

(* one more than the last, *)
LEMMA JoinsMore ==
  ASSUME NEW w, NEW m \in Nat, m > 1, NEW g, Joins(g, w, m - 1)
  PROVE  \E f : Joins(f, w, m)
<1> DEFINE joined == g[m - 1] \o w[m]
           f == [i \in 1..m |-> IF i = m THEN joined ELSE g[i]]
<1>1. joined = g[m - 1] \o w[m]
  OBVIOUS
<1> HIDE DEF joined
<1>2. ASSUME NEW i \in 1..m PROVE f[i] = JoinedAt(f, w, i)
  <2>1. CASE i = m
    <3>1. f[m] = joined /\ f[m - 1] = g[m - 1]
      OBVIOUS
    <3>2. m # 1
      OBVIOUS
    <3> HIDE DEF f
    <3>3. JoinedAt(f, w, m) = f[m - 1] \o w[m]
      BY <3>2 DEF JoinedAt
    <3> QED BY <1>1, <2>1, <3>1, <3>3
  <2>2. CASE i # m
    <3>1. i \in 1..m - 1 /\ f[i] = g[i]
      BY <2>2
    <3>2. g[i] = JoinedAt(g, w, i)
      BY <3>1 DEF Joins
    <3>3. i # 1 => f[i - 1] = g[i - 1]
      BY <3>1
    <3> HIDE DEF f
    <3>4. CASE i = 1
      BY <3>1, <3>2, <3>4 DEF JoinedAt
    <3>5. CASE i # 1
      BY <3>1, <3>2, <3>3, <3>5 DEF JoinedAt
    <3> QED BY <3>4, <3>5
  <2> QED BY <2>1, <2>2
<1>3. Joins(f, w, m)
  BY <1>2 DEF Joins
<1> QED BY <1>3

(* and so all of them: a least number that cannot be reached is not there. *)
LEMMA JoinsAll ==
  ASSUME NEW w, NEW n \in Nat, n >= 1 PROVE \E f : Joins(f, w, n)
<1>1. SUFFICES ASSUME Unjoined(w, n) # {} PROVE FALSE
  BY <1>1 DEF Unjoined
<1>2. Unjoined(w, n) \in SUBSET Nat
  BY DEF Unjoined
<1>3. PICK m \in Unjoined(w, n) : \A x \in Unjoined(w, n) : m <= x
  BY <1>1, <1>2, LeastNatural
<1>4. m \in 1..n /\ ~\E f : Joins(f, w, m)
  BY DEF Unjoined
<1>5. m # 1
  BY <1>4, JoinsOne
<1>6. m - 1 \in 1..n /\ m - 1 \notin Unjoined(w, n)
  <2>1. m - 1 \in 1..n /\ ~(m <= m - 1)
    BY <1>4, <1>5
  <2> QED BY <1>3, <2>1
<1>7. PICK g : Joins(g, w, m - 1)
  BY <1>6 DEF Unjoined
<1> QED BY <1>4, <1>5, <1>7, JoinsMore

(* FlattenSeq joins them one by one. *)
LEMMA FlattenSteps ==
  ASSUME NEW S, NEW w \in Seq(Seq(S)), w # << >>
  PROVE  \E f : /\ f[1] = w[1]
                /\ \A i \in 2..Len(w) : f[i] = f[i - 1] \o w[i]
                /\ FlattenSeq(w) = f[Len(w)]
<1>1. Len(w) \in Nat /\ Len(w) >= 1
  BY LenProperties, EmptySeq
<1> DEFINE f == CHOOSE h : Joins(h, w, Len(w))
<1>2. Joins(f, w, Len(w))
  BY <1>1, JoinsAll
<1>3. FlattenSeq(w) = f[Len(w)]
  BY <1>1 DEF FlattenSeq, Joins, JoinedAt
<1> HIDE DEF f
<1>4. \A i \in 1..Len(w) : f[i] = JoinedAt(f, w, i)
  BY <1>2 DEF Joins
<1>5. 1 \in 1..Len(w) /\ \A i \in 2..Len(w) : i \in 1..Len(w) /\ i # 1
  BY <1>1
<1>6. f[1] = w[1]
  BY <1>4, <1>5 DEF JoinedAt
<1>7. ASSUME NEW i \in 2..Len(w) PROVE f[i] = f[i - 1] \o w[i]
  <2>1. f[i] = JoinedAt(f, w, i) /\ i # 1
    BY <1>4, <1>5
  <2> QED BY <2>1 DEF JoinedAt
<1> QED BY <1>3, <1>6, <1>7

(* The first n bytes *)

(* The first n bytes of the payload *)
Prefix(s, n) == s \in Seq(Nat) /\ Len(s) = n /\ \A i \in 1..n : s[i] = i

(* The first n bytes in slices, none of them empty *)

(* One slice begins where the other ends *)
Follows(s, t) == t[1] = s[1] + Len(s)

(* The first bytes, cut into slices none of which is empty *)
Cut(w, n) ==
  /\ w \in Seq(Seq(Nat))
  /\ \A k \in 1..Len(w) : Len(w[k]) > 0 /\ \A i \in 1..Len(w[k]) : w[k][i] = w[k][1] + i - 1
  /\ \A k \in 2..Len(w) : Follows(w[k - 1], w[k])
  /\ \A k \in 1..Len(w) : w[k][1] + Len(w[k]) <= n + 1
  /\ w # << >> => w[1][1] = 1 /\ w[Len(w)][1] + Len(w[Len(w)]) = n + 1
  /\ w = << >> => n = 0

(* The first bytes, with the next ones behind them, are the first bytes     *)
(* still.                                                                   *)
LEMMA PrefixGrows ==
  ASSUME NEW n \in Nat, NEW s, Prefix(s, n), NEW t \in Seq(Nat), \A i \in 1..Len(t) : t[i] = n + i
  PROVE  Prefix(s \o t, n + Len(t))
<1> DEFINE u == s \o t
<1>0. s \in Seq(Nat) /\ Len(s) = n /\ Len(t) \in Nat
  BY LenProperties DEF Prefix
<1>1. /\ s \in Seq(Nat) /\ Len(s) = n /\ Len(t) \in Nat
      /\ u \in Seq(Nat) /\ Len(u) = Len(s) + Len(t)
      /\ \A i \in 1..Len(s) + Len(t) : u[i] = IF i <= Len(s) THEN s[i] ELSE t[i - Len(s)]
  BY <1>0, ConcatProperties
<1> HIDE DEF u
<1>2. ASSUME NEW i \in 1..n + Len(t) PROVE u[i] = i
  <2>1. CASE i <= n
    <3>1. i \in 1..n /\ u[i] = s[i]
      BY <1>1, <2>1
    <3> QED BY <3>1 DEF Prefix
  <2>2. CASE i > n
    <3>1. i - n \in 1..Len(t) /\ u[i] = t[i - n]
      BY <1>1, <2>2
    <3>2. t[i - n] = n + (i - n)
      BY <3>1
    <3> QED BY <3>1, <3>2
  <2> QED BY <2>1, <2>2
<1> QED BY <1>1, <1>2 DEF Prefix, u

(* All of the bytes in order are the payload, *)
LEMMA PrefixPayload == ASSUME NEW s, Prefix(s, Length) PROVE s = Payload
<1>1. s = [i \in 1..Length |-> s[i]] /\ \A i \in 1..Length : s[i] = i
  BY LenProperties DEF Prefix
<1> QED BY <1>1 DEF Payload

(* and the payload is all of them in order. *)
LEMMA PayloadPrefix ==
  Payload \in Seq(Nat) /\ Len(Payload) = Length /\ \A i \in 1..Length : Payload[i] = i
<1>1. Length \in Nat
  BY CdrTransferAssumption
<1> QED BY <1>1 DEF Payload

(* The slices that a sequence of bytes was cut into give it when joined. *)
LEMMA CutJoins ==
  ASSUME NEW n \in Nat, NEW w, Cut(w, n), w # << >>
  PROVE  Prefix(FlattenSeq(w), n)
<1>1. /\ w \in Seq(Seq(Nat)) /\ Len(w) \in Nat /\ Len(w) >= 1
      /\ \A k \in 1..Len(w) : w[k] \in Seq(Nat) /\ Len(w[k]) \in Nat /\ Len(w[k]) > 0 /\ w[k][1] \in Nat
  <2>1. w \in Seq(Seq(Nat)) /\ Len(w) \in Nat /\ Len(w) # 0
    BY LenProperties, EmptySeq DEF Cut
  <2>2. \A k \in 1..Len(w) : w[k] \in Seq(Nat)
    BY <2>1, LenProperties
  <2>3. ASSUME NEW k \in 1..Len(w) PROVE Len(w[k]) \in Nat /\ Len(w[k]) > 0 /\ w[k][1] \in Nat
    <3>1. Len(w[k]) \in Nat /\ Len(w[k]) > 0
      BY <2>2, LenProperties DEF Cut
    <3> QED BY <2>2, <3>1, LenProperties
  <2> QED BY <2>1, <2>2, <2>3
<1>2. PICK f : /\ f[1] = w[1]
               /\ \A i \in 2..Len(w) : f[i] = f[i - 1] \o w[i]
               /\ FlattenSeq(w) = f[Len(w)]
  BY <1>1, FlattenSteps
<1> DEFINE end(k) == w[k][1] + Len(w[k]) - 1
           T == { k \in 1..Len(w) : ~Prefix(f[k], end(k)) }
<1>3. T = {}
  <2>1. SUFFICES ASSUME T # {} PROVE FALSE
    OBVIOUS
  <2>2. T \in SUBSET Nat
    BY <1>1
  <2>3. PICK k \in T : \A x \in T : k <= x
    <3> HIDE DEF T
    <3> QED BY <2>1, <2>2, LeastNatural
  <2>4. k \in 1..Len(w) /\ ~Prefix(f[k], end(k))
    OBVIOUS
  <2>5. CASE k = 1
    <3>1. w[1][1] = 1 /\ 1 \in 1..Len(w)
      BY <1>1 DEF Cut
    <3>2. end(1) = Len(w[1])
      BY <1>1, <3>1
    <3>3. \A i \in 1..Len(w[1]) : w[1][i] = i
      <4>1. \A i \in 1..Len(w[1]) : w[1][i] = w[1][1] + i - 1
        BY <3>1 DEF Cut
      <4> QED BY <1>1, <3>1, <4>1
    <3>4. Prefix(w[1], end(1))
      BY <1>1, <3>1, <3>2, <3>3 DEF Prefix
    <3> QED BY <1>2, <2>4, <2>5, <3>4
  <2>6. CASE k # 1
    <3>1. k \in 2..Len(w) /\ k - 1 \in 1..Len(w)
      BY <1>1, <2>4, <2>6
    <3>2. Prefix(f[k - 1], end(k - 1))
      <4>1. k - 1 \notin T
        <5>1. ~(k <= k - 1)
          BY <1>1, <2>4
        <5> QED BY <2>3, <5>1
      <4> QED BY <3>1, <4>1
    <3>3. end(k - 1) + 1 = w[k][1] /\ end(k - 1) \in Nat
      <4>1. w[k][1] = w[k - 1][1] + Len(w[k - 1])
        BY <3>1 DEF Cut, Follows
      <4>2. w[k - 1][1] \in Nat /\ Len(w[k - 1]) \in Nat /\ Len(w[k - 1]) > 0
        BY <1>1, <3>1
      <4>3. end(k - 1) = w[k - 1][1] + Len(w[k - 1]) - 1
        OBVIOUS
      <4> HIDE DEF end
      <4>4. \A a, b \in Nat : b > 0 => (a + b - 1) + 1 = a + b /\ a + b - 1 \in Nat
        OBVIOUS
      <4> QED BY <4>1, <4>2, <4>3, <4>4
    <3>4. \A i \in 1..Len(w[k]) : w[k][i] = w[k][1] + i - 1
      BY <2>4 DEF Cut
    <3>5. \A i \in 1..Len(w[k]) : w[k][i] = end(k - 1) + i
      BY SMTT(30), <1>1, <2>4, <3>3, <3>4
    <3>6. end(k) = end(k - 1) + Len(w[k])
      BY SMTT(30), <1>1, <2>4, <3>3
    <3> HIDE DEF end
    <3>7. Prefix(f[k - 1] \o w[k], end(k - 1) + Len(w[k]))
      BY <1>1, <2>4, <3>2, <3>3, <3>5, PrefixGrows
    <3> QED BY <1>2, <2>4, <3>1, <3>6, <3>7
  <2> QED BY <2>5, <2>6
<1>4. Prefix(f[Len(w)], end(Len(w)))
  <2>1. Len(w) \in 1..Len(w)
    BY <1>1
  <2> QED BY <1>3, <2>1
<1>5. end(Len(w)) = n
  <2>1. w[Len(w)][1] + Len(w[Len(w)]) = n + 1
    BY DEF Cut
  <2>2. w[Len(w)][1] \in Nat /\ Len(w[Len(w)]) \in Nat
    BY <1>1
  <2> QED BY <2>1, <2>2
<1> QED BY <1>2, <1>4, <1>5

(* A slice that begins where the last one ended. *)
LEMMA CutGrows ==
  ASSUME NEW n \in Nat, NEW w, Cut(w, n),
         NEW s \in Seq(Nat), Len(s) > 0, \A i \in 1..Len(s) : s[i] = n + i
  PROVE  Cut(Append(w, s), n + Len(s)) /\ Append(w, s) # << >>
<1> DEFINE v == Append(w, s)
<1>1. /\ w \in Seq(Seq(Nat)) /\ Len(w) \in Nat /\ Len(s) \in Nat
      /\ v \in Seq(Seq(Nat)) /\ Len(v) = Len(w) + 1
      /\ \A k \in 1..Len(w) : v[k] = w[k]
      /\ v[Len(w) + 1] = s
  BY AppendProperties, LenProperties DEF Cut
<1> HIDE DEF v
<1>2. v # << >>
  <2>1. Len(v) # 0
    BY <1>1
  <2> QED BY <1>1, <2>1, EmptySeq
<1>3. s[1] = n + 1
  BY <1>1
<1>4. ASSUME NEW k \in 1..Len(v)
      PROVE  /\ Len(v[k]) > 0 /\ \A i \in 1..Len(v[k]) : v[k][i] = v[k][1] + i - 1
             /\ v[k][1] + Len(v[k]) <= n + Len(s) + 1
  <2>1. CASE k = Len(w) + 1
    <3>1. v[k] = s /\ Len(s) > 0
      BY <1>1, <2>1
    <3>2. \A i \in 1..Len(s) : s[i] = s[1] + i - 1
      BY <1>1, <1>3
    <3>3. s[1] + Len(s) <= n + Len(s) + 1
      BY <1>1, <1>3
    <3> QED BY <3>1, <3>2, <3>3
  <2>2. CASE k # Len(w) + 1
    <3>1. k \in 1..Len(w) /\ v[k] = w[k]
      BY <1>1, <2>2
    <3>2. Len(w[k]) > 0 /\ (\A i \in 1..Len(w[k]) : w[k][i] = w[k][1] + i - 1)
          /\ w[k][1] + Len(w[k]) <= n + 1
      BY <3>1 DEF Cut
    <3>3. w[k] \in Seq(Nat) /\ Len(w[k]) \in Nat
      BY <1>1, <3>1, LenProperties
    <3>4. w[k][1] \in Nat
      BY SMTT(30), <3>2, <3>3, LenProperties
    <3>5. w[k][1] + Len(w[k]) <= n + Len(s) + 1
      <4>1. \A a, b, m \in Nat : a + b <= n + 1 => a + b <= n + m + 1
        OBVIOUS
      <4> QED BY <1>1, <3>2, <3>3, <3>4, <4>1
    <3> QED BY <3>1, <3>2, <3>5
  <2> QED BY <2>1, <2>2
<1>5. CASE w = << >>
  <2>1. Len(w) = 0 /\ n = 0
    BY <1>5, EmptySeq DEF Cut
  <2> QED BY <1>1, <1>2, <1>3, <1>4, <2>1 DEF Cut, v
<1>6. CASE w # << >>
  <2>1. Len(w) >= 1 /\ w[1][1] = 1 /\ w[Len(w)][1] + Len(w[Len(w)]) = n + 1
    BY <1>1, <1>6, EmptySeq DEF Cut
  <2>2. ASSUME NEW k \in 2..Len(v) PROVE Follows(v[k - 1], v[k])
    <3>1. CASE k = Len(w) + 1
      <4>1. v[k - 1] = w[Len(w)] /\ v[k] = s
        BY <1>1, <2>1, <3>1
      <4> QED BY <1>3, <2>1, <4>1 DEF Follows
    <3>2. CASE k # Len(w) + 1
      <4>1. k \in 2..Len(w) /\ k - 1 \in 1..Len(w) /\ k \in 1..Len(w)
        BY <1>1, <3>2
      <4> QED BY <1>1, <4>1 DEF Cut
    <3> QED BY <3>1, <3>2
  <2>3. v[1] = w[1] /\ v[Len(v)] = s
    BY <1>1, <2>1
  <2>4. s[1] + Len(s) = n + Len(s) + 1
    BY <1>1, <1>3
  <2> QED BY <1>1, <1>2, <1>4, <2>1, <2>2, <2>3, <2>4 DEF Cut, v
<1> QED BY <1>5, <1>6

-----------------------------------------------------------------------------
(* The inductive invariant *)

(* What is known of a sample at each stage of its way *)

(* No way was taken yet *)
Untouched ==
  /\ route = "none" /\ chain = << >> /\ next = 1 /\ off = 0
  /\ sgList = << >> /\ cursor = 1 /\ offset = 0 /\ buf = << >>

(* The bytes that were lent *)
Sent == IF asked < Length THEN asked ELSE Length

(* The slices lent so far *)
Lending ==
  /\ asked \in Nat /\ Cut(wire, Sent)
  /\ wire = << >> => asked = 0
  /\ size = Length \/ (serdata.ops = "typed" /\ serdata.sample = "uninitialized")
  /\ wire # << >> => size = Length

(* A chain of fragments of a sample of its full length *)
Fragments == chain \in Seq(Fragment) /\ chain # << >> /\ size = Length

(* The chain up to its next fragment *)
Chaining ==
  /\ route = "fragchain" /\ Fragments
  /\ wire[1] = Payload
  /\ next \in 1..Len(chain) + 1
  /\ off \in 0..Length /\ off = Reach(next - 1)
  /\ Cut(sgList, off)
  /\ \A k \in 1..next - 1 : chain[k].min <= Reach(k - 1)
  /\ cursor = 1 /\ offset = 0 /\ buf = << >>

(* The bytes in the slices that are read *)
Slices == IF route = "iov" THEN Length ELSE off

(* What was read, and where the next read begins *)
Reading ==
  /\ route \in {"iov", "fragchain"} /\ size = Length
  /\ route = "fragchain" => /\ Fragments /\ off \in 0..Length /\ off = Reach(Len(chain))
                            /\ \A k \in 1..Len(chain) : chain[k].min <= Reach(k - 1)
  /\ Cut(sgList, Slices)
  /\ Len(buf) <= Slices /\ Prefix(buf, Len(buf))
  /\ cursor \in 1..Len(sgList) + 1 /\ offset \in Nat
  /\ cursor <= Len(sgList) => /\ offset < Len(sgList[cursor])
                              /\ Len(buf) + 1 = sgList[cursor][1] + offset
  /\ cursor > Len(sgList) => offset = 0 /\ Len(buf) = Slices

(* What is known of a sample at each stage of its way *)
TransferInv ==
  /\ serdata \in [ops : Ops, sample : {"data", "uninitialized"}, cdr : {NoCdr, Payload}]
  /\ serdata.cdr = NoCdr => serdata.ops = "typed" /\ serdata.sample = "data"
  /\ stage \in {"held", "lending"} => Untouched
  /\ stage = "lending" => Lending
  /\ stage = "chain" => Chaining
  /\ stage = "reading" => Reading
  /\ stage = "received" => serdata.cdr = Payload /\ (route = "fragchain" => Complete)
  /\ stage = "discarded" => route # "iov" /\ (route = "fragchain" => ~Complete)

(* TransferInv says more than AssemblySound. *)
LEMMA TransferInvSound == TransferInv => AssemblySound
<1>1. "iov" # "fragchain"
  OBVIOUS
<1> QED BY <1>1 DEF TransferInv, AssemblySound, Unscrambled, DiscardedIfIncomplete

(* It holds of a sample that was just written. *)
LEMMA TransferInvInit == TransferInit => TransferInv
BY DEF TransferInit, TransferInv, Untouched, Ops

(* A set of numbers below a bound has a greatest one. *)
LEMMA MaxBounded ==
  ASSUME NEW n \in Nat, NEW T, T \subseteq 0..n, T # {}
  PROVE  Max(T) \in T /\ \A y \in T : y <= Max(T)
<1> DEFINE D == { n - x : x \in T }
<1>1. D \in SUBSET Nat /\ D # {}
  OBVIOUS
<1>2. PICK d \in D : \A y \in D : d <= y
  <2> HIDE DEF D
  <2> QED BY <1>1, LeastNatural
<1>3. PICK x \in T : d = n - x
  OBVIOUS
<1>4. \A y \in T : x >= y
  <2>1. SUFFICES ASSUME NEW y \in T PROVE x >= y
    OBVIOUS
  <2>2. d <= n - y
    BY <1>2
  <2>3. x \in 0..n /\ y \in 0..n
    OBVIOUS
  <2> QED BY <1>3, <2>2, <2>3
<1>5. Max(T) \in T /\ \A y \in T : Max(T) >= y
  BY <1>4 DEF Max
<1>6. \A y \in T : y \in Int
  OBVIOUS
<1> QED BY <1>5, <1>6

(* How far the first k fragments of c reach *)
ReachOf(c, k) == Max({0} \cup { c[i].maxp1 : i \in 1..k })

(* How far the fragments of a chain reach is one of their ends, *)
LEMMA Reaches ==
  ASSUME NEW c \in Seq(Fragment), NEW k \in 0..Len(c)
  PROVE  /\ ReachOf(c, k) \in 0..Length + 1
         /\ \A i \in 1..k : c[i] \in Fragment /\ c[i].maxp1 <= ReachOf(c, k)
         /\ ReachOf(c, k) # 0 => \E i \in 1..k : ReachOf(c, k) = c[i].maxp1
<1> DEFINE T == {0} \cup { c[i].maxp1 : i \in 1..k }
<1>1. Length \in Nat /\ Len(c) \in Nat
  BY LenProperties, CdrTransferAssumption
<1>2. \A i \in 1..k : c[i] \in Fragment
  BY <1>1, LenProperties
<1>3. \A i \in 1..k : c[i].maxp1 \in 0..Length + 1
  BY <1>2 DEF Fragment
<1>4. T \subseteq 0..Length + 1 /\ T # {}
  BY <1>1, <1>3
<1>5. Max(T) \in T /\ \A y \in T : y <= Max(T)
  <2>1. Length + 1 \in Nat
    BY <1>1
  <2> HIDE DEF T
  <2> QED BY <1>4, <2>1, MaxBounded
<1>6. ReachOf(c, k) = Max(T)
  BY DEF ReachOf
<1> QED BY <1>2, <1>4, <1>5, <1>6

(* one fragment more reaches no less far, *)
LEMMA ReachesMore ==
  ASSUME NEW c \in Seq(Fragment), NEW k \in 1..Len(c)
  PROVE  ReachOf(c, k) = IF c[k].maxp1 > ReachOf(c, k - 1) THEN c[k].maxp1 ELSE ReachOf(c, k - 1)
<1>1. Length \in Nat /\ Len(c) \in Nat /\ k - 1 \in 0..Len(c) /\ k \in 0..Len(c)
  BY LenProperties, CdrTransferAssumption
<1>2. ReachOf(c, k) \in Nat /\ ReachOf(c, k - 1) \in Nat /\ c[k].maxp1 \in Nat
  BY SMTT(30), <1>1, Reaches DEF Fragment
<1>3. c[k].maxp1 <= ReachOf(c, k)
  BY <1>1, Reaches
<1>4. ReachOf(c, k - 1) <= ReachOf(c, k)
  <2>1. CASE ReachOf(c, k - 1) = 0
    BY <1>2, <2>1
  <2>2. CASE ReachOf(c, k - 1) # 0
    <3>1. PICK i \in 1..k - 1 : ReachOf(c, k - 1) = c[i].maxp1
      BY <1>1, <2>2, Reaches
    <3>2. i \in 1..k
      BY <1>1
    <3> QED BY <1>1, <3>1, <3>2, Reaches
  <2> QED BY <2>1, <2>2
<1>5. ReachOf(c, k) = c[k].maxp1 \/ ReachOf(c, k) <= ReachOf(c, k - 1)
  <2>1. CASE ReachOf(c, k) = 0
    BY <1>2, <2>1
  <2>2. CASE ReachOf(c, k) # 0
    <3>1. PICK i \in 1..k : ReachOf(c, k) = c[i].maxp1
      BY <1>1, <2>2, Reaches
    <3>2. CASE i = k
      BY <3>1, <3>2
    <3>3. CASE i # k
      <4>1. i \in 1..k - 1
        BY <1>1, <3>3
      <4> QED BY <1>1, <3>1, <4>1, Reaches
    <3> QED BY <3>2, <3>3
  <2> QED BY <2>1, <2>2
<1> QED BY <1>2, <1>3, <1>4, <1>5

(* none of them reaches nowhere, *)
LEMMA ReachesNothing == ASSUME NEW c \in Seq(Fragment) PROVE ReachOf(c, 0) = 0
<1>1. Len(c) \in Nat /\ 0 \in 0..Len(c)
  BY LenProperties
<1> QED BY <1>1, Reaches

(* and no part of them reaches further than all. *)
LEMMA ReachesAll ==
  ASSUME NEW c \in Seq(Fragment), NEW k \in 0..Len(c) PROVE ReachOf(c, k) <= ReachOf(c, Len(c))
<1>1. Length \in Nat /\ Len(c) \in Nat /\ Len(c) \in 0..Len(c)
  BY LenProperties, CdrTransferAssumption
<1>2. CASE ReachOf(c, k) = 0
  BY <1>1, <1>2, Reaches
<1>3. CASE ReachOf(c, k) # 0
  <2>1. PICK i \in 1..k : ReachOf(c, k) = c[i].maxp1
    BY <1>3, Reaches
  <2>2. i \in 1..Len(c)
    BY <1>1
  <2> QED BY <1>1, <2>1, <2>2, Reaches
<1> QED BY <1>2, <1>3

-----------------------------------------------------------------------------
(* Sending *)

(* Nothing is cut into no slices, *)
LEMMA NothingCut == Cut(<< >>, 0)
<1>1. << >> \in Seq(Seq(Nat)) /\ Len(<< >>) = 0
  BY EmptySeq
<1> QED BY <1>1 DEF Cut

(* and nothing was read of it. *)
LEMMA NothingRead == Prefix(<< >>, 0) /\ Len(<< >>) = 0
<1>1. << >> \in Seq(Nat) /\ Len(<< >>) = 0
  BY EmptySeq
<1> QED BY <1>1 DEF Prefix

(* Whether a chain is complete depends on the chain alone. *)
LEMMA SameWay ==
  ASSUME UNCHANGED << chain, size >> PROVE Complete' <=> Complete
BY DEF Complete, Reach

(* The library asks for a sample: no slice was lent yet. *)
LEMMA BeginStep == ASSUME TransferInv, Begin PROVE TransferInv'
<1>1. /\ stage = "held" /\ stage' = "lending" /\ size' = GetSize(serdata)
      /\ asked' = 0 /\ wire' = << >>
      /\ UNCHANGED << serdata, route, chain, next, off, sgList, cursor, offset, buf, hops, copied >>
  BY DEF Begin, chainVars, readerVars
<1>2. Untouched'
  BY <1>1 DEF TransferInv, Untouched
<1>3. size' = Length \/ (serdata.ops = "typed" /\ serdata.sample = "uninitialized")
  <2>1. /\ serdata.ops \in {"typed", "forward"} /\ serdata.sample \in {"data", "uninitialized"}
        /\ serdata.cdr \in {NoCdr, Payload}
        /\ serdata.cdr = NoCdr => serdata.ops = "typed" /\ serdata.sample = "data"
    BY DEF TransferInv, Ops
  <2>2. CASE serdata.cdr = NoCdr
    BY <1>1, <2>1, <2>2 DEF GetSize
  <2>3. CASE serdata.cdr # NoCdr
    <3>1. Len(serdata.cdr) = Length
      BY <2>1, <2>3, PayloadPrefix
    <3> QED BY <1>1, <2>1, <2>3, <3>1 DEF GetSize
  <2> QED BY <2>2, <2>3
<1>4. Sent' = 0
  BY <1>1, CdrTransferAssumption DEF Sent
<1>5. Cut(wire, Sent)'
  <2>1. Cut(wire', Sent')
    BY <1>1, <1>4, NothingCut
  <2> QED BY <2>1 DEF Cut, Follows
<1>6. Lending'
  BY <1>1, <1>3, <1>5 DEF Lending
<1> QED BY <1>1, <1>2, <1>6 DEF TransferInv

(* The lesser of two numbers. *)
LEMMA MinPair ==
  ASSUME NEW a \in Nat, NEW b \in Nat PROVE Min({a, b}) = IF a <= b THEN a ELSE b
<1> DEFINE m == IF a <= b THEN a ELSE b
<1>1. m \in {a, b} /\ \A y \in {a, b} : m <= y
  OBVIOUS
<1>2. \A x \in {a, b} : (\A y \in {a, b} : x <= y) => x = m
  OBVIOUS
<1> HIDE DEF m
<1>3. Min({a, b}) \in {a, b} /\ \A y \in {a, b} : Min({a, b}) <= y
  BY <1>1 DEF Min
<1>4. Min({a, b}) = m
  BY <1>2, <1>3
<1> QED BY <1>4 DEF m

(* A request for bytes is cut at the end of the sample. *)
LEMMA ClipIs ==
  ASSUME NEW a \in 0..Length - 1, NEW n \in Nat, n > 0, NEW e \in Nat,
         e = IF a + n <= Length THEN a + n ELSE Length
  PROVE  /\ Clip(Payload, a, n) \in Seq(Nat)
         /\ Len(Clip(Payload, a, n)) = e - a /\ e > a /\ e <= Length
         /\ \A i \in 1..e - a : Clip(Payload, a, n)[i] = a + i
<1>1. /\ Length \in Nat /\ Payload \in Seq(Nat) /\ Len(Payload) = Length
      /\ \A i \in 1..Length : Payload[i] = i
  BY PayloadPrefix, CdrTransferAssumption
<1>2. a \in Nat /\ a < Length /\ a + 1 \in Int /\ e \in Int /\ e > a /\ e <= Length
  BY <1>1
<1>3. Min({a + n, Length}) = e
  BY <1>1, <1>2, MinPair
<1>4. Clip(Payload, a, n) = SubSeq(Payload, a + 1, e)
  BY <1>1, <1>2, <1>3 DEF Clip
<1> DEFINE s == SubSeq(Payload, a + 1, e)
<1>5. \A i \in a + 1..e : Payload[i] \in Nat
  BY <1>1, <1>2
<1>6. /\ s \in Seq(Nat) /\ Len(s) = IF a + 1 <= e THEN e - (a + 1) + 1 ELSE 0
      /\ \A i \in 1..e - (a + 1) + 1 : s[i] = Payload[(a + 1) + i - 1]
  BY <1>2, <1>5, SubSeqProperties
<1> HIDE DEF s
<1>7. Len(s) = e - a
  <2>0. \A x, y \in Nat : y > x => x + 1 <= y /\ y - (x + 1) + 1 = y - x
    OBVIOUS
  <2>1. a + 1 <= e /\ e - (a + 1) + 1 = e - a
    BY <1>2, <2>0
  <2> QED BY <1>6, <2>1
<1>8. ASSUME NEW i \in 1..e - a PROVE s[i] = a + i
  <2>1. i \in 1..e - (a + 1) + 1 /\ (a + 1) + i - 1 = a + i /\ a + i \in 1..Length
    BY <1>1, <1>2
  <2> QED BY <1>1, <1>6, <2>1
<1> QED BY <1>2, <1>4, <1>6, <1>7, <1>8 DEF s

(* A slice that is lent begins where the last one ended. *)
LEMMA LendStep == ASSUME TransferInv, NEW n \in 1..Length + 1, Lend(n) PROVE TransferInv'
<1>1. /\ stage = "lending" /\ (asked < size \/ wire = << >>)
      /\ UNCHANGED << route, size, chain, next, off, sgList, cursor, offset, buf, hops, copied >>
  BY DEF Lend, chainVars, readerVars
<1>2. Untouched' /\ Lending
  BY <1>1 DEF TransferInv, Untouched
<1>3. CASE serdata.ops = "typed" /\ serdata.sample = "uninitialized"
  BY <1>1, <1>2, <1>3 DEF Lend, TransferInv
<1>4. CASE ~(serdata.ops = "typed" /\ serdata.sample = "uninitialized")
  <2>1. /\ serdata' = Serialised(serdata) /\ stage' = "lending"
        /\ wire' = Append(wire, Clip(serdata'.cdr, asked, n)) /\ asked' = asked + n
    BY <1>1, <1>4 DEF Lend
  <2>2. /\ serdata' \in [ops : Ops, sample : {"data", "uninitialized"}, cdr : {NoCdr, Payload}]
        /\ serdata'.cdr = Payload
    BY <2>1, NoCdrAssumption DEF TransferInv, Serialised
  <2>3. size = Length /\ asked \in 0..Length - 1 /\ Length \in Nat /\ Sent = asked
    BY <1>1, <1>2, <1>4, CdrTransferAssumption DEF Lending, Sent
  <2>4. asked' \in Nat /\ Sent' \in Nat /\ n > 0 /\ n \in Nat
        /\ Sent' = IF asked + n <= Length THEN asked + n ELSE Length
    BY <2>1, <2>3 DEF Sent
  <2> DEFINE s == Clip(Payload, asked, n)
  <2>5. /\ s \in Seq(Nat) /\ Len(s) = Sent' - asked /\ Len(s) > 0
        /\ \A i \in 1..Len(s) : s[i] = asked + i
    BY <2>3, <2>4, ClipIs
  <2>6. wire' = Append(wire, s)
    BY <2>1, <2>2
  <2> HIDE DEF s
  <2>7. Cut(wire, asked) /\ asked \in Nat
    BY <1>2, <2>3 DEF Lending
  <2>8. Cut(Append(wire, s), asked + Len(s)) /\ Append(wire, s) # << >>
    BY <2>5, <2>7, CutGrows
  <2>9. asked + Len(s) = Sent'
    BY <2>3, <2>4, <2>5
  <2>10. Cut(wire, Sent)' /\ wire' # << >>
    <3>1. Cut(wire', Sent')
      BY <2>6, <2>8, <2>9
    <3> QED BY <2>6, <2>8, <3>1 DEF Cut, Follows
  <2>11. Lending'
    BY <1>1, <2>3, <2>4, <2>10 DEF Lending
  <2> QED BY <1>2, <2>1, <2>2, <2>11, NoCdrAssumption DEF TransferInv
<1> QED BY <1>3, <1>4

(* When all was lent the slices are the payload. *)
LEMMA LentWhole ==
  ASSUME TransferInv, Lent
  PROVE  /\ Untouched /\ size = Length /\ Cut(wire, Length) /\ wire # << >>
         /\ FlattenSeq(wire) = Payload
<1>1. Untouched /\ Lending /\ wire # << >> /\ asked >= size /\ Length \in Nat
  BY CdrTransferAssumption DEF TransferInv, Lent
<1>2. size = Length /\ Sent = Length /\ Cut(wire, Length)
  BY <1>1 DEF Lending, Sent
<1> QED BY <1>1, <1>2, CutJoins, PrefixPayload

(* A reader begins with nothing read. *)
LEMMA ReadBegins ==
  ASSUME NEW n \in Nat, NEW w, Cut(w, n)
  PROVE  /\ Len(w) \in Nat
         /\ 1 <= Len(w) => 0 < Len(w[1]) /\ 0 + 1 = w[1][1] + 0
         /\ 1 > Len(w) => n = 0
<1>1. w \in Seq(Seq(Nat)) /\ Len(w) \in Nat
  BY LenProperties DEF Cut
<1>2. ASSUME 1 <= Len(w) PROVE 0 < Len(w[1]) /\ 0 + 1 = w[1][1] + 0
  <2>1. w # << >> /\ 1 \in 1..Len(w)
    BY <1>1, <1>2, EmptySeq
  <2> QED BY <2>1 DEF Cut
<1>3. ASSUME 1 > Len(w) PROVE n = 0
  <2>1. w = << >>
    BY <1>1, <1>3, EmptySeq
  <2> QED BY <2>1 DEF Cut
<1> QED BY <1>1, <1>2, <1>3

(* The slices themselves are read, *)
LEMMA FromSerIovStep == ASSUME TransferInv, FromSerIov PROVE TransferInv'
<1>1. /\ Lent /\ route' = "iov" /\ sgList' = wire /\ stage' = "reading"
      /\ UNCHANGED << serdata, size, asked, wire, chain, next, off, cursor, offset, buf, hops, copied >>
  BY DEF FromSerIov, chainVars
<1>2. Untouched /\ size = Length /\ Cut(wire, Length) /\ Length \in Nat
  BY <1>1, LentWhole, CdrTransferAssumption
<1>3. buf' = << >> /\ cursor' = 1 /\ offset' = 0 /\ Slices' = Length
  BY <1>1, <1>2 DEF Untouched, Slices
<1>4. Cut(sgList', Slices')
  BY <1>1, <1>2, <1>3
<1>5. /\ Len(sgList') \in Nat
      /\ 1 <= Len(sgList') => 0 < Len(sgList'[1]) /\ 0 + 1 = sgList'[1][1] + 0
      /\ 1 > Len(sgList') => Slices' = 0
  BY <1>2, <1>3, <1>4, ReadBegins
<1>6. Cut(sgList, Slices)'
  BY <1>4 DEF Cut, Follows
<1>7. Prefix(buf, Len(buf))' /\ Len(buf') = 0
  BY <1>3, NothingRead DEF Prefix
<1>8. Reading'
  BY <1>1, <1>2, <1>3, <1>5, <1>6, <1>7 DEF Reading
<1> QED BY <1>1, <1>8 DEF TransferInv

(* or a buffer of shared memory, *)
LEMMA FromPsmxStep == ASSUME TransferInv, FromPsmx PROVE TransferInv'
<1>1. /\ Lent /\ route' = "psmx" /\ FlattenSeq(wire) = Payload
      /\ (stage' = "discarded" /\ UNCHANGED serdata) \/ Constructed(Payload)
      /\ UNCHANGED << size, asked, wire, chain, next, off, sgList, cursor, offset, buf, hops, copied >>
  BY LentWhole DEF FromPsmx, chainVars, readerVars
<1>2. CASE stage' = "discarded" /\ UNCHANGED serdata
  BY <1>1, <1>2 DEF TransferInv
<1>3. CASE Constructed(Payload)
  BY <1>1, <1>3, NoCdrAssumption DEF TransferInv, Constructed
<1> QED BY <1>1, <1>2, <1>3

-----------------------------------------------------------------------------
(* A chain of fragments *)

(* or a chain of fragments of the joined slices. *)
LEMMA FromFragchainStep == ASSUME TransferInv, FromFragchain PROVE TransferInv'
<1>1. /\ Lent /\ route' = "fragchain" /\ next' = 1 /\ off' = 0
      /\ wire' = << FlattenSeq(wire) >>
      /\ stage' = IF BadStart(chain') THEN "discarded" ELSE "chain"
      /\ UNCHANGED << serdata, size, asked, sgList, cursor, offset, buf, hops, copied >>
  BY DEF FromFragchain, readerVars
<1>2. Untouched /\ size = Length /\ FlattenSeq(wire) = Payload /\ Length \in Nat
  BY <1>1, LentWhole, CdrTransferAssumption
<1>3. wire'[1] = Payload
  BY <1>1, <1>2
<1>4. chain' \in Seq(Fragment) /\ chain' # << >> /\ Len(chain') \in Nat /\ 1 \in DOMAIN chain'
  <2>1. PICK m \in 1..MaxFragments : chain' \in [1..m -> Fragment]
    BY DEF FromFragchain
  <2>2. m \in Nat /\ m # 0
    BY CdrTransferAssumption
  <2>3. chain' \in Seq(Fragment) /\ Len(chain') = m /\ DOMAIN chain' = 1..m
    BY <2>1, <2>2
  <2> QED BY <2>2, <2>3, EmptySeq
<1>5. ReachOf(chain', 0) = 0 /\ chain'[1] \in Fragment
  BY <1>4, ReachesNothing, LenProperties
<1>6. \A k : Reach(k)' = ReachOf(chain', k)
  BY DEF Reach, ReachOf
<1>7. CASE BadStart(chain')
  <2>1. chain'[1].min \in Nat /\ chain'[1].min # 0
    BY <1>2, <1>5, <1>7 DEF BadStart, Fragment
  <2>2. ~Complete'
    <3>1. SUFFICES ASSUME Complete' PROVE FALSE
      OBVIOUS
    <3>2. chain'[1].min <= Reach(1 - 1)'
      BY <1>4, <3>1 DEF Complete
    <3> QED BY <1>5, <1>6, <2>1, <3>2
  <2> QED BY <1>1, <1>7, <2>2 DEF TransferInv
<1>8. CASE ~BadStart(chain')
  <2>1. off' = Reach(next - 1)'
    BY <1>1, <1>5, <1>6
  <2>2. Cut(sgList, off)'
    <3>1. Cut(sgList', off')
      BY <1>1, <1>2, NothingCut DEF Untouched
    <3> QED BY <3>1 DEF Cut, Follows
  <2>3. next' \in 1..Len(chain') + 1 /\ off' \in 0..Length /\ 1..next' - 1 = {}
    BY <1>1, <1>2, <1>4
  <2>4. Chaining'
    BY <1>1, <1>2, <1>3, <1>4, <2>1, <2>2, <2>3 DEF Chaining, Fragments, Untouched
  <2> QED BY <1>1, <1>8, <2>4 DEF TransferInv
<1> QED BY <1>7, <1>8

(* What is taken of a fragment are the bytes it says it holds. *)
LEMMA SourceIs ==
  ASSUME wire[1] = Payload, NEW f \in Fragment, off \in Nat, off >= f.min, f.maxp1 > off
  PROVE  /\ Source(f) \in Seq(Nat) /\ Len(Source(f)) = f.maxp1 - off
         /\ f.maxp1 <= Length => \A i \in 1..f.maxp1 - off : Source(f)[i] = off + i
<1> DEFINE b == FragmentBytes(f)  m == off - f.min + 1  n == f.maxp1 - f.min
<1>1. /\ Length \in Nat /\ Len(Payload) = Length /\ \A i \in 1..Length : Payload[i] = i
      /\ f.min \in Nat /\ f.maxp1 \in Nat
  BY PayloadPrefix, CdrTransferAssumption DEF Fragment
<1>2. ASSUME NEW i \in 1..n PROVE b[i] = IF f.min + i <= Length THEN f.min + i ELSE 0
  <2>1. b[i] = IF f.min + i <= Length THEN Payload[f.min + i] ELSE 0
    BY <1>1, <1>2 DEF FragmentBytes, Zero
  <2>2. f.min + i <= Length => f.min + i \in 1..Length
    BY <1>1, <1>2
  <2> QED BY <1>1, <2>1, <2>2
<1>3. Source(f) = SubSeq(b, m, n)
  BY DEF Source
<1> HIDE DEF b
<1>4. \A i \in m..n : i \in 1..n /\ b[i] \in Nat
  BY <1>1, <1>2
<1>5. m \in Int /\ n \in Int
  BY <1>1
<1> DEFINE s == SubSeq(b, m, n)
<1>6. /\ s \in Seq(Nat) /\ Len(s) = IF m <= n THEN n - m + 1 ELSE 0
      /\ \A i \in 1..n - m + 1 : s[i] = b[m + i - 1]
  <2> HIDE DEF m, n
  <2> QED BY <1>4, <1>5, SubSeqProperties
<1> HIDE DEF s
<1>7. m <= n /\ n - m + 1 = f.maxp1 - off
  BY <1>1
<1>8. ASSUME f.maxp1 <= Length, NEW i \in 1..f.maxp1 - off PROVE s[i] = off + i
  <2>1. m + i - 1 \in 1..n /\ f.min + (m + i - 1) = off + i /\ off + i <= Length
    BY SMTT(30), <1>1, <1>8
  <2>2. s[i] = b[m + i - 1]
    BY <1>6, <1>7, <1>8
  <2> HIDE DEF m, n
  <2> QED BY <1>2, <2>1, <2>2
<1>9. s \in Seq(Nat) /\ Len(s) = f.maxp1 - off
  <2> HIDE DEF m, n
  <2> QED BY <1>6, <1>7
<1> QED BY <1>3, <1>8, <1>9 DEF s

(* A fragment gives the bytes that no fragment before it gave, or is passed *)
(* over; one that leaves a gap, or is too long, discards the sample.        *)
LEMMA ChainStepStep == ASSUME TransferInv, ChainStep PROVE TransferInv'
<1> DEFINE f == chain[next]
<1>1. /\ stage = "chain" /\ next <= Len(chain) /\ Chaining
      /\ UNCHANGED << serdata, route, size, asked, wire, chain, cursor, offset, buf, hops, copied >>
  BY DEF ChainStep, TransferInv
<1>2. /\ chain \in Seq(Fragment) /\ size = Length /\ Length \in Nat /\ Len(chain) \in Nat
      /\ DOMAIN chain = 1..Len(chain)
      /\ next \in 1..Len(chain) /\ off \in 0..Length /\ off \in Nat
      /\ off = Reach(next - 1) /\ Cut(sgList, off)
      /\ \A k \in 1..next - 1 : chain[k].min <= Reach(k - 1)
  BY <1>1, LenProperties, CdrTransferAssumption DEF Chaining, Fragments
<1>3. f \in Fragment /\ f.min \in Nat /\ f.maxp1 \in Nat
  BY <1>2, LenProperties DEF Fragment
<1>4. \A k : Reach(k) = ReachOf(chain, k) /\ Reach(k)' = Reach(k)
  BY <1>1 DEF Reach, ReachOf
<1>5. Reach(next) = IF f.maxp1 > off THEN f.maxp1 ELSE off
  BY <1>2, <1>4, ReachesMore
<1>6. next + 1 \in 1..Len(chain) + 1 /\ (next + 1) - 1 = next /\ next \in 0..Len(chain)
  BY <1>2
<1>7. ASSUME off >= f.min, NEW k \in 1..(next + 1) - 1 PROVE chain[k].min <= Reach(k - 1)
  <2>1. k = next \/ k \in 1..next - 1
    BY <1>2, <1>7
  <2> QED BY <1>2, <1>7, <2>1
<1>8. Complete' <=> Complete
  BY <1>1, SameWay
<1>9. CASE off < f.min
  <2>1. stage' = "discarded"
    BY <1>3, <1>9, <1>2 DEF ChainStep
  <2>2. ~Complete
    BY <1>2, <1>3, <1>9 DEF Complete
  <2> QED BY <1>1, <1>8, <2>1, <2>2 DEF TransferInv, Chaining
<1>10. CASE off >= f.min /\ f.maxp1 <= off
  <2>1. next' = next + 1 /\ UNCHANGED << stage, off, sgList >>
    BY <1>2, <1>3, <1>10 DEF ChainStep
  <2>2. off' = Reach(next - 1)'
    <3>1. Reach(next - 1)' = Reach(next)
      BY <1>1, <1>6, <2>1 DEF Reach
    <3> QED BY <1>2, <1>3, <1>5, <1>10, <2>1, <3>1
  <2>3. \A k \in 1..next' - 1 : chain[k].min <= Reach(k - 1)'
    BY <1>4, <1>7, <1>10, <2>1
  <2>4. Cut(sgList, off)'
    BY <1>2, <2>1 DEF Cut, Follows
  <2>5. Chaining'
    BY <1>1, <1>6, <2>1, <2>2, <2>3, <2>4 DEF Chaining, Fragments
  <2> QED BY <1>1, <2>1, <2>5 DEF TransferInv
<1>11. CASE off >= f.min /\ f.maxp1 > off
  <2>1. /\ next' = next + 1 /\ off' = f.maxp1 /\ sgList' = Append(sgList, Source(f))
        /\ stage' = IF f.maxp1 > size THEN "discarded" ELSE stage
    BY <1>2, <1>3, <1>11 DEF ChainStep
  <2>2. CASE f.maxp1 > size
    <3>1. Reach(next) = f.maxp1 /\ Reach(next) <= Reach(Len(chain))
      BY <1>2, <1>4, <1>5, <1>6, <1>11, ReachesAll
    <3>2. Reach(Len(chain)) \in Nat
      BY <1>2, <1>4, Reaches
    <3>3. Reach(Len(chain)) # size
      BY <1>2, <1>3, <2>2, <3>1, <3>2
    <3>4. ~Complete
      BY <3>3 DEF Complete
    <3> QED BY <1>1, <1>8, <2>1, <2>2, <3>4 DEF TransferInv, Chaining
  <2>3. CASE f.maxp1 <= size
    <3>1. stage' = "chain" /\ off' \in 0..Length
      BY <1>1, <1>2, <1>3, <2>1, <2>3
    <3>2. off' = Reach(next - 1)'
      <4>1. Reach(next - 1)' = Reach(next)
        BY <1>1, <1>6, <2>1 DEF Reach
      <4> QED BY <1>2, <1>3, <1>5, <1>11, <2>1, <4>1
    <3>3. \A k \in 1..next' - 1 : chain[k].min <= Reach(k - 1)'
      BY <1>4, <1>7, <1>11, <2>1
    <3> DEFINE s == Source(f)
    <3>4. /\ s \in Seq(Nat) /\ Len(s) = f.maxp1 - off
          /\ \A i \in 1..f.maxp1 - off : s[i] = off + i
      <4>1. wire[1] = Payload
        BY <1>1 DEF Chaining
      <4> QED BY <1>2, <1>3, <1>11, <2>3, <4>1, SourceIs
    <3>5. sgList' = Append(sgList, s)
      BY <2>1
    <3> HIDE DEF s
    <3>6. Len(s) > 0 /\ off + Len(s) = f.maxp1 /\ \A i \in 1..Len(s) : s[i] = off + i
      BY SMTT(30), <1>2, <1>3, <1>11, <3>4
    <3>7. Cut(Append(sgList, s), off + Len(s))
      BY <1>2, <3>4, <3>6, CutGrows
    <3>8. Cut(sgList, off)'
      <4>1. Cut(sgList', off')
        BY <2>1, <3>5, <3>6, <3>7
      <4> QED BY <4>1 DEF Cut, Follows
    <3>9. Chaining'
      BY <1>1, <1>6, <2>1, <3>1, <3>2, <3>3, <3>8 DEF Chaining, Fragments
    <3> QED BY <1>1, <3>1, <3>9 DEF TransferInv
  <2> QED BY <1>2, <1>3, <2>2, <2>3
<1> QED BY <1>2, <1>3, <1>9, <1>10, <1>11

-----------------------------------------------------------------------------
(* Reading *)

(* The chain is at its end. *)
LEMMA ChainEndStep == ASSUME TransferInv, ChainEnd PROVE TransferInv'
<1>1. /\ stage = "chain" /\ next > Len(chain) /\ stage' = "reading" /\ Chaining
      /\ UNCHANGED << serdata, route, size, asked, wire, chain, next, off, sgList, cursor,
                      offset, buf, hops, copied >>
  BY DEF ChainEnd, TransferInv, chainVars, readerVars
<1>2. /\ route = "fragchain" /\ Fragments /\ off \in 0..Length /\ Length \in Nat
      /\ Cut(sgList, off) /\ off \in Nat /\ cursor = 1 /\ offset = 0 /\ buf = << >>
  BY <1>1, CdrTransferAssumption DEF Chaining
<1>3. next = Len(chain) + 1 /\ next - 1 = Len(chain)
  <2>1. Len(chain) \in Nat
    BY <1>2, LenProperties DEF Fragments
  <2> QED BY <1>1, <2>1 DEF Chaining
<1>4. Slices' = off /\ Slices = off
  BY <1>1, <1>2 DEF Slices
<1>5. /\ Len(sgList) \in Nat
      /\ 1 <= Len(sgList) => 0 < Len(sgList[1]) /\ 0 + 1 = sgList[1][1] + 0
      /\ 1 > Len(sgList) => off = 0
  BY <1>2, ReadBegins
<1>6. Reading
  <2>1. Prefix(buf, Len(buf)) /\ Len(buf) = 0
    BY <1>2, NothingRead
  <2>2. off = Reach(Len(chain)) /\ \A k \in 1..Len(chain) : chain[k].min <= Reach(k - 1)
    BY <1>1, <1>3 DEF Chaining
  <2>3. cursor \in 1..Len(sgList) + 1
    BY <1>2, <1>5
  <2> QED BY <1>1, <1>2, <1>4, <1>5, <2>1, <2>2, <2>3 DEF Reading, Fragments
<1>7. Reading'
  <2>1. Cut(sgList, Slices)' = Cut(sgList, Slices) /\ Prefix(buf, Len(buf))' = Prefix(buf, Len(buf))
    BY <1>1, <1>4 DEF Cut, Follows, Prefix
  <2>2. \A k : Reach(k)' = Reach(k)
    BY <1>1 DEF Reach
  <2>3. Reach(Len(chain))' = Reach(Len(chain))
    BY <1>1 DEF Reach
  <2> QED BY <1>1, <1>4, <1>6, <2>1, <2>2, <2>3 DEF Reading, Fragments
<1> QED BY <1>1, <1>7 DEF TransferInv

(* A read ends within a slice or at the end of it. *)
LEMMA ReadSliceStep == ASSUME TransferInv, ReadSlice PROVE TransferInv'
<1> DEFINE left == size - Len(buf)
           slice == sgList[cursor]
           rem == Len(slice) - offset
           n == Min({rem, left})
           piece == SubSeq(slice, offset + 1, offset + n)
<1>1. /\ stage = "reading" /\ left > 0 /\ cursor <= Len(sgList) /\ Reading
      /\ buf' = buf \o piece
      /\ \/ n = rem /\ cursor' = cursor + 1 /\ offset' = 0
         \/ n # rem /\ cursor' = cursor /\ offset' = offset + n
      /\ stage' = IF n = 0 THEN "discarded" ELSE stage
      /\ UNCHANGED << serdata, route, size, asked, wire, chain, next, off, sgList, hops, copied >>
  BY DEF ReadSlice, TransferInv, chainVars
<1>2. /\ size = Length /\ Length \in Nat /\ Cut(sgList, Slices) /\ Prefix(buf, Len(buf))
      /\ Len(buf) \in Nat /\ Slices \in Nat /\ Slices <= Length /\ offset \in Nat
      /\ offset < Len(slice) /\ Len(buf) + 1 = slice[1] + offset
  <2>1. Reading /\ Length \in Nat
    BY <1>1, CdrTransferAssumption
  <2>2. buf \in Seq(Nat)
    BY <2>1 DEF Reading, Prefix
  <2> QED BY <1>1, <2>1, <2>2, LenProperties DEF Reading, Slices
<1>3. /\ sgList \in Seq(Seq(Nat)) /\ Len(sgList) \in Nat /\ cursor \in 1..Len(sgList)
      /\ slice \in Seq(Nat) /\ Len(slice) \in Nat /\ slice[1] \in Nat
      /\ \A i \in 1..Len(slice) : slice[i] = slice[1] + i - 1
      /\ slice[1] + Len(slice) <= Slices + 1
  <2>1. sgList \in Seq(Seq(Nat)) /\ Len(sgList) \in Nat
    BY <1>2, LenProperties DEF Cut
  <2>2. cursor \in 1..Len(sgList)
    BY <1>1, <2>1 DEF Reading
  <2>3. slice \in Seq(Nat) /\ Len(slice) \in Nat
    BY <2>1, <2>2, LenProperties
  <2>4. Len(slice) > 0 /\ (\A i \in 1..Len(slice) : slice[i] = slice[1] + i - 1)
        /\ slice[1] + Len(slice) <= Slices + 1
    BY <1>2, <2>2 DEF Cut
  <2>5. slice[1] \in Nat
    BY <2>3, <2>4, LenProperties
  <2> QED BY <2>1, <2>2, <2>3, <2>4, <2>5
<1> HIDE DEF slice
<1>4. /\ rem \in Nat /\ rem > 0 /\ left \in Nat
      /\ n \in Nat /\ n > 0 /\ n <= rem /\ n <= left
  <2>1. rem \in Nat /\ rem > 0
    BY SMTT(30), <1>2, <1>3
  <2>2. left \in Nat /\ left > 0
    BY <1>1, <1>2
  <2>3. n = IF rem <= left THEN rem ELSE left
    <3> HIDE DEF rem, left
    <3> QED BY <2>1, <2>2, MinPair
  <2> HIDE DEF rem, left, n
  <2> QED BY <2>1, <2>2, <2>3
<1>5. rem = Len(slice) - offset /\ left = Length - Len(buf)
  BY <1>2
<1> HIDE DEF rem, left, n
<1>6. piece \in Seq(Nat) /\ Len(piece) = n /\ \A i \in 1..Len(piece) : piece[i] = Len(buf) + i
  <2>1. ASSUME NEW i \in offset + 1..offset + n PROVE i \in 1..Len(slice) /\ slice[i] \in Nat
    <3>1. \A o, m, l, j \in Nat : m <= l - o /\ j >= o + 1 /\ j <= o + m => j \in 1..l
      OBVIOUS
    <3>2. i \in Nat /\ i >= offset + 1 /\ i <= offset + n
      BY <1>2, <1>4
    <3>3. i \in 1..Len(slice)
      BY <1>2, <1>3, <1>4, <1>5, <3>1, <3>2
    <3> QED BY <1>3, <3>3, LenProperties
  <2>2. offset + 1 \in Int /\ offset + n \in Int
    BY <1>2, <1>4
  <2>3. /\ piece \in Seq(Nat)
        /\ Len(piece) = IF offset + 1 <= offset + n THEN (offset + n) - (offset + 1) + 1 ELSE 0
        /\ \A i \in 1..(offset + n) - (offset + 1) + 1 : piece[i] = slice[(offset + 1) + i - 1]
    BY <2>1, <2>2, SubSeqProperties
  <2>4. offset + 1 <= offset + n /\ (offset + n) - (offset + 1) + 1 = n
    BY <1>2, <1>4
  <2> HIDE DEF piece
  <2>5. Len(piece) = n
    BY <2>3, <2>4
  <2>6. ASSUME NEW i \in 1..n PROVE piece[i] = Len(buf) + i
    <3>1. piece[i] = slice[(offset + 1) + i - 1]
      BY <2>3, <2>4
    <3>2. (offset + 1) + i - 1 = offset + i /\ offset + i \in 1..Len(slice)
      BY <1>2, <1>3, <1>4, <1>5
    <3>3. slice[offset + i] = slice[1] + (offset + i) - 1
      BY <1>3, <3>2
    <3>4. slice[1] + (offset + i) - 1 = Len(buf) + i
      <4>1. i \in Nat
        BY <1>4
      <4>2. PICK b, f, o \in Nat : b = Len(buf) /\ f = slice[1] /\ o = offset /\ b + 1 = f + o
        BY <1>2, <1>3
      <4>3. f + (o + i) - 1 = b + i
        BY <4>1, <4>2
      <4> QED BY <4>2, <4>3
    <3> QED BY <3>1, <3>2, <3>3, <3>4
  <2> QED BY <2>3, <2>5, <2>6
<1> HIDE DEF piece
<1>7. Prefix(buf', Len(buf) + n) /\ Len(buf') = Len(buf) + n
  <2>1. Prefix(buf \o piece, Len(buf) + Len(piece))
    BY <1>2, <1>6, PrefixGrows
  <2> QED BY <1>1, <1>6, <2>1 DEF Prefix
<1>8. Prefix(buf, Len(buf))'
  BY <1>7 DEF Prefix
<1>9. Slices' = Slices /\ stage' = "reading"
  BY <1>1, <1>4 DEF Slices
<1>10. Cut(sgList, Slices)'
  BY <1>1, <1>2, <1>9 DEF Cut, Follows
<1>11. Len(buf') <= Slices'
  <2>1. \A b, f, o, l, m, t \in Nat :
          b + 1 = f + o /\ m <= l - o /\ f + l <= t + 1 => b + m <= t
    OBVIOUS
  <2>2. Len(buf) + n <= Slices
    BY <1>2, <1>3, <1>4, <1>5, <2>1
  <2> QED BY <1>7, <1>9, <2>2
<1>12. /\ cursor' \in 1..Len(sgList') + 1 /\ offset' \in Nat
       /\ cursor' <= Len(sgList') => /\ offset' < Len(sgList'[cursor'])
                                     /\ Len(buf') + 1 = sgList'[cursor'][1] + offset'
       /\ cursor' > Len(sgList') => offset' = 0 /\ Len(buf') = Slices'
  <2>1. CASE n # rem
    <3>1. cursor' = cursor /\ offset' = offset + n /\ sgList'[cursor'] = slice
      BY <1>1, <2>1 DEF slice
    <3>2. offset + n < Len(slice) /\ offset + n \in Nat
      BY <1>2, <1>3, <1>4, <1>5, <2>1
    <3>3. Len(buf') + 1 = slice[1] + (offset + n)
      <4>1. PICK b, f, o, m \in Nat : /\ b = Len(buf) /\ f = slice[1] /\ o = offset
                                     /\ m = n /\ b + 1 = f + o
        BY <1>2, <1>3, <1>4
      <4>2. (b + m) + 1 = f + (o + m)
        BY <4>1
      <4> QED BY <1>7, <4>1, <4>2
    <3>4. cursor \in 1..Len(sgList) + 1 /\ ~(cursor > Len(sgList))
      BY <1>3
    <3> QED BY <1>1, <3>1, <3>2, <3>3, <3>4
  <2>2. CASE n = rem
    <3>1. cursor' = cursor + 1 /\ offset' = 0
      BY <1>1, <2>2
    <3>2. Len(buf') + 1 = slice[1] + Len(slice)
      <4>1. PICK b, f, o, l, m \in Nat : /\ b = Len(buf) /\ f = slice[1] /\ o = offset
                                        /\ l = Len(slice) /\ m = n /\ b + 1 = f + o
                                        /\ m = l - o
        BY <1>2, <1>3, <1>4, <1>5, <2>2
      <4>2. (b + m) + 1 = f + l
        BY <4>1
      <4> QED BY <1>7, <4>1, <4>2
    <3>3. CASE cursor = Len(sgList)
      <4>1. sgList # << >>
        BY <1>3, EmptySeq
      <4>2. slice[1] + Len(slice) = Slices + 1
        BY <1>2, <3>3, <4>1 DEF Cut, slice
      <4>3. Len(buf') \in Nat
        BY <1>2, <1>4, <1>7
      <4>4. Len(buf') = Slices
        BY <1>2, <3>2, <4>2, <4>3
      <4>5. cursor' \in 1..Len(sgList) + 1 /\ cursor' > Len(sgList)
        BY <1>3, <3>1, <3>3
      <4> QED BY <1>1, <1>3, <1>9, <3>1, <4>4, <4>5
    <3>4. CASE cursor # Len(sgList)
      <4>1. cursor + 1 \in 2..Len(sgList) /\ (cursor + 1) - 1 = cursor /\ cursor + 1 \in 1..Len(sgList)
        BY <1>3, <3>4
      <4>2. sgList[cursor + 1][1] = slice[1] + Len(slice) /\ Len(sgList[cursor + 1]) > 0
        <5>1. Follows(sgList[(cursor + 1) - 1], sgList[cursor + 1])
          BY <1>2, <4>1 DEF Cut
        <5> QED BY <1>2, <4>1, <5>1 DEF Cut, Follows, slice
      <4>3. sgList[cursor + 1][1] + 0 = sgList[cursor + 1][1]
        BY <1>3, <4>2
      <4>4. cursor + 1 \in 1..Len(sgList) + 1 /\ ~(cursor + 1 > Len(sgList))
        BY <4>1, <1>3
      <4> QED BY <1>1, <3>1, <3>2, <4>2, <4>3, <4>4
    <3> QED BY <3>3, <3>4
  <2> QED BY <2>1, <2>2
<1>13. Reading'
  <2>1. \A k : Reach(k)' = Reach(k)
    BY <1>1 DEF Reach
  <2>2. Reach(Len(chain))' = Reach(Len(chain))
    BY <1>1 DEF Reach
  <2> QED BY <1>1, <1>8, <1>9, <1>10, <1>11, <1>12, <2>1, <2>2 DEF Reading, Fragments
<1> QED BY <1>1, <1>9, <1>13 DEF TransferInv

(* A read past the last slice: the chain was not complete. *)
LEMMA ReadEofStep == ASSUME TransferInv, ReadEof PROVE TransferInv'
<1>1. /\ stage = "reading" /\ Len(buf) < size /\ cursor > Len(sgList) /\ stage' = "discarded"
      /\ Reading
      /\ UNCHANGED << serdata, route, size, asked, wire, chain, next, off, sgList, cursor,
                      offset, buf, hops, copied >>
  BY DEF ReadEof, TransferInv, chainVars, readerVars
<1>2. size = Length /\ Length \in Nat /\ Len(buf) = Slices
  BY <1>1, CdrTransferAssumption DEF Reading
<1>3. route = "fragchain" /\ off < size /\ off = Reach(Len(chain)) /\ off \in Nat
  BY <1>1, <1>2 DEF Reading, Slices
<1>4. ~Complete
  BY <1>2, <1>3 DEF Complete
<1>5. ~Complete'
  BY <1>1, <1>4, SameWay
<1> QED BY <1>1, <1>3, <1>5 DEF TransferInv

(* All is read: the chain was complete. *)
LEMMA ReadDoneStep == ASSUME TransferInv, ReadDone PROVE TransferInv'
<1>1. /\ stage = "reading" /\ Len(buf) = size /\ Constructed(buf) /\ Reading
      /\ UNCHANGED << route, size, asked, wire, chain, next, off, sgList, cursor, offset, buf,
                      hops, copied >>
  BY DEF ReadDone, TransferInv, chainVars, readerVars
<1>2. size = Length /\ Length \in Nat /\ buf = Payload /\ Slices >= Length
  BY <1>1, PrefixPayload, CdrTransferAssumption DEF Reading
<1>3. route = "fragchain" => Complete
  <2>1. SUFFICES ASSUME route = "fragchain" PROVE Complete
    OBVIOUS
  <2>2. off = Length /\ off = Reach(Len(chain))
    BY <1>1, <1>2, <2>1 DEF Reading, Slices
  <2>3. DOMAIN chain = 1..Len(chain)
    BY <1>1, <2>1, LenProperties DEF Reading, Fragments
  <2> QED BY <1>1, <1>2, <2>1, <2>2, <2>3 DEF Reading, Complete
<1>4. route' = "fragchain" => Complete'
  BY <1>1, <1>3, SameWay
<1>5. /\ stage' = "received" /\ serdata'.cdr = Payload
      /\ serdata' \in [ops : Ops, sample : {"data", "uninitialized"}, cdr : {NoCdr, Payload}]
  BY <1>1, <1>2 DEF Constructed
<1> QED BY <1>4, <1>5, NoCdrAssumption DEF TransferInv

(* Every step keeps TransferInv, *)
LEMMA TransferInvStep == ASSUME TransferInv, [TransferNext]_transferVars PROVE TransferInv'
<1>1. ASSUME NEW n \in 1..Length + 1, Lend(n) PROVE TransferInv'
  BY <1>1, LendStep
<1>2. CASE Decode
  <2>1. /\ stage = "received" /\ stage' = "received" /\ route' = route
        /\ serdata' = [serdata EXCEPT !.sample = "data"] /\ UNCHANGED << chain, size >>
    BY <1>2 DEF Decode, chainVars
  <2>2. serdata'.cdr = Payload
        /\ serdata' \in [ops : Ops, sample : {"data", "uninitialized"}, cdr : {NoCdr, Payload}]
    BY <2>1 DEF TransferInv
  <2> QED BY <2>1, <2>2, SameWay, NoCdrAssumption DEF TransferInv
<1>3. CASE Forward
  <2>1. stage' = "held" /\ Untouched' /\ UNCHANGED serdata
    BY <1>3 DEF Forward, Untouched
  <2> QED BY <2>1 DEF TransferInv
<1>4. ASSUME NEW first, NEW n, CopyOut(first, n) PROVE TransferInv'
  <2>1. stage' = "copied" /\ UNCHANGED serdata
    BY <1>4 DEF CopyOut
  <2> QED BY <2>1 DEF TransferInv
<1>5. CASE UNCHANGED transferVars
  <2>1. UNCHANGED << stage, serdata, route, size, asked, wire, chain, next, off, sgList, cursor,
                     offset, buf >>
    BY <1>5 DEF transferVars, chainVars, readerVars
  <2>2. Complete' <=> Complete
    BY <2>1, SameWay
  <2>3. Reach(next - 1)' = Reach(next - 1) /\ Reach(Len(chain))' = Reach(Len(chain))
        /\ \A k : Reach(k)' = Reach(k)
    BY <2>1 DEF Reach
  <2>4. Cut(wire, Sent)' = Cut(wire, Sent) /\ Cut(sgList, off)' = Cut(sgList, off)
        /\ Cut(sgList, Slices)' = Cut(sgList, Slices) /\ Slices' = Slices
        /\ Prefix(buf, Len(buf))' = Prefix(buf, Len(buf))
    BY <2>1 DEF Cut, Follows, Prefix, Sent, Slices
  <2>5. (Untouched => Untouched') /\ (Lending => Lending')
    BY <2>1, <2>4 DEF Untouched, Lending
  <2>6. Chaining => Chaining'
    BY <2>1, <2>3, <2>4 DEF Chaining, Fragments
  <2>7. Reading => Reading'
    BY <2>1, <2>3, <2>4 DEF Reading, Fragments
  <2> QED BY <2>1, <2>2, <2>5, <2>6, <2>7 DEF TransferInv
<1> QED BY <1>1, <1>2, <1>3, <1>4, <1>5, BeginStep, FromFragchainStep, ChainStepStep, ChainEndStep,
           FromSerIovStep, FromPsmxStep, ReadSliceStep, ReadEofStep, ReadDoneStep DEF TransferNext

(* so that a sample arrives as it was written or not at all, however it is  *)
(* cut into slices and fragments, whichever of them are lost, repeated or   *)
(* overlap, and however often it is forwarded.                              *)
THEOREM SamplesArriveWhole == TransferSpec => []AssemblySound
<1>1. TransferInit => TransferInv
  BY TransferInvInit
<1>2. TransferInv /\ [TransferNext]_transferVars => TransferInv'
  BY TransferInvStep
<1>3. TransferInv => AssemblySound
  BY TransferInvSound
<1> QED BY <1>1, <1>2, <1>3, PTL DEF TransferSpec
=============================================================================
