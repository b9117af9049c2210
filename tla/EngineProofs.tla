----------------------------- MODULE EngineProofs -----------------------------
(***************************************************************************)
(* Theorems about Engine, for every list of sources and resumes, every     *)
(* batch size and every answer of the model, and about RateLimiter, which  *)
(* each source of the engine asks first, for every policy, every number of *)
(* tenants and callers, every difference of clocks and every number of     *)
(* restarts.                                                               *)
(***************************************************************************)
EXTENDS Engine, RateLimiter, WellFoundedInduction, SequenceTheorems, TLAPS


-----------------------------------------------------------------------------
(* Arithmetic, with the products that occur below as terms of their own *)

LEMMA Distributive ==
  \A r, x, y \in Nat : r * (x + y) = r * x + r * y /\ (x + y) * r = x * r + y * r /\ r * x \in Nat
  OBVIOUS

LEMMA OneMore == \A r, x \in Nat : (x + 1) * r = x * r + r
  OBVIOUS

LEMMA Monotone == \A r, x, y \in Nat : x <= y => x * r <= y * r
<1> SUFFICES ASSUME NEW r \in Nat, NEW x \in Nat, NEW y \in Nat, x <= y PROVE x * r <= y * r
  OBVIOUS
<1>1. PICK d \in Nat : y = x + d
  <2> WITNESS y - x \in Nat
  <2> QED
    OBVIOUS
<1>2. y * r = x * r + d * r /\ d * r \in Nat /\ x * r \in Nat
  BY <1>1, Distributive
<1> QED
  BY <1>2

LEMMA SumType == \A x, y \in Nat : x + y \in Nat
  OBVIOUS

LEMMA DifferenceType == \A x, y \in Nat : (IF x > y THEN x - y ELSE 0) \in Nat
  OBVIOUS

LEMMA Quotient == \A x \in Nat : \A y \in Nat \ {0} : x \div y \in Nat
  OBVIOUS

LEMMA Division ==
  \A x \in Nat : \A r \in Nat \ {0} : (x \div r) * r <= x /\ x < (x \div r) * r + r
  OBVIOUS

LEMMA Remainder ==
  \A x \in Nat : \A r \in Nat \ {0} :
    x % r \in Nat /\ x % r < r /\ x = (x \div r) * r + (x % r)
  OBVIOUS

LEMMA UniqueDivision ==
  ASSUME NEW r \in Nat \ {0}, NEW q \in Nat, NEW p \in Nat, NEW s \in Nat, NEW t \in Nat,
         s < r, t < r, q * r + s = p * r + t
  PROVE  q = p /\ s = t
<1>0. q * r \in Nat /\ p * r \in Nat
  BY Distributive
<1>1. ASSUME NEW a \in Nat, NEW b \in Nat, a < b PROVE a * r + r <= b * r /\ a * r \in Nat
  <2>1. a + 1 \in Nat /\ a + 1 <= b
    BY <1>1
  <2>2. (a + 1) * r <= b * r
    BY <2>1, Monotone
  <2>3. (a + 1) * r = a * r + r /\ a * r \in Nat
    BY OneMore, Distributive
  <2>4. QED
    BY <2>2, <2>3
<1>2. ~(q < p)
  <2> SUFFICES ASSUME q < p PROVE FALSE
    OBVIOUS
  <2>1. q * r + r <= p * r
    BY <1>1
  <2>2. QED
    BY <1>0, <2>1
<1>3. ~(p < q)
  <2> SUFFICES ASSUME p < q PROVE FALSE
    OBVIOUS
  <2>1. p * r + r <= q * r
    BY <1>1
  <2>2. QED
    BY <1>0, <2>1
<1>4. q = p
  BY <1>2, <1>3
<1>5. QED
  BY <1>0, <1>4

-----------------------------------------------------------------------------
(* Induction and recursion, of sets and functions *)

\* A set that holds zero and the successor of each of its numbers holds all of
\* them: there is no least number outside.
LEMMA Induction ==
  ASSUME NEW S, 0 \in S, \A n \in Nat : n \in S => n + 1 \in S
  PROVE  \A n \in Nat : n \in S
<1> DEFINE T == Nat \ S
           Less == {p \in Nat \X Nat : p[1] < p[2]}
<1>1. SUFFICES ASSUME T # {} PROVE FALSE
  OBVIOUS
<1>2. IsWellFoundedOn(Less, Nat)
  <2>1. OpToRel(<, Nat) = Less
    BY DEF OpToRel
  <2>2. QED
    BY <2>1, NatLessThanWellFounded, Zenon
<1>3. PICK x \in T : \A y \in T : <<y, x>> \notin Less
  <2> HIDE DEF Less
  <2>1. T \subseteq Nat
    OBVIOUS
  <2> HIDE DEF T
  <2>2. QED
    BY <1>1, <1>2, <2>1, WFMin, Zenon
<1>4. x \in Nat /\ x # 0 /\ x - 1 \in Nat
  OBVIOUS
<1>5. <<x - 1, x>> \in Less
  BY <1>4
<1>6. x - 1 \in S
  BY <1>3, <1>4, <1>5
<1>7. (x - 1) + 1 \in S /\ (x - 1) + 1 = x
  BY <1>4, <1>6
<1>8. QED
  BY <1>7

\* The values of a loop over N elements after every turn, from a on and with G for
\* its body.
Turns(f, a, N, G) == f = [n \in 0..N |-> IF n = 0 THEN a ELSE G[<<n, f[n - 1]>>]]

LEMMA Recursion ==
  ASSUME NEW V, NEW a \in V, NEW N \in Nat, NEW G \in [(1..N) \X V -> V]
  PROVE  \E f \in [0..N -> V] : Turns(f, a, N, G)
<1> DEFINE Fits(m, f) == /\ f \in [0..m -> V] /\ f[0] = a
                         /\ \A n \in 1..m : f[n] = G[<<n, f[n - 1]>>]
           S == {m \in Nat : m <= N => \E f : Fits(m, f)}
<1>1. 0 \in S
  <2>1. Fits(0, [n \in 0..0 |-> a])
    OBVIOUS
  <2>2. QED
    BY <2>1
<1>2. ASSUME NEW m \in Nat, m \in S PROVE m + 1 \in S
  <2> SUFFICES ASSUME m + 1 <= N PROVE \E f : Fits(m + 1, f)
    OBVIOUS
  <2>1. PICK f : Fits(m, f)
    BY <1>2
  <2> DEFINE g == [n \in 0..(m + 1) |-> IF n = m + 1 THEN G[<<m + 1, f[m]>>] ELSE f[n]]
  <2>2. f[m] \in V /\ m + 1 \in 1..N
    BY <2>1
  <2>3. G[<<m + 1, f[m]>>] \in V
    BY <2>2
  <2>4. g \in [0..(m + 1) -> V]
    BY <2>1, <2>3
  <2>5. g[0] = a
    BY <2>1
  <2>6. ASSUME NEW n \in 1..(m + 1) PROVE g[n] = G[<<n, g[n - 1]>>]
    <3>1. n - 1 \in 0..m /\ g[n - 1] = f[n - 1]
      OBVIOUS
    <3>2. CASE n = m + 1
      BY <3>1, <3>2
    <3>3. CASE n # m + 1
      <4>1. n \in 1..m /\ g[n] = f[n]
        BY <3>3
      <4>2. QED
        BY <2>1, <3>1, <4>1
    <3>4. QED
      BY <3>2, <3>3
  <2> HIDE DEF g
  <2>7. Fits(m + 1, g)
    BY <2>4, <2>5, <2>6
  <2>8. QED
    BY <2>7
<1> HIDE DEF S
<1>3. \A m \in Nat : m \in S
  BY <1>1, <1>2, Induction, Zenon
<1>4. N \in S
  BY <1>3
<1>5. PICK f : Fits(N, f)
  BY <1>4 DEF S
<1>6. f = [n \in 0..N |-> IF n = 0 THEN a ELSE G[<<n, f[n - 1]>>]]
  <2> DEFINE h == [n \in 0..N |-> IF n = 0 THEN a ELSE G[<<n, f[n - 1]>>]]
  <2>1. ASSUME NEW n \in 0..N PROVE f[n] = h[n]
    <3>1. CASE n = 0
      BY <1>5, <3>1
    <3>2. CASE n # 0
      <4>1. n \in 1..N
        BY <3>2
      <4>2. QED
        BY <1>5, <3>2, <4>1
    <3>3. QED
      BY <3>1, <3>2
  <2>2. DOMAIN f = 0..N /\ DOMAIN h = 0..N
    BY <1>5
  <2>3. f \in [0..N -> V]
    BY <1>5
  <2>4. QED
    BY <2>1, <2>2, <2>3
<1>7. QED
  BY <1>5, <1>6 DEF Turns

-----------------------------------------------------------------------------
(* The loops of the engine *)

\* Each posting of the list that is not known is kept once, whatever the order.
LEMMA Deduplicated ==
  ASSUME NEW jobs \in Seq(Postings)
  PROVE  /\ FirstOfEach(jobs) \in Seq(Postings)
         /\ IsInjective(FirstOfEach(jobs))
         /\ Range(FirstOfEach(jobs)) = Range(jobs) \ known
<1> DEFINE V == Seq(Postings)
           N == Len(jobs)
           Body(n, k) == IF jobs[n] \in known \cup Range(k) THEN k ELSE Append(k, jobs[n])
           G == [x \in (1..N) \X V |-> Body(x[1], x[2])]
           kept == CHOOSE f : f = [n \in 0..N |-> IF n = 0 THEN <<>> ELSE Body(n, f[n - 1])]
<1>1. N \in Nat /\ DOMAIN jobs = 1..N /\ \A n \in 1..N : jobs[n] \in Postings
  OBVIOUS
<1>2. <<>> \in V
  OBVIOUS
<1>3. \A n \in 1..N : \A k \in V : Body(n, k) \in V
  BY <1>1
<1>4. G \in [(1..N) \X V -> V]
  BY <1>3
<1> HIDE DEF V
<1>5. PICK f \in [0..N -> V] : Turns(f, <<>>, N, G)
  <2> HIDE DEF G, N
  <2>1. N \in Nat
    BY <1>1
  <2>2. QED
    BY <2>1, <1>2, <1>4, Recursion
<1>6. \A n \in 1..N : n - 1 \in 0..N /\ f[n - 1] \in V
  <2>1. \A n \in 1..N : n - 1 \in 0..N
    BY <1>1
  <2> HIDE DEF N, G
  <2>2. QED
    BY <2>1, <1>5
<1>7. \A n \in 1..N : G[<<n, f[n - 1]>>] = Body(n, f[n - 1])
  BY <1>6
<1>8. f = [n \in 0..N |-> IF n = 0 THEN <<>> ELSE Body(n, f[n - 1])]
  <2> HIDE DEF G, Body
  <2>1. \A n \in 0..N : n # 0 => n \in 1..N
    BY <1>1
  <2>2. QED
    BY <1>5, <1>7, <2>1 DEF Turns
<1>9. kept = [n \in 0..N |-> IF n = 0 THEN <<>> ELSE Body(n, kept[n - 1])]
  <2> HIDE DEF Body
  <2>1. QED
    BY <1>8
<1>10. FirstOfEach(jobs) = kept[N]
  BY DEF FirstOfEach
<1> HIDE DEF kept, G
<1> DEFINE Good(n) == /\ kept[n] \in Seq(Postings) /\ IsInjective(kept[n])
                      /\ Range(kept[n]) = {jobs[i] : i \in 1..n} \ known
           S == {n \in Nat : n <= N => Good(n)}
<1>11. 0 \in S
  <2>1. kept[0] = <<>>
    <3> HIDE DEF Body
    <3>1. 0 \in 0..N
      BY <1>1
    <3>2. QED
      BY <1>9, <3>1
  <2>2. IsInjective(<<>>) /\ Range(<<>>) = {} /\ <<>> \in Seq(Postings)
    BY DEF IsInjective, Range
  <2>3. QED
    BY <2>1, <2>2
<1>12. ASSUME NEW n \in Nat, n \in S PROVE n + 1 \in S
  <2> SUFFICES ASSUME n + 1 <= N PROVE Good(n + 1)
    BY <1>1
  <2>1. Good(n)
    BY <1>1, <1>12
  <2>2. kept[n + 1] = Body(n + 1, kept[n])
    <3> HIDE DEF Body
    <3>1. n + 1 \in 0..N /\ n + 1 # 0 /\ (n + 1) - 1 = n
      BY <1>1
    <3>2. QED
      BY <1>9, <3>1
  <2>3. {jobs[i] : i \in 1..(n + 1)} = {jobs[i] : i \in 1..n} \cup {jobs[n + 1]}
    OBVIOUS
  <2>4. CASE jobs[n + 1] \in known \cup Range(kept[n])
    BY <2>1, <2>2, <2>3, <2>4
  <2>5. CASE jobs[n + 1] \notin known \cup Range(kept[n])
    <3> DEFINE k == kept[n]
               k1 == Append(k, jobs[n + 1])
    <3>1. k \in Seq(Postings) /\ jobs[n + 1] \in Postings /\ kept[n + 1] = k1
      BY <1>1, <2>1, <2>2, <2>5
    <3> HIDE DEF k
    <3>2. /\ k1 \in Seq(Postings) /\ Len(k) \in Nat /\ DOMAIN k = 1..Len(k)
          /\ DOMAIN k1 = 1..(Len(k) + 1) /\ k1[Len(k) + 1] = jobs[n + 1]
          /\ \A i \in 1..Len(k) : k1[i] = k[i]
      BY <3>1
    <3> HIDE DEF k1
    <3>3. Range(k1) = Range(k) \cup {jobs[n + 1]}
      <4>1. ASSUME NEW x \in Range(k1) PROVE x \in Range(k) \cup {jobs[n + 1]}
        <5>1. PICK i \in 1..(Len(k) + 1) : x = k1[i]
          BY <3>2 DEF Range
        <5>2. i \in 1..Len(k) \/ i = Len(k) + 1
          BY <3>2
        <5>3. QED
          BY <3>2, <5>1, <5>2 DEF Range
      <4>2. ASSUME NEW x \in Range(k) PROVE x \in Range(k1)
        <5>1. PICK i \in 1..Len(k) : x = k[i]
          BY <3>2 DEF Range
        <5>2. i \in 1..(Len(k) + 1)
          BY <3>2
        <5>3. QED
          BY <3>2, <5>1, <5>2 DEF Range
      <4>3. Len(k) + 1 \in DOMAIN k1
        BY <3>2
      <4>4. jobs[n + 1] \in Range(k1)
        BY <3>2, <4>3 DEF Range
      <4>5. QED
        BY <4>1, <4>2, <4>4
    <3>4. IsInjective(k) /\ jobs[n + 1] \notin Range(k)
      BY <2>1, <2>5 DEF k
    <3>5. IsInjective(k1)
      <4> SUFFICES ASSUME NEW a \in DOMAIN k1, NEW b \in DOMAIN k1, k1[a] = k1[b] PROVE a = b
        BY DEF IsInjective
      <4>1. /\ a \in DOMAIN k \/ a = Len(k) + 1
            /\ b \in DOMAIN k \/ b = Len(k) + 1
        BY <3>2
      <4>2. QED
        BY <3>2, <3>4, <4>1 DEF IsInjective, Range
    <3>6. Range(k1) = {jobs[i] : i \in 1..(n + 1)} \ known
      BY <2>1, <2>3, <2>5, <3>3 DEF k
    <3>7. QED
      BY <3>1, <3>2, <3>5, <3>6
  <2>6. QED
    BY <2>4, <2>5
<1> HIDE DEF S
<1>13. \A n \in Nat : n \in S
  BY <1>11, <1>12, Induction, Zenon
<1>14. Good(N)
  <2>1. N \in S /\ N <= N
    BY <1>1, <1>13
  <2> HIDE DEF Good
  <2>2. QED
    BY <2>1 DEF S
<1>15. {jobs[i] : i \in 1..N} = Range(jobs)
  BY <1>1 DEF Range
<1>16. QED
  BY <1>10, <1>14, <1>15

\* What passes is kept, in the order of the list: e says from where each element is.
Kept(list, upTo, kept, e) ==
  /\ e \in [1..Len(kept) -> 1..upTo]
  /\ \A i \in 1..Len(kept) : kept[i] = list[e[i]] /\ Passes(list[e[i]])
  /\ \A i, j \in 1..Len(kept) : i < j => e[i] < e[j]
  /\ \A n \in 1..upTo : Passes(list[n]) => \E i \in 1..Len(kept) : e[i] = n

LEMMA Passed ==
  ASSUME NEW M, NEW scored \in Seq(M)
  PROVE  Passing(scored) \in Seq(M) /\ \E e : Kept(scored, Len(scored), Passing(scored), e)
<1> DEFINE V == Seq(M)
           N == Len(scored)
           Body(n, k) == IF Passes(scored[n]) THEN Append(k, scored[n]) ELSE k
           G == [x \in (1..N) \X V |-> Body(x[1], x[2])]
           kept == CHOOSE f : f = [n \in 0..N |-> IF n = 0 THEN <<>> ELSE Body(n, f[n - 1])]
<1>1. N \in Nat /\ DOMAIN scored = 1..N /\ \A n \in 1..N : scored[n] \in M
  OBVIOUS
<1>2. <<>> \in V
  OBVIOUS
<1>3. \A n \in 1..N : \A k \in V : Body(n, k) \in V
  BY <1>1
<1>4. G \in [(1..N) \X V -> V]
  BY <1>3
<1> HIDE DEF V
<1>5. PICK f \in [0..N -> V] : Turns(f, <<>>, N, G)
  <2> HIDE DEF G, N
  <2>1. N \in Nat
    BY <1>1
  <2>2. QED
    BY <2>1, <1>2, <1>4, Recursion
<1>6. \A n \in 1..N : n - 1 \in 0..N /\ f[n - 1] \in V
  <2>1. \A n \in 1..N : n - 1 \in 0..N
    BY <1>1
  <2> HIDE DEF N, G
  <2>2. QED
    BY <2>1, <1>5
<1>7. \A n \in 1..N : G[<<n, f[n - 1]>>] = Body(n, f[n - 1])
  BY <1>6
<1>8. f = [n \in 0..N |-> IF n = 0 THEN <<>> ELSE Body(n, f[n - 1])]
  <2> HIDE DEF G, Body
  <2>1. \A n \in 0..N : n # 0 => n \in 1..N
    BY <1>1
  <2>2. QED
    BY <1>5, <1>7, <2>1 DEF Turns
<1>9. kept = [n \in 0..N |-> IF n = 0 THEN <<>> ELSE Body(n, kept[n - 1])]
  <2> HIDE DEF Body
  <2>1. QED
    BY <1>8
<1>10. Passing(scored) = kept[N]
  BY DEF Passing
<1> HIDE DEF kept, G
<1> DEFINE Good(n) == kept[n] \in Seq(M) /\ \E e : Kept(scored, n, kept[n], e)
           S == {n \in Nat : n <= N => Good(n)}
<1>11. 0 \in S
  <2>1. kept[0] = <<>>
    <3> HIDE DEF Body
    <3>1. 0 \in 0..N
      BY <1>1
    <3>2. QED
      BY <1>9, <3>1
  <2>2. Kept(scored, 0, <<>>, <<>>)
    <3>1. Len(<<>>) = 0 /\ 1..0 = {} /\ <<>> \in [{} -> {}]
      OBVIOUS
    <3>2. QED
      BY <3>1 DEF Kept
  <2>3. <<>> \in Seq(M)
    OBVIOUS
  <2>4. QED
    BY <2>1, <2>2, <2>3
<1>12. ASSUME NEW n \in Nat, n \in S PROVE n + 1 \in S
  <2> SUFFICES ASSUME n + 1 <= N PROVE Good(n + 1)
    BY <1>1
  <2>1. Good(n)
    BY <1>1, <1>12
  <2>2. PICK e : Kept(scored, n, kept[n], e)
    BY <2>1
  <2>3. kept[n + 1] = Body(n + 1, kept[n])
    <3> HIDE DEF Body
    <3>1. n + 1 \in 0..N /\ n + 1 # 0 /\ (n + 1) - 1 = n
      BY <1>1
    <3>2. QED
      BY <1>9, <3>1
  <2> DEFINE k == kept[n]
             L == Len(k)
  <2>4. k \in Seq(M) /\ L \in Nat
    BY <2>1
  <2>5. \A m \in 1..(n + 1) : m \in 1..n \/ m = n + 1
    OBVIOUS
  <2>6. CASE ~Passes(scored[n + 1])
    <3>1. kept[n + 1] = k
      BY <2>3, <2>6
    <3>2. e \in [1..L -> 1..(n + 1)]
      BY <2>2 DEF Kept
    <3>3. Kept(scored, n + 1, k, e)
      BY <2>2, <2>5, <2>6, <3>2 DEF Kept
    <3>4. QED
      BY <2>4, <3>1, <3>3
  <2>7. CASE Passes(scored[n + 1])
    <3> DEFINE k1 == Append(k, scored[n + 1])
               e1 == [i \in 1..(L + 1) |-> IF i = L + 1 THEN n + 1 ELSE e[i]]
    <3>1. kept[n + 1] = k1 /\ scored[n + 1] \in M
      BY <1>1, <2>3, <2>7
    <3> HIDE DEF k
    <3>2. /\ k1 \in Seq(M) /\ Len(k1) = L + 1 /\ k1[L + 1] = scored[n + 1]
          /\ \A i \in 1..L : k1[i] = k[i]
      BY <2>4, <3>1
    <3>3. /\ e \in [1..L -> 1..n]
          /\ \A i \in 1..L : k[i] = scored[e[i]] /\ Passes(scored[e[i]])
          /\ \A i, j \in 1..L : i < j => e[i] < e[j]
          /\ \A m \in 1..n : Passes(scored[m]) => \E i \in 1..L : e[i] = m
      BY <2>2 DEF Kept, k
    <3>4. \A i \in 1..(L + 1) : i \in 1..L \/ i = L + 1
      BY <2>4
    <3> HIDE DEF k1, L
    <3>5. /\ e1 \in [1..(L + 1) -> 1..(n + 1)] /\ e1[L + 1] = n + 1
          /\ \A i \in 1..L : e1[i] = e[i] /\ e[i] \in 1..n /\ i \in 1..(L + 1)
      BY <2>4, <3>3
    <3> HIDE DEF e1
    <3>6. \A i \in 1..(L + 1) : k1[i] = scored[e1[i]] /\ Passes(scored[e1[i]])
      BY <2>7, <3>2, <3>3, <3>4, <3>5
    <3>7. \A i, j \in 1..(L + 1) : i < j => e1[i] < e1[j]
      <4> SUFFICES ASSUME NEW i \in 1..(L + 1), NEW j \in 1..(L + 1), i < j PROVE e1[i] < e1[j]
        OBVIOUS
      <4>1. i \in 1..L
        BY <2>4
      <4>2. CASE j \in 1..L
        BY <3>3, <3>5, <4>1, <4>2
      <4>3. CASE j = L + 1
        BY <3>5, <4>1, <4>3
      <4>4. QED
        BY <3>4, <4>2, <4>3
    <3>8. \A m \in 1..(n + 1) : Passes(scored[m]) => \E i \in 1..(L + 1) : e1[i] = m
      <4>1. L + 1 \in 1..(L + 1)
        BY <2>4
      <4>2. QED
        BY <2>5, <3>3, <3>5, <4>1
    <3>9. Kept(scored, n + 1, k1, e1)
      BY <3>2, <3>5, <3>6, <3>7, <3>8 DEF Kept
    <3>10. QED
      BY <3>1, <3>2, <3>9
  <2>8. QED
    BY <2>6, <2>7
<1> HIDE DEF S
<1>13. \A n \in Nat : n \in S
  BY <1>11, <1>12, Induction, Zenon
<1>14. Good(N)
  <2>1. N \in S /\ N <= N
    BY <1>1, <1>13
  <2> HIDE DEF Good
  <2>2. QED
    BY <2>1 DEF S
<1>15. QED
  BY <1>10, <1>14

\* A score is a natural number of percent.
LEMMA ScoreType ==
  /\ \A x \in Score : x.pct \in Nat
  /\ \A r \in Range(Resumes), p \in Postings : ByKeyword(r, p) \in Score
<1>1. ASSUME NEW r \in Range(Resumes) PROVE Keyword[r] \in [Postings -> Nat]
  BY KeywordAssumption
<1>2. ASSUME NEW x \in Score PROVE x.pct \in Nat
  <2>1. x.pct \in Percentages \cup UNION {Range(Keyword[r]) : r \in Range(Resumes)}
    BY DEF Score
  <2>2. CASE x.pct \in Percentages
    BY <2>2, EngineAssumption
  <2>3. ASSUME NEW r \in Range(Resumes), x.pct \in Range(Keyword[r]) PROVE x.pct \in Nat
    <3>1. PICK p \in DOMAIN Keyword[r] : x.pct = Keyword[r][p]
      BY <2>3, Zenon DEF Range
    <3>2. QED
      BY <1>1, <3>1
  <2>4. QED
    BY <2>1, <2>2, <2>3
<1>3. ASSUME NEW r \in Range(Resumes), NEW p \in Postings PROVE ByKeyword(r, p) \in Score
  <2>1. p \in DOMAIN Keyword[r]
    BY <1>1
  <2>2. Keyword[r][p] \in Range(Keyword[r])
    BY <2>1, Zenon DEF Range
  <2>3. Keyword[r][p] \in UNION {Range(Keyword[s]) : s \in Range(Resumes)}
    BY <2>2
  <2>4. QED
    BY <2>3 DEF ByKeyword, Score
<1>4. QED
  BY <1>2, <1>3

LEMMA ResumesAreList ==
  /\ Len(Resumes) \in Nat /\ DOMAIN Resumes = 1..Len(Resumes)
  /\ \A k \in 1..Len(Resumes) : Resumes[k] \in Range(Resumes)
  /\ \A r \in Range(Resumes) : \E k \in 1..Len(Resumes) : Resumes[k] = r
  /\ Resumes # <<>> => Len(Resumes) # 0
<1>1. Resumes \in Seq(Range(Resumes))
  BY OrderAssumption
<1>2. Len(Resumes) \in Nat /\ DOMAIN Resumes = 1..Len(Resumes) /\ (Resumes # <<>> => Len(Resumes) # 0)
  BY <1>1
<1>3. QED
  BY <1>2, Zenon DEF Range

\* The candidate at k has the highest score of those up to m, and is the first with it.
Leads(k, m, n) ==
  /\ k \in 1..m
  /\ \A j \in 1..m :
       /\ Candidate(Resumes[j], n).score.pct <= Candidate(Resumes[k], n).score.pct
       /\ Candidate(Resumes[j], n).score.pct = Candidate(Resumes[k], n).score.pct => k <= j

\* Of the candidates of all resumes, the first of the highest score is taken.
LEMMA BestIsFirst ==
  ASSUME NEW n, Resumes # <<>>, \A r \in Range(Resumes) : Candidate(r, n) \in Match
  PROVE  \E k \in 1..Len(Resumes) : Leads(k, Len(Resumes), n) /\ Best(n) = Candidate(Resumes[k], n)
<1> DEFINE C(k) == Candidate(Resumes[k], n)
           N == Len(Resumes)
           V == {Nobody} \cup {C(k) : k \in 1..N}
           Body(k, b) == IF Better(b, C(k)) THEN C(k) ELSE b
           G == [x \in (1..N) \X V |-> Body(x[1], x[2])]
           best == CHOOSE f : f = [k \in 0..N |-> IF k = 0 THEN Nobody ELSE Body(k, f[k - 1])]
<1>1. N \in Nat /\ N # 0
  BY ResumesAreList
<1>2. ASSUME NEW k \in 1..N PROVE C(k) # Nobody /\ C(k).score.pct \in Nat
  <2>1. C(k) \in Match
    BY ResumesAreList
  <2>2. C(k).score \in Score
    BY <2>1 DEF Match
  <2>3. QED
    BY <2>1, <2>2, ScoreType, NobodyAssumption
<1>3. Best(n) = best[N]
  BY DEF Best
<1> HIDE DEF C, N
<1>4. G \in [(1..N) \X V -> V]
  OBVIOUS
<1>5. PICK f \in [0..N -> V] : Turns(f, Nobody, N, G)
  <2>1. Nobody \in V
    OBVIOUS
  <2> HIDE DEF G, V
  <2>2. QED
    BY <1>1, <1>4, <2>1, Recursion
<1>6. \A k \in 1..N : k - 1 \in 0..N /\ f[k - 1] \in V
  <2>1. \A k \in 1..N : k - 1 \in 0..N
    BY <1>1
  <2> HIDE DEF V, G
  <2>2. QED
    BY <2>1, <1>5
<1>7. \A k \in 1..N : G[<<k, f[k - 1]>>] = Body(k, f[k - 1])
  <2> HIDE DEF V, Body
  <2>1. QED
    BY <1>6
<1>8. f = [k \in 0..N |-> IF k = 0 THEN Nobody ELSE Body(k, f[k - 1])]
  <2> HIDE DEF G, V, Body
  <2>1. \A k \in 0..N : k # 0 => k \in 1..N
    BY <1>1
  <2>2. QED
    BY <1>5, <1>7, <2>1 DEF Turns
<1>9. best = [k \in 0..N |-> IF k = 0 THEN Nobody ELSE Body(k, best[k - 1])]
  <2> HIDE DEF Body
  <2>1. QED
    BY <1>8
<1>10. /\ best[0] = Nobody
       /\ \A m \in Nat : m + 1 <= N => best[m + 1] = Body(m + 1, best[m])
  <2> HIDE DEF Body, best
  <2>1. 0 \in 0..N
    BY <1>1
  <2>2. best[0] = Nobody
    BY <1>9, <2>1
  <2>3. ASSUME NEW m \in Nat, m + 1 <= N PROVE best[m + 1] = Body(m + 1, best[m])
    <3>1. m + 1 \in 0..N /\ m + 1 # 0 /\ (m + 1) - 1 = m
      BY <1>1, <2>3
    <3>2. QED
      BY <1>9, <3>1
  <2>4. QED
    BY <2>2, <2>3
<1> HIDE DEF best, G
<1> DEFINE pct(k) == C(k).score.pct
           First(k, m) == k \in 1..m /\ \A j \in 1..m : pct(j) <= pct(k) /\ (pct(j) = pct(k) => k <= j)
           Good(m) == \E k \in 1..m : First(k, m) /\ best[m] = C(k)
           S == {m \in Nat : m # 0 /\ m <= N => Good(m)}
<1>11. 0 \in S
  OBVIOUS
<1>12. ASSUME NEW m \in Nat, m \in S PROVE m + 1 \in S
  <2> SUFFICES ASSUME m + 1 <= N PROVE Good(m + 1)
    BY <1>1
  <2>0. /\ m + 1 \in 1..N /\ m + 1 \in 1..(m + 1)
        /\ \A j \in 1..(m + 1) : j \in 1..N /\ (j \in 1..m \/ j = m + 1)
    BY <1>1
  <2>1. best[m + 1] = Body(m + 1, best[m])
    <3> HIDE DEF Body
    <3>1. QED
      BY <1>10
  <2>2. CASE m = 0
    <3>1. best[m + 1] = C(m + 1)
      BY <1>10, <2>1, <2>2 DEF Better
    <3>2. First(m + 1, m + 1)
      BY <1>2, <2>0, <2>2
    <3>3. QED
      BY <2>0, <3>1, <3>2
  <2>3. CASE m # 0
    <3>1. Good(m)
      BY <1>1, <1>12, <2>3
    <3>2. PICK k \in 1..m : First(k, m) /\ best[m] = C(k)
      BY <3>1
    <3>3. k \in 1..N /\ k \in 1..(m + 1) /\ \A j \in 1..(m + 1) : pct(j) \in Nat
      <4> HIDE DEF C
      <4>1. k \in 1..N /\ k \in 1..(m + 1)
        BY <2>0
      <4>2. QED
        BY <1>2, <2>0, <4>1
    <3>4. Better(C(k), C(m + 1)) <=> pct(m + 1) > pct(k)
      BY <1>2, <3>3 DEF Better
    <3> HIDE DEF C, pct
    <3>5. CASE pct(m + 1) > pct(k)
      <4>1. best[m + 1] = C(m + 1)
        BY <2>1, <3>2, <3>4, <3>5
      <4>2. ASSUME NEW j \in 1..m PROVE pct(j) < pct(m + 1)
        <5>1. pct(j) <= pct(k) /\ j \in 1..(m + 1)
          BY <3>2
        <5>2. QED
          BY <2>0, <3>3, <3>5, <5>1
      <4>3. ASSUME NEW j \in 1..(m + 1)
            PROVE  pct(j) <= pct(m + 1) /\ (pct(j) = pct(m + 1) => m + 1 <= j)
        <5>1. pct(m + 1) \in Nat /\ pct(j) \in Nat
          BY <2>0, <3>3
        <5>2. CASE j = m + 1
          BY <5>1, <5>2
        <5>3. CASE j \in 1..m
          BY <4>2, <5>1, <5>3
        <5>4. QED
          BY <2>0, <5>2, <5>3
      <4>4. First(m + 1, m + 1)
        BY <2>0, <4>3
      <4>5. QED
        BY <2>0, <4>1, <4>4
    <3>6. CASE ~(pct(m + 1) > pct(k))
      <4>1. best[m + 1] = C(k)
        BY <2>1, <3>2, <3>4, <3>6
      <4>2. ASSUME NEW j \in 1..(m + 1)
            PROVE  pct(j) <= pct(k) /\ (pct(j) = pct(k) => k <= j)
        <5>1. CASE j \in 1..m
          BY <3>2, <5>1
        <5>2. CASE j = m + 1
          BY <2>0, <3>3, <3>6, <5>2
        <5>3. QED
          BY <2>0, <5>1, <5>2
      <4>3. First(k, m + 1)
        BY <3>3, <4>2
      <4>4. QED
        BY <3>3, <4>1, <4>3
    <3>7. QED
      BY <3>5, <3>6
  <2>4. QED
    BY <2>2, <2>3
<1> HIDE DEF S
<1>13. \A m \in Nat : m \in S
  BY <1>11, <1>12, Induction, Zenon
<1>14. Good(N)
  <2>1. N \in S /\ N <= N /\ N # 0
    BY <1>1, <1>13
  <2> HIDE DEF Good
  <2>2. QED
    BY <2>1 DEF S
<1>15. QED
  BY <1>3, <1>14 DEF C, N, Leads

-----------------------------------------------------------------------------
(* The batches: each new posting is at one place of one batch *)

\* Where the batch of the posting at index n starts.
Start(n) == ((n - 1) \div BatchSize) * BatchSize

LEMMA StartType ==
  ASSUME NEW jobs \in Seq(Postings), NEW s \in Starts(jobs)
  PROVE  s \in Nat /\ s < Len(jobs) /\ \E q \in Nat : s = q * BatchSize
<1>1. s \in Nat /\ s < Len(jobs) /\ s % BatchSize = 0
  BY DEF Starts
<1>2. BatchSize \in Nat \ {0}
  BY EngineAssumption
<1>3. s = (s \div BatchSize) * BatchSize + 0 /\ s \div BatchSize \in Nat
  BY <1>1, <1>2, Remainder, Quotient
<1>4. (s \div BatchSize) * BatchSize \in Nat
  BY <1>2, <1>3, Distributive
<1>5. QED
  BY <1>1, <1>3, <1>4

\* A batch is what its name says, the last one may be short.
LEMMA BatchFacts ==
  ASSUME newJobs \in Seq(Postings), NEW t, t[2] \in Starts(newJobs)
  PROVE  /\ Batch(t) \in Seq(Postings)
         /\ Len(Batch(t)) \in Nat /\ DOMAIN Batch(t) = 1..Len(Batch(t))
         /\ \A i \in 1..Len(Batch(t)) : /\ i <= BatchSize /\ t[2] + i \in 1..Len(newJobs)
                                        /\ Batch(t)[i] = newJobs[t[2] + i]
         /\ \A i \in 1..BatchSize : t[2] + i <= Len(newJobs) => i \in 1..Len(Batch(t))
<1> DEFINE N == Len(newJobs)
           s == t[2]
           end == IF s + BatchSize < N THEN s + BatchSize ELSE N
<1>1. s \in Nat /\ s < N /\ N \in Nat /\ BatchSize \in Nat \ {0}
  BY StartType, EngineAssumption
<1>2. Batch(t) = SubSeq(newJobs, s + 1, end)
  BY DEF Batch
<1> HIDE DEF s
<1>3. s + 1 \in Int /\ end \in Int /\ s + 1 <= end /\ end <= N /\ end - (s + 1) + 1 = end - s
  BY <1>1
<1>4. \A i \in (s + 1)..end : newJobs[i] \in Postings
  <2>1. \A i \in (s + 1)..end : i \in 1..N
    BY <1>1, <1>3
  <2>2. QED
    BY <2>1
<1> DEFINE b == SubSeq(newJobs, s + 1, end)
<1>5. /\ b \in Seq(Postings) /\ Len(b) = end - s
      /\ \A i \in 1..(end - s) : b[i] = newJobs[s + 1 + i - 1]
  <2> HIDE DEF N
  <2>1. /\ b \in Seq(Postings)
        /\ Len(b) = IF s + 1 <= end THEN end - (s + 1) + 1 ELSE 0
        /\ \A i \in 1..(end - (s + 1) + 1) : b[i] = newJobs[s + 1 + i - 1]
    <3> HIDE DEF end
    <3>1. QED
      BY <1>3, <1>4, SubSeqProperties
  <2> HIDE DEF b
  <2>2. QED
    BY <1>3, <2>1
<1> HIDE DEF b
<1>6. /\ Len(b) \in Nat /\ DOMAIN b = 1..Len(b)
  BY <1>5
<1>7. ASSUME NEW i \in 1..Len(b)
      PROVE  i <= BatchSize /\ s + i \in 1..N /\ b[i] = newJobs[s + i]
  <2>1. i \in 1..(end - s) /\ s + 1 + i - 1 = s + i /\ i <= BatchSize /\ s + i \in 1..N
    BY <1>1, <1>3, <1>5
  <2>2. b[i] = newJobs[s + i]
    BY <1>5, <2>1
  <2>3. QED
    BY <2>1, <2>2
<1>8. ASSUME NEW i \in 1..BatchSize, s + i <= N PROVE i \in 1..Len(b)
  BY <1>1, <1>3, <1>5, <1>8
<1>9. QED
  BY <1>2, <1>5, <1>6, <1>7, <1>8 DEF b, s

\* Every posting is in the batch that starts at its Start, at its Offset.
LEMMA BatchOf ==
  ASSUME newJobs \in Seq(Postings), NEW n \in 1..Len(newJobs), NEW r
  PROVE  /\ Start(n) \in Starts(newJobs)
         /\ Offset(n) \in 1..Len(Batch(<<r, Start(n)>>))
         /\ Batch(<<r, Start(n)>>)[Offset(n)] = newJobs[n]
<1> DEFINE N == Len(newJobs)
           B == BatchSize
<1>1. N \in Nat /\ B \in Nat \ {0} /\ n - 1 \in Nat
  BY EngineAssumption
<1>2. /\ (n - 1) % B \in Nat /\ (n - 1) % B < B
      /\ n - 1 = Start(n) + ((n - 1) % B) /\ (n - 1) \div B \in Nat
  BY <1>1, Remainder, Quotient DEF Start
<1>3. Start(n) \in Nat
  BY <1>1, <1>2, Distributive DEF Start
<1>4. Offset(n) \in 1..B /\ n = Start(n) + Offset(n)
  <2> DEFINE m == (n - 1) % B
             s == Start(n)
  <2>1. Offset(n) = m + 1
    BY DEF Offset
  <2> HIDE DEF m, s
  <2>2. m \in Nat /\ m < B /\ n - 1 = s + m /\ s \in Nat
    BY <1>2, <1>3 DEF m, s
  <2>3. Offset(n) \in 1..B /\ n = s + Offset(n)
    BY <1>1, <2>1, <2>2
  <2>4. QED
    BY <2>3 DEF s
<1>5. Start(n) % B = 0
  <2> DEFINE s == Start(n)
  <2>1. /\ s % B \in Nat /\ s % B < B /\ s = (s \div B) * B + (s % B) /\ s \div B \in Nat
    BY <1>1, <1>3, Remainder, Quotient
  <2>2. s = ((n - 1) \div B) * B + 0
    BY <1>3 DEF Start
  <2>3. (s \div B) * B + (s % B) = ((n - 1) \div B) * B + 0 /\ 0 \in Nat /\ 0 < B
    BY <1>1, <2>1, <2>2
  <2> DEFINE m == s % B
             q == s \div B
             p == (n - 1) \div B
  <2>4. m \in Nat /\ m < B /\ q \in Nat /\ p \in Nat /\ q * B + m = p * B + 0
    BY <1>2, <2>1, <2>3
  <2> HIDE DEF m, q, p, s, B
  <2>5. m = 0
    BY <1>1, <2>3, <2>4, UniqueDivision
  <2>6. QED
    BY <2>5 DEF m, s, B
<1>6. Start(n) \in Starts(newJobs)
  <2>1. Start(n) \in 0..(N - 1)
    BY <1>1, <1>3, <1>4
  <2>2. QED
    BY <1>5, <2>1 DEF Starts
<1> DEFINE t == <<r, Start(n)>>
<1>7. t[2] = Start(n)
  OBVIOUS
<1> HIDE DEF t
<1>8. Start(n) + Offset(n) <= N
  BY <1>4
<1>9. Offset(n) \in 1..Len(Batch(t))
  BY <1>4, <1>6, <1>7, <1>8, BatchFacts
<1>10. Batch(t)[Offset(n)] = newJobs[n]
  BY <1>4, <1>6, <1>7, <1>9, BatchFacts
<1>11. QED
  BY <1>6, <1>9, <1>10 DEF t

\* And it is in no other one, nor twice in this one.
LEMMA BatchesApart ==
  ASSUME newJobs \in Seq(Postings), IsInjective(newJobs),
         NEW t, t[2] \in Starts(newJobs), NEW i \in 1..Len(Batch(t)),
         NEW u, u[2] \in Starts(newJobs), NEW j \in 1..Len(Batch(u)),
         Batch(t)[i] = Batch(u)[j]
  PROVE  t[2] = u[2] /\ i = j
<1> DEFINE B == BatchSize
<1>1. /\ i <= B /\ t[2] + i \in 1..Len(newJobs) /\ Batch(t)[i] = newJobs[t[2] + i]
      /\ Len(Batch(t)) \in Nat
  BY BatchFacts
<1>2. /\ j <= B /\ u[2] + j \in 1..Len(newJobs) /\ Batch(u)[j] = newJobs[u[2] + j]
      /\ Len(Batch(u)) \in Nat
  BY BatchFacts
<1>3. t[2] + i = u[2] + j
  <2>1. DOMAIN newJobs = 1..Len(newJobs)
    OBVIOUS
  <2>2. QED
    BY <1>1, <1>2, <2>1 DEF IsInjective
<1>4. B \in Nat \ {0} /\ t[2] \in Nat /\ u[2] \in Nat
  BY StartType, EngineAssumption
<1>5. PICK q \in Nat : t[2] = q * B
  BY StartType
<1>6. PICK p \in Nat : u[2] = p * B
  BY StartType
<1>7. /\ i - 1 \in Nat /\ j - 1 \in Nat /\ i - 1 < B /\ j - 1 < B
      /\ q * B + (i - 1) = p * B + (j - 1)
  BY <1>1, <1>2, <1>3, <1>4, <1>5, <1>6
<1> HIDE DEF B
<1>8. q = p
  BY <1>4, <1>7, UniqueDivision
<1>9. t[2] = u[2]
  BY <1>5, <1>6, <1>8
<1>10. QED
  BY <1>1, <1>2, <1>3, <1>4, <1>9

-----------------------------------------------------------------------------
(* The inductive invariant *)

\* The calls are those of the deduplicated postings.
JobsFit ==
  /\ known \subseteq Postings
  /\ outcome \in {"running", "returned", "raised"}
  /\ stage \in {"scrape", "dedupe", "match", "report"}
  /\ perSource \in Seq({"ok", "failed", "skipped", "unknown"}) /\ Len(perSource) <= Len(Sources)
  /\ allJobs \in Seq(Postings) /\ newJobs \in Seq(Postings) /\ IsInjective(newJobs)
  /\ stage \in {"scrape", "dedupe"} => newJobs = <<>>
  /\ stage \in {"match", "report"} => Range(newJobs) = Range(allJobs) \ known
  /\ call \in [Tasks(newJobs) -> {"waiting", "flying", "done"}]

\* A call that has answered is done and gave each posting of its batch a score;
\* what was said is what the answers say.
AnswersFit ==
  /\ \A t \in DOMAIN answer : /\ t \in DOMAIN call /\ call[t] = "done"
                              /\ answer[t] \in [1..Len(Batch(t)) -> Score]
  /\ \A t \in DOMAIN answer : \A i \in 1..Len(Batch(t)) :
       /\ <<t[1], Batch(t)[i]>> \in DOMAIN said
       /\ said[<<t[1], Batch(t)[i]>>] = answer[t][i]
  /\ \A x \in DOMAIN said : \E t \in DOMAIN answer : \E i \in 1..Len(Batch(t)) :
       x = <<t[1], Batch(t)[i]>>
  /\ said = [x \in DOMAIN said |-> said[x]]

\* A call that is done without an answer has raised, and the run with it.
NoneLost ==
  Running \/ stage = "report" => \A t \in DOMAIN call : call[t] = "done" => t \in DOMAIN answer

\* What batch_match returns: the best match of each new posting.
Evaluated(list) ==
  /\ list \in Seq(Match)
  /\ Resumes = <<>> => list = <<>>
  /\ Resumes # <<>> => /\ Len(list) = Len(newJobs)
                       /\ \A n \in 1..Len(newJobs) : list[n].posting = newJobs[n] /\ BestOf(list[n])

\* The result is what dedupe and answers give, once the calls are done.
ResultFits ==
  /\ outcome = "returned" => stage = "report"
  /\ stage # "report" => matched = <<>> /\ degraded = FALSE
  /\ stage = "report" =>
       /\ \A t \in DOMAIN call : call[t] = "done"
       /\ \E list : Evaluated(list) /\ matched = Passing(list) /\ degraded = Degraded(list)

EngineInv == JobsFit /\ AnswersFit /\ NoneLost /\ ResultFits

\* The tasks of the new postings are pairs of a resume and a start.
LEMMA TaskFacts ==
  ASSUME NEW jobs, NEW t \in Tasks(jobs)
  PROVE  t[1] \in Range(Resumes) /\ t[2] \in Starts(jobs) /\ t = <<t[1], t[2]>>
  BY DEF Tasks

LEMMA NoTasks == Tasks(<<>>) = {}
<1>1. Starts(<<>>) = {}
  <2>1. 0..(Len(<<>>) - 1) = {}
    OBVIOUS
  <2>2. QED
    BY <2>1 DEF Starts
<1>2. QED
  BY <1>1 DEF Tasks

\* Without new postings nothing is answered or said.
LEMMA Silence == ASSUME JobsFit, AnswersFit, newJobs = <<>>
                 PROVE  DOMAIN call = {} /\ DOMAIN answer = {} /\ DOMAIN said = {}
<1>1. DOMAIN call = {}
  BY NoTasks DEF JobsFit
<1>2. QED
  BY <1>1 DEF AnswersFit

\* A candidate carries what was said of its posting: the default score of a posting
\* without an evaluation (matching.py:142) is never used.
LEMMA CandidateSaid ==
  ASSUME JobsFit, AnswersFit, \A t \in DOMAIN call : t \in DOMAIN answer,
         NEW n \in 1..Len(newJobs), NEW r \in Range(Resumes)
  PROVE  /\ Candidate(r, n) \in Match
         /\ Candidate(r, n).posting = newJobs[n] /\ Candidate(r, n).resume = r
         /\ <<r, newJobs[n]>> \in DOMAIN said
         /\ Candidate(r, n).score = said[<<r, newJobs[n]>>]
<1> DEFINE t == <<r, Start(n)>>
<1>1. newJobs \in Seq(Postings) /\ newJobs[n] \in Postings
  BY DEF JobsFit
<1>2. /\ Start(n) \in Starts(newJobs)
      /\ Offset(n) \in 1..Len(Batch(t)) /\ Batch(t)[Offset(n)] = newJobs[n]
  BY <1>1, BatchOf
<1>3. t \in DOMAIN answer
  <2>1. t \in Tasks(newJobs)
    BY <1>2 DEF Tasks
  <2>2. QED
    BY <2>1 DEF JobsFit
<1>4. t[1] = r
  OBVIOUS
<1>5. Candidate(r, n) = [posting |-> newJobs[n], resume |-> r,
                         score |-> IF Offset(n) \in DOMAIN answer[t] THEN answer[t][Offset(n)]
                                   ELSE [pct |-> 0, fallback |-> FALSE]]
  BY DEF Candidate, Start
<1> HIDE DEF t
<1>6. answer[t] \in [1..Len(Batch(t)) -> Score]
  BY <1>3 DEF AnswersFit
<1>7. Offset(n) \in DOMAIN answer[t] /\ answer[t][Offset(n)] \in Score
  BY <1>2, <1>6
<1>8. /\ <<r, newJobs[n]>> \in DOMAIN said
      /\ said[<<r, newJobs[n]>>] = answer[t][Offset(n)]
  BY <1>2, <1>3, <1>4 DEF AnswersFit
<1>9. QED
  BY <1>1, <1>5, <1>7, <1>8 DEF Match

-----------------------------------------------------------------------------
(* Each step keeps it *)

LEMMA AnswersKept ==
  ASSUME AnswersFit, UNCHANGED <<newJobs, call, answer, said>>
  PROVE  AnswersFit'
<1>1. \A t : Batch(t)' = Batch(t)
  BY DEF Batch
<1>2. QED
  BY <1>1 DEF AnswersFit

LEMMA EvaluationKept ==
  ASSUME UNCHANGED <<newJobs, said>>, NEW list, Evaluated(list)
  PROVE  Evaluated(list)'
<1>1. \A m : BestOf(m)' <=> BestOf(m)
  BY DEF BestOf
<1>2. QED
  BY <1>1 DEF Evaluated, Match, Score

LEMMA ResultKept ==
  ASSUME ResultFits, UNCHANGED <<newJobs, call, said, stage, resultVars>>,
         outcome' = "returned" => stage = "report"
  PROVE  ResultFits'
<1>1. CASE stage # "report"
  BY <1>1 DEF ResultFits, resultVars
<1>2. CASE stage = "report"
  <2>1. PICK list : Evaluated(list) /\ matched = Passing(list) /\ degraded = Degraded(list)
    BY <1>2 DEF ResultFits
  <2>2. Evaluated(list)'
    BY <2>1, EvaluationKept
  <2>3. matched' = Passing(list) /\ degraded' = Degraded(list)
    BY <2>1 DEF resultVars
  <2>4. QED
    BY <1>2, <2>2, <2>3 DEF ResultFits, Passing, Passes, Degraded
<1>3. QED
  BY <1>1, <1>2

LEMMA InitialInv == EngineInit => EngineInv
<1> SUFFICES ASSUME EngineInit PROVE EngineInv
  OBVIOUS
<1>1. JobsFit
  <2>1. <<>> \in Seq(Postings) /\ <<>> \in Seq({"ok", "failed", "skipped", "unknown"})
        /\ Len(<<>>) = 0 /\ DOMAIN <<>> = {} /\ <<>> \in [{} -> {"waiting", "flying", "done"}]
    OBVIOUS
  <2>2. IsInjective(<<>>)
    BY DEF IsInjective
  <2>3. Len(Sources) \in Nat
    BY OrderAssumption
  <2>4. QED
    BY <2>1, <2>2, <2>3, NoTasks DEF EngineInit, JobsFit
<1>2. AnswersFit
  <2>1. DOMAIN <<>> = {} /\ <<>> = [x \in {} |-> <<>>[x]]
    OBVIOUS
  <2>2. QED
    BY <2>1 DEF EngineInit, AnswersFit
<1>3. NoneLost
  BY DEF EngineInit, NoneLost
<1>4. ResultFits
  BY DEF EngineInit, ResultFits
<1>5. QED
  BY <1>1, <1>2, <1>3, <1>4 DEF EngineInv

\* What a source returned, or was not asked for.
LEMMA SourceStep ==
  ASSUME EngineInv, Scrape \/ ScrapeFails \/ SkipSource
  PROVE  EngineInv'
<1>1. /\ stage = "scrape" /\ Len(perSource) < Len(Sources)
      /\ UNCHANGED <<known, outcome, stage, resultVars, matchVars>>
  BY DEF Scrape, ScrapeFails, SkipSource
<1>2. UNCHANGED <<newJobs, call, answer, said, matched, degraded>>
  BY <1>1 DEF resultVars, matchVars
<1>3. allJobs' \in Seq(Postings)
  <2>1. ASSUME NEW found \in SeqOf(Postings, MaxFound) PROVE allJobs \o found \in Seq(Postings)
    <3>1. PICK m \in 0..MaxFound : found \in [1..m -> Postings]
      BY <2>1 DEF SeqOf
    <3>2. m \in Nat
      BY <3>1, EngineAssumption
    <3>3. found \in Seq(Postings)
      BY <3>1, <3>2
    <3>4. QED
      BY <3>3 DEF EngineInv, JobsFit
  <2>2. allJobs \in Seq(Postings)
    BY DEF EngineInv, JobsFit
  <2>3. QED
    BY <2>1, <2>2 DEF Scrape, ScrapeFails, SkipSource
<1>4. perSource' \in Seq({"ok", "failed", "skipped", "unknown"}) /\ Len(perSource') <= Len(Sources)
  <2>1. PICK result \in {"ok", "failed", "skipped", "unknown"} : perSource' = Append(perSource, result)
    BY DEF Scrape, ScrapeFails, SkipSource, NextSource
  <2>2. perSource \in Seq({"ok", "failed", "skipped", "unknown"}) /\ Len(Sources) \in Nat
    BY OrderAssumption DEF EngineInv, JobsFit
  <2>3. QED
    BY <1>1, <2>1, <2>2
<1>5. JobsFit'
  BY <1>1, <1>2, <1>3, <1>4 DEF EngineInv, JobsFit, Tasks, Starts
<1>6. AnswersFit'
  BY <1>2, AnswersKept DEF EngineInv
<1>7. NoneLost'
  BY <1>1, <1>2 DEF EngineInv, NoneLost, Running
<1>8. ResultFits'
  <2>1. outcome' = "returned" => stage = "report"
    BY <1>1 DEF EngineInv, ResultFits
  <2>2. QED
    BY <1>1, <1>2, <2>1, ResultKept DEF EngineInv
<1>9. QED
  BY <1>5, <1>6, <1>7, <1>8 DEF EngineInv

LEMMA EndScrapeStep == ASSUME EngineInv, EndScrape PROVE EngineInv'
<1>1. /\ stage = "scrape" /\ stage' = "dedupe" /\ Running
      /\ UNCHANGED <<known, outcome, perSource, allJobs, newJobs, call, answer, said, matched, degraded>>
  BY DEF EndScrape, resultVars, matchVars
<1>2. JobsFit'
  BY <1>1 DEF EngineInv, JobsFit, Tasks, Starts
<1>3. AnswersFit'
  BY <1>1, AnswersKept DEF EngineInv
<1>4. NoneLost'
  BY <1>1 DEF EngineInv, NoneLost, Running
<1>5. ResultFits'
  BY <1>1 DEF EngineInv, ResultFits
<1>6. QED
  BY <1>2, <1>3, <1>4, <1>5 DEF EngineInv

LEMMA DedupeStep == ASSUME EngineInv, Dedupe PROVE EngineInv'
<1>1. /\ stage = "dedupe" /\ stage' = "match" /\ Running /\ newJobs' = FirstOfEach(allJobs)
      /\ call' = [t \in Tasks(newJobs') |-> "waiting"]
      /\ UNCHANGED <<known, outcome, perSource, allJobs, matched, degraded, answer, said>>
  BY DEF Dedupe
<1>2. DOMAIN answer = {} /\ DOMAIN said = {}
  BY <1>1, Silence DEF EngineInv, JobsFit
<1>3. /\ newJobs' \in Seq(Postings) /\ IsInjective(newJobs')
      /\ Range(newJobs') = Range(allJobs) \ known
  BY <1>1, Deduplicated DEF EngineInv, JobsFit
<1>4. JobsFit'
  <2>1. call' \in [Tasks(newJobs)' -> {"waiting", "flying", "done"}]
    BY <1>1 DEF Tasks, Starts
  <2>2. QED
    BY <1>1, <1>3, <2>1 DEF EngineInv, JobsFit, IsInjective, Range
<1>5. AnswersFit'
  BY <1>1, <1>2 DEF EngineInv, AnswersFit
<1>6. NoneLost'
  BY <1>1 DEF NoneLost
<1>7. ResultFits'
  BY <1>1 DEF EngineInv, ResultFits
<1>8. QED
  BY <1>4, <1>5, <1>6, <1>7 DEF EngineInv

\* While a call is waiting or under way, the result is not made up yet.
LEMMA StillOpen ==
  ASSUME EngineInv, NEW t \in DOMAIN call, call[t] # "done"
  PROVE  stage # "report" /\ outcome # "returned"
  BY DEF EngineInv, ResultFits

LEMMA StartStep == ASSUME EngineInv, NEW t \in DOMAIN call, StartCall(t) PROVE EngineInv'
<1>1. /\ call[t] = "waiting" /\ call' = [call EXCEPT ![t] = "flying"]
      /\ UNCHANGED <<known, outcome, perSource, allJobs, stage, newJobs, matched, degraded, answer, said>>
  BY DEF StartCall, resultVars
<1>2. stage # "report" /\ outcome # "returned"
  BY <1>1, StillOpen
<1>3. /\ DOMAIN call' = DOMAIN call
      /\ \A u \in DOMAIN call : call'[u] = "done" <=> call[u] = "done"
  BY <1>1
<1>4. JobsFit'
  <2>1. call' \in [Tasks(newJobs) -> {"waiting", "flying", "done"}]
    BY <1>1 DEF EngineInv, JobsFit
  <2>2. QED
    BY <1>1, <2>1 DEF EngineInv, JobsFit, Tasks, Starts
<1>5. AnswersFit'
  <2>1. \A u : Batch(u)' = Batch(u)
    BY <1>1 DEF Batch
  <2>2. QED
    BY <1>1, <1>3, <2>1 DEF EngineInv, AnswersFit
<1>6. NoneLost'
  BY <1>1, <1>3 DEF EngineInv, NoneLost, Running
<1>7. ResultFits'
  BY <1>1, <1>2 DEF EngineInv, ResultFits
<1>8. QED
  BY <1>4, <1>5, <1>6, <1>7 DEF EngineInv

LEMMA MalformedStep == ASSUME EngineInv, NEW t \in DOMAIN call, Malformed(t) PROVE EngineInv'
<1>1. /\ call[t] = "flying" /\ call' = [call EXCEPT ![t] = "done"]
      /\ outcome' = IF Running THEN "raised" ELSE outcome
      /\ UNCHANGED <<known, perSource, allJobs, stage, newJobs, matched, degraded, answer, said>>
  BY DEF Malformed, resultVars
<1>2. stage # "report" /\ outcome # "returned"
  BY <1>1, StillOpen
<1>3. DOMAIN call' = DOMAIN call /\ \A u \in DOMAIN call : call[u] = "done" => call'[u] = "done"
  BY <1>1
<1>4. JobsFit'
  <2>1. call' \in [Tasks(newJobs) -> {"waiting", "flying", "done"}]
    BY <1>1 DEF EngineInv, JobsFit
  <2>2. QED
    BY <1>1, <2>1 DEF EngineInv, JobsFit, Tasks, Starts
<1>5. AnswersFit'
  <2>1. \A u : Batch(u)' = Batch(u)
    BY <1>1 DEF Batch
  <2>2. QED
    BY <1>1, <1>3, <2>1 DEF EngineInv, AnswersFit
<1>6. NoneLost'
  BY <1>1, <1>2 DEF NoneLost, Running
<1>7. ResultFits'
  BY <1>1, <1>2 DEF EngineInv, ResultFits, Running
<1>8. QED
  BY <1>4, <1>5, <1>6, <1>7 DEF EngineInv

\* A call that comes back says something of its postings, to its resume, and no
\* other call has or will.
LEMMA EndStep == ASSUME EngineInv, NEW t \in DOMAIN call, EndCall(t) PROVE EngineInv'
<1> DEFINE b == Batch(t)
           Given(reply) == [i \in DOMAIN reply |->
                              IF reply[i] = Nobody THEN ByKeyword(t[1], b[i]) ELSE reply[i]]
<1>1. /\ call[t] = "flying" /\ call' = [call EXCEPT ![t] = "done"]
      /\ UNCHANGED <<known, outcome, perSource, allJobs, stage, newJobs, matched, degraded>>
  BY DEF EndCall, resultVars
<1>2. stage # "report" /\ outcome # "returned"
  BY <1>1, StillOpen
<1>3. /\ DOMAIN call' = DOMAIN call /\ call'[t] = "done"
      /\ \A u \in DOMAIN call : u # t => call'[u] = call[u]
  BY <1>1
<1>4. newJobs \in Seq(Postings) /\ IsInjective(newJobs) /\ DOMAIN call = Tasks(newJobs)
  BY DEF EngineInv, JobsFit
<1>5. \A u \in DOMAIN call : u[1] \in Range(Resumes) /\ u[2] \in Starts(newJobs) /\ u = <<u[1], u[2]>>
  BY <1>4, TaskFacts
<1>6. b \in Seq(Postings) /\ Len(b) \in Nat /\ DOMAIN b = 1..Len(b)
  BY <1>4, <1>5, BatchFacts
<1>7. t \notin DOMAIN answer
  BY <1>1 DEF EngineInv, AnswersFit
<1>8. PICK reply \in Replies(Len(b)) :
        /\ answer' = [u \in DOMAIN answer \cup {t} |-> IF u = t THEN Given(reply) ELSE answer[u]]
        /\ said' = [x \in DOMAIN said \cup {<<t[1], p>> : p \in Range(b)} |->
                      IF x \in DOMAIN said THEN said[x]
                      ELSE Given(reply)[CHOOSE i \in DOMAIN Given(reply) : b[i] = x[2]]]
  BY DEF EndCall
<1> DEFINE given == Given(reply)
<1>9. given \in [1..Len(b) -> Score]
  <2>1. DOMAIN reply = 1..Len(b)
    BY DEF Replies
  <2>2. ASSUME NEW i \in 1..Len(b) PROVE Given(reply)[i] \in Score
    <3>1. reply[i] = Nobody \/ \E x \in Percentages : reply[i] = [pct |-> x, fallback |-> FALSE]
      BY DEF Replies
    <3>2. CASE reply[i] = Nobody
      <4>1. b[i] \in Postings
        BY <1>6
      <4>2. Given(reply)[i] = ByKeyword(t[1], b[i])
        BY <2>1, <3>2
      <4>3. QED
        BY <1>5, <4>1, <4>2, ScoreType
    <3>3. CASE reply[i] # Nobody
      <4>1. Given(reply)[i] = reply[i]
        BY <2>1, <3>3
      <4>2. PICK x \in Percentages : reply[i] = [pct |-> x, fallback |-> FALSE]
        BY <3>1, <3>3
      <4>3. [pct |-> x, fallback |-> FALSE] \in Score
        BY DEF Score
      <4>4. QED
        BY <4>1, <4>2, <4>3
    <3>4. QED
      BY <3>2, <3>3
  <2>3. QED
    BY <2>1, <2>2
<1> HIDE DEF given, b
<1>10. /\ DOMAIN answer' = DOMAIN answer \cup {t} /\ answer'[t] = given
       /\ \A u \in DOMAIN answer : answer'[u] = answer[u]
  BY <1>7, <1>8 DEF given
<1>11. \A u : Batch(u)' = Batch(u)
  BY <1>1 DEF Batch
\* What a posting of the batch is: new to what was said.
<1>12. ASSUME NEW i \in 1..Len(b) PROVE <<t[1], b[i]>> \notin DOMAIN said
  <2> SUFFICES ASSUME <<t[1], b[i]>> \in DOMAIN said PROVE FALSE
    OBVIOUS
  <2>1. PICK u \in DOMAIN answer : \E j \in 1..Len(Batch(u)) : <<t[1], b[i]>> = <<u[1], Batch(u)[j]>>
    BY DEF EngineInv, AnswersFit
  <2>2. PICK j \in 1..Len(Batch(u)) : <<t[1], b[i]>> = <<u[1], Batch(u)[j]>>
    BY <2>1
  <2>3. u \in DOMAIN call
    BY DEF EngineInv, AnswersFit
  <2>4. t[1] = u[1] /\ Batch(t)[i] = Batch(u)[j]
    BY <2>2 DEF b
  <2>5. t[2] = u[2]
    BY <1>4, <1>5, <2>3, <2>4, BatchesApart DEF b
  <2>6. t = u
    BY <1>5, <2>3, <2>4, <2>5
  <2>7. QED
    BY <1>7, <2>6
<1>13. ASSUME NEW i \in 1..Len(b), NEW j \in 1..Len(b), b[i] = b[j] PROVE i = j
  BY <1>4, <1>5, <1>13, BatchesApart DEF b
<1>14. DOMAIN said' = DOMAIN said \cup {<<t[1], p>> : p \in Range(b)}
  BY <1>8
<1>15. \A x \in DOMAIN said : said'[x] = said[x]
  BY <1>8
<1>16. ASSUME NEW i \in 1..Len(b)
       PROVE  <<t[1], b[i]>> \in DOMAIN said' /\ said'[<<t[1], b[i]>>] = given[i]
  <2> DEFINE x == <<t[1], b[i]>>
  <2>1. b[i] \in Range(b)
    BY <1>6 DEF Range
  <2>2. x \in DOMAIN said' /\ x \notin DOMAIN said /\ x[2] = b[i]
    BY <1>12, <1>14, <2>1
  <2>3. said'[x] = given[CHOOSE j \in DOMAIN given : b[j] = x[2]]
    <3> HIDE DEF x
    <3>1. QED
      BY <1>8, <1>14, <2>2 DEF given
  <2>4. DOMAIN given = 1..Len(b)
    BY <1>9
  <2> DEFINE c == CHOOSE j \in DOMAIN given : b[j] = x[2]
  <2> HIDE DEF x
  <2>5. c \in DOMAIN given /\ b[c] = x[2]
    BY <2>2, <2>4
  <2> HIDE DEF c
  <2>6. c = i
    BY <1>13, <2>2, <2>4, <2>5
  <2>7. QED
    BY <2>2, <2>3, <2>6 DEF c, x
<1>17. JobsFit'
  <2>1. call' \in [Tasks(newJobs) -> {"waiting", "flying", "done"}]
    BY <1>1 DEF EngineInv, JobsFit
  <2>2. QED
    BY <1>1, <2>1 DEF EngineInv, JobsFit, Tasks, Starts
<1>18. AnswersFit'
  <2>1. ASSUME NEW u \in DOMAIN answer'
        PROVE  /\ u \in DOMAIN call' /\ call'[u] = "done"
               /\ answer'[u] \in [1..Len(Batch(u)) -> Score]
    <3>1. CASE u = t
      BY <1>3, <1>9, <1>10, <3>1 DEF b
    <3>2. CASE u # t
      <4>1. u \in DOMAIN answer
        BY <1>10, <2>1, <3>2
      <4>2. QED
        BY <1>3, <1>10, <3>2, <4>1 DEF EngineInv, AnswersFit
    <3>3. QED
      BY <3>1, <3>2
  <2>2. ASSUME NEW u \in DOMAIN answer', NEW i \in 1..Len(Batch(u))
        PROVE  /\ <<u[1], Batch(u)[i]>> \in DOMAIN said'
               /\ said'[<<u[1], Batch(u)[i]>>] = answer'[u][i]
    <3>1. CASE u = t
      BY <1>10, <1>16, <3>1 DEF b
    <3>2. CASE u # t
      <4>1. u \in DOMAIN answer
        BY <1>10, <2>2, <3>2
      <4>2. /\ <<u[1], Batch(u)[i]>> \in DOMAIN said
            /\ said[<<u[1], Batch(u)[i]>>] = answer[u][i]
        BY <4>1 DEF EngineInv, AnswersFit
      <4>3. QED
        BY <1>10, <1>14, <1>15, <4>1, <4>2
    <3>3. QED
      BY <3>1, <3>2
  <2>3. ASSUME NEW x \in DOMAIN said'
        PROVE  \E u \in DOMAIN answer' : \E i \in 1..Len(Batch(u)) : x = <<u[1], Batch(u)[i]>>
    <3>1. CASE x \in DOMAIN said
      BY <1>10, <3>1 DEF EngineInv, AnswersFit
    <3>2. CASE x \notin DOMAIN said
      <4>1. PICK p \in Range(b) : x = <<t[1], p>>
        BY <1>14, <2>3, <3>2
      <4>2. PICK i \in 1..Len(b) : p = b[i]
        BY <1>6, <4>1 DEF Range
      <4>3. QED
        BY <1>10, <4>1, <4>2 DEF b
    <3>3. QED
      BY <3>1, <3>2
  <2>4. said' = [x \in DOMAIN said' |-> said'[x]]
    BY <1>8
  <2>5. QED
    BY <1>11, <2>1, <2>2, <2>3, <2>4 DEF AnswersFit
<1>19. NoneLost'
  BY <1>1, <1>2, <1>3, <1>10 DEF EngineInv, NoneLost, Running
<1>20. ResultFits'
  BY <1>1, <1>2 DEF EngineInv, ResultFits
<1>21. QED
  BY <1>17, <1>18, <1>19, <1>20 DEF EngineInv

\* The best candidate of a posting carries the best of what was said of it.
LEMMA BestIsEvaluated ==
  ASSUME JobsFit, AnswersFit, \A t \in DOMAIN call : t \in DOMAIN answer, Resumes # <<>>,
         NEW n \in 1..Len(newJobs)
  PROVE  Best(n) \in Match /\ Best(n).posting = newJobs[n] /\ BestOf(Best(n))
<1>1. \A r \in Range(Resumes) :
        /\ Candidate(r, n) \in Match
        /\ Candidate(r, n).posting = newJobs[n] /\ Candidate(r, n).resume = r
        /\ Candidate(r, n).score = said[<<r, newJobs[n]>>]
  BY CandidateSaid
<1>2. PICK k \in 1..Len(Resumes) : Leads(k, Len(Resumes), n) /\ Best(n) = Candidate(Resumes[k], n)
  BY <1>1, BestIsFirst
<1> DEFINE m == Best(n)
<1>3. Resumes[k] \in Range(Resumes)
  BY ResumesAreList
<1>4. /\ m \in Match /\ m.posting = newJobs[n] /\ m.resume = Resumes[k]
      /\ m.score = said[<<Resumes[k], newJobs[n]>>]
  BY <1>1, <1>2, <1>3
<1> HIDE DEF m
<1>5. ASSUME NEW j \in DOMAIN Resumes
      PROVE  /\ said[<<Resumes[j], m.posting>>].pct <= m.score.pct
             /\ said[<<Resumes[j], m.posting>>].pct = m.score.pct
                  => \E l \in 1..j : Resumes[l] = m.resume
  <2>1. j \in 1..Len(Resumes) /\ Resumes[j] \in Range(Resumes)
    BY ResumesAreList
  <2>2. /\ said[<<Resumes[j], m.posting>>] = Candidate(Resumes[j], n).score
        /\ m.score = Candidate(Resumes[k], n).score
    BY <1>1, <1>3, <1>4, <2>1
  <2>3. /\ said[<<Resumes[j], m.posting>>].pct <= m.score.pct
        /\ said[<<Resumes[j], m.posting>>].pct = m.score.pct => k <= j
    BY <1>2, <2>1, <2>2 DEF Leads
  <2>4. k <= j => k \in 1..j
    BY <2>1, ResumesAreList
  <2>5. QED
    BY <1>4, <2>3, <2>4
<1>6. BestOf(m)
  BY <1>4, <1>5 DEF BestOf
<1>7. QED
  BY <1>4, <1>6 DEF m

LEMMA CollectStep == ASSUME EngineInv, Collect PROVE EngineInv'
<1> DEFINE list == IF Resumes = <<>> THEN <<>> ELSE [n \in 1..Len(newJobs) |-> Best(n)]
<1>1. /\ Running /\ stage = "match" /\ stage' = "report"
      /\ \A t \in DOMAIN call : call[t] = "done"
      /\ matched' = Passing(list) /\ degraded' = Degraded(list)
      /\ UNCHANGED <<known, outcome, perSource, allJobs, newJobs, call, answer, said>>
  BY DEF Collect, matchVars
<1>2. \A t \in DOMAIN call : t \in DOMAIN answer
  BY <1>1 DEF EngineInv, NoneLost
<1>3. Evaluated(list)
  <2>1. CASE Resumes = <<>>
    <3>1. list = <<>> /\ <<>> \in Seq(Match)
      BY <2>1
    <3>2. QED
      BY <2>1, <3>1 DEF Evaluated
  <2>2. CASE Resumes # <<>>
    <3>1. Len(newJobs) \in Nat
      BY DEF EngineInv, JobsFit
    <3>2. \A n \in 1..Len(newJobs) :
            Best(n) \in Match /\ Best(n).posting = newJobs[n] /\ BestOf(Best(n))
      BY <1>2, <2>2, BestIsEvaluated DEF EngineInv
    <3>3. list = [n \in 1..Len(newJobs) |-> Best(n)]
      BY <2>2
    <3> HIDE DEF list
    <3>4. list \in [1..Len(newJobs) -> Match] /\ \A n \in 1..Len(newJobs) : list[n] = Best(n)
      BY <3>2, <3>3
    <3>5. list \in Seq(Match) /\ Len(list) = Len(newJobs)
      BY <3>1, <3>4
    <3>6. QED
      BY <2>2, <3>2, <3>4, <3>5 DEF Evaluated
  <2>3. QED
    BY <2>1, <2>2
<1> HIDE DEF list
<1>4. JobsFit'
  BY <1>1 DEF EngineInv, JobsFit, Tasks, Starts
<1>5. AnswersFit'
  BY <1>1, AnswersKept DEF EngineInv
<1>6. NoneLost'
  BY <1>1, <1>2 DEF NoneLost
<1>7. ResultFits'
  <2> SUFFICES ASSUME NEW l, l = list
               PROVE  ResultFits'
    OBVIOUS
  <2>1. Evaluated(l)'
    BY <1>1, <1>3, EvaluationKept
  <2>2. matched' = Passing(l) /\ degraded' = Degraded(l)
    BY <1>1
  <2>3. QED
    BY <1>1, <2>1, <2>2 DEF ResultFits, Passing, Passes, Degraded
<1>8. QED
  BY <1>4, <1>5, <1>6, <1>7 DEF EngineInv

\* The end of run_engine, and no step at all.
LEMMA LastSteps ==
  ASSUME EngineInv, ReturnResult \/ StepFails \/ UNCHANGED engineVars
  PROVE  EngineInv'
<1>1. UNCHANGED <<known, perSource, allJobs, stage, newJobs, matched, degraded, call, answer, said>>
  BY DEF ReturnResult, StepFails, engineVars, resultVars, matchVars
<1>2. /\ outcome' \in {"running", "returned", "raised"}
      /\ outcome' = "running" => Running
      /\ outcome' = "returned" => stage = "report"
  BY DEF ReturnResult, StepFails, engineVars, EngineInv, JobsFit, ResultFits, Running
<1>3. JobsFit'
  BY <1>1, <1>2 DEF EngineInv, JobsFit, Tasks, Starts
<1>4. AnswersFit'
  BY <1>1, AnswersKept DEF EngineInv
<1>5. NoneLost'
  BY <1>1, <1>2 DEF EngineInv, NoneLost, Running
<1>6. ResultFits'
  BY <1>1, <1>2, ResultKept DEF EngineInv, resultVars
<1>7. QED
  BY <1>3, <1>4, <1>5, <1>6 DEF EngineInv

\* The invariant of the engine holds throughout, for every list of sources and
\* resumes, every batch size and every answer.
THEOREM EngineInvariance == EngineSpec => []EngineInv
<1>1. ASSUME EngineInv, [EngineNext]_engineVars PROVE EngineInv'
  <2>1. CASE Scrape \/ ScrapeFails \/ SkipSource
    BY <1>1, <2>1, SourceStep
  <2>2. CASE EndScrape
    BY <1>1, <2>2, EndScrapeStep
  <2>3. CASE Dedupe
    BY <1>1, <2>3, DedupeStep
  <2>4. CASE Collect
    BY <1>1, <2>4, CollectStep
  <2>5. CASE ReturnResult \/ StepFails \/ UNCHANGED engineVars
    BY <1>1, <2>5, LastSteps
  <2>6. ASSUME NEW t \in DOMAIN call, Calls(t) PROVE EngineInv'
    BY <1>1, <2>6, StartStep, EndStep, MalformedStep DEF Calls
  <2>7. QED
    BY <1>1, <2>1, <2>2, <2>3, <2>4, <2>5, <2>6 DEF EngineNext, Advance
<1>2. QED
  BY <1>1, InitialInv, PTL DEF EngineSpec

-----------------------------------------------------------------------------
(* What follows from it *)

\* The result of a run that got so far: every match is the best one of a new posting.
LEMMA ResultFacts ==
  ASSUME EngineInv, stage = "report"
  PROVE  \E list, e :
           /\ Evaluated(list) /\ degraded = Degraded(list)
           /\ matched \in Seq(Match) /\ Kept(list, Len(list), matched, e)
           /\ \A i \in 1..Len(matched) : /\ e[i] \in 1..Len(newJobs)
                                       /\ matched[i].posting = newJobs[e[i]]
                                       /\ BestOf(matched[i])
<1>1. PICK list : Evaluated(list) /\ matched = Passing(list) /\ degraded = Degraded(list)
  BY DEF EngineInv, ResultFits
<1>2. list \in Seq(Match)
  BY <1>1 DEF Evaluated
<1>3. matched \in Seq(Match) /\ \E e : Kept(list, Len(list), matched, e)
  BY <1>1, <1>2, Passed
<1>4. PICK e : Kept(list, Len(list), matched, e)
  BY <1>3
<1>5. ASSUME NEW i \in 1..Len(matched)
      PROVE  /\ e[i] \in 1..Len(newJobs)
             /\ matched[i].posting = newJobs[e[i]]
             /\ BestOf(matched[i])
  <2>1. e[i] \in 1..Len(list) /\ matched[i] = list[e[i]]
    BY <1>4 DEF Kept
  <2>2. Resumes # <<>>
    <3>1. list # <<>>
      BY <2>1
    <3>2. QED
      BY <1>1, <3>1 DEF Evaluated
  <2>3. QED
    BY <1>1, <2>1, <2>2 DEF Evaluated
<1>6. QED
  BY <1>1, <1>3, <1>4, <1>5

\* Every state of the engine is type correct: results are lists of matches, and each
\* answer is a score per posting of its batch (engine.py, matching.py).
THEOREM EngineTypes == EngineSpec => []EngineTypeOK
<1>1. ASSUME EngineInv PROVE EngineTypeOK
  <2> USE <1>1 DEF EngineInv
  <2>1. Range(call) \subseteq {"waiting", "flying", "done"}
    BY DEF JobsFit, Range
  <2>2. ASSUME NEW t \in DOMAIN answer PROVE answer[t] \in [1..Len(answer[t]) -> Score]
    <3>1. answer[t] \in [1..Len(Batch(t)) -> Score]
      BY DEF AnswersFit
    <3>2. Len(Batch(t)) \in Nat
      <4>1. t \in Tasks(newJobs) /\ newJobs \in Seq(Postings)
        BY DEF AnswersFit, JobsFit
      <4>2. QED
        BY <4>1, TaskFacts, BatchFacts
    <3>3. answer[t] \in Seq(Score) /\ Len(answer[t]) = Len(Batch(t))
      BY <3>1, <3>2
    <3>4. QED
      BY <3>1, <3>3
  <2>3. matched \in Seq(Match)
    <3>1. <<>> \in Seq(Match)
      OBVIOUS
    <3>2. QED
      BY <3>1, ResultFacts DEF ResultFits
  <2>4. degraded \in BOOLEAN
    <3>1. \A list : Degraded(list) \in BOOLEAN
      BY Zenon DEF Degraded
    <3>2. QED
      BY <3>1, Zenon DEF ResultFits
  <2>5. QED
    BY <2>1, <2>2, <2>3, <2>4 DEF JobsFit, EngineTypeOK
<1>2. QED
  BY <1>1, EngineInvariance, PTL

\* A result lists a posting once, and none the tenant was told of before: what
\* RunExecution takes run_engine to return.
THEOREM ResultIsNew == EngineSpec => []MatchesAreNew
<1>1. ASSUME EngineInv PROVE MatchesAreNew
  <2>1. CASE stage # "report"
    <3>1. matched = <<>> /\ DOMAIN matched = {}
      BY <1>1, <2>1 DEF EngineInv, ResultFits
    <3>2. QED
      BY <3>1 DEF MatchesAreNew, IsInjective
  <2>2. CASE stage = "report"
    <3>1. PICK list, e :
            /\ matched \in Seq(Match) /\ Kept(list, Len(list), matched, e)
            /\ \A i \in 1..Len(matched) : /\ e[i] \in 1..Len(newJobs)
                                        /\ matched[i].posting = newJobs[e[i]]
      BY <1>1, <2>2, ResultFacts
    <3>2. DOMAIN matched = 1..Len(matched) /\ Len(matched) \in Nat
      BY <3>1
    <3>3. /\ newJobs \in Seq(Postings) /\ IsInjective(newJobs)
          /\ Range(newJobs) = Range(allJobs) \ known
      BY <1>1, <2>2 DEF EngineInv, JobsFit
    <3>4. DOMAIN newJobs = 1..Len(newJobs)
      BY <3>3
    <3>5. ASSUME NEW i \in 1..Len(matched), NEW j \in 1..Len(matched),
                 matched[i].posting = matched[j].posting
          PROVE  i = j
      <4>1. e[i] = e[j] /\ e[i] \in 1..Len(newJobs)
        BY <3>1, <3>3, <3>4, <3>5 DEF IsInjective
      <4>2. ~(e[i] < e[j]) /\ ~(e[j] < e[i])
        BY <3>3, <4>1
      <4>3. ~(i < j) /\ ~(j < i)
        BY <3>1, <4>2 DEF Kept
      <4>4. QED
        BY <3>2, <4>3
    <3>6. ASSUME NEW i \in 1..Len(matched) PROVE matched[i].posting \in Range(allJobs) \ known
      <4>1. newJobs[e[i]] \in Range(newJobs)
        BY <3>1, <3>4 DEF Range
      <4>2. QED
        BY <3>1, <3>3, <4>1
    <3>7. IsInjective([i \in DOMAIN matched |-> matched[i].posting])
      BY <3>2, <3>5 DEF IsInjective
    <3>8. QED
      BY <3>2, <3>6, <3>7 DEF MatchesAreNew
  <2>3. QED
    BY <2>1, <2>2
<1>2. QED
  BY <1>1, EngineInvariance, PTL

\* Every match carries the highest score its posting was given, of the first resume
\* with it, and no posting is dropped that is new and good enough for one of the
\* resumes, or of a watched company.
THEOREM BestReturned == EngineSpec => []BestMatchesReturned
<1>1. ASSUME EngineInv PROVE BestMatchesReturned
  <2>1. CASE stage # "report"
    <3>1. DOMAIN matched = {} /\ outcome # "returned"
      BY <1>1, <2>1 DEF EngineInv, ResultFits
    <3>2. QED
      BY <3>1 DEF BestMatchesReturned
  <2>2. CASE stage = "report"
    <3>1. PICK list, e :
            /\ Evaluated(list)
            /\ matched \in Seq(Match) /\ Kept(list, Len(list), matched, e)
            /\ \A i \in 1..Len(matched) : BestOf(matched[i])
      BY <1>1, <2>2, ResultFacts
    <3>2. DOMAIN matched = 1..Len(matched)
      BY <3>1
    <3>3. ASSUME NEW p \in Range(allJobs) \ known, GoodEnough(p)
          PROVE  \E i \in DOMAIN matched : matched[i].posting = p
      <4>1. newJobs \in Seq(Postings) /\ Range(newJobs) = Range(allJobs) \ known
        BY <1>1, <2>2 DEF EngineInv, JobsFit
      <4>2. PICK n \in 1..Len(newJobs) : newJobs[n] = p
        <5>1. DOMAIN newJobs = 1..Len(newJobs) /\ p \in Range(newJobs)
          BY <3>3, <4>1
        <5>2. QED
          BY <5>1 DEF Range
      <4>3. PICK r \in Range(Resumes) : said[<<r, p>>].pct >= Threshold \/ p \in Watchlist
        BY <3>3 DEF GoodEnough
      <4>4. PICK k \in 1..Len(Resumes) : Resumes[k] = r
        BY <4>3, ResumesAreList
      <4>5. Resumes # <<>> /\ k \in DOMAIN Resumes
        <5>1. k \in DOMAIN Resumes
          BY <4>4, ResumesAreList
        <5>2. DOMAIN <<>> = {}
          OBVIOUS
        <5>3. QED
          BY <5>1, <5>2
      <4>6. /\ list \in Seq(Match) /\ Len(list) = Len(newJobs)
            /\ list[n].posting = p /\ BestOf(list[n])
        BY <3>1, <4>2, <4>5 DEF Evaluated
      <4>7. said[<<r, p>>].pct <= list[n].score.pct
        BY <4>4, <4>5, <4>6 DEF BestOf
      <4>8. list[n].score.pct \in Nat /\ said[<<r, p>>].pct \in Nat
        <5>1. list[n] \in Match
          BY <4>2, <4>6
        <5>2. list[n].score \in Score
          BY <5>1 DEF Match
        <5>3. \A t \in DOMAIN call : t \in DOMAIN answer
          BY <1>1, <2>2 DEF EngineInv, NoneLost, ResultFits
        <5>4. said[<<r, p>>] \in Score
          <6>1. Candidate(r, n) \in Match /\ Candidate(r, n).score = said[<<r, p>>]
            BY <1>1, <4>2, <4>3, <5>3, CandidateSaid DEF EngineInv
          <6>2. QED
            BY <6>1 DEF Match
        <5>5. QED
          BY <5>2, <5>4, ScoreType
      <4>9. Passes(list[n])
        BY <4>3, <4>6, <4>7, <4>8, EngineAssumption DEF Passes
      <4>10. PICK i \in 1..Len(matched) : e[i] = n
        BY <3>1, <4>2, <4>6, <4>9 DEF Kept
      <4>11. matched[i] = list[n]
        BY <3>1, <4>10 DEF Kept
      <4>12. QED
        BY <3>2, <4>6, <4>10, <4>11
    <3>4. QED
      BY <3>1, <3>2, <3>3 DEF BestMatchesReturned
  <2>3. QED
    BY <2>1, <2>2
<1>2. QED
  BY <1>1, EngineInvariance, PTL

\* A run whose new postings got no answer at all is reported as degraded.
THEOREM SilenceReported == EngineSpec => []SilenceIsReported
<1>1. ASSUME EngineInv PROVE SilenceIsReported
  <2> SUFFICES ASSUME outcome = "returned", said # <<>>, \A x \in DOMAIN said : said[x].fallback
               PROVE  degraded
    BY DEF SilenceIsReported
  <2>1. stage = "report"
    BY <1>1 DEF EngineInv, ResultFits
  <2>2. PICK list : Evaluated(list) /\ degraded = Degraded(list)
    BY <1>1, <2>1, ResultFacts
  <2>3. newJobs \in Seq(Postings) /\ \A t \in DOMAIN call : t \in DOMAIN answer
    BY <1>1, <2>1 DEF EngineInv, JobsFit, NoneLost, ResultFits
  \* Something was said of a new posting, to a resume.
  <2>4. Resumes # <<>> /\ newJobs # <<>>
    <3>1. DOMAIN said # {}
      <4>1. said = [x \in DOMAIN said |-> said[x]]
        BY <1>1 DEF EngineInv, AnswersFit
      <4>2. QED
        BY <4>1
    <3>2. DOMAIN call # {}
      BY <1>1, <3>1 DEF EngineInv, AnswersFit
    <3>3. Tasks(newJobs) # {}
      BY <1>1, <3>2 DEF EngineInv, JobsFit
    <3>4. Range(Resumes) # {}
      BY <3>3 DEF Tasks
    <3>5. Range(<<>>) = {}
      BY DEF Range
    <3>6. QED
      BY <3>3, <3>4, <3>5, NoTasks
  <2>5. Len(newJobs) \in Nat \ {0}
    BY <2>3, <2>4
  <2>6. /\ list \in Seq(Match) /\ Len(list) = Len(newJobs)
        /\ \A n \in 1..Len(newJobs) : list[n].posting = newJobs[n] /\ BestOf(list[n])
    BY <2>2, <2>4 DEF Evaluated
  <2>7. list # <<>> /\ DOMAIN list = 1..Len(newJobs)
    BY <2>5, <2>6
  <2>8. ASSUME NEW n \in 1..Len(newJobs) PROVE list[n].score.fallback
    <3>1. list[n] \in Match
      BY <2>6
    <3>2. list[n].resume \in Range(Resumes)
      BY <3>1 DEF Match
    <3>3. <<list[n].resume, newJobs[n]>> \in DOMAIN said
      BY <1>1, <2>3, <3>2, CandidateSaid DEF EngineInv
    <3>4. list[n].score = said[<<list[n].resume, newJobs[n]>>]
      BY <2>6 DEF BestOf
    <3>5. QED
      BY <3>3, <3>4
  <2>9. Degraded(list)
    BY <2>7, <2>8 DEF Degraded
  <2>10. QED
    BY <2>2, <2>9
<1>2. QED
  BY <1>1, EngineInvariance, PTL

-----------------------------------------------------------------------------
(* Levels *)

LEMMA PolicyTypes == \A b \in Buckets : Rate(b) \in Nat \ {0} /\ Cap(b) \in Nat /\ Rate(b) * TTL >= Cap(b)
  BY PolicyAssumption, ExpiryAssumption, Distributive DEF Rate, Cap

\* A level never exceeds the burst.
LEMMA LevelType ==
  ASSUME TypeOK, NEW b \in Buckets, NEW at \in Nat
  PROVE  /\ Level(b, at) \in Nat /\ Level(b, at) <= Cap(b)
         /\ Elapsed(b, at) \in Nat /\ Elapsed(b, at) * Rate(b) \in Nat
<1>1. bucket[b] \in BucketRecord
  BY DEF TypeOK
<1>2. Elapsed(b, at) \in Nat
  BY <1>1 DEF BucketRecord, Elapsed
<1>3. Elapsed(b, at) * Rate(b) \in Nat
  BY <1>2, PolicyTypes, Distributive
<1>4. QED
  BY <1>1, <1>2, <1>3, PolicyTypes DEF Level, BucketRecord

\* The sleep between two attempts.
LEMMA NapType ==
  ASSUME TypeOK, NEW c \in Callers
  PROVE  Nap(c) \in Nat
<1>1. ASSUME NEW b \in Buckets PROVE Wait(b, Clock(c)) \in Nat
  <2>1. Clock(c) \in Nat
    BY ClockAssumption DEF Clock, TypeOK
  <2>2. Level(b, Clock(c)) \in Nat /\ Rate(b) \in Nat \ {0} /\ Cost \in Nat
    BY <2>1, LevelType, PolicyTypes, PolicyAssumption
  <2>3. CASE Level(b, Clock(c)) >= Cost
    BY <2>3 DEF Wait
  <2>4. CASE Level(b, Clock(c)) < Cost
    <3>1. Cost - Level(b, Clock(c)) + Rate(b) - 1 \in Nat
      BY <2>2, <2>4
    <3>2. QED
      BY <3>1, <2>2, <2>4, Quotient DEF Wait
  <2>5. QED
    BY <2>2, <2>3, <2>4
<1>2. tenant[c] \in Buckets /\ Site \in Buckets
  BY DEF TypeOK, Buckets
<1>3. QED
  BY <1>1, <1>2, WaitAssumption DEF Nap, FullWait

-----------------------------------------------------------------------------
\* Every bucket and every caller keeps its type; no bucket is overdrawn.
THEOREM LimiterTypes == Spec => []TypeOK
<1>1. Init => TypeOK
  BY WaitAssumption DEF Init, TypeOK, BucketRecord
<1>2. ASSUME TypeOK, [Next]_vars PROVE TypeOK'
  <2> USE <1>2 DEF TypeOK, callerVars
  <2>1. ASSUME NEW c \in Callers, Call(c) PROVE TypeOK'
    BY <2>1 DEF Call
  <2>2. ASSUME NEW c \in Callers, Grant(c) PROVE TypeOK'
    <3>1. Clock(c) \in Nat /\ TTL \in Nat /\ 0 \in 0..MaxWait
      BY ClockAssumption, ExpiryAssumption, WaitAssumption DEF Clock
    <3>2. ASSUME NEW b \in Buckets, b \in Needed(c)
          PROVE  [tok |-> Level(b, Clock(c)) - Cost, ts |-> Clock(c), until |-> now + TTL]
                    \in BucketRecord
      BY <3>1, <3>2, <2>2, LevelType, PolicyAssumption DEF Grant, Allowed, BucketRecord
    <3>3. bucket' \in [Buckets -> BucketRecord]
      BY <3>2, <2>2 DEF Grant
    <3>4. QED
      BY <3>1, <3>3, <2>2 DEF Grant, Return
  <2>3. ASSUME NEW c \in Callers, Sleep(c) PROVE TypeOK'
    BY <2>3, NapType, WaitAssumption DEF Sleep
  <2>4. ASSUME NEW c \in Callers, GiveUp(c) PROVE TypeOK'
    BY <2>4, WaitAssumption DEF GiveUp, Return
  <2>5. ASSUME NEW c \in Callers, Wake(c) PROVE TypeOK'
    BY <2>5 DEF Wake
  <2>6. CASE Tick
    BY <2>6 DEF Tick
  <2>7. CASE RedisRestart
    <3>1. ASSUME NEW b \in Buckets PROVE [bucket[b] EXCEPT !.until = 0] \in BucketRecord
      <4>1. bucket[b] \in BucketRecord
        OBVIOUS
      <4>2. QED
        BY <4>1 DEF BucketRecord
    <3>2. bucket' \in [Buckets -> BucketRecord]
      BY <2>7, <3>1 DEF RedisRestart
    <3>3. restarts' \in Nat
      BY <2>7 DEF RedisRestart
    <3>4. QED
      BY <2>7, <3>2, <3>3 DEF RedisRestart
  <2>8. CASE UNCHANGED vars
    BY <2>8 DEF vars
  <2>9. QED
    BY <2>1, <2>2, <2>3, <2>4, <2>5, <2>6, <2>7, <2>8 DEF Next
<1>3. QED
  BY <1>1, <1>2, PTL DEF Spec

-----------------------------------------------------------------------------
(* The account of a bucket *)

\* The right-hand side of PacedGrants.
Allowance(b) == Cap(b) * (1 + restarts) + Rate(b) * now + Rate(b) * MaxSkew * granted[b]

LEMMA AllowanceType ==
  ASSUME TypeOK, NEW b \in Buckets
  PROVE  /\ Allowance(b) \in Nat /\ granted[b] * Cost \in Nat /\ now + MaxSkew \in Nat
         /\ LevelAhead(b) \in Nat /\ LevelAhead(b) <= Cap(b)
<1>1. Cap(b) * (1 + restarts) \in Nat /\ Rate(b) * now \in Nat
  BY PolicyTypes, Distributive DEF TypeOK
<1>2. Rate(b) * MaxSkew \in Nat
  BY PolicyTypes, ClockAssumption, Distributive
<1>3. Rate(b) * MaxSkew * granted[b] \in Nat /\ granted[b] * Cost \in Nat
  BY <1>2, PolicyAssumption, Distributive DEF TypeOK
<1>4. now + MaxSkew \in Nat
  BY ClockAssumption DEF TypeOK
<1>5. QED
  BY <1>1, <1>3, <1>4, LevelType DEF Allowance, LevelAhead

\* The same for the level after a step.
LEMMA LevelTypeNext ==
  ASSUME TypeOK', NEW b \in Buckets
  PROVE  LevelAhead(b)' \in Nat
<1>1. bucket' \in [Buckets -> BucketRecord] /\ now' \in Nat /\ MaxSkew \in Nat
  BY ClockAssumption DEF TypeOK
<1>2. Elapsed(b, now + MaxSkew)' \in Nat
  <2>1. now' + MaxSkew \in Nat
    BY <1>1, SumType, Zenon
  <2>2. bucket'[b].ts \in Nat
    BY <1>1 DEF BucketRecord
  <2>3. QED
    BY <2>1, <2>2, DifferenceType, Zenon DEF Elapsed
<1>3. (Elapsed(b, now + MaxSkew) * Rate(b))' \in Nat
  BY <1>2, PolicyTypes, Distributive DEF Rate
<1>4. LevelAhead(b)' \in {(bucket[b].tok + Elapsed(b, now + MaxSkew) * Rate(b))', Cap(b)}
  BY DEF LevelAhead, Level, Cap
<1>5. QED
  BY <1>1, <1>3, <1>4, PolicyTypes DEF BucketRecord

\* What a caller reads, and what the clock most ahead would still add to it, is
\* what that clock reads already, or more by one skew's refill.
LEMMA ReadAhead ==
  ASSUME TypeOK, NEW b \in Buckets, NEW at \in Nat, now <= at, at <= now + MaxSkew
  PROVE  Level(b, at) + (now + MaxSkew - at) * Rate(b) <= LevelAhead(b) + MaxSkew * Rate(b)
<1> DEFINE T == now + MaxSkew
           R == Rate(b)
           ts == bucket[b].ts
           tok == bucket[b].tok
<1>1. T \in Nat /\ R \in Nat /\ ts \in Nat /\ tok \in Nat /\ MaxSkew \in Nat /\ now \in Nat
  BY ClockAssumption, PolicyTypes DEF TypeOK, BucketRecord
<1>2. /\ Level(b, at) \in Nat /\ Level(b, at) <= Cap(b)
      /\ Elapsed(b, at) \in Nat /\ Elapsed(b, at) * R \in Nat
  BY LevelType
<1>3. Elapsed(b, T) \in Nat /\ Elapsed(b, T) * R \in Nat
  BY <1>1, LevelType
<1>4. T - at \in Nat /\ T - at <= MaxSkew
  BY <1>1
<1>5. (T - at) * R \in Nat /\ MaxSkew * R \in Nat /\ (T - at) * R <= MaxSkew * R
  BY <1>1, <1>4, Distributive, Monotone
<1>6. CASE LevelAhead(b) = Cap(b)
  BY <1>1, <1>2, <1>4, <1>5, <1>6, PolicyTypes
<1>7. CASE Present(b) /\ LevelAhead(b) = tok + Elapsed(b, T) * R
  <2>1. Level(b, at) <= tok + Elapsed(b, at) * R
    BY <1>1, <1>2, <1>7, PolicyTypes DEF Level
  <2>2. CASE at > ts
    <3>1. Elapsed(b, T) = Elapsed(b, at) + (T - at)
      BY <1>1, <2>2 DEF Elapsed
    <3>2. Elapsed(b, T) * R = Elapsed(b, at) * R + (T - at) * R
      BY <3>1, <1>1, <1>2, <1>4, Distributive
    <3>3. QED
      BY <2>1, <3>2, <1>1, <1>2, <1>5, <1>7
  <2>3. CASE ~(at > ts)
    <3>1. Elapsed(b, at) * R = 0
      BY <2>3, <1>1 DEF Elapsed
    <3>2. QED
      BY <2>1, <3>1, <1>1, <1>2, <1>3, <1>5, <1>7
  <2>4. QED
    BY <2>2, <2>3
<1>8. QED
  BY <1>6, <1>7 DEF LevelAhead, Level

\* Within a tick the level grows by the rate of one tick, expired or not.
LEMMA LevelGrows ==
  ASSUME TypeOK, TypeOK', BucketAccount, Tick, NEW b \in Buckets
  PROVE  LevelAhead(b)' <= LevelAhead(b) + Rate(b)
<1> DEFINE T == now + MaxSkew
           R == Rate(b)
           ts == bucket[b].ts
           tok == bucket[b].tok
<1>1. /\ T \in Nat /\ R \in Nat \ {0} /\ ts \in Nat /\ tok \in Nat /\ bucket[b].until \in Nat
      /\ MaxSkew \in Nat /\ now \in Nat /\ TTL \in Nat \ {0} /\ Cap(b) \in Nat
  BY ClockAssumption, PolicyTypes, ExpiryAssumption DEF TypeOK, BucketRecord
<1>2. now' = now + 1 /\ bucket' = bucket /\ (now + MaxSkew)' = T + 1
  BY <1>1 DEF Tick
<1>3. /\ Elapsed(b, T) \in Nat /\ Elapsed(b, T) * R \in Nat
      /\ Elapsed(b, T + 1) \in Nat /\ Elapsed(b, T + 1) * R \in Nat
  BY <1>1, LevelType
<1>4. LevelAhead(b)' = IF now + 1 < bucket[b].until /\ tok + Elapsed(b, T + 1) * R < Cap(b)
                       THEN tok + Elapsed(b, T + 1) * R ELSE Cap(b)
  BY <1>2 DEF LevelAhead, Level, Present, Elapsed, Cap, Rate
<1>5. LevelAhead(b) = IF now < bucket[b].until /\ tok + Elapsed(b, T) * R < Cap(b)
                      THEN tok + Elapsed(b, T) * R ELSE Cap(b)
  BY DEF LevelAhead, Level, Present
<1>6. Elapsed(b, T + 1) * R <= Elapsed(b, T) * R + R
  <2>1. Elapsed(b, T + 1) <= Elapsed(b, T) + 1
    BY <1>1 DEF Elapsed
  <2>2. Elapsed(b, T + 1) * R <= (Elapsed(b, T) + 1) * R
    BY <2>1, <1>1, <1>3, Monotone
  <2>3. (Elapsed(b, T) + 1) * R = Elapsed(b, T) * R + R
    BY <1>1, <1>3, Distributive
  <2>4. QED
    BY <2>2, <2>3
<1>7. CASE now + 1 < bucket[b].until \/ ~(now < bucket[b].until)
  BY <1>1, <1>3, <1>4, <1>5, <1>6, <1>7
<1>8. CASE now < bucket[b].until /\ ~(now + 1 < bucket[b].until)
  <2>1. ts + TTL <= now + 1 + MaxSkew
    BY <1>1, <1>8 DEF BucketAccount, Present
  <2>2. TTL <= Elapsed(b, T) + 1
    BY <2>1, <1>1 DEF Elapsed
  <2>3. TTL * R <= Elapsed(b, T) * R + R
    <3>1. TTL * R <= (Elapsed(b, T) + 1) * R
      BY <2>2, <1>1, <1>3, Monotone
    <3>2. (Elapsed(b, T) + 1) * R = Elapsed(b, T) * R + R
      BY <1>1, <1>3, Distributive
    <3>3. QED
      BY <3>1, <3>2
  <2>4. TTL * R >= Cap(b)
    BY <1>1, PolicyTypes
  <2>5. QED
    BY <2>3, <2>4, <1>1, <1>3, <1>4, <1>5, <1>8
<1>9. QED
  BY <1>7, <1>8

\* Every bucket keeps its account.
THEOREM AccountKept == Spec => []BucketAccount
<1>1. Init => BucketAccount
  <2> SUFFICES ASSUME Init, NEW b \in Buckets
               PROVE  ~Present(b) /\ granted[b] * Cost + LevelAhead(b) <= Allowance(b)
    BY DEF BucketAccount, Allowance
  <2>1. TypeOK
    BY WaitAssumption DEF Init, TypeOK, BucketRecord
  <2>2. ~Present(b) /\ granted[b] = 0 /\ now = 0 /\ restarts = 0
    BY DEF Init, Present
  <2>3. LevelAhead(b) = Cap(b)
    BY <2>2 DEF LevelAhead, Level
  <2>4. Allowance(b) = Cap(b)
    <3>1. Rate(b) * MaxSkew \in Nat
      BY PolicyTypes, ClockAssumption, Distributive
    <3>2. Rate(b) * MaxSkew * 0 = 0 /\ Rate(b) * 0 = 0 /\ Cap(b) * (1 + 0) = Cap(b)
      BY <3>1, PolicyTypes
    <3>3. QED
      BY <2>2, <3>2, PolicyTypes DEF Allowance
  <2>5. granted[b] * Cost = 0
    BY <2>2, PolicyAssumption
  <2>6. QED
    BY <2>2, <2>3, <2>4, <2>5, PolicyTypes
<1>2. ASSUME TypeOK, TypeOK', BucketAccount, [Next]_vars PROVE BucketAccount'
  <2> SUFFICES ASSUME NEW b \in Buckets
               PROVE  /\ Present(b)' => bucket'[b].ts + TTL <= bucket'[b].until + MaxSkew
                      /\ (granted[b] * Cost + LevelAhead(b) <= Allowance(b))'
    BY DEF BucketAccount, Allowance, Rate, Cap
  <2> USE <1>2
  <2>a. /\ Present(b) => bucket[b].ts + TTL <= bucket[b].until + MaxSkew
        /\ granted[b] * Cost + LevelAhead(b) <= Allowance(b)
    BY DEF BucketAccount, Allowance
  <2>b. /\ Allowance(b) \in Nat /\ granted[b] * Cost \in Nat
        /\ LevelAhead(b) \in Nat /\ LevelAhead(b) <= Cap(b)
    BY AllowanceType
  <2>1. ASSUME UNCHANGED <<now, bucket, granted, restarts>>
        PROVE  /\ Present(b)' => bucket'[b].ts + TTL <= bucket'[b].until + MaxSkew
               /\ (granted[b] * Cost + LevelAhead(b) <= Allowance(b))'
    BY <2>1, <2>a DEF Present, LevelAhead, Level, Elapsed, Allowance, Rate, Cap
  <2>2. ASSUME NEW c \in Callers, Call(c) \/ Sleep(c) \/ GiveUp(c) \/ Wake(c)
        PROVE  UNCHANGED <<now, bucket, granted, restarts>>
    BY <2>2 DEF Call, Sleep, GiveUp, Wake
  <2>3. ASSUME NEW c \in Callers, Grant(c), b \in Needed(c)
        PROVE  /\ Present(b)' => bucket'[b].ts + TTL <= bucket'[b].until + MaxSkew
               /\ (granted[b] * Cost + LevelAhead(b) <= Allowance(b))'
    <3> DEFINE at == Clock(c)
               l == Level(b, at)
    <3>1. at \in Nat /\ now <= at /\ at <= now + MaxSkew /\ now \in Nat /\ MaxSkew \in Nat
      BY ClockAssumption DEF Clock, TypeOK
    <3>2. bucket'[b] = [tok |-> l - Cost, ts |-> at, until |-> now + TTL]
      BY <2>3 DEF Grant
    <3>3. granted'[b] = granted[b] + 1 /\ now' = now /\ restarts' = restarts
      BY <2>3 DEF Grant
    <3>4. bucket'[b].ts + TTL <= bucket'[b].until + MaxSkew
      BY <3>1, <3>2, ExpiryAssumption
    <3>5. l \in Nat /\ l >= Cost /\ Cost \in Nat \ {0} /\ Rate(b) \in Nat /\ Cap(b) \in Nat
      BY <3>1, <2>3, LevelType, PolicyTypes, PolicyAssumption DEF Grant, Allowed
    <3>6. /\ (now + MaxSkew - at) * Rate(b) \in Nat /\ MaxSkew * Rate(b) \in Nat
          /\ Rate(b) * MaxSkew = MaxSkew * Rate(b)
      BY <3>1, <3>5, Distributive
    <3>7. LevelAhead(b)' <= l - Cost + (now + MaxSkew - at) * Rate(b)
      <4>1. Elapsed(b, now + MaxSkew)' = now + MaxSkew - at
        BY <3>1, <3>2, <3>3 DEF Elapsed
      <4>2. Present(b)'
        BY <3>1, <3>2, <3>3, ExpiryAssumption DEF Present
      <4>3. LevelAhead(b)' = IF l - Cost + (now + MaxSkew - at) * Rate(b) < Cap(b)
                             THEN l - Cost + (now + MaxSkew - at) * Rate(b) ELSE Cap(b)
        BY <4>1, <4>2, <3>2, <3>3 DEF LevelAhead, Level, Rate, Cap
      <4>4. QED
        BY <4>3, <3>5, <3>6
    <3>8. l + (now + MaxSkew - at) * Rate(b) <= LevelAhead(b) + MaxSkew * Rate(b)
      BY <3>1, ReadAhead
    <3>9. LevelAhead(b)' \in Nat /\ granted[b] \in Nat
      BY LevelTypeNext DEF TypeOK
    <3>10. granted'[b] * Cost = granted[b] * Cost + Cost
      <4>1. granted[b] \in Nat /\ Cost \in Nat
        BY <3>5, <3>9
      <4>2. (granted[b] + 1) * Cost = granted[b] * Cost + Cost
        BY <4>1, OneMore
      <4>3. QED
        BY <4>2, <3>3
    <3>11. Allowance(b)' = Allowance(b) + MaxSkew * Rate(b)
      <4>1. Rate(b) * MaxSkew * (granted[b] + 1)
              = Rate(b) * MaxSkew * granted[b] + Rate(b) * MaxSkew
        BY <3>6, <3>9, Distributive
      <4>2. /\ Cap(b) * (1 + restarts) \in Nat /\ Rate(b) * now \in Nat
            /\ Rate(b) * MaxSkew * granted[b] \in Nat
        BY <3>1, <3>5, <3>6, <3>9, Distributive DEF TypeOK
      <4>3. QED
        BY <4>1, <4>2, <3>3, <3>6 DEF Allowance, Rate, Cap
    <3>12. (granted[b] * Cost + LevelAhead(b) <= Allowance(b))'
      BY <3>5, <3>6, <3>7, <3>8, <3>9, <3>10, <3>11, <2>a, <2>b
    <3>13. QED
      BY <3>4, <3>12
  <2>4. ASSUME NEW c \in Callers, Grant(c), b \notin Needed(c)
        PROVE  /\ Present(b)' => bucket'[b].ts + TTL <= bucket'[b].until + MaxSkew
               /\ (granted[b] * Cost + LevelAhead(b) <= Allowance(b))'
    <3>1. bucket'[b] = bucket[b] /\ granted'[b] = granted[b] /\ now' = now /\ restarts' = restarts
      BY <2>4 DEF Grant
    <3>2. QED
      BY <3>1, <2>a DEF Present, LevelAhead, Level, Elapsed, Allowance, Rate, Cap
  <2>5. CASE Tick
    <3>1. now' = now + 1 /\ bucket' = bucket /\ granted' = granted /\ restarts' = restarts
      BY <2>5 DEF Tick
    <3>2. Present(b)' => Present(b)
      BY <3>1 DEF Present, TypeOK, BucketRecord
    <3>3. Allowance(b)' = Allowance(b) + Rate(b)
      <4>1. Rate(b) * (now + 1) = Rate(b) * now + Rate(b)
        BY PolicyTypes, Distributive DEF TypeOK
      <4>2. Rate(b) * MaxSkew \in Nat
        BY PolicyTypes, ClockAssumption, Distributive
      <4>3. /\ Cap(b) * (1 + restarts) \in Nat /\ Rate(b) * now \in Nat
            /\ Rate(b) * MaxSkew * granted[b] \in Nat
        BY <4>2, PolicyTypes, Distributive DEF TypeOK
      <4>4. QED
        BY <4>1, <4>3, <3>1, PolicyTypes DEF Allowance, Rate, Cap
    <3>4. LevelAhead(b)' <= LevelAhead(b) + Rate(b)
      BY <2>5, LevelGrows
    <3>5. LevelAhead(b)' \in Nat
      BY LevelTypeNext
    <3>6. (granted[b] * Cost)' = granted[b] * Cost
      BY <3>1
    <3>7. QED
      BY <3>1, <3>2, <3>3, <3>4, <3>5, <3>6, <2>a, <2>b, PolicyTypes
  <2>6. CASE RedisRestart
    <3>1. now' = now /\ granted' = granted /\ restarts' = restarts + 1
      BY <2>6 DEF RedisRestart
    <3>2. ~Present(b)'
      BY <2>6, <3>1 DEF RedisRestart, Present, TypeOK, BucketRecord
    <3>3. LevelAhead(b)' = Cap(b)
      BY <3>2 DEF LevelAhead, Level, Cap
    <3>4. Allowance(b)' = Allowance(b) + Cap(b)
      <4>1. Cap(b) * (1 + (restarts + 1)) = Cap(b) * (1 + restarts) + Cap(b)
        BY PolicyTypes, Distributive DEF TypeOK
      <4>2. Rate(b) * MaxSkew \in Nat
        BY PolicyTypes, ClockAssumption, Distributive
      <4>3. /\ Cap(b) * (1 + restarts) \in Nat /\ Rate(b) * now \in Nat
            /\ Rate(b) * MaxSkew * granted[b] \in Nat
        BY <4>2, PolicyTypes, Distributive DEF TypeOK
      <4>4. QED
        BY <4>1, <4>3, <3>1, PolicyTypes DEF Allowance, Rate, Cap
    <3>5. QED
      BY <3>1, <3>2, <3>3, <3>4, <2>a, <2>b, PolicyTypes
  <2>7. CASE UNCHANGED vars
    BY <2>7, <2>1 DEF vars
  <2>8. QED
    BY <2>1, <2>2, <2>3, <2>4, <2>5, <2>6, <2>7 DEF Next
<1>3. QED
  BY <1>1, <1>2, LimiterTypes, PTL DEF Spec

\* The tokens given away keep to the policy, up to restarts and clock skew.
THEOREM GrantsArePaced == Spec => []PacedGrants
<1>1. TypeOK /\ BucketAccount => PacedGrants
  BY AllowanceType DEF BucketAccount, PacedGrants, Allowance
<1>2. QED
  BY <1>1, LimiterTypes, AccountKept, PTL

-----------------------------------------------------------------------------
(* The wait of a caller that was refused *)

\* What a bucket holds at a time, up to the burst, while it is there.
Refill(b, at) == bucket[b].tok + Elapsed(b, at) * Rate(b)

\* A caller whose wait is not outdated will find a token in every bucket that is
\* still there when it wakes.
Promise ==
  \A c \in Callers : pc[c] = "asleep" /\ c \notin disturbed =>
    \A b \in Needed(c) : Present(b) => Refill(b, wake[c] + Skew[c]) >= Cost

\* Rounded up, the quotient covers the dividend.
LEMMA RoundedUp ==
  ASSUME NEW x \in Nat, NEW r \in Nat \ {0}
  PROVE  (x + r - 1) \div r \in Nat /\ ((x + r - 1) \div r) * r >= x
<1> DEFINE y == x + r - 1
           n == y \div r
<1>1. y \in Nat
  OBVIOUS
<1>2. n \in Nat /\ y < n * r + r
  BY <1>1, Division, Quotient
<1>3. n * r \in Nat
  BY <1>2, Distributive
<1> HIDE DEF n
<1>4. n * r >= x
  BY <1>2, <1>3
<1>5. QED
  BY <1>2, <1>4 DEF n

LEMMA CapHoldsAToken == \A b \in Buckets : Cap(b) >= Cost
<1>1. ASSUME NEW k \in Nat \ {0} PROVE Cost * k >= Cost
  <2>1. k - 1 \in Nat /\ Cost \in Nat /\ k = (k - 1) + 1
    BY PolicyAssumption
  <2>2. Cost * ((k - 1) + 1) = Cost * (k - 1) + Cost * 1 /\ Cost * (k - 1) \in Nat
    BY <2>1, Distributive
  <2>3. QED
    BY <2>1, <2>2
<1>2. QED
  BY <1>1, PolicyAssumption DEF Cap

\* A bucket has a token when it is full again or refilled so far, and has it
\* from then on.
LEMMA RefillFacts ==
  ASSUME TypeOK, NEW b \in Buckets, NEW at \in Nat
  PROVE  /\ Refill(b, at) \in Nat
         /\ Level(b, at) >= Cost <=> (Present(b) => Refill(b, at) >= Cost)
         /\ Level(b, at) < Cost => Present(b) /\ Level(b, at) = Refill(b, at)
         /\ \A d \in Nat : Refill(b, at + d) >= Refill(b, at)
         /\ \A d \in Nat : bucket[b].ts <= at => Refill(b, at + d) = Refill(b, at) + d * Rate(b)
<1> DEFINE ts == bucket[b].ts
           R == Rate(b)
<1>1. ts \in Nat /\ bucket[b].tok \in Nat /\ R \in Nat /\ Cost \in Nat /\ Cap(b) \in Nat
  BY PolicyTypes, PolicyAssumption DEF TypeOK, BucketRecord
<1>2. Elapsed(b, at) \in Nat /\ Elapsed(b, at) * R \in Nat
  BY LevelType
<1>3. Refill(b, at) \in Nat
  BY <1>1, <1>2 DEF Refill
<1>4. /\ Level(b, at) >= Cost <=> (Present(b) => Refill(b, at) >= Cost)
      /\ Level(b, at) < Cost => Present(b) /\ Level(b, at) = Refill(b, at)
  BY <1>1, <1>3, CapHoldsAToken DEF Level, Refill
<1>5. ASSUME NEW d \in Nat PROVE Refill(b, at + d) >= Refill(b, at)
  <2>1. Elapsed(b, at + d) \in Nat /\ Elapsed(b, at) <= Elapsed(b, at + d)
    BY <1>1 DEF Elapsed
  <2>2. Elapsed(b, at) * R <= Elapsed(b, at + d) * R /\ Elapsed(b, at + d) * R \in Nat
    BY <1>1, <1>2, <2>1, Monotone, Distributive
  <2>3. QED
    BY <1>1, <1>2, <2>2 DEF Refill
<1>6. ASSUME NEW d \in Nat, ts <= at PROVE Refill(b, at + d) = Refill(b, at) + d * R
  <2>1. Elapsed(b, at + d) = Elapsed(b, at) + d
    BY <1>1, <1>6 DEF Elapsed
  <2>2. Elapsed(b, at + d) * R = Elapsed(b, at) * R + d * R /\ d * R \in Nat
    BY <1>1, <1>2, <2>1, Distributive
  <2>3. QED
    BY <1>1, <1>2, <2>2 DEF Refill
<1>7. QED
  BY <1>3, <1>4, <1>5, <1>6

\* A bucket without a token gets one within its wait.
LEMMA WaitRefills ==
  ASSUME TypeOK, NEW b \in Buckets, NEW at \in Nat, Present(b) => bucket[b].ts <= at,
         NEW d \in Nat, d >= Wait(b, at), Present(b)
  PROVE  Refill(b, at + d) >= Cost
<1>1. /\ Refill(b, at) \in Nat /\ Cost \in Nat /\ Level(b, at) \in Nat
      /\ Rate(b) \in Nat \ {0} /\ Refill(b, at + d) >= Refill(b, at)
  BY RefillFacts, PolicyAssumption, PolicyTypes, LevelType
<1>2. at + d \in Nat
  OBVIOUS
<1>3. Refill(b, at + d) \in Nat
  BY <1>2, RefillFacts
<1>4. CASE Level(b, at) >= Cost
  <2>1. Refill(b, at) >= Cost
    BY <1>4, RefillFacts
  <2>2. QED
    BY <1>1, <1>3, <2>1
<1>5. CASE Level(b, at) < Cost
  <2> DEFINE x == Cost - Level(b, at)
             w == (x + Rate(b) - 1) \div Rate(b)
  <2>1. x \in Nat /\ Level(b, at) = Refill(b, at)
    BY <1>1, <1>5, RefillFacts
  <2>2. w \in Nat /\ w * Rate(b) >= x
    BY <1>1, <2>1, RoundedUp
  <2>3. d >= w
    BY <1>1, <1>5 DEF Wait
  <2>4. d * Rate(b) >= w * Rate(b) /\ d * Rate(b) \in Nat /\ w * Rate(b) \in Nat
    BY <1>1, <2>2, <2>3, Monotone, Distributive
  <2>5. Refill(b, at + d) = Refill(b, at) + d * Rate(b)
    BY RefillFacts
  <2> HIDE DEF w
  <2>6. QED
    BY <1>1, <2>1, <2>2, <2>4, <2>5
<1>6. QED
  BY <1>1, <1>4, <1>5

\* The nap is no shorter than either wait, unless it was capped.
LEMMA NapIsLongEnough ==
  ASSUME TypeOK, NEW c \in Callers, ~(FullWait(c) > SleepCap), NEW b \in Needed(c)
  PROVE  Nap(c) >= Wait(b, Clock(c))
<1>1. ASSUME NEW e \in Buckets PROVE Wait(e, Clock(c)) \in Nat
  <2>1. Clock(c) \in Nat
    BY ClockAssumption DEF Clock, TypeOK
  <2>2. Level(e, Clock(c)) \in Nat /\ Rate(e) \in Nat \ {0} /\ Cost \in Nat
    BY <2>1, LevelType, PolicyTypes, PolicyAssumption
  <2>3. CASE Level(e, Clock(c)) >= Cost
    BY <2>3 DEF Wait
  <2>4. CASE Level(e, Clock(c)) < Cost
    <3>1. Cost - Level(e, Clock(c)) \in Nat
      BY <2>2, <2>4
    <3>2. QED
      BY <3>1, <2>2, <2>4, RoundedUp DEF Wait
  <2>5. QED
    BY <2>2, <2>3, <2>4
<1>2. tenant[c] \in Buckets /\ Site \in Buckets /\ (b = tenant[c] \/ b = Site)
  BY DEF TypeOK, Buckets, Needed
<1>3. Wait(tenant[c], Clock(c)) \in Nat /\ Wait(Site, Clock(c)) \in Nat
  BY <1>1, <1>2
<1>4. FullWait(c) \in Nat /\ FullWait(c) >= Wait(b, Clock(c))
  BY <1>2, <1>3 DEF FullWait
<1>5. Nap(c) >= FullWait(c)
  BY <1>4, WaitAssumption DEF Nap
<1>6. Nap(c) \in Nat /\ Wait(b, Clock(c)) \in Nat
  BY <1>2, <1>3, NapType
<1>7. QED
  BY <1>4, <1>5, <1>6

LEMMA NextPromise == ASSUME TypeOK, Promise, [Next]_vars PROVE Promise'
<1> SUFFICES ASSUME NEW c \in Callers, pc'[c] = "asleep", c \notin disturbed',
                    NEW b \in Needed(c)', Present(b)'
             PROVE  (Refill(b, wake[c] + Skew[c]) >= Cost)'
  BY DEF Promise
<1>0. /\ now \in Nat /\ tenant[c] \in Buckets /\ Site \in Buckets /\ Skew[c] \in Nat
      /\ Clock(c) \in Nat
  BY ClockAssumption DEF TypeOK, Buckets, Clock
\* A step after which the caller sleeps on, as far as its buckets go.
<1>a. ASSUME pc[c] = "asleep", c \notin disturbed, tenant'[c] = tenant[c], wake'[c] = wake[c],
             Present(b)' => Present(b) /\ bucket' = bucket
      PROVE  (Refill(b, wake[c] + Skew[c]) >= Cost)'
  <2>1. b \in Needed(c)
    BY <1>a DEF Needed
  <2>2. Present(b) /\ Refill(b, wake[c] + Skew[c]) >= Cost
    BY <1>a, <2>1 DEF Promise
  <2>3. Refill(b, wake[c] + Skew[c])' = Refill(b, wake[c] + Skew[c])
    BY <1>a DEF Refill, Elapsed, Rate
  <2>4. QED
    BY <2>2, <2>3
<1>1. CASE Sleep(c)
  <2>1. /\ ~(FullWait(c) > SleepCap)
        /\ \A e \in Needed(c) : Present(e) => ~(bucket[e].ts > Clock(c))
        /\ wake' = [wake EXCEPT ![c] = now + Nap(c)]
        /\ UNCHANGED <<now, bucket, tenant>>
    BY <1>1 DEF Sleep
  <2>2. b \in Needed(c) /\ b \in Buckets /\ Present(b)
    BY <1>0, <2>1 DEF Needed, Present
  <2>3. Nap(c) \in Nat /\ Nap(c) >= Wait(b, Clock(c))
    BY <2>1, <2>2, NapType, NapIsLongEnough
  <2>4. bucket[b].ts <= Clock(c)
    <3>1. bucket[b].ts \in Nat
      BY <2>2 DEF TypeOK, BucketRecord
    <3>2. QED
      BY <1>0, <2>1, <2>2, <3>1
  <2>5. Refill(b, Clock(c) + Nap(c)) >= Cost
    BY <1>0, <2>2, <2>3, <2>4, WaitRefills
  <2>6. wake'[c] + Skew[c] = Clock(c) + Nap(c)
    <3>1. wake'[c] = now + Nap(c)
      BY <2>1 DEF TypeOK
    <3>2. QED
      BY <1>0, <2>3, <3>1 DEF Clock
  <2>7. Refill(b, wake[c] + Skew[c])' = Refill(b, Clock(c) + Nap(c))
    BY <2>1, <2>6 DEF Refill, Elapsed, Rate
  <2>8. QED
    BY <2>5, <2>7
<1>2. ASSUME NEW d \in Callers, Grant(d) PROVE FALSE
  <2>1. pc[c] = "asleep"
    BY <1>2 DEF Grant, Return, TypeOK
  <2>2. QED
    BY <1>2, <2>1 DEF Grant
<1>3. ASSUME NEW d \in Callers, Sleep(d), d # c PROVE (Refill(b, wake[c] + Skew[c]) >= Cost)'
  <2>1. /\ pc[c] = "asleep" /\ c \notin disturbed /\ tenant'[c] = tenant[c] /\ wake'[c] = wake[c]
        /\ UNCHANGED <<now, bucket>>
    BY <1>3 DEF Sleep, TypeOK
  <2>2. QED
    BY <1>a, <2>1 DEF Present
<1>4. ASSUME NEW d \in Callers, Call(d) \/ GiveUp(d) \/ Wake(d)
      PROVE  (Refill(b, wake[c] + Skew[c]) >= Cost)'
  <2>1. d # c
    BY <1>4 DEF Call, GiveUp, Wake, Return, TypeOK
  <2>2. /\ pc[c] = "asleep" /\ c \notin disturbed /\ tenant'[c] = tenant[c] /\ wake'[c] = wake[c]
        /\ UNCHANGED <<now, bucket>>
    BY <1>4, <2>1 DEF Call, GiveUp, Wake, Return, TypeOK
  <2>3. QED
    BY <1>a, <2>2 DEF Present
<1>5. CASE Tick
  <2>1. /\ pc[c] = "asleep" /\ c \notin disturbed /\ tenant'[c] = tenant[c] /\ wake'[c] = wake[c]
        /\ now' = now + 1 /\ bucket' = bucket
    BY <1>5 DEF Tick, callerVars
  <2>2. b \in Buckets
    BY <1>0, <2>1 DEF Needed
  <2>3. Present(b)
    <3>1. bucket[b].until \in Nat
      BY <2>2 DEF TypeOK, BucketRecord
    <3>2. QED
      BY <1>0, <2>1, <3>1 DEF Present
  <2>4. QED
    BY <1>a, <2>1, <2>3
<1>6. CASE RedisRestart
  <2>1. b \in Buckets
    BY <1>0, <1>6 DEF RedisRestart, callerVars, Needed
  <2>2. bucket'[b] = [bucket[b] EXCEPT !.until = 0] /\ bucket[b] \in BucketRecord /\ now' = now
    BY <1>6, <2>1 DEF RedisRestart, TypeOK
  <2>3. bucket'[b].until = 0
    BY <2>2 DEF BucketRecord
  <2>4. QED
    BY <1>0, <2>2, <2>3 DEF Present
<1>7. CASE UNCHANGED vars
  BY <1>a, <1>7 DEF vars, Present
<1>8. QED
  BY <1>1, <1>2, <1>3, <1>4, <1>5, <1>6, <1>7 DEF Next

\* A caller that slept its full wait finds its token, whatever the policy, unless
\* another one was granted meanwhile or its clock was behind the stamp: a bucket
\* that expires or is lost with Redis is full.
THEOREM WaitsAreEnough == Spec => []WaitIsEnough
<1>1. Init => Promise
  BY DEF Init, Promise
<1>2. Spec => []Promise
  BY <1>1, NextPromise, LimiterTypes, PTL DEF Spec
<1>3. ASSUME TypeOK, Promise PROVE WaitIsEnough
  <2> SUFFICES ASSUME NEW c \in Callers, pc[c] = "asleep", now >= wake[c], c \notin disturbed,
                      NEW b \in Needed(c)
               PROVE  Level(b, Clock(c)) >= Cost
    BY DEF WaitIsEnough, Allowed
  <2>1. b \in Buckets /\ now \in Nat /\ wake[c] \in Nat /\ Skew[c] \in Nat
    BY <1>3, ClockAssumption DEF TypeOK, Buckets, Needed
  <2> DEFINE at == wake[c] + Skew[c]
             d == now - wake[c]
  <2>2. at \in Nat /\ d \in Nat /\ Clock(c) = at + d /\ Clock(c) \in Nat
    BY <2>1 DEF Clock
  <2> HIDE DEF at, d
  <2>3. Present(b) => Refill(b, at) >= Cost
    BY <1>3 DEF Promise, at
  <2>4. Refill(b, at + d) >= Refill(b, at) /\ Refill(b, at) \in Nat
    BY <1>3, <2>1, <2>2, RefillFacts
  <2>5. Refill(b, Clock(c)) \in Nat
    BY <1>3, <2>1, <2>2, RefillFacts
  <2>6. Present(b) => Refill(b, Clock(c)) >= Cost
    BY <2>2, <2>3, <2>4, <2>5, PolicyAssumption
  <2>7. QED
    BY <1>3, <2>1, <2>2, <2>6, RefillFacts
<1>4. QED
  BY <1>2, <1>3, LimiterTypes, PTL
=============================================================================
