---------------------------- MODULE Queues_proofs ----------------------------
(***************************************************************************)
(* Lemmas about queues without duplicates, cited by the proofs of the      *)
(* components that keep one.                                               *)
(***************************************************************************)
EXTENDS Queues, WellFoundedInduction, TLAPS

-----------------------------------------------------------------------------
\* Filtering an element out of a duplicate-free queue keeps it a queue, keeps
\* it duplicate-free, removes exactly that element and keeps the head unless
\* the head is what is removed.
LEMMA WithoutFacts ==
    ASSUME NEW S, NEW q \in Seq(S), NEW e, Distinct(q)
    PROVE  /\ Without(q, e) \in Seq(S)
           /\ Distinct(Without(q, e))
           /\ Elements(Without(q, e)) = Elements(q) \ {e}
           /\ (q # <<>> /\ q[1] # e) =>
                  Without(q, e) # <<>> /\ Without(q, e)[1] = q[1]
<1>1. CASE ~\E i \in DOMAIN q : q[i] = e
  BY <1>1 DEF Without, Elements
<1>2. CASE \E i \in DOMAIN q : q[i] = e
  <2> DEFINE i == CHOOSE k \in DOMAIN q : q[k] = e
  <2> DEFINE w == [j \in 1..(Len(q) - 1) |-> IF j < i THEN q[j] ELSE q[j + 1]]
  <2>1. i \in 1..Len(q) /\ q[i] = e
    BY <1>2
  <2>2. Without(q, e) = w
    BY <1>2 DEF Without
  <2> HIDE DEF i
  <2>3. Len(q) - 1 \in Nat /\ w \in Seq(S) /\ Len(w) = Len(q) - 1
    BY <2>1
  <2>4. \A j \in 1..Len(w) : w[j] = IF j < i THEN q[j] ELSE q[j + 1]
    BY <2>3
  <2> HIDE DEF w
  <2> DEFINE from(j) == IF j < i THEN j ELSE j + 1
  <2>a. ASSUME NEW j \in 1..Len(w)
        PROVE  from(j) \in 1..Len(q) /\ from(j) # i /\ w[j] = q[from(j)]
    BY <2>1, <2>3, <2>4
  <2>b. ASSUME NEW j \in 1..Len(w), NEW k \in 1..Len(w), from(j) = from(k)
        PROVE  j = k
    BY <2>b, <2>1, <2>3
  <2> HIDE DEF from
  <2>c. \A k, l \in 1..Len(q) : q[k] = q[l] => k = l
    BY DEF Distinct
  <2>5. Distinct(w)
    <3>1. ASSUME NEW j \in 1..Len(w), NEW k \in 1..Len(w), w[j] = w[k] PROVE j = k
      BY <3>1, <2>a, <2>b, <2>c
    <3> QED BY <3>1, <2>3 DEF Distinct
  <2>6. Elements(w) = Elements(q) \ {e}
    <3>1. ASSUME NEW x \in Elements(w) PROVE x \in Elements(q) \ {e}
      <4>1. PICK j \in 1..Len(w) : x = w[j]
        BY <2>3 DEF Elements
      <4>2. from(j) \in 1..Len(q) /\ x = q[from(j)] /\ x # e
        BY <4>1, <2>a, <2>c, <2>1
      <4> QED BY <4>2 DEF Elements
    <3>2. ASSUME NEW x \in Elements(q) \ {e} PROVE x \in Elements(w)
      <4>1. PICK j \in 1..Len(q) : x = q[j]
        BY DEF Elements
      <4>2. j # i
        BY <4>1, <2>1
      <4>3. CASE j < i
        BY <4>1, <4>3, <2>1, <2>3, <2>4 DEF Elements
      <4>4. CASE j > i
        <5>1. j - 1 \in 1..Len(w) /\ w[j - 1] = q[j]
          BY <4>4, <2>1, <2>3, <2>4
        <5> QED BY <4>1, <5>1, <2>3 DEF Elements
      <4> QED BY <4>2, <4>3, <4>4, <2>1
    <3> QED BY <3>1, <3>2
  <2>7. (q # <<>> /\ q[1] # e) => w # <<>> /\ w[1] = q[1]
    <3> SUFFICES ASSUME q # <<>>, q[1] # e PROVE w # <<>> /\ w[1] = q[1]
      OBVIOUS
    <3>1. i > 1 /\ Len(w) >= 1
      BY <2>1, <2>3
    <3> QED BY <3>1, <2>3, <2>4
  <2> QED BY <2>2, <2>3, <2>5, <2>6, <2>7
<1> QED BY <1>1, <1>2

\* Taking an element out of any sequence leaves a sequence.
LEMMA WithoutType ==
    ASSUME NEW S, NEW q \in Seq(S), NEW e
    PROVE  Without(q, e) \in Seq(S)
<1>1. CASE ~\E i \in DOMAIN q : q[i] = e
  BY <1>1 DEF Without
<1>2. CASE \E i \in DOMAIN q : q[i] = e
  <2> DEFINE i == CHOOSE k \in DOMAIN q : q[k] = e
  <2>1. i \in 1..Len(q)
    BY <1>2
  <2>2. Without(q, e) = [j \in 1..(Len(q) - 1) |-> IF j < i THEN q[j] ELSE q[j + 1]]
    BY <1>2 DEF Without
  <2> HIDE DEF i
  <2> QED BY <2>1, <2>2
<1> QED BY <1>1, <1>2

\* Appending a new element to a duplicate-free queue.
LEMMA AppendFacts ==
    ASSUME NEW S, NEW q \in Seq(S), NEW e \in S, Distinct(q), e \notin Elements(q)
    PROVE  /\ Append(q, e) \in Seq(S)
           /\ Distinct(Append(q, e))
           /\ Elements(Append(q, e)) = Elements(q) \cup {e}
           /\ Append(q, e)[1] = IF q = <<>> THEN e ELSE q[1]
<1> DEFINE a == Append(q, e)
<1>1. a \in Seq(S) /\ Len(a) = Len(q) + 1
  OBVIOUS
<1>2. \A j \in 1..Len(a) : a[j] = IF j = Len(q) + 1 THEN e ELSE q[j]
  OBVIOUS
<1> HIDE DEF a
<1>3. Distinct(a)
  <2>1. \A k \in 1..Len(q) : q[k] # e
    BY DEF Elements
  <2>2. \A k, l \in 1..Len(q) : q[k] = q[l] => k = l
    BY DEF Distinct
  <2>3. ASSUME NEW j \in 1..Len(a), NEW k \in 1..Len(a), a[j] = a[k] PROVE j = k
    BY <2>1, <2>2, <2>3, <1>1, <1>2
  <2> QED BY <2>3, <1>1 DEF Distinct
<1>4. Elements(a) = Elements(q) \cup {e}
  <2>1. ASSUME NEW x \in Elements(a) PROVE x \in Elements(q) \cup {e}
    BY <1>1, <1>2 DEF Elements
  <2>2. ASSUME NEW x \in Elements(q) PROVE x \in Elements(a)
    BY <1>1, <1>2 DEF Elements
  <2>3. e \in Elements(a)
    BY <1>1, <1>2 DEF Elements
  <2> QED BY <2>1, <2>2, <2>3
<1>5. a[1] = IF q = <<>> THEN e ELSE q[1]
  BY <1>1, <1>2
<1> QED BY <1>1, <1>3, <1>4, <1>5 DEF a

\* Membership in Seq(S), the form in which the type proofs need it.
LEMMA SeqFacts ==
    ASSUME NEW S
    PROVE  /\ <<>> \in Seq(S)
           /\ \A e \in S : <<e>> \in Seq(S)
           /\ \A q \in Seq(S), e \in S : Append(q, e) \in Seq(S)
           /\ \A q \in Seq(S) : q # <<>> => Head(q) \in S /\ Tail(q) \in Seq(S)
<1>1. <<>> \in Seq(S)
  OBVIOUS
<1>2. ASSUME NEW e \in S PROVE <<e>> \in Seq(S)
  OBVIOUS
<1>3. ASSUME NEW q \in Seq(S), NEW e \in S PROVE Append(q, e) \in Seq(S)
  OBVIOUS
<1>4. ASSUME NEW q \in Seq(S), q # <<>> PROVE Head(q) \in S /\ Tail(q) \in Seq(S)
  BY <1>4
<1> QED BY <1>1, <1>2, <1>3, <1>4

\* Taking the head off a duplicate-free queue removes exactly that element.
LEMMA HeadTailFacts ==
    ASSUME NEW S, NEW q \in Seq(S), q # <<>>, Distinct(q)
    PROVE  /\ Head(q) \in S /\ Head(q) \in Elements(q)
           /\ Tail(q) \in Seq(S)
           /\ Distinct(Tail(q))
           /\ Elements(Tail(q)) = Elements(q) \ {Head(q)}
<1> DEFINE t == Tail(q)
<1>1. Len(q) \in Nat \ {0} /\ Head(q) = q[1] /\ DOMAIN q = 1..Len(q)
  OBVIOUS
<1>2. t \in Seq(S) /\ Len(t) = Len(q) - 1 /\ DOMAIN t = 1..Len(t)
  BY <1>1
<1>3. \A j \in 1..Len(t) : t[j] = q[j + 1] /\ j + 1 \in 1..Len(q)
  BY <1>1, <1>2
<1>4. \A k, l \in 1..Len(q) : q[k] = q[l] => k = l
  BY <1>1 DEF Distinct
<1> HIDE DEF t
<1>5. ASSUME NEW j \in 1..Len(t), NEW k \in 1..Len(t), t[j] = t[k] PROVE j = k
  <2>1. q[j + 1] = q[k + 1]
    BY <1>3, <1>5
  <2>2. j + 1 = k + 1
    BY <1>3, <1>4, <2>1
  <2> QED BY <2>2, <1>2
<1>6. Distinct(t)
  BY <1>2, <1>5 DEF Distinct
<1>7. ASSUME NEW x \in Elements(t) PROVE x \in Elements(q) \ {Head(q)}
  <2>1. PICK j \in 1..Len(t) : x = t[j]
    BY <1>2 DEF Elements
  <2>2. x = q[j + 1] /\ j + 1 \in 1..Len(q) /\ j + 1 # 1
    BY <1>2, <1>3, <2>1
  <2>3. x # q[1]
    BY <1>1, <1>4, <2>2
  <2> QED BY <1>1, <2>2, <2>3 DEF Elements
<1>8. ASSUME NEW x \in Elements(q) \ {Head(q)} PROVE x \in Elements(t)
  <2>1. PICK k \in 1..Len(q) : x = q[k]
    BY <1>1 DEF Elements
  <2>2. k # 1
    BY <1>1, <2>1
  <2>3. k - 1 \in 1..Len(t)
    BY <1>1, <1>2, <2>2
  <2>4. t[k - 1] = x
    BY <1>3, <2>1, <2>3
  <2> QED BY <1>2, <2>3, <2>4 DEF Elements
<1>9. Head(q) \in S /\ Head(q) \in Elements(q)
  BY <1>1 DEF Elements
<1> QED BY <1>2, <1>6, <1>7, <1>8, <1>9 DEF t

-----------------------------------------------------------------------------
(* Filtering: an induction over the prefixes of the queue, as an argument  *)
(* about the shortest prefix for which the claim would fail.               *)

\* Every set of natural numbers that is not empty has a least element: the
\* form in which the proofs below use induction.
LEMMA LeastElement ==
    ASSUME NEW T \in SUBSET Nat, T # {}
    PROVE  \E n \in T : \A m \in T : n <= m
<1> DEFINE R == OpToRel(<, Nat)
<1>1. IsWellFoundedOn(R, Nat)
  BY NatLessThanWellFounded
<1>2. \A m, n \in Nat : m < n => <<m, n>> \in R
  BY DEF OpToRel
<1> HIDE DEF R
<1>3. PICK n \in T : \A m \in T : ~ (<<m, n>> \in R)
  BY <1>1, WFMin
<1>4. \A m \in T : ~(m < n)
  BY <1>2, <1>3
<1>5. \A m \in T : n <= m
  BY <1>4
<1> QED BY <1>5

\* f lists what remains of the prefixes of q up to length n.
FilteredPrefixes(q, keep, f, n) ==
    f = [i \in 0..n |-> IF i = 0 THEN <<>>
                        ELSE IF q[i] \in keep THEN Append(f[i - 1], q[i]) ELSE f[i - 1]]

\* There is such a list for every length.
LEMMA PrefixesExist ==
    ASSUME NEW q, NEW keep, NEW k \in Nat
    PROVE  \E f : FilteredPrefixes(q, keep, f, k)
<1> DEFINE Missing == {n \in Nat : ~\E f : FilteredPrefixes(q, keep, f, n)}
<1>1. SUFFICES Missing = {}
  OBVIOUS
<1>2. SUFFICES ASSUME Missing # {} PROVE FALSE
  OBVIOUS
<1>3. PICK n \in Missing : \A m \in Missing : n <= m
  <2>1. Missing \in SUBSET Nat
    OBVIOUS
  <2> HIDE DEF Missing
  <2> QED BY <1>2, <2>1, LeastElement
<1>4. n # 0
  <2>1. FilteredPrefixes(q, keep, [i \in 0..0 |-> <<>>], 0)
    BY DEF FilteredPrefixes
  <2> QED BY <2>1
<1>5. n \in Nat /\ n - 1 \in Nat /\ n - 1 \notin Missing
  BY <1>3, <1>4
<1>6. PICK g : FilteredPrefixes(q, keep, g, n - 1)
  BY <1>5
<1> DEFINE last == IF q[n] \in keep THEN Append(g[n - 1], q[n]) ELSE g[n - 1]
<1> DEFINE f == [i \in 0..n |-> IF i = n THEN last ELSE g[i]]
<1>7. \A i \in 0..(n - 1) : f[i] = g[i]
  BY <1>5
<1>8. \A i \in 0..(n - 1) :
         g[i] = IF i = 0 THEN <<>>
                ELSE IF q[i] \in keep THEN Append(g[i - 1], q[i]) ELSE g[i - 1]
  BY <1>6 DEF FilteredPrefixes
<1>9. f[n] = last /\ f = [i \in 0..n |-> f[i]]
  BY <1>5
<1> HIDE DEF f
<1>10. ASSUME NEW i \in 0..n
       PROVE  f[i] = IF i = 0 THEN <<>>
                     ELSE IF q[i] \in keep THEN Append(f[i - 1], q[i]) ELSE f[i - 1]
  <2>1. CASE i = n
    <3>1. f[n] = IF q[n] \in keep THEN Append(g[n - 1], q[n]) ELSE g[n - 1]
      BY <1>9
    <3>2. f[n - 1] = g[n - 1]
      BY <1>5, <1>7
    <3> QED BY <2>1, <3>1, <3>2, <1>4
  <2>2. CASE i # n
    <3>1. i \in 0..(n - 1) /\ (i # 0 => i - 1 \in 0..(n - 1))
      BY <2>2, <1>5
    <3> QED BY <3>1, <1>7, <1>8
  <2> QED BY <2>1, <2>2
<1>11. FilteredPrefixes(q, keep, f, n)
  BY <1>9, <1>10 DEF FilteredPrefixes
<1> QED BY <1>11

\* Filtered is the last entry of the list for the whole queue.
LEMMA FilteredSteps ==
    ASSUME NEW S, NEW q \in Seq(S), NEW keep
    PROVE  \E f : /\ FilteredPrefixes(q, keep, f, Len(q))
                  /\ Filtered(q, keep) = f[Len(q)]
<1> DEFINE k == CHOOSE f : FilteredPrefixes(q, keep, f, Len(q))
<1>1. FilteredPrefixes(q, keep, k, Len(q))
  BY PrefixesExist
<1>2. Filtered(q, keep) = k[Len(q)]
  BY DEF Filtered, FilteredPrefixes
<1> QED BY <1>1, <1>2

\* Filtering keeps a queue, keeps exactly the wanted elements, and keeps them
\* in their order: h says where each of them comes from.
LEMMA FilteredFacts ==
    ASSUME NEW S, NEW q \in Seq(S), NEW keep
    PROVE  /\ Filtered(q, keep) \in Seq(S)
           /\ Elements(Filtered(q, keep)) = Elements(q) \cap keep
           /\ \E h \in [1..Len(Filtered(q, keep)) -> 1..Len(q)] :
                 /\ \A i, j \in 1..Len(Filtered(q, keep)) : i < j => h[i] < h[j]
                 /\ \A i \in 1..Len(Filtered(q, keep)) : Filtered(q, keep)[i] = q[h[i]]
<1>1. PICK f : /\ FilteredPrefixes(q, keep, f, Len(q))
               /\ Filtered(q, keep) = f[Len(q)]
  BY FilteredSteps
<1>2. f[0] = <<>>
  BY <1>1 DEF FilteredPrefixes
<1>3. ASSUME NEW n \in 1..Len(q)
      PROVE  f[n] = IF q[n] \in keep THEN Append(f[n - 1], q[n]) ELSE f[n - 1]
  <2> DEFINE next(i) == IF i = 0 THEN <<>>
                        ELSE IF q[i] \in keep THEN Append(f[i - 1], q[i]) ELSE f[i - 1]
  <2>1. f = [i \in 0..Len(q) |-> next(i)]
    BY <1>1 DEF FilteredPrefixes
  <2>2. n \in 0..Len(q) /\ n # 0
    OBVIOUS
  <2>3. next(n) = IF q[n] \in keep THEN Append(f[n - 1], q[n]) ELSE f[n - 1]
    BY <2>2
  <2> HIDE DEF next
  <2>4. f[n] = next(n)
    BY <2>1, <2>2
  <2> QED BY <2>3, <2>4
<1> DEFINE Order(s, h) == /\ \A i, j \in 1..Len(s) : i < j => h[i] < h[j]
                          /\ \A i \in 1..Len(s) : s[i] = q[h[i]]
           Good(n) == /\ f[n] \in Seq(S)
                      /\ \A x : x \in Elements(f[n]) <=>
                                 x \in keep /\ \E i \in 1..n : x = q[i]
                      /\ \E h \in [1..Len(f[n]) -> 1..n] : Order(f[n], h)
           Bad == {n \in 0..Len(q) : ~Good(n)}
<1>4. Good(0)
  <2>1. Len(<<>>) = 0 /\ <<>> \in Seq(S) /\ Elements(<<>>) = {}
    BY DEF Elements
  <2>2. \E h \in [1..Len(<<>>) -> 1..0] : Order(<<>>, h)
    <3>1. [i \in 1..0 |-> i] \in [1..0 -> 1..0]
      OBVIOUS
    <3>2. Order(<<>>, [i \in 1..0 |-> i])
      BY <2>1
    <3> QED BY <2>1, <3>1, <3>2
  <2> HIDE DEF Order
  <2>3. \A x : x \in Elements(<<>>) <=> x \in keep /\ \E i \in 1..0 : x = q[i]
    BY <2>1
  <2> QED BY <1>2, <2>1, <2>2, <2>3
<1>5. ASSUME NEW n \in 1..Len(q), Good(n - 1) PROVE Good(n)
  <2> DEFINE s == f[n - 1]
  <2>0. s \in Seq(S) /\ q[n] \in S
    BY <1>5
  <2>1. \A x : x \in Elements(s) <=> x \in keep /\ \E i \in 1..(n - 1) : x = q[i]
    BY <1>5
  <2>2. PICK h \in [1..Len(s) -> 1..(n - 1)] : Order(s, h)
    BY <1>5
  <2>3. CASE q[n] \notin keep
    <3>1. f[n] = s
      BY <1>3, <2>3
    <3>2. h \in [1..Len(s) -> 1..n]
      OBVIOUS
    <3>3. \A x : x \in Elements(s) <=> x \in keep /\ \E i \in 1..n : x = q[i]
      BY <2>1, <2>3
    <3> HIDE DEF s
    <3> QED BY <2>0, <2>2, <3>1, <3>2, <3>3
  <2>4. CASE q[n] \in keep
    <3> DEFINE a == Append(s, q[n])
               g == [i \in 1..Len(a) |-> IF i = Len(a) THEN n ELSE h[i]]
    <3>1. f[n] = a
      BY <1>3, <2>4
    <3> HIDE DEF s
    <3>2. a \in Seq(S) /\ Len(a) = Len(s) + 1 /\ Len(s) \in Nat
      BY <2>0
    <3>3. \A i \in 1..Len(a) : a[i] = IF i = Len(a) THEN q[n] ELSE s[i]
      BY <2>0
    <3>4. Elements(a) = Elements(s) \cup {q[n]}
      <4>1. ASSUME NEW x \in Elements(a) PROVE x \in Elements(s) \cup {q[n]}
        BY <2>0, <3>2, <3>3 DEF Elements
      <4>2. ASSUME NEW x \in Elements(s) PROVE x \in Elements(a)
        BY <2>0, <3>2, <3>3 DEF Elements
      <4>3. q[n] \in Elements(a)
        BY <3>2, <3>3 DEF Elements
      <4> QED BY <4>1, <4>2, <4>3
    <3> HIDE DEF a
    <3>5. \A x : x \in Elements(a) <=> x \in keep /\ \E i \in 1..n : x = q[i]
      BY <2>1, <2>4, <3>4
    <3>6. g \in [1..Len(a) -> 1..n]
      BY <3>2
    <3>7. Order(a, g)
      <4>1. \A i \in 1..Len(s) : h[i] \in 1..(n - 1)
        OBVIOUS
      <4>2. \A i \in 1..Len(a) : g[i] = IF i = Len(a) THEN n ELSE h[i]
        OBVIOUS
      <4>3. ASSUME NEW i \in 1..Len(a), NEW j \in 1..Len(a), i < j PROVE g[i] < g[j]
        <5>1. i \in 1..Len(s) /\ i # Len(a)
          BY <4>3, <3>2
        <5>2. g[i] = h[i] /\ h[i] \in 1..(n - 1)
          BY <4>1, <4>2, <5>1
        <5>3. CASE j = Len(a)
          BY <4>2, <5>2, <5>3
        <5>4. CASE j # Len(a)
          <6>1. j \in 1..Len(s) /\ g[j] = h[j]
            BY <3>2, <4>2, <5>4
          <6> QED BY <2>2, <4>3, <5>1, <5>2, <6>1
        <5> QED BY <5>3, <5>4
      <4>4. ASSUME NEW i \in 1..Len(a) PROVE a[i] = q[g[i]]
        <5>1. CASE i = Len(a)
          BY <3>3, <4>2, <5>1
        <5>2. CASE i # Len(a)
          <6>1. i \in 1..Len(s) /\ g[i] = h[i] /\ a[i] = s[i]
            BY <3>2, <3>3, <4>2, <5>2
          <6> QED BY <2>2, <6>1
        <5> QED BY <5>1, <5>2
      <4> QED BY <4>3, <4>4
    <3> HIDE DEF g, Order
    <3> QED BY <3>1, <3>2, <3>5, <3>6, <3>7
  <2> QED BY <2>3, <2>4
<1>6. Bad = {}
  <2> SUFFICES ASSUME Bad # {} PROVE FALSE
    OBVIOUS
  <2>1. Bad \in SUBSET Nat
    OBVIOUS
  <2> HIDE DEF Good
  <2>2. PICK n \in Bad : \A m \in Bad : n <= m
    <3> HIDE DEF Bad
    <3> QED BY <2>1, LeastElement
  <2>3. n # 0 /\ n \in 0..Len(q)
    BY <1>4, <2>2
  <2>4. n \in 1..Len(q) /\ n - 1 \in 0..Len(q)
    BY <2>3
  <2>5. n - 1 \notin Bad
    BY <2>2, <2>3
  <2> QED BY <1>5, <2>2, <2>4, <2>5
<1>7. Good(Len(q))
  <2> HIDE DEF Good
  <2>1. Len(q) \in 0..Len(q)
    OBVIOUS
  <2> QED BY <1>6, <2>1
<1>8. \A x : x \in Elements(f[Len(q)]) <=> x \in Elements(q) \cap keep
  BY <1>7 DEF Elements
<1> QED BY <1>1, <1>7, <1>8
=============================================================================
