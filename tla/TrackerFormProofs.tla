------------------------- MODULE TrackerFormProofs -------------------------
(***************************************************************************)
(* Proofs about TrackerForm, for windows of every size, every plan and any *)
(* number of saves: the order of bisection leaves nothing out, a window is *)
(* swept over the trips it means, what is saved can be searched and costs  *)
(* what was promised.                                                      *)
(*                                                                         *)
(* Induction goes by the least counterexample, a set of numbers.           *)
(***************************************************************************)
EXTENDS TrackerForm, WellFoundedInduction, FiniteSetTheorems, FunctionTheorems, TLAPS

LEMMA LeastNatural ==
  ASSUME NEW T \in SUBSET Nat, T # {}
  PROVE  \E x \in T : \A y \in T : x <= y
<1>1. PICK x \in T : \A y \in T : ~(<<y, x>> \in OpToRel(<, Nat))
  BY NatLessThanWellFounded, WFMin
<1>2. ASSUME NEW y \in T
      PROVE  x <= y
  <2>1. ~(y < x)
    BY <1>1, <1>2 DEF OpToRel
  <2> QED
    BY <2>1
<1> QED
  BY <1>2

-----------------------------------------------------------------------------
(* The order of bisection.                                                 *)

\* The recursion is well-founded: each queue of ranges comes from the one before.
LEMMA RangesStep ==
  ASSUME NEW n \in Nat
  PROVE  /\ Ranges(n)[0] = << <<0, n - 1>> >>
         /\ \A i \in 1..n : Ranges(n)[i] = Tail(Ranges(n)[i - 1]) \o Halves(Head(Ranges(n)[i - 1]))
<1> DEFINE A == << <<0, n - 1>> >>
           B(s) == Tail(s) \o Halves(Head(s))
           Follows(g, m) == g = [i \in 0..m |-> IF i = 0 THEN A ELSE B(g[i - 1])]
           stuck == {m \in Nat : ~\E g : Follows(g, m)}
<1> HIDE DEF A, B
<1>1. stuck = {}
  <2> SUFFICES ASSUME stuck # {}
               PROVE  FALSE
    OBVIOUS
  <2>1. PICK m \in stuck : \A k \in stuck : m <= k
    <3>1. stuck \in SUBSET Nat
      OBVIOUS
    <3> HIDE DEF stuck
    <3> QED
      BY <3>1, LeastNatural
  <2>2. CASE m = 0
    <3>1. Follows([i \in 0..m |-> A], m)
      BY <2>2
    <3> QED
      BY <3>1
  <2>3. CASE m # 0
    <3>1. m - 1 \in Nat /\ m - 1 \notin stuck
      <4>1. m \in Nat
        BY <2>1
      <4> HIDE DEF stuck
      <4> QED
        BY <2>1, <2>3, <4>1
    <3>2. PICK g : Follows(g, m - 1)
      BY <3>1
    <3> DEFINE h == [i \in 0..m |-> IF i = m THEN B(g[m - 1]) ELSE g[i]]
    <3>3. \A i \in 0..(m - 1) : h[i] = g[i] /\ g[i] = IF i = 0 THEN A ELSE B(g[i - 1])
      BY <3>1, <3>2
    <3>4. ASSUME NEW i \in 0..m
          PROVE  h[i] = IF i = 0 THEN A ELSE B(h[i - 1])
      <4>1. CASE i = m
        <5>1. h[m - 1] = g[m - 1]
          BY <2>3, <3>1, <3>3
        <5> QED
          BY <2>3, <4>1, <5>1
      <4>2. CASE i # m
        <5>1. i \in 0..(m - 1) /\ (i # 0 => i - 1 \in 0..(m - 1))
          BY <3>1, <4>2
        <5> QED
          BY <3>3, <5>1
      <4> QED
        BY <4>1, <4>2
    <3>5. h = [i \in 0..m |-> h[i]]
      OBVIOUS
    <3>6. Follows(h, m)
      <4> HIDE DEF h
      <4> QED
        BY <3>4, <3>5
    <3> QED
      BY <3>6
  <2> QED
    BY <2>2, <2>3
<1>2. \E g : Follows(g, n)
  BY <1>1
<1>3. Ranges(n) = CHOOSE g : Follows(g, n)
  BY DEF Ranges, A, B
<1>4. Follows(Ranges(n), n)
  <2> HIDE DEF Follows
  <2> QED
    BY <1>2, <1>3
<1>5. Ranges(n)[0] = A
  BY <1>4
<1>6. ASSUME NEW i \in 1..n
      PROVE  Ranges(n)[i] = B(Ranges(n)[i - 1])
  <2>1. i \in 0..n /\ i # 0
    OBVIOUS
  <2> QED
    BY <1>4, <2>1
<1> QED
  BY <1>5, <1>6 DEF A, B

\* A queue of ranges that are not empty and do not overlap, and what is left in it.
Within(range) == range[1]..range[2]
Disjoint(s) ==
    \A i, j \in 1..Len(s) : i # j => Within(s[i]) \cap Within(s[j]) = {}
Proper(s) ==
    /\ s \in Seq(Int \X Int)
    /\ \A i \in 1..Len(s) : s[i][1] <= s[i][2]
    /\ Disjoint(s)
Cover(s) == UNION {Within(s[i]) : i \in 1..Len(s)}

LEMMA Joined ==
  ASSUME NEW s, NEW t, Proper(s), Proper(t), Cover(s) \cap Cover(t) = {}
  PROVE  Proper(s \o t) /\ Cover(s \o t) = Cover(s) \cup Cover(t)
<1> DEFINE u == s \o t
<1>1. /\ s \in Seq(Int \X Int) /\ t \in Seq(Int \X Int)
      /\ Len(s) \in Nat /\ Len(t) \in Nat
  BY DEF Proper
<1>2. /\ u \in Seq(Int \X Int) /\ Len(u) = Len(s) + Len(t)
      /\ \A i \in 1..Len(s) : u[i] = s[i] /\ i \in 1..Len(u)
      /\ \A i \in 1..Len(t) : u[Len(s) + i] = t[i] /\ Len(s) + i \in 1..Len(u)
      /\ \A i \in 1..Len(u) : i \in 1..Len(s) \/ (i - Len(s) \in 1..Len(t)
                                                 /\ u[i] = t[i - Len(s)])
  BY <1>1
<1> HIDE DEF u
<1>3. \A i \in 1..Len(s) : Within(s[i]) \subseteq Cover(s)
  BY DEF Cover
<1>4. \A i \in 1..Len(t) : Within(t[i]) \subseteq Cover(t)
  BY DEF Cover
<1>5. Disjoint(u)
  <2> SUFFICES ASSUME NEW i \in 1..Len(u), NEW j \in 1..Len(u), i # j
               PROVE  Within(u[i]) \cap Within(u[j]) = {}
    BY DEF Disjoint
  <2>1. CASE i \in 1..Len(s) /\ j \in 1..Len(s)
    BY <1>2, <2>1 DEF Proper, Disjoint
  <2>2. CASE i \in 1..Len(s) /\ j \notin 1..Len(s)
    <3>1. j - Len(s) \in 1..Len(t) /\ u[j] = t[j - Len(s)] /\ u[i] = s[i]
      BY <1>2, <2>2
    <3>2. Within(u[i]) \subseteq Cover(s) /\ Within(u[j]) \subseteq Cover(t)
      BY <1>3, <1>4, <2>2, <3>1
    <3> QED
      BY <3>2
  <2>3. CASE i \notin 1..Len(s) /\ j \in 1..Len(s)
    <3>1. i - Len(s) \in 1..Len(t) /\ u[i] = t[i - Len(s)] /\ u[j] = s[j]
      BY <1>2, <2>3
    <3>2. Within(u[j]) \subseteq Cover(s) /\ Within(u[i]) \subseteq Cover(t)
      BY <1>3, <1>4, <2>3, <3>1
    <3> QED
      BY <3>2
  <2>4. CASE i \notin 1..Len(s) /\ j \notin 1..Len(s)
    <3>1. /\ i - Len(s) \in 1..Len(t) /\ u[i] = t[i - Len(s)]
          /\ j - Len(s) \in 1..Len(t) /\ u[j] = t[j - Len(s)]
      BY <1>2, <2>4
    <3>2. i - Len(s) # j - Len(s)
      BY <1>1
    <3> QED
      BY <3>1, <3>2 DEF Proper, Disjoint
  <2> QED
    BY <2>1, <2>2, <2>3, <2>4
<1>6. \A i \in 1..Len(u) : u[i][1] <= u[i][2]
  BY <1>2 DEF Proper
<1>7. Cover(u) = Cover(s) \cup Cover(t)
  <2>1. ASSUME NEW x \in Cover(u)
        PROVE  x \in Cover(s) \cup Cover(t)
    <3>1. PICK i \in 1..Len(u) : x \in Within(u[i])
      BY DEF Cover
    <3> QED
      BY <1>2, <1>3, <1>4, <3>1
  <2>2. ASSUME NEW x \in Cover(s)
        PROVE  x \in Cover(u)
    <3>1. PICK i \in 1..Len(s) : x \in Within(s[i])
      BY DEF Cover
    <3>2. u[i] = s[i] /\ i \in 1..Len(u)
      BY <1>2
    <3> QED
      BY <3>1, <3>2 DEF Cover
  <2>3. ASSUME NEW x \in Cover(t)
        PROVE  x \in Cover(u)
    <3>1. PICK i \in 1..Len(t) : x \in Within(t[i])
      BY DEF Cover
    <3>2. u[Len(s) + i] = t[i] /\ Len(s) + i \in 1..Len(u)
      BY <1>2
    <3> QED
      BY <3>1, <3>2 DEF Cover
  <2> QED
    BY <2>1, <2>2, <2>3
<1> QED
  BY <1>2, <1>5, <1>6, <1>7 DEF Proper, u

\* No range, and one.
LEMMA FewRanges ==
  /\ Proper(<<>>) /\ Cover(<<>>) = {}
  /\ \A lo, hi \in Int : lo <= hi => Proper(<< <<lo, hi>> >>) /\ Cover(<< <<lo, hi>> >>) = lo..hi
<1>1. Proper(<<>>) /\ Cover(<<>>) = {}
  BY DEF Proper, Cover, Disjoint
<1>2. ASSUME NEW lo \in Int, NEW hi \in Int, lo <= hi
      PROVE  Proper(<< <<lo, hi>> >>) /\ Cover(<< <<lo, hi>> >>) = lo..hi
  <2> DEFINE s == << <<lo, hi>> >>
  <2>1. /\ s \in Seq(Int \X Int) /\ Len(s) = 1 /\ s[1] = <<lo, hi>>
        /\ s[1][1] = lo /\ s[1][2] = hi
    OBVIOUS
  <2>2. 1..Len(s) = {1}
    BY <2>1
  <2> HIDE DEF s
  <2>3. Cover(s) = lo..hi
    BY <2>1, <2>2 DEF Cover, Within
  <2>4. Proper(s)
    BY <1>2, <2>1, <2>2 DEF Proper, Disjoint
  <2> QED
    BY <2>3, <2>4 DEF s
<1> QED
  BY <1>1, <1>2

LEMMA HalvesCover ==
  ASSUME NEW r \in Int \X Int, r[1] <= r[2]
  PROVE  /\ Middle(r) \in Within(r)
         /\ Proper(Halves(r)) /\ Cover(Halves(r)) = Within(r) \ {Middle(r)}
<1> DEFINE lo == r[1]
           hi == r[2]
           mid == Middle(r)
           below == IF lo <= mid - 1 THEN << <<lo, mid - 1>> >> ELSE <<>>
           above == IF mid + 1 <= hi THEN << <<mid + 1, hi>> >> ELSE <<>>
<1>1. lo \in Int /\ hi \in Int /\ lo <= hi
  OBVIOUS
<1>2. mid \in Int /\ lo <= mid /\ mid <= hi
  BY <1>1 DEF Middle
<1> HIDE DEF mid, lo, hi
<1>3. Proper(below) /\ Cover(below) = lo..(mid - 1)
  <2>1. CASE lo <= mid - 1
    BY <1>1, <1>2, <2>1, FewRanges
  <2>2. CASE ~(lo <= mid - 1)
    <3>1. below = <<>>
      BY <2>2
    <3>2. lo..(mid - 1) = {}
      BY <1>1, <1>2, <2>2
    <3> QED
      BY <3>1, <3>2, FewRanges
  <2> QED
    BY <2>1, <2>2
<1>4. Proper(above) /\ Cover(above) = (mid + 1)..hi
  <2>1. CASE mid + 1 <= hi
    BY <1>1, <1>2, <2>1, FewRanges
  <2>2. CASE ~(mid + 1 <= hi)
    <3>1. above = <<>>
      BY <2>2
    <3>2. (mid + 1)..hi = {}
      BY <1>1, <1>2, <2>2
    <3> QED
      BY <3>1, <3>2, FewRanges
  <2> QED
    BY <2>1, <2>2
<1> HIDE DEF below, above
<1>5. Cover(below) \cap Cover(above) = {}
  BY <1>1, <1>2, <1>3, <1>4
<1>6. Proper(below \o above) /\ Cover(below \o above) = Cover(below) \cup Cover(above)
  BY <1>3, <1>4, <1>5, Joined
<1>7. Cover(below) \cup Cover(above) = (lo..hi) \ {mid}
  BY <1>1, <1>2, <1>3, <1>4
<1>8. Halves(r) = below \o above
  BY DEF Halves, below, above, mid, lo, hi
<1> QED
  BY <1>1, <1>2, <1>6, <1>7, <1>8 DEF Within, mid, lo, hi

LEMMA TailCover ==
  ASSUME NEW s, Proper(s), s # <<>>
  PROVE  /\ Head(s) \in Int \X Int /\ Head(s)[1] <= Head(s)[2]
         /\ Proper(Tail(s))
         /\ Cover(s) = Within(Head(s)) \cup Cover(Tail(s))
         /\ Within(Head(s)) \cap Cover(Tail(s)) = {}
<1> DEFINE t == Tail(s)
<1>1. s \in Seq(Int \X Int) /\ Len(s) \in Nat /\ Len(s) # 0
  BY DEF Proper
<1>2. /\ t \in Seq(Int \X Int) /\ Len(t) = Len(s) - 1 /\ Head(s) = s[1] /\ 1 \in 1..Len(s)
      /\ \A i \in 1..Len(t) : t[i] = s[i + 1] /\ i + 1 \in 1..Len(s)
      /\ \A i \in 1..Len(s) : i = 1 \/ (i - 1 \in 1..Len(t) /\ t[i - 1] = s[i])
  BY <1>1
<1> HIDE DEF t
<1>3. Head(s) \in Int \X Int /\ Head(s)[1] <= Head(s)[2]
  BY <1>1, <1>2 DEF Proper
<1>4. Disjoint(t)
  <2> SUFFICES ASSUME NEW i \in 1..Len(t), NEW j \in 1..Len(t), i # j
               PROVE  Within(t[i]) \cap Within(t[j]) = {}
    BY DEF Disjoint
  <2>1. i + 1 # j + 1
    OBVIOUS
  <2> QED
    BY <1>2, <2>1 DEF Proper, Disjoint
<1>5. Proper(t)
  BY <1>2, <1>4 DEF Proper
<1>6. Cover(s) = Within(Head(s)) \cup Cover(t)
  <2>1. ASSUME NEW x \in Cover(s)
        PROVE  x \in Within(Head(s)) \cup Cover(t)
    <3>1. PICK i \in 1..Len(s) : x \in Within(s[i])
      BY DEF Cover
    <3> QED
      BY <1>2, <3>1 DEF Cover
  <2>2. ASSUME NEW x \in Cover(t)
        PROVE  x \in Cover(s)
    <3>1. PICK i \in 1..Len(t) : x \in Within(t[i])
      BY DEF Cover
    <3> QED
      BY <1>2, <3>1 DEF Cover
  <2>3. Within(Head(s)) \subseteq Cover(s)
    BY <1>2 DEF Cover
  <2> QED
    BY <2>1, <2>2, <2>3
<1>7. Within(Head(s)) \cap Cover(t) = {}
  <2> SUFFICES ASSUME NEW x \in Within(Head(s)), x \in Cover(t)
               PROVE  FALSE
    OBVIOUS
  <2>1. PICK i \in 1..Len(t) : x \in Within(t[i])
    BY DEF Cover
  <2>2. /\ x \in Within(s[1]) /\ x \in Within(s[i + 1])
        /\ 1 # i + 1 /\ i + 1 \in 1..Len(s) /\ 1 \in 1..Len(s)
    BY <1>2, <2>1
  <2> QED
    BY <2>2 DEF Proper, Disjoint
<1> QED
  BY <1>3, <1>5, <1>6, <1>7 DEF t

\* Taking the first range gives its middle, and leaves the rest in the queue.
LEMMA TakeMiddle ==
  ASSUME NEW s, Proper(s), s # <<>>
  PROVE  LET t == Tail(s) \o Halves(Head(s))
             mid == Middle(Head(s))
         IN Proper(t) /\ mid \in Cover(s) /\ Cover(t) = Cover(s) \ {mid}
<1> DEFINE h == Head(s)
<1>1. /\ h \in Int \X Int /\ h[1] <= h[2] /\ Proper(Tail(s))
      /\ Cover(s) = Within(h) \cup Cover(Tail(s)) /\ Within(h) \cap Cover(Tail(s)) = {}
  BY TailCover
<1>2. /\ Middle(h) \in Within(h) /\ Proper(Halves(h))
      /\ Cover(Halves(h)) = Within(h) \ {Middle(h)}
  BY <1>1, HalvesCover
<1>3. /\ Proper(Tail(s) \o Halves(h))
      /\ Cover(Tail(s) \o Halves(h)) = Cover(Tail(s)) \cup Cover(Halves(h))
  BY <1>1, <1>2, Joined
<1> QED
  BY <1>1, <1>2, <1>3

\* The first so many numbers taken, and what they leave.
Taken(n, i) == {BisectionOrder(n)[j] : j \in 1..i}

LEMMA BisectionInvariant ==
  ASSUME NEW n \in Nat \ {0}
  PROVE  \A i \in 0..n : /\ Proper(Ranges(n)[i])
                         /\ Cover(Ranges(n)[i]) = (0..(n - 1)) \ Taken(n, i)
                         /\ Cardinality(Cover(Ranges(n)[i])) = n - i
                         /\ i < n => BisectionOrder(n)[i + 1] \in Cover(Ranges(n)[i])
<1> DEFINE R == Ranges(n)
           order == BisectionOrder(n)
           Holds(i) == /\ Proper(R[i]) /\ Cover(R[i]) = (0..(n - 1)) \ Taken(n, i)
                       /\ IsFiniteSet(Cover(R[i])) /\ Cardinality(Cover(R[i])) = n - i
           failing == {i \in 0..n : ~Holds(i)}
<1>1. /\ R[0] = << <<0, n - 1>> >>
      /\ \A i \in 1..n : R[i] = Tail(R[i - 1]) \o Halves(Head(R[i - 1]))
  BY RangesStep
<1>2. \A i \in 0..(n - 1) : order[i + 1] = Middle(Head(R[i]))
  <2> SUFFICES ASSUME NEW i \in 0..(n - 1)
               PROVE  order[i + 1] = Middle(Head(R[i]))
    OBVIOUS
  <2>1. i + 1 \in 1..n /\ (i + 1) - 1 = i
    OBVIOUS
  <2> QED
    BY <2>1 DEF BisectionOrder
<1> HIDE DEF R, order
<1>3. Holds(0)
  <2>1. Proper(R[0]) /\ Cover(R[0]) = 0..(n - 1)
    BY <1>1, FewRanges
  <2>2. Taken(n, 0) = {}
    BY DEF Taken
  <2>3. IsFiniteSet(0..(n - 1)) /\ Cardinality(0..(n - 1)) = n
    BY FS_Interval
  <2> QED
    BY <2>1, <2>2, <2>3
<1>4. ASSUME NEW i \in 0..(n - 1), Holds(i)
      PROVE  order[i + 1] \in Cover(R[i]) /\ Holds(i + 1)
  <2> DEFINE mid == Middle(Head(R[i]))
  <2>1. Cover(R[i]) # {}
    BY <1>4, FS_EmptySet
  <2>2. R[i] # <<>>
    BY <2>1, FewRanges
  <2>3. R[i + 1] = Tail(R[i]) \o Halves(Head(R[i]))
    <3>1. i + 1 \in 1..n /\ (i + 1) - 1 = i
      OBVIOUS
    <3> QED
      BY <1>1, <3>1
  <2>4. Proper(R[i + 1]) /\ mid \in Cover(R[i]) /\ Cover(R[i + 1]) = Cover(R[i]) \ {mid}
    BY <1>4, <2>2, <2>3, TakeMiddle
  <2>5. order[i + 1] = mid
    BY <1>2
  <2> HIDE DEF mid
  <2>6. Taken(n, i + 1) = Taken(n, i) \cup {mid}
    <3>1. 1..(i + 1) = (1..i) \cup {i + 1}
      OBVIOUS
    <3> QED
      BY <2>5, <3>1 DEF Taken, order
  <2>7. IsFiniteSet(Cover(R[i + 1])) /\ Cardinality(Cover(R[i + 1])) = (n - i) - 1
    <3> DEFINE S == Cover(R[i])
    <3>1. IsFiniteSet(S) /\ Cardinality(S) = n - i /\ mid \in S
      BY <1>4, <2>4
    <3> HIDE DEF S
    <3>2. IsFiniteSet(S \ {mid}) /\ Cardinality(S \ {mid}) = (n - i) - 1
      BY <3>1, FS_RemoveElement
    <3> QED
      BY <2>4, <3>2 DEF S
  <2> QED
    BY <1>4, <2>4, <2>5, <2>6, <2>7
<1>5. failing = {}
  <2> SUFFICES ASSUME failing # {}
               PROVE  FALSE
    OBVIOUS
  <2> HIDE DEF Holds
  <2>1. failing \in SUBSET Nat
    OBVIOUS
  <2>2. PICK i \in failing : \A k \in failing : i <= k
    <3> HIDE DEF failing
    <3> QED
      BY <2>1, LeastNatural
  <2>3. i \in 0..n /\ ~Holds(i) /\ i # 0
    BY <1>3, <2>2
  <2>4. i - 1 \in 0..(n - 1) /\ i - 1 \in 0..n /\ (i - 1) + 1 = i
    BY <2>3
  <2>5. Holds(i - 1)
    <3>1. i - 1 \notin failing
      <4> HIDE DEF failing
      <4> QED
        BY <2>2, <2>3
    <3> QED
      BY <2>4, <3>1
  <2> QED
    BY <1>4, <2>3, <2>4, <2>5
<1>6. \A i \in 0..n : Holds(i)
  <2> HIDE DEF Holds
  <2> QED
    BY <1>5
<1>7. \A i \in 0..n : i < n => order[i + 1] \in Cover(R[i])
  <2> SUFFICES ASSUME NEW i \in 0..n, i < n
               PROVE  order[i + 1] \in Cover(R[i])
    OBVIOUS
  <2>1. i \in 0..(n - 1)
    OBVIOUS
  <2> HIDE DEF Holds
  <2> QED
    BY <1>4, <1>6, <2>1
<1> QED
  BY <1>6, <1>7 DEF R, order

\* bisectionOrder(n) lists each of 0..n-1 exactly once: nothing is checked twice in a
\* cycle, and no place of the window is left out.
THEOREM BisectionLeavesNothingOut ==
  ASSUME NEW n \in Nat
  PROVE  /\ DOMAIN BisectionOrder(n) = 1..n
         /\ \A i \in 1..n : BisectionOrder(n)[i] \in 0..(n - 1)
         /\ \A i, j \in 1..n : BisectionOrder(n)[i] = BisectionOrder(n)[j] => i = j
         /\ \A m \in 0..(n - 1) : \E i \in 1..n : BisectionOrder(n)[i] = m
<1>1. CASE n = 0
  <2>1. 1..n = {} /\ 0..(n - 1) = {}
    BY <1>1
  <2> QED
    BY <2>1 DEF BisectionOrder
<1>2. CASE n # 0
  <2> DEFINE order == BisectionOrder(n)
             C(i) == Cover(Ranges(n)[i])
  <2>1. \A i \in 0..n : /\ C(i) = (0..(n - 1)) \ Taken(n, i) /\ Cardinality(C(i)) = n - i
                        /\ i < n => order[i + 1] \in C(i)
    BY <1>2, BisectionInvariant
  <2>2. DOMAIN order = 1..n
    BY DEF BisectionOrder
  <2> HIDE DEF order, C
  <2>3. ASSUME NEW i \in 1..n
        PROVE  order[i] \in 0..(n - 1) /\ order[i] \notin Taken(n, i - 1)
    <3>1. i - 1 \in 0..n /\ i - 1 < n /\ (i - 1) + 1 = i
      OBVIOUS
    <3>2. order[i] \in C(i - 1)
      BY <2>1, <3>1
    <3> QED
      BY <2>1, <3>1, <3>2
  <2>4. ASSUME NEW i \in 1..n, NEW j \in 1..n, i < j
        PROVE  order[i] # order[j]
    <3>1. i \in 1..(j - 1)
      BY <2>4
    <3>2. order[i] \in Taken(n, j - 1)
      BY <3>1 DEF Taken, order
    <3> QED
      BY <2>3, <3>2
  <2>5. \A i, j \in 1..n : order[i] = order[j] => i = j
    <3> SUFFICES ASSUME NEW i \in 1..n, NEW j \in 1..n, order[i] = order[j], i # j
                 PROVE  FALSE
      OBVIOUS
    <3>1. i < j \/ j < i
      OBVIOUS
    <3> QED
      BY <2>4, <3>1
  <2>6. ASSUME NEW m \in 0..(n - 1)
        PROVE  \E i \in 1..n : order[i] = m
    <3>1. n \in 0..n /\ Cardinality(C(n)) = 0 /\ C(n) = (0..(n - 1)) \ Taken(n, n)
      BY <2>1
    <3>2. IsFiniteSet(C(n))
      <4>1. IsFiniteSet(0..(n - 1))
        BY FS_Interval
      <4> QED
        BY <3>1, <4>1, FS_Subset
    <3>3. C(n) = {}
      BY <3>1, <3>2, FS_EmptySet
    <3>4. m \in Taken(n, n)
      BY <3>1, <3>3
    <3> QED
      BY <3>4 DEF Taken, order
  <2> QED
    BY <2>2, <2>3, <2>5, <2>6 DEF order
<1> QED
  BY <1>1, <1>2

-----------------------------------------------------------------------------
(* How far apart the first pairs are.                                      *)

LEMMA Concatenated ==
  ASSUME NEW s \in Seq(Int \X Int), NEW t \in Seq(Int \X Int)
  PROVE  /\ s \o t \in Seq(Int \X Int) /\ Len(s \o t) = Len(s) + Len(t)
         /\ Len(s) \in Nat /\ Len(t) \in Nat
         /\ \A i \in 1..Len(s) : (s \o t)[i] = s[i]
         /\ \A i \in 1..Len(t) : (s \o t)[Len(s) + i] = t[i]
OBVIOUS

\* One queue of ranges after another: the first range gone, its halves at the end.
Moved(s, t, u) ==
    /\ u \in Seq(Int \X Int) /\ Len(u) = Len(s) - 1 + Len(t)
    /\ \A i \in 1..(Len(s) - 1) : u[i] = s[i + 1]
    /\ \A i \in 1..Len(t) : u[Len(s) - 1 + i] = t[i]

LEMMA Queued ==
  ASSUME NEW s \in Seq(Int \X Int), NEW t \in Seq(Int \X Int), s # <<>>
  PROVE  Moved(s, t, Tail(s) \o t)
<1>1. /\ Len(s) \in Nat /\ Len(t) \in Nat /\ Tail(s) \in Seq(Int \X Int)
      /\ Len(Tail(s)) = Len(s) - 1
      /\ \A i \in 1..(Len(s) - 1) : Tail(s)[i] = s[i + 1]
  OBVIOUS
<1> DEFINE r == Tail(s)
<1> HIDE DEF r
<1>2. /\ r \o t \in Seq(Int \X Int) /\ Len(r \o t) = Len(r) + Len(t)
      /\ \A i \in 1..Len(r) : (r \o t)[i] = r[i]
      /\ \A i \in 1..Len(t) : (r \o t)[Len(r) + i] = t[i]
  BY <1>1, Concatenated DEF r
<1> QED
  BY <1>1, <1>2 DEF r, Moved

\* A range of three or more leaves two.
LEMMA Halved2 ==
  ASSUME NEW lo \in Int, NEW hi \in Int, lo + 1 < hi
  PROVE  LET mid == (lo + hi) \div 2
         IN /\ Middle(<<lo, hi>>) = mid
            /\ Halves(<<lo, hi>>) \in Seq(Int \X Int) /\ Len(Halves(<<lo, hi>>)) = 2
            /\ Halves(<<lo, hi>>)[1] = <<lo, mid - 1>> /\ Halves(<<lo, hi>>)[2] = <<mid + 1, hi>>
<1> DEFINE mid == (lo + hi) \div 2
           r == <<lo, hi>>
<1>1. Middle(r) = mid /\ r[1] = lo /\ r[2] = hi
  BY DEF Middle
<1>2. mid \in Int /\ lo <= mid - 1 /\ mid + 1 <= hi
  OBVIOUS
<1> HIDE DEF mid, r
<1>3. Halves(r) = << <<lo, mid - 1>> >> \o << <<mid + 1, hi>> >>
  BY <1>1, <1>2 DEF Halves
<1> DEFINE a == <<lo, mid - 1>>
           b == <<mid + 1, hi>>
<1>4. a \in Int \X Int /\ b \in Int \X Int
  BY <1>2
<1>5. Halves(r) = <<a>> \o <<b>>
  BY <1>3
<1> HIDE DEF a, b
<1> DEFINE x == <<a>>
           y == <<b>>
<1>6. /\ x \in Seq(Int \X Int) /\ Len(x) = 1 /\ x[1] = a
      /\ y \in Seq(Int \X Int) /\ Len(y) = 1 /\ y[1] = b
  BY <1>4
<1>7. Halves(r) = x \o y
  BY <1>5
<1> HIDE DEF x, y
<1>8. /\ x \o y \in Seq(Int \X Int) /\ Len(x \o y) = 2
      /\ (x \o y)[1] = a /\ (x \o y)[2] = b
  <2>1. /\ x \o y \in Seq(Int \X Int) /\ Len(x \o y) = Len(x) + Len(y)
        /\ \A i \in 1..Len(x) : (x \o y)[i] = x[i]
        /\ \A i \in 1..Len(y) : (x \o y)[Len(x) + i] = y[i]
    BY <1>6, Concatenated
  <2>2. 1 \in 1..Len(x) /\ 1 \in 1..Len(y) /\ Len(x) + 1 = 2
    BY <1>6
  <2> QED
    BY <1>6, <2>1, <2>2
<1> QED
  BY <1>1, <1>7, <1>8 DEF mid, r, a, b

LEMMA HalvesAreRanges ==
  ASSUME NEW lo \in Int, NEW hi \in Int, lo <= hi
  PROVE  Halves(<<lo, hi>>) \in Seq(Int \X Int)
<1> DEFINE range == <<lo, hi>>
<1>1. range \in Int \X Int /\ range[1] <= range[2]
  OBVIOUS
<1> HIDE DEF range
<1>2. Halves(range) \in Seq(Int \X Int)
  BY <1>1, HalvesCover DEF Proper
<1> QED
  BY <1>2 DEF range

\* A place that is taken, and what it leaves in the queue of ranges: two more behind the
\* others, if the range was long enough.
Leaves(n, i, lo, mid, hi, s, k, u) ==
    /\ BisectionOrder(n)[i] = mid
    /\ u \in Seq(Int \X Int) /\ Len(u) >= k - 1
    /\ \A j \in 1..(k - 1) : u[j] = s[j + 1]
    /\ lo + 1 < hi /\ Len(s) = k =>
         /\ Len(u) = k + 1
         /\ u[k] = <<lo, mid - 1>> /\ u[k + 1] = <<mid + 1, hi>>

LEMMA PlaceTaken ==
  ASSUME NEW n \in Nat, NEW h \in Nat, NEW i \in 1..n, i = h + 1,
         NEW lo \in Int, NEW hi \in Int, NEW mid \in Int, lo <= hi, lo + hi = 2 * mid \/ lo + hi = 2 * mid + 1,
         NEW s \in Seq(Int \X Int), NEW k \in Nat \ {0}, Len(s) >= k, s[1] = <<lo, hi>>,
         Ranges(n)[h] = s, NEW u, Ranges(n)[i] = u
  PROVE  Leaves(n, i, lo, mid, hi, s, k, u)
<1> DEFINE range == <<lo, hi>>
           halves == Halves(range)
<1> DEFINE length == Len(s)
<1>1. Head(s) = range /\ i - 1 = h /\ length \in Nat
  OBVIOUS
<1> HIDE DEF length
<1>0. (lo + hi) \div 2 = mid /\ range[1] = lo /\ range[2] = hi /\ length >= 1
  BY <1>1 DEF length
<1>2. u = Tail(s) \o Halves(Head(s))
  BY <1>1, RangesStep
<1>3. BisectionOrder(n)[i] = Middle(Head(s))
  BY <1>1 DEF BisectionOrder
<1>4. BisectionOrder(n)[i] = mid
  BY <1>0, <1>1, <1>3 DEF Middle
<1>5. halves \in Seq(Int \X Int)
  BY HalvesAreRanges
<1>6. lo + 1 < hi => /\ Len(halves) = 2
                     /\ halves[1] = <<lo, mid - 1>> /\ halves[2] = <<mid + 1, hi>>
  BY <1>0, Halved2
<1>7. u = Tail(s) \o halves
  BY <1>1, <1>2
<1> HIDE DEF halves, range
<1>8. Moved(s, halves, u)
  <2>1. s # <<>>
    BY <1>0 DEF length
  <2> QED
    BY <1>5, <1>7, <2>1, Queued
<1>9. /\ u \in Seq(Int \X Int) /\ Len(u) = Len(s) - 1 + Len(halves)
      /\ \A j \in 1..(Len(s) - 1) : u[j] = s[j + 1]
      /\ \A j \in 1..Len(halves) : u[Len(s) - 1 + j] = halves[j]
  BY <1>8 DEF Moved
<1>10. Len(halves) \in Nat
  BY <1>5
<1>11. ASSUME lo + 1 < hi, Len(s) = k
       PROVE  /\ Len(u) = k + 1
              /\ u[k] = <<lo, mid - 1>> /\ u[k + 1] = <<mid + 1, hi>>
  <2>0. /\ Len(halves) = 2 /\ halves[1] = <<lo, mid - 1>> /\ halves[2] = <<mid + 1, hi>>
    BY <1>6, <1>11
  <2>1. 1 \in 1..Len(halves) /\ 2 \in 1..Len(halves)
    BY <2>0
  <2>2. u[k - 1 + 1] = halves[1] /\ u[k - 1 + 2] = halves[2]
    BY <1>9, <1>11, <2>1
  <2>3. k - 1 + 1 = k /\ k - 1 + 2 = k + 1
    OBVIOUS
  <2>4. u[k] = halves[1] /\ u[k + 1] = halves[2]
    BY <2>2, <2>3
  <2>5. Len(u) = k + 1
    BY <1>9, <1>11, <2>0
  <2> QED
    BY <2>0, <2>4, <2>5
<1>12. Len(u) >= k - 1 /\ \A j \in 1..(k - 1) : u[j] = s[j + 1]
  <2>1. length - 1 + Len(halves) >= k - 1 /\ \A j \in 1..(k - 1) : j \in 1..(length - 1)
    BY <1>1, <1>10 DEF length
  <2> QED
    BY <1>9, <2>1 DEF length
<1> QED
  BY <1>4, <1>9, <1>11, <1>12 DEF Leaves

\* The first seven places, when there are as many.
FirstSeven(n, m, l, r) ==
    /\ n >= 1 => BisectionOrder(n)[1] = m
    /\ n >= 3 => BisectionOrder(n)[2] = l /\ BisectionOrder(n)[3] = r
    /\ n >= 7 => /\ BisectionOrder(n)[4] = (l - 1) \div 2
                 /\ BisectionOrder(n)[5] = (l + m) \div 2
                 /\ BisectionOrder(n)[6] = (m + r) \div 2
                 /\ BisectionOrder(n)[7] = (r + n) \div 2

LEMMA FirstPlaces ==
  ASSUME NEW n \in Nat, NEW m \in Int, NEW l \in Int, NEW r \in Int,
         m = (n - 1) \div 2, l = (m - 1) \div 2, r = (m + n) \div 2
  PROVE  FirstSeven(n, m, l, r)
<1> DEFINE order == BisectionOrder(n)
           Q0 == Ranges(n)[0]
           Q1 == Ranges(n)[1]
           Q2 == Ranges(n)[2]
           Q3 == Ranges(n)[3]
           Q4 == Ranges(n)[4]
           Q5 == Ranges(n)[5]
           Q6 == Ranges(n)[6]
           Q7 == Ranges(n)[7]
<1>0. /\ Ranges(n)[0] = Q0 /\ Ranges(n)[1] = Q1 /\ Ranges(n)[2] = Q2 /\ Ranges(n)[3] = Q3
      /\ Ranges(n)[4] = Q4 /\ Ranges(n)[5] = Q5 /\ Ranges(n)[6] = Q6 /\ Ranges(n)[7] = Q7
  OBVIOUS
<1> HIDE DEF Q0, Q1, Q2, Q3, Q4, Q5, Q6, Q7
<1>1. /\ Q0 \in Seq(Int \X Int) /\ Len(Q0) = 1 /\ Q0[1] = <<0, n - 1>>
  <2>1. Q0 = << <<0, n - 1>> >>
    BY <1>0, RangesStep
  <2> QED
    BY <2>1
<1>2. ASSUME n >= 1
      PROVE  Leaves(n, 1, 0, m, n - 1, Q0, 1, Q1)
  <2>1. /\ 1 \in 1..n /\ 0 \in Nat /\ 1 = 0 + 1 /\ 0 \in Int /\ n - 1 \in Int /\ 0 <= n - 1
        /\ 0 + (n - 1) = 2 * m \/ 0 + (n - 1) = 2 * m + 1
        /\ 1 \in Nat \ {0} /\ Len(Q0) >= 1
    BY <1>1, <1>2
  <2> QED
    BY <1>0, <1>1, <2>1, PlaceTaken
<1>3. ASSUME n >= 3
      PROVE  /\ Q1 \in Seq(Int \X Int) /\ Len(Q1) = 2
             /\ Q1[1] = <<0, m - 1>> /\ Q1[2] = <<m + 1, n - 1>>
  <2>1. n >= 1 /\ 0 + 1 < n - 1 /\ 1 + 1 = 2
    BY <1>3
  <2> QED
    BY <1>1, <1>2, <2>1 DEF Leaves
<1>4. ASSUME n >= 3
      PROVE  Leaves(n, 2, 0, l, m - 1, Q1, 2, Q2)
  <2>1. /\ 2 \in 1..n /\ 1 \in Nat /\ 2 = 1 + 1 /\ 0 \in Int /\ m - 1 \in Int /\ 0 <= m - 1
        /\ 0 + (m - 1) = 2 * l \/ 0 + (m - 1) = 2 * l + 1
        /\ 2 \in Nat \ {0} /\ 2 >= 2
    BY <1>4
  <2>2. Len(Q1) >= 2
    BY <1>3, <1>4, <2>1
  <2> QED
    BY <1>0, <1>3, <1>4, <2>1, <2>2, PlaceTaken
<1>5. ASSUME n >= 3
      PROVE  /\ Q2 \in Seq(Int \X Int) /\ Len(Q2) >= 1 /\ Q2[1] = <<m + 1, n - 1>>
             /\ n >= 7 => /\ Len(Q2) = 3 /\ Q2[2] = <<0, l - 1>> /\ Q2[3] = <<l + 1, m - 1>>
  <2>1. (n >= 7 => 0 + 1 < m - 1) /\ 1 \in 1..(2 - 1) /\ 1 + 1 = 2 /\ 2 + 1 = 3 /\ 2 - 1 = 1
    BY <1>5
  <2> QED
    BY <1>3, <1>4, <1>5, <2>1 DEF Leaves
<1>6. ASSUME n >= 3
      PROVE  Leaves(n, 3, m + 1, r, n - 1, Q2, 1, Q3)
  <2>1. /\ 3 \in 1..n /\ 2 \in Nat /\ 3 = 2 + 1 /\ m + 1 \in Int /\ n - 1 \in Int
        /\ m + 1 <= n - 1
        /\ (m + 1) + (n - 1) = 2 * r \/ (m + 1) + (n - 1) = 2 * r + 1
        /\ 1 \in Nat \ {0}
    BY <1>6
  <2> QED
    BY <1>0, <1>5, <1>6, <2>1, PlaceTaken
<1>7. ASSUME n >= 7
      PROVE  Leaves(n, 3, m + 1, r, n - 1, Q2, 3, Q3)
  <2>1. /\ 3 \in 1..n /\ 2 \in Nat /\ 3 = 2 + 1 /\ m + 1 \in Int /\ n - 1 \in Int
        /\ m + 1 <= n - 1 /\ n >= 3
        /\ (m + 1) + (n - 1) = 2 * r \/ (m + 1) + (n - 1) = 2 * r + 1
        /\ 3 \in Nat \ {0} /\ 3 >= 3
    BY <1>7
  <2> QED
    BY <1>0, <1>5, <1>7, <2>1, PlaceTaken
<1>8. ASSUME n >= 7
      PROVE  /\ Q3 \in Seq(Int \X Int) /\ Len(Q3) = 4
             /\ Q3[1] = <<0, l - 1>> /\ Q3[2] = <<l + 1, m - 1>>
             /\ Q3[3] = <<m + 1, r - 1>> /\ Q3[4] = <<r + 1, n - 1>>
  <2>1. /\ n >= 3 /\ m + 1 + 1 < n - 1 /\ 1 \in 1..(3 - 1) /\ 2 \in 1..(3 - 1)
        /\ 1 + 1 = 2 /\ 2 + 1 = 3 /\ 3 + 1 = 4
    BY <1>8
  <2> QED
    BY <1>5, <1>7, <1>8, <2>1 DEF Leaves
<1>9. ASSUME n >= 7
      PROVE  /\ 0 <= l - 1 /\ l + 1 <= m - 1 /\ m + 1 <= r - 1 /\ r + 1 <= n - 1
             /\ {4, 5, 6, 7} \subseteq 1..n
  BY <1>9
<1>10. ASSUME NEW lo \in Int, NEW hi \in Int, NEW mid, mid = (lo + hi) \div 2
       PROVE  mid \in Int /\ (lo + hi = 2 * mid \/ lo + hi = 2 * mid + 1)
  BY <1>10
<1>11. ASSUME n >= 7
       PROVE  Leaves(n, 4, 0, (0 + (l - 1)) \div 2, l - 1, Q3, 4, Q4)
  <2> DEFINE mid == (0 + (l - 1)) \div 2
  <2>1. /\ 4 \in 1..n /\ 3 \in Nat /\ 4 = 3 + 1 /\ 0 \in Int /\ l - 1 \in Int /\ 0 <= l - 1
        /\ 4 \in Nat \ {0} /\ 4 >= 4
    BY <1>9, <1>11
  <2>2. Len(Q3) >= 4
    BY <1>8, <1>11, <2>1
  <2>3. mid \in Int /\ (0 + (l - 1) = 2 * mid \/ 0 + (l - 1) = 2 * mid + 1)
    BY <1>10, <2>1
  <2> HIDE DEF mid
  <2>4. Leaves(n, 4, 0, mid, l - 1, Q3, 4, Q4)
    BY <1>0, <1>8, <1>11, <2>1, <2>3, <2>2, PlaceTaken
  <2> QED
    BY <2>4 DEF mid
<1>12. ASSUME n >= 7
       PROVE  /\ Q4 \in Seq(Int \X Int) /\ Len(Q4) >= 3 /\ Q4[1] = <<l + 1, m - 1>>
              /\ Q4[2] = <<m + 1, r - 1>> /\ Q4[3] = <<r + 1, n - 1>>
  <2>1. /\ 4 - 1 = 3 /\ 1 + 1 = 2 /\ 2 + 1 = 3 /\ 3 + 1 = 4
        /\ 1 \in 1..3 /\ 2 \in 1..3 /\ 3 \in 1..3
    OBVIOUS
  <2> QED
    BY <1>8, <1>11, <1>12, <2>1 DEF Leaves
<1>13. ASSUME n >= 7
       PROVE  Leaves(n, 5, l + 1, ((l + 1) + (m - 1)) \div 2, m - 1, Q4, 3, Q5)
  <2> DEFINE mid == ((l + 1) + (m - 1)) \div 2
  <2>1. /\ 5 \in 1..n /\ 4 \in Nat /\ 5 = 4 + 1 /\ l + 1 \in Int /\ m - 1 \in Int
        /\ l + 1 <= m - 1 /\ 3 \in Nat \ {0}
    BY <1>9, <1>13
  <2>3. mid \in Int /\ ((l + 1) + (m - 1) = 2 * mid \/ (l + 1) + (m - 1) = 2 * mid + 1)
    BY <1>10, <2>1
  <2> HIDE DEF mid
  <2>4. Leaves(n, 5, l + 1, mid, m - 1, Q4, 3, Q5)
    BY <1>0, <1>12, <1>13, <2>1, <2>3, PlaceTaken
  <2> QED
    BY <2>4 DEF mid
<1>14. ASSUME n >= 7
       PROVE  /\ Q5 \in Seq(Int \X Int) /\ Len(Q5) >= 2
              /\ Q5[1] = <<m + 1, r - 1>> /\ Q5[2] = <<r + 1, n - 1>>
  <2>1. 3 - 1 = 2 /\ 1 + 1 = 2 /\ 2 + 1 = 3 /\ 1 \in 1..2 /\ 2 \in 1..2
    OBVIOUS
  <2> QED
    BY <1>12, <1>13, <1>14, <2>1 DEF Leaves
<1>15. ASSUME n >= 7
       PROVE  Leaves(n, 6, m + 1, ((m + 1) + (r - 1)) \div 2, r - 1, Q5, 2, Q6)
  <2> DEFINE mid == ((m + 1) + (r - 1)) \div 2
  <2>1. /\ 6 \in 1..n /\ 5 \in Nat /\ 6 = 5 + 1 /\ m + 1 \in Int /\ r - 1 \in Int
        /\ m + 1 <= r - 1 /\ 2 \in Nat \ {0}
    BY <1>9, <1>15
  <2>3. mid \in Int /\ ((m + 1) + (r - 1) = 2 * mid \/ (m + 1) + (r - 1) = 2 * mid + 1)
    BY <1>10, <2>1
  <2> HIDE DEF mid
  <2>4. Leaves(n, 6, m + 1, mid, r - 1, Q5, 2, Q6)
    BY <1>0, <1>14, <1>15, <2>1, <2>3, PlaceTaken
  <2> QED
    BY <2>4 DEF mid
<1>16. ASSUME n >= 7
       PROVE  Q6 \in Seq(Int \X Int) /\ Len(Q6) >= 1 /\ Q6[1] = <<r + 1, n - 1>>
  <2>1. 2 - 1 = 1 /\ 1 + 1 = 2 /\ 1 \in 1..1
    OBVIOUS
  <2> QED
    BY <1>14, <1>15, <1>16, <2>1 DEF Leaves
<1>17. ASSUME n >= 7
       PROVE  Leaves(n, 7, r + 1, ((r + 1) + (n - 1)) \div 2, n - 1, Q6, 1, Q7)
  <2> DEFINE mid == ((r + 1) + (n - 1)) \div 2
  <2>1. /\ 7 \in 1..n /\ 6 \in Nat /\ 7 = 6 + 1 /\ r + 1 \in Int /\ n - 1 \in Int
        /\ r + 1 <= n - 1 /\ 1 \in Nat \ {0}
    BY <1>9, <1>17
  <2>3. mid \in Int /\ ((r + 1) + (n - 1) = 2 * mid \/ (r + 1) + (n - 1) = 2 * mid + 1)
    BY <1>10, <2>1
  <2> HIDE DEF mid
  <2>4. Leaves(n, 7, r + 1, mid, n - 1, Q6, 1, Q7)
    BY <1>0, <1>16, <1>17, <2>1, <2>3, PlaceTaken
  <2> QED
    BY <2>4 DEF mid
<1>18. n >= 1 => order[1] = m
  BY <1>2 DEF Leaves
<1>19. n >= 3 => order[2] = l /\ order[3] = r
  BY <1>4, <1>6 DEF Leaves
<1>20. ASSUME n >= 7
       PROVE  /\ order[4] = (l - 1) \div 2 /\ order[5] = (l + m) \div 2
              /\ order[6] = (m + r) \div 2 /\ order[7] = (r + n) \div 2
  <2>1. /\ order[4] = (0 + (l - 1)) \div 2 /\ order[5] = ((l + 1) + (m - 1)) \div 2
        /\ order[6] = ((m + 1) + (r - 1)) \div 2 /\ order[7] = ((r + 1) + (n - 1)) \div 2
    BY <1>11, <1>13, <1>15, <1>17, <1>20 DEF Leaves
  <2>2. /\ 0 + (l - 1) = l - 1 /\ (l + 1) + (m - 1) = l + m
        /\ (m + 1) + (r - 1) = m + r /\ (r + 1) + (n - 1) = r + n
    OBVIOUS
  <2> HIDE DEF order
  <2> QED
    BY <2>1, <2>2
<1> QED
  BY <1>18, <1>19, <1>20 DEF FirstSeven

\* Whatever its length, no stretch longer than the half, the quarter and the eighth of a
\* window is without one of the first 1, 3 and 7 places.
LEMMA PlacesAreSpread ==
  ASSUME NEW n \in Nat, NEW parts \in {2, 4, 8}, parts - 1 <= n,
         NEW from \in 0..(n - (n \div parts + 1))
  PROVE  \E i \in 1..(parts - 1) : BisectionOrder(n)[i] \in from..(from + n \div parts)
<1> DEFINE order == BisectionOrder(n)
           m == (n - 1) \div 2
           l == (m - 1) \div 2
           r == (m + n) \div 2
<1>1. m \in Int /\ l \in Int /\ r \in Int /\ from \in Nat
  OBVIOUS
<1>2. /\ n >= 1 => order[1] = m
      /\ n >= 3 => order[2] = l /\ order[3] = r
      /\ n >= 7 => /\ order[4] = (l - 1) \div 2 /\ order[5] = (l + m) \div 2
                   /\ order[6] = (m + r) \div 2 /\ order[7] = (r + n) \div 2
  <2>1. FirstSeven(n, m, l, r)
    BY <1>1, FirstPlaces
  <2> HIDE DEF m, l, r
  <2> QED
    BY <2>1 DEF FirstSeven
<1> HIDE DEF order
<1>3. CASE parts = 2
  <2>1. m \in from..(from + n \div 2)
    BY <1>1, <1>3
  <2> QED
    BY <1>2, <1>3, <2>1 DEF order
<1>4. CASE parts = 4
  <2>1. \/ m \in from..(from + n \div 4) \/ l \in from..(from + n \div 4)
        \/ r \in from..(from + n \div 4)
    BY <1>1, <1>4
  <2>2. order[1] = m /\ order[2] = l /\ order[3] = r /\ {1, 2, 3} \subseteq 1..(parts - 1)
    BY <1>2, <1>4
  <2> QED
    BY <1>4, <2>1, <2>2 DEF order
<1>5. CASE parts = 8
  <2>1. \/ m \in from..(from + n \div 8) \/ l \in from..(from + n \div 8)
        \/ r \in from..(from + n \div 8)
        \/ (l - 1) \div 2 \in from..(from + n \div 8) \/ (l + m) \div 2 \in from..(from + n \div 8)
        \/ (m + r) \div 2 \in from..(from + n \div 8) \/ (r + n) \div 2 \in from..(from + n \div 8)
    BY <1>1, <1>5
  <2>2. /\ order[1] = m /\ order[2] = l /\ order[3] = r
        /\ order[4] = (l - 1) \div 2 /\ order[5] = (l + m) \div 2
        /\ order[6] = (m + r) \div 2 /\ order[7] = (r + n) \div 2
        /\ {1, 2, 3, 4, 5, 6, 7} \subseteq 1..(parts - 1)
    BY <1>2, <1>5
  <2> QED
    BY <1>5, <2>1, <2>2 DEF order
<1> QED
  BY <1>3, <1>4, <1>5

-----------------------------------------------------------------------------
(* Counting places.                                                        *)

LEMMA StrictlyFewer ==
  ASSUME NEW T, IsFiniteSet(T), NEW S \in SUBSET T, S # T
  PROVE  /\ IsFiniteSet(S) /\ Cardinality(S) \in Nat /\ Cardinality(T) \in Nat
         /\ Cardinality(S) < Cardinality(T)
<1>1. /\ IsFiniteSet(S) /\ Cardinality(S) <= Cardinality(T)
      /\ Cardinality(S) = Cardinality(T) => S = T
  BY FS_Subset
<1>2. Cardinality(S) \in Nat /\ Cardinality(T) \in Nat
  BY <1>1, FS_CardinalityType
<1> QED
  BY <1>1, <1>2

LEMMA FirstNumbers ==
  ASSUME NEW n \in Nat
  PROVE  IsFiniteSet(0..(n - 1)) /\ Cardinality(0..(n - 1)) = n
BY FS_Interval

LEMMA UpTo ==
  ASSUME NEW n \in Nat
  PROVE  IsFiniteSet(0..n)
BY FS_Interval

\* Those of the pairs that come before one.
Before(p, pairs) == {q \in pairs : q[1] < p[1] \/ (q[1] = p[1] /\ q[2] < p[2])}

\* Each place from the first to the last is taken by one pair.
LEMMA Ranking ==
  ASSUME NEW pairs \in SUBSET (Nat \X Nat), IsFiniteSet(pairs)
  PROVE  LET n == Cardinality(pairs)
         IN /\ n \in Nat
            /\ \A p \in pairs : Place(p, pairs) \in 0..(n - 1)
            /\ \A p, q \in pairs : Place(p, pairs) = Place(q, pairs) => p = q
            /\ \A m \in 0..(n - 1) : \E p \in pairs : Place(p, pairs) = m
<1> DEFINE n == Cardinality(pairs)
           B(p) == Before(p, pairs)
           place == [p \in pairs |-> Place(p, pairs)]
<1>1. n \in Nat
  BY FS_CardinalityType
<1>2. \A p : Place(p, pairs) = Cardinality(B(p)) /\ B(p) \subseteq pairs
  BY DEF Place, Before
<1>3. \A p \in pairs : p \notin B(p) /\ p[1] \in Nat /\ p[2] \in Nat
  BY DEF Before
<1>4. ASSUME NEW p \in pairs
      PROVE  IsFiniteSet(B(p)) /\ Place(p, pairs) \in 0..(n - 1)
  <2>1. B(p) # pairs
    BY <1>3
  <2>2. IsFiniteSet(B(p)) /\ Cardinality(B(p)) \in Nat /\ Cardinality(B(p)) < n
    BY <1>2, <2>1, StrictlyFewer
  <2> QED
    BY <1>1, <1>2, <2>2
<1>5. ASSUME NEW p \in pairs, NEW q \in pairs, p \in B(q)
      PROVE  Place(p, pairs) < Place(q, pairs)
  <2>1. B(p) \subseteq B(q)
    BY <1>3, <1>5 DEF Before
  <2>2. B(p) # B(q)
    BY <1>3, <1>5
  <2> HIDE DEF B
  <2>3. Cardinality(B(p)) < Cardinality(B(q))
    BY <1>4, <2>1, <2>2, StrictlyFewer
  <2> QED
    BY <1>2, <2>3
<1>6. ASSUME NEW p \in pairs, NEW q \in pairs, p # q
      PROVE  p \in B(q) \/ q \in B(p)
  <2>1. p = <<p[1], p[2]>> /\ q = <<q[1], q[2]>>
    OBVIOUS
  <2>2. p[1] # q[1] \/ p[2] # q[2]
    BY <1>6, <2>1
  <2> QED
    BY <1>3, <2>2 DEF Before
<1>7. \A p, q \in pairs : Place(p, pairs) = Place(q, pairs) => p = q
  <2> SUFFICES ASSUME NEW p \in pairs, NEW q \in pairs,
                      Place(p, pairs) = Place(q, pairs), p # q
               PROVE  FALSE
    OBVIOUS
  <2>1. p \in B(q) \/ q \in B(p)
    BY <1>6
  <2>2. Place(p, pairs) \in Nat /\ Place(q, pairs) \in Nat
    BY <1>4
  <2> HIDE DEF B
  <2> QED
    BY <1>5, <2>1, <2>2
<1>8. place \in [pairs -> 0..(n - 1)]
  BY <1>4
<1>9. place \in Injection(pairs, 0..(n - 1))
  BY <1>7, <1>8, Fun_IsInj
<1>10. IsFiniteSet(0..(n - 1)) /\ Cardinality(0..(n - 1)) = n
  <2> HIDE DEF n
  <2> QED
    BY <1>1, FirstNumbers
<1>11. place \in Surjection(pairs, 0..(n - 1))
  <2> HIDE DEF place
  <2> QED
    BY <1>9, <1>10, FS_Injection
<1>12. \A m \in 0..(n - 1) : \E p \in pairs : place[p] = m
  <2> HIDE DEF place
  <2> QED
    BY <1>11 DEF Surjection
<1> QED
  BY <1>1, <1>4, <1>7, <1>12

\* The queue of a window lists each of its pairs once.
LEMMA OrderedPairsComplete ==
  ASSUME NEW pairs \in SUBSET (Nat \X Nat), IsFiniteSet(pairs)
  PROVE  LET s == OrderedPairs(pairs)
         IN /\ s \in Seq(Nat \X Nat) /\ Len(s) = Cardinality(pairs)
            /\ DOMAIN s = 1..Cardinality(pairs)
            /\ \A i \in DOMAIN s : s[i] \in pairs
            /\ \A i, j \in DOMAIN s : s[i] = s[j] => i = j
            /\ \A p \in pairs : \E i \in DOMAIN s : s[i] = p
            /\ \A i \in DOMAIN s : Place(s[i], ToSet(s)) = BisectionOrder(Len(s))[i]
<1> DEFINE n == Cardinality(pairs)
           order == BisectionOrder(n)
           s == OrderedPairs(pairs)
<1>1. /\ n \in Nat
      /\ \A p \in pairs : Place(p, pairs) \in 0..(n - 1)
      /\ \A p, q \in pairs : Place(p, pairs) = Place(q, pairs) => p = q
      /\ \A m \in 0..(n - 1) : \E p \in pairs : Place(p, pairs) = m
  BY Ranking
<1>2. /\ DOMAIN order = 1..n
      /\ \A i \in 1..n : order[i] \in 0..(n - 1)
      /\ \A i, j \in 1..n : order[i] = order[j] => i = j
      /\ \A m \in 0..(n - 1) : \E i \in 1..n : order[i] = m
  BY <1>1, BisectionLeavesNothingOut
<1>3. s = [i \in DOMAIN order |-> CHOOSE p \in pairs : Place(p, pairs) = order[i]]
  BY DEF OrderedPairs
<1> HIDE DEF n, order, s
<1>4. DOMAIN s = 1..n
  BY <1>2, <1>3
<1>5. ASSUME NEW i \in 1..n
      PROVE  s[i] \in pairs /\ Place(s[i], pairs) = order[i]
  <2>1. \E p \in pairs : Place(p, pairs) = order[i]
    BY <1>1, <1>2
  <2>2. s[i] = CHOOSE p \in pairs : Place(p, pairs) = order[i]
    BY <1>2, <1>3
  <2> QED
    BY <2>1, <2>2
<1>6. s = [i \in 1..n |-> s[i]]
  BY <1>2, <1>3
<1>7. s \in Seq(Nat \X Nat) /\ Len(s) = n
  BY <1>1, <1>5, <1>6
<1>8. \A i, j \in 1..n : s[i] = s[j] => i = j
  BY <1>2, <1>5
<1>9. ASSUME NEW p \in pairs
      PROVE  \E i \in 1..n : s[i] = p
  <2>1. PICK i \in 1..n : order[i] = Place(p, pairs)
    BY <1>1, <1>2
  <2> QED
    BY <1>1, <1>5, <2>1
<1>10. ToSet(s) = pairs
  BY <1>4, <1>5, <1>9 DEF ToSet
<1>11. \A i \in 1..n : Place(s[i], ToSet(s)) = order[i]
  BY <1>5, <1>10
<1>12. order = BisectionOrder(Len(s))
  BY <1>7 DEF order
<1> QED
  BY <1>4, <1>5, <1>7, <1>8, <1>9, <1>11, <1>12 DEF n, s

-----------------------------------------------------------------------------
(* The dates of a form and of a row.                                       *)

\* What forms and rows have in common.
Dated(f) ==
    /\ f.outbound \in Day /\ f.return \in Day /\ f.month \in Day /\ f.start \in Day
    /\ f.end \in Day /\ f.return_start \in Day /\ f.return_end \in Day
    /\ f.min_nights \in Nights /\ f.max_nights \in Nights
    /\ f.markets \in Nat \ {0} /\ f.per_run \in Nat /\ f.interval \in Nat \ {0}

LEMMA FormsAreDated == \A f \in Form \cup Row : Dated(f)
<1>1. \A f \in Form : Dated(f)
  BY DEF Form, Dated
<1>2. \A f \in Row : Dated(f)
  BY DEF Row, Dated
<1> QED
  BY <1>1, <1>2

\* A window whose fields are in order.
LEMMA WindowInOrder ==
  ASSUME NEW f, Dated(f), WindowErrors(f) = {}
  PROVE  /\ f.start \in Nat /\ f.end \in Nat
         /\ f.return_start = Null <=> f.return_end = Null
         /\ f.return_start # Null => /\ f.return_start \in Nat /\ f.return_end \in Nat
                                     /\ f.return_start <= f.return_end
         /\ f.min_nights = Null <=> f.max_nights = Null
         /\ f.min_nights # Null => /\ f.min_nights \in Nat \ {0} /\ f.max_nights \in Nat \ {0}
                                   /\ f.min_nights <= f.max_nights
         /\ f.return_start # Null \/ f.min_nights # Null
<1>1. /\ "outbound" \notin WindowErrors(f) /\ "return" \notin WindowErrors(f)
      /\ "nights" \notin WindowErrors(f) /\ "either" \notin WindowErrors(f)
  OBVIOUS
<1>2. IsDate(f.start) /\ IsDate(f.end)
  BY <1>1 DEF WindowErrors
<1>3. /\ ~Halved(f.return_start, f.return_end) /\ Garbled \notin {f.return_start, f.return_end}
      /\ ~(/\ IsDate(f.return_start) /\ IsDate(f.return_end)
           /\ f.return_end < f.return_start)
  BY <1>1 DEF WindowErrors
<1>4. /\ ~Halved(f.min_nights, f.max_nights)
      /\ ~(Given(f.min_nights) /\ f.min_nights < 1)
      /\ ~(Given(f.max_nights) /\ f.max_nights < 1)
      /\ ~(/\ Given(f.min_nights) /\ Given(f.max_nights)
           /\ f.max_nights < f.min_nights)
  BY <1>1 DEF WindowErrors
<1>5. ~(~Given(f.return_start) /\ ~Given(f.return_end)
        /\ ~Given(f.min_nights) /\ ~Given(f.max_nights))
  BY <1>1 DEF WindowErrors
<1>6. f.start \in Nat /\ f.end \in Nat
  BY <1>2 DEF IsDate, Dated, Day
<1>7. /\ f.return_start = Null <=> f.return_end = Null
      /\ f.return_start # Null => /\ f.return_start \in Nat /\ f.return_end \in Nat
                                  /\ f.return_start <= f.return_end
  <2>1. f.return_start = Null <=> f.return_end = Null
    BY <1>3 DEF Halved, Given
  <2>2. ASSUME f.return_start # Null
        PROVE  f.return_start \in Nat /\ f.return_end \in Nat
    BY <1>3, <2>1, <2>2 DEF Dated, Day
  <2> QED
    BY <1>3, <2>1, <2>2 DEF IsDate
<1>8. /\ f.min_nights = Null <=> f.max_nights = Null
      /\ f.min_nights # Null => /\ f.min_nights \in Nat \ {0} /\ f.max_nights \in Nat \ {0}
                                /\ f.min_nights <= f.max_nights
  BY <1>4 DEF Halved, Given, Dated, Nights
<1> QED
  BY <1>5, <1>6, <1>7, <1>8 DEF Given

\* The trips a window means, seen from a day.
Trip(f, day, out, back) ==
    /\ out >= day /\ f.start <= out /\ out <= f.end
    /\ back > out
    /\ Given(f.return_start) => f.return_start <= back /\ back <= f.return_end
    /\ Given(f.min_nights) => back - out >= f.min_nights /\ back - out <= f.max_nights

\* generatePairs, for a window whose fields are in order, makes exactly these.
LEMMA PairsAreTrips ==
  ASSUME NEW f, Dated(f), WindowErrors(f) = {}, NEW day \in Nat
  PROVE  /\ GeneratePairs(f, day) \in SUBSET (Nat \X Nat)
         /\ IsFiniteSet(GeneratePairs(f, day))
         /\ \A out, back \in Nat :
              <<out, back>> \in GeneratePairs(f, day) <=> Trip(f, day, out, back)
<1> DEFINE first == IF f.start < day THEN day ELSE f.start
<1>1. /\ f.start \in Nat /\ f.end \in Nat
      /\ f.return_start = Null <=> f.return_end = Null
      /\ f.return_start # Null => /\ f.return_start \in Nat /\ f.return_end \in Nat
                                  /\ f.return_start <= f.return_end
      /\ f.min_nights = Null <=> f.max_nights = Null
      /\ f.min_nights # Null => /\ f.min_nights \in Nat \ {0} /\ f.max_nights \in Nat \ {0}
                                /\ f.min_nights <= f.max_nights
      /\ f.return_start # Null \/ f.min_nights # Null
  BY WindowInOrder
<1>2. /\ Departures(f, day) = first..f.end /\ first \in Nat
      /\ \A o \in Nat : o \in first..f.end <=> o >= day /\ f.start <= o /\ o <= f.end
  BY <1>1 DEF Departures
<1> HIDE DEF first
<1>3. ASSUME NEW o \in Nat
      PROVE  /\ Returns(f, o) \subseteq Nat
             /\ \A b \in Nat : b \in Returns(f, o) /\ LongEnough(f, b - o) <=>
                  /\ b > o
                  /\ Given(f.return_start) => f.return_start <= b /\ b <= f.return_end
                  /\ Given(f.min_nights) => b - o >= f.min_nights /\ b - o <= f.max_nights
  <2>1. CASE f.return_start # Null
    <3>1. /\ Returns(f, o) = (IF f.return_start < o + 1 THEN o + 1 ELSE f.return_start)..f.return_end
          /\ Given(f.return_start)
      BY <2>1 DEF Returns, Given
    <3>2. CASE f.min_nights # Null
      BY <1>1, <2>1, <3>1, <3>2 DEF LongEnough, Given
    <3>3. CASE f.min_nights = Null
      BY <1>1, <2>1, <3>1, <3>3 DEF LongEnough, Given
    <3> QED
      BY <3>2, <3>3
  <2>2. CASE f.return_start = Null
    <3>1. f.min_nights \in Nat \ {0} /\ f.max_nights \in Nat \ {0} /\ f.min_nights # Null /\ f.max_nights # Null
      BY <1>1, <2>2
    <3>2. /\ Returns(f, o) = (o + f.min_nights)..(o + f.max_nights)
          /\ ~Given(f.return_start) /\ Given(f.min_nights) /\ Given(f.max_nights)
      BY <2>2, <3>1 DEF Returns, Given, Max1
    <3> QED
      BY <3>1, <3>2 DEF LongEnough
  <2> QED
    BY <2>1, <2>2
<1>4. ASSUME NEW p
      PROVE  p \in GeneratePairs(f, day) <=>
               \E o \in first..f.end : \E b \in Returns(f, o) :
                   p = <<o, b>> /\ LongEnough(f, b - o)
  BY <1>2 DEF GeneratePairs
<1>5. GeneratePairs(f, day) \in SUBSET (Nat \X Nat)
  <2>1. ASSUME NEW p \in GeneratePairs(f, day)
        PROVE  p \in Nat \X Nat
    <3>1. PICK o \in first..f.end : \E b \in Returns(f, o) : p = <<o, b>>
      BY <1>4
    <3>2. o \in Nat
      BY <1>1, <1>2
    <3> QED
      BY <1>3, <3>1, <3>2
  <2> QED
    BY <2>1
<1>6. \A out, back \in Nat : <<out, back>> \in GeneratePairs(f, day) <=> Trip(f, day, out, back)
  <2> SUFFICES ASSUME NEW out \in Nat, NEW back \in Nat
               PROVE  <<out, back>> \in GeneratePairs(f, day) <=> Trip(f, day, out, back)
    OBVIOUS
  <2>1. <<out, back>> \in GeneratePairs(f, day) <=>
          out \in first..f.end /\ back \in Returns(f, out) /\ LongEnough(f, back - out)
    BY <1>4
  <2> QED
    BY <1>2, <1>3, <2>1 DEF Trip
<1>7. IsFiniteSet(GeneratePairs(f, day))
  <2> DEFINE latest == IF f.return_start # Null THEN f.return_end ELSE f.end + f.max_nights
  <2>1. latest \in Nat
    BY <1>1
  <2>2. GeneratePairs(f, day) \in SUBSET ((0..f.end) \X (0..latest))
    <3>1. ASSUME NEW p \in GeneratePairs(f, day)
          PROVE  p \in (0..f.end) \X (0..latest)
      <4>1. PICK o \in Nat, b \in Nat : p = <<o, b>>
        BY <1>5
      <4>2. Trip(f, day, o, b)
        BY <1>6, <4>1
      <4>3. o \in 0..f.end /\ b \in 0..latest
        <5>1. CASE f.return_start # Null
          BY <1>1, <4>2, <5>1 DEF Trip, Given
        <5>2. CASE f.return_start = Null
          BY <1>1, <4>2, <5>2 DEF Trip, Given
        <5> QED
          BY <5>1, <5>2
      <4> QED
        BY <4>1, <4>3
    <3> QED
      BY <3>1
  <2>3. IsFiniteSet(0..f.end) /\ IsFiniteSet(0..latest)
    <3> HIDE DEF latest
    <3> QED
      BY <1>1, <2>1, UpTo
  <2>4. IsFiniteSet((0..f.end) \X (0..latest))
    BY <2>3, FS_Product
  <2> QED
    BY <2>2, <2>4, FS_Subset
<1> QED
  BY <1>5, <1>6, <1>7

\* What a queue is, for dates that were accepted.
LEMMA QueueOfDates ==
  ASSUME NEW f, Dated(f), NEW day \in Nat, DateErrors(f, day) = {}
  PROVE  LET s == Candidates(f, day)
         IN /\ s \in Seq(Nat \X Nat) /\ Len(s) \in Nat /\ DOMAIN s = 1..Len(s)
            /\ f.mode # "custom_window" => s = <<>>
            /\ f.mode = "custom_window" =>
                 /\ WindowErrors(f) = {} /\ f.start <= f.end /\ day <= f.end
                 /\ DOMAIN s # {}
                 /\ \A i \in DOMAIN s : Trip(f, day, s[i][1], s[i][2])
                 /\ \A i, j \in DOMAIN s : s[i] = s[j] => i = j
                 /\ \A i \in DOMAIN s : Place(s[i], ToSet(s)) = BisectionOrder(Len(s))[i]
                 /\ \A out, back \in Nat :
                      Trip(f, day, out, back) => \E i \in DOMAIN s : s[i] = <<out, back>>
<1> DEFINE s == Candidates(f, day)
           pairs == GeneratePairs(f, day)
<1>1. CASE f.mode # "custom_window"
  <2>1. s = <<>>
    BY <1>1 DEF Candidates
  <2> QED
    BY <1>1, <2>1
<1>2. CASE f.mode = "custom_window"
  <2>1. WindowErrors(f) = {} /\ ~UnusableWindow(f, day)
    BY <1>2 DEF DateErrors
  <2>2. f.start \in Nat /\ f.end \in Nat
    BY <2>1, WindowInOrder
  <2>3. f.start <= f.end /\ day <= f.end /\ pairs # {}
    BY <2>1, <2>2 DEF UnusableWindow
  <2>4. /\ pairs \in SUBSET (Nat \X Nat) /\ IsFiniteSet(pairs)
        /\ \A out, back \in Nat : <<out, back>> \in pairs <=> Trip(f, day, out, back)
    BY <2>1, PairsAreTrips
  <2>5. s = OrderedPairs(pairs)
    BY <1>2 DEF Candidates
  <2> HIDE DEF pairs, s
  <2>6. /\ s \in Seq(Nat \X Nat) /\ Len(s) = Cardinality(pairs)
        /\ DOMAIN s = 1..Cardinality(pairs)
        /\ \A i \in DOMAIN s : s[i] \in pairs
        /\ \A i, j \in DOMAIN s : s[i] = s[j] => i = j
        /\ \A p \in pairs : \E i \in DOMAIN s : s[i] = p
        /\ \A i \in DOMAIN s : Place(s[i], ToSet(s)) = BisectionOrder(Len(s))[i]
    BY <2>4, <2>5, OrderedPairsComplete
  <2>7. DOMAIN s # {}
    BY <2>3, <2>6
  <2>8. ASSUME NEW i \in DOMAIN s
        PROVE  Trip(f, day, s[i][1], s[i][2])
    <3>1. PICK o \in Nat, b \in Nat : s[i] = <<o, b>>
      BY <2>4, <2>6
    <3>2. s[i][1] = o /\ s[i][2] = b
      BY <3>1
    <3> QED
      BY <2>4, <2>6, <3>1, <3>2
  <2>9. Len(s) \in Nat
    BY <2>6
  <2>10. \A out, back \in Nat : Trip(f, day, out, back) => \E i \in DOMAIN s : s[i] = <<out, back>>
    BY <2>4, <2>6
  <2> QED
    BY <1>2, <2>1, <2>3, <2>6, <2>7, <2>8, <2>9, <2>10 DEF s
<1> QED
  BY <1>1, <1>2

\* Only the fields of its mode say what a form or a row means.
LEMMA SameDates ==
  ASSUME NEW f, NEW g, NEW day, f.mode = g.mode, \A k \in OfMode(f.mode) : f[k] = g[k]
  PROVE  DateErrors(f, day) = DateErrors(g, day) /\ Candidates(f, day) = Candidates(g, day)
<1>1. CASE f.mode = "exact"
  <2>1. f.outbound = g.outbound /\ f.return = g.return
    BY <1>1 DEF OfMode
  <2>2. ExactErrors(f, day) = ExactErrors(g, day)
    BY <2>1 DEF ExactErrors
  <2> QED
    BY <1>1, <2>2 DEF DateErrors, Candidates
<1>2. CASE f.mode = "flexible_preset"
  <2>1. f.month = g.month
    BY <1>2 DEF OfMode
  <2>2. PresetErrors(f, day) = PresetErrors(g, day)
    BY <2>1 DEF PresetErrors
  <2> QED
    BY <1>2, <2>2 DEF DateErrors, Candidates
<1>3. CASE f.mode = "custom_window"
  <2>1. /\ f.start = g.start /\ f.end = g.end /\ f.return_start = g.return_start
        /\ f.return_end = g.return_end /\ f.min_nights = g.min_nights
        /\ f.max_nights = g.max_nights
    BY <1>3 DEF OfMode, DateFields
  <2>2. WindowErrors(f) = WindowErrors(g)
    BY <2>1 DEF WindowErrors
  <2>3. GeneratePairs(f, day) = GeneratePairs(g, day)
    <3>1. Departures(f, day) = Departures(g, day) /\ \A o : Returns(f, o) = Returns(g, o)
      BY <2>1 DEF Departures, Returns
    <3>2. \A n : LongEnough(f, n) = LongEnough(g, n)
      BY <2>1 DEF LongEnough
    <3> QED
      BY <3>1, <3>2 DEF GeneratePairs
  <2>4. UnusableWindow(f, day) = UnusableWindow(g, day)
    BY <2>1, <2>3 DEF UnusableWindow
  <2> QED
    BY <1>3, <2>2, <2>3, <2>4 DEF DateErrors, Candidates
<1>4. CASE f.mode \notin Modes
  BY <1>4 DEF DateErrors, Candidates, Modes
<1> QED
  BY <1>1, <1>2, <1>3, <1>4 DEF Modes

LEMMA ModeFields == \A mode : OfMode(mode) \subseteq DateFields
BY DEF OfMode, DateFields

\* The row that a form becomes.
LEMMA RowOfForm ==
  ASSUME NEW f \in Form, NEW status \in Statuses
  PROVE  LET t == WithStatus(Fields(f), status)
         IN /\ t \in Row /\ t.status = status
            /\ t.mode = f.mode /\ t.markets = f.markets /\ t.per_run = f.per_run
            /\ t.interval = f.interval /\ t.ack = f.ack
            /\ \A k \in OfMode(f.mode) : t[k] = f[k]
            /\ \A k \in DateFields \ OfMode(f.mode) : t[k] = Null
            /\ \A k \in DateFields \cup {"mode", "markets"} : t[k] = Fields(f)[k]
<1> DEFINE t == WithStatus(Fields(f), status)
           keys == DateFields \cup {"mode", "markets", "per_run", "interval", "ack", "rest"}
<1>1. DOMAIN f = keys
  BY DEF Form, DateFields
<1>2. /\ DOMAIN Fields(f) = keys
      /\ \A k \in keys : Fields(f)[k] = IF k \in DateFields \ OfMode(f.mode) THEN Null ELSE f[k]
  BY <1>1 DEF Fields
<1>3. /\ t = [k \in keys \cup {"status"} |-> IF k = "status" THEN status ELSE Fields(f)[k]]
      /\ "status" \notin keys
  BY <1>2 DEF WithStatus, DateFields
<1> HIDE DEF t
<1>4. t.status = status /\ \A k \in keys : t[k] = Fields(f)[k]
  BY <1>3
<1>5. /\ t.mode = f.mode /\ t.markets = f.markets /\ t.per_run = f.per_run
      /\ t.interval = f.interval /\ t.ack = f.ack /\ t.rest = f.rest
  BY <1>2, <1>4 DEF DateFields
<1>6. \A k \in DateFields : t[k] = IF k \in OfMode(f.mode) THEN f[k] ELSE Null
  BY <1>2, <1>4
<1>7. \A k \in DateFields : t[k] = f[k] \/ t[k] = Null
  BY <1>6
<1>8. t \in Row
  <2>1. /\ t.outbound \in Day /\ t.return \in Day /\ t.month \in Day /\ t.start \in Day
        /\ t.end \in Day /\ t.return_start \in Day /\ t.return_end \in Day
    BY <1>7 DEF DateFields, Form, Day
  <2>2. t.min_nights \in Nights /\ t.max_nights \in Nights
    BY <1>7 DEF DateFields, Form, Nights
  <2>3. /\ t.mode \in STRING /\ t.markets \in Nat \ {0} /\ t.per_run \in Nat
        /\ t.interval \in Nat \ {0} /\ t.ack \in BOOLEAN /\ t.rest \in BOOLEAN
    BY <1>5 DEF Form
  <2>4. t = [k \in keys \cup {"status"} |-> t[k]]
    BY <1>3
  <2> QED
    BY <1>4, <2>1, <2>2, <2>3, <2>4 DEF Row, DateFields
<1> QED
  BY <1>2, <1>4, <1>5, <1>6, <1>8, ModeFields DEF t

\* A row under another status.
LEMMA RowWithStatus ==
  ASSUME NEW t \in Row, NEW status \in Statuses
  PROVE  LET u == WithStatus(t, status)
         IN /\ u \in Row /\ u.status = status
            /\ \A k \in DateFields : u[k] = t[k]
            /\ u.mode = t.mode /\ u.markets = t.markets /\ u.per_run = t.per_run
            /\ u.interval = t.interval /\ u.ack = t.ack
<1> DEFINE u == WithStatus(t, status)
           keys == DateFields \cup {"mode", "markets", "per_run", "interval", "ack", "rest", "status"}
<1>1. DOMAIN t = keys
  BY DEF Row, DateFields
<1>2. u = [k \in keys |-> IF k = "status" THEN status ELSE t[k]]
  <2>1. keys \cup {"status"} = keys
    OBVIOUS
  <2> QED
    BY <1>1, <2>1 DEF WithStatus
<1> HIDE DEF u
<1>3. u.status = status /\ \A k \in keys \ {"status"} : u[k] = t[k]
  BY <1>2
<1>4. /\ \A k \in DateFields : u[k] = t[k]
      /\ u.mode = t.mode /\ u.markets = t.markets /\ u.per_run = t.per_run
      /\ u.interval = t.interval /\ u.ack = t.ack /\ u.rest = t.rest
  BY <1>3 DEF DateFields
<1>5. u = [k \in keys |-> u[k]]
  BY <1>2
<1>6. u \in Row
  BY <1>3, <1>4, <1>5 DEF Row, DateFields
<1> QED
  BY <1>3, <1>4, <1>6 DEF u

\* The edit page of a row, submitted as it is.
LEMMA FormOfRow ==
  ASSUME tracker \in Row, NEW ack \in BOOLEAN
  PROVE  [ValuesFromTracker EXCEPT !.ack = ack] \in Form
<1> DEFINE f == [ValuesFromTracker EXCEPT !.ack = ack]
           keys == DateFields \cup {"mode", "markets", "per_run", "interval", "ack", "rest"}
<1>1. DOMAIN tracker = keys \cup {"status"} /\ "status" \notin keys
  BY DEF Row, DateFields
<1>2. DOMAIN tracker \ {"status"} = keys
  BY <1>1
<1>3. ValuesFromTracker = [k \in keys |-> IF k = "ack" THEN FALSE ELSE tracker[k]]
  BY <1>2 DEF ValuesFromTracker
<1>4. f = [k \in keys |-> IF k = "ack" THEN ack ELSE tracker[k]]
  BY <1>3
<1> HIDE DEF f
<1>5. f.ack = ack /\ \A k \in keys \ {"ack"} : f[k] = tracker[k]
  BY <1>4
<1>6. /\ \A k \in DateFields : f[k] = tracker[k]
      /\ f.mode = tracker.mode /\ f.markets = tracker.markets /\ f.per_run = tracker.per_run
      /\ f.interval = tracker.interval /\ f.rest = tracker.rest
  BY <1>5 DEF DateFields
<1>7. f = [k \in keys |-> f[k]]
  BY <1>4
<1>8. f \in Form
  BY <1>5, <1>6, <1>7 DEF Row, Form, DateFields
<1> QED
  BY <1>8 DEF f

-----------------------------------------------------------------------------
(* What a row and its queue have to do with each other.                    *)

\* The queue is the one its dates meant on the day it was built, and no other field is set.
Swept ==
    /\ tracker = Null => queue = <<>>
    /\ tracker # Null => /\ DateErrors(tracker, since) = {}
                         /\ \A k \in DateFields \ OfMode(tracker.mode) : tracker[k] = Null
                         /\ queue = Candidates(tracker, since)
SearchInv == TypeOK /\ since <= today /\ Swept

LEMMA Typed ==
  ASSUME TypeOK
  PROVE  /\ today \in Nat /\ since \in Nat /\ LastDay \in Nat /\ MaxSaves \in Nat
         /\ saves \in Nat /\ wait \in Nat /\ spent \in Nat
         /\ tracker # Null => tracker \in Row /\ Dated(tracker)
         /\ queue \in Seq(Nat \X Nat) /\ DOMAIN queue = 1..Len(queue) /\ Len(queue) \in Nat
         /\ IsFiniteSet(DOMAIN queue)
<1>1. queue \in Seq(Nat \X Nat)
  BY DEF TypeOK
<1>2. DOMAIN queue = 1..Len(queue) /\ Len(queue) \in Nat
  BY <1>1
<1>3. IsFiniteSet(DOMAIN queue)
  BY <1>2, FS_Interval
<1> QED
  BY <1>1, <1>2, <1>3, CalendarAssumption, FormsAreDated DEF TypeOK

\* A form that is saved becomes the row, with the queue it means today.
LEMMA SubmitSaves ==
  ASSUME SearchInv, NEW f \in Form, NEW left \in Safes, NEW hard \in Hards,
         Submit(f, left, hard)
  PROVE  /\ SearchInv'
         /\ today' = today /\ wait' = wait /\ saves' = saves + 1
         /\ tracker' # Null /\ tracker'.status \in {"active", "paused"}
         /\ tracker'.mode = f.mode /\ tracker'.markets = f.markets
         /\ tracker'.per_run = f.per_run /\ tracker'.interval = f.interval
         /\ tracker'.ack = f.ack
         /\ DateErrors(tracker', today) = {}
         /\ queue' = Candidates(tracker', today)
         /\ Candidates(f, today) = Candidates(tracker', today)
         /\ (tracker # Null /\ Kept(f, Candidates(f, today)) => queue' = queue /\ done' = done)
         /\ \A k \in DateFields \cup {"mode", "markets"} : tracker'[k] = Fields(f)[k]
<1> DEFINE t == WithStatus(Fields(f), SavedStatus)
<1>1. SavedStatus \in Statuses /\ SavedStatus \in {"active", "paused"}
  BY DEF SavedStatus, Statuses
<1>2. /\ t \in Row /\ t.status = SavedStatus
      /\ t.mode = f.mode /\ t.markets = f.markets /\ t.per_run = f.per_run
      /\ t.interval = f.interval /\ t.ack = f.ack
      /\ \A k \in OfMode(f.mode) : t[k] = f[k]
      /\ \A k \in DateFields \ OfMode(f.mode) : t[k] = Null
      /\ \A k \in DateFields \cup {"mode", "markets"} : t[k] = Fields(f)[k]
  BY <1>1, RowOfForm
<1>3. /\ saves < MaxSaves /\ Errors(f, today) = {} /\ saves' = saves + 1 /\ tracker' = t
      /\ Persist(f) /\ safe' = left /\ spent' = 0 /\ today' = today /\ wait' = wait
  BY DEF Submit
<1> HIDE DEF t
<1>4. DateErrors(f, today) = {}
  BY <1>3 DEF Errors
<1>5. DateErrors(t, today) = {} /\ Candidates(t, today) = Candidates(f, today)
  BY <1>2, <1>4, SameDates
<1>6. Dated(t) /\ t # Null
  BY <1>2, FormsAreDated, NullAssumption
<1>7. today \in Nat /\ since \in Nat /\ since <= today
  BY Typed DEF SearchInv
<1>8. Candidates(t, today) \in Seq(Nat \X Nat)
  BY <1>5, <1>6, <1>7, QueueOfDates
<1>9. CASE tracker # Null /\ Kept(f, Candidates(f, today))
  <2>1. UNCHANGED <<queue, done, since>> /\ queue = Candidates(t, today)
    BY <1>3, <1>5, <1>9 DEF Persist, Kept
  <2>2. tracker.mode = t.mode /\ \A k \in DateFields : tracker[k] = t[k]
    <3>1. \A k \in DateFields \cup {"mode", "markets"} :
             Searched(tracker)[k] = Searched(Fields(f))[k]
      BY <1>9 DEF Kept
    <3>2. \A k \in DateFields \cup {"mode", "markets"} : tracker[k] = Fields(f)[k]
      BY <3>1 DEF Searched
    <3> QED
      BY <1>2, <3>2
  <2>3. DateErrors(t, since) = {} /\ queue = Candidates(t, since)
    <3>1. \A k \in OfMode(tracker.mode) : tracker[k] = t[k]
      BY <2>2, ModeFields
    <3>2. /\ DateErrors(tracker, since) = DateErrors(t, since)
          /\ Candidates(tracker, since) = Candidates(t, since)
      BY <2>2, <3>1, SameDates
    <3>3. DateErrors(tracker, since) = {} /\ queue = Candidates(tracker, since)
      BY <1>9 DEF SearchInv, Swept
    <3> QED
      BY <3>2, <3>3
  <2>4. TypeOK'
    BY <1>2, <1>3, <2>1, CalendarAssumption DEF SearchInv, TypeOK
  <2>5. SearchInv'
    BY <1>2, <1>3, <1>6, <1>7, <2>1, <2>3, <2>4 DEF SearchInv, Swept
  <2> QED
    BY <1>1, <1>2, <1>3, <1>5, <1>6, <2>1, <2>5
<1>10. CASE ~(tracker # Null /\ Kept(f, Candidates(f, today)))
  <2>1. queue' = Candidates(t, today) /\ done' = {} /\ since' = today
    BY <1>3, <1>5, <1>10 DEF Persist
  <2>2. TypeOK'
    BY <1>2, <1>3, <1>8, <2>1, CalendarAssumption DEF SearchInv, TypeOK
  <2>3. SearchInv'
    BY <1>2, <1>3, <1>5, <1>6, <1>7, <2>1, <2>2 DEF SearchInv, Swept
  <2> QED
    BY <1>1, <1>2, <1>3, <1>5, <1>6, <1>10, <2>1, <2>3
<1> QED
  BY <1>9, <1>10

\* Which forms are submitted.
LEMMA SubmittedForms ==
  ASSUME SearchInv, Create \/ Edit \/ Resave
  PROVE  \E f \in Form, left \in Safes, hard \in Hards : Submit(f, left, hard)
<1>1. CASE Create
  BY <1>1, FormsAssumption DEF Create
<1>2. CASE Edit
  BY <1>2, FormsAssumption DEF Edit
<1>3. CASE Resave
  <2>1. tracker \in Row
    BY <1>3, Typed DEF Resave, SearchInv
  <2>2. PICK ack \in BOOLEAN, left \in Safes, hard \in Hards :
           Submit([ValuesFromTracker EXCEPT !.ack = ack], left, hard)
    BY <1>3 DEF Resave
  <2> DEFINE f == [ValuesFromTracker EXCEPT !.ack = ack]
  <2>3. f \in Form
    BY <2>1, FormOfRow
  <2>4. Submit(f, left, hard)
    BY <2>2
  <2> HIDE DEF f
  <2> QED
    BY <2>3, <2>4
<1> QED
  BY <1>1, <1>2, <1>3

\* A row whose status changes keeps its queue.
LEMMA StatusKeeps ==
  ASSUME SearchInv, tracker # Null, NEW status \in Statuses,
         tracker' = WithStatus(tracker, status), UNCHANGED <<queue, since>>
  PROVE  tracker' \in Row /\ tracker' # Null /\ tracker'.status = status /\ Swept'
<1>1. tracker \in Row
  BY Typed DEF SearchInv
<1>2. /\ tracker' \in Row /\ tracker'.status = status /\ tracker'.mode = tracker.mode
      /\ \A k \in DateFields : tracker'[k] = tracker[k]
  BY <1>1, RowWithStatus
<1>3. tracker' # Null
  BY <1>2, NullAssumption
<1>4. /\ DateErrors(tracker', since) = DateErrors(tracker, since)
      /\ Candidates(tracker', since) = Candidates(tracker, since)
  BY <1>2, ModeFields, SameDates
<1>5. Swept'
  BY <1>2, <1>3, <1>4 DEF SearchInv, Swept
<1> QED
  BY <1>2, <1>3, <1>5

LEMMA InitSearch ==
  ASSUME Init
  PROVE  SearchInv
<1>1. TypeOK
  BY CalendarAssumption DEF Init, TypeOK
<1> QED
  BY <1>1 DEF Init, SearchInv, Swept

\* The pairs that a check takes, of whichever are open.
LEMMA FirstOfOpen ==
  ASSUME TypeOK, tracker \in Row, NEW open \in SUBSET DOMAIN queue
  PROVE  /\ IsFiniteSet(open) /\ First(tracker, open) \subseteq open
         /\ IsFiniteSet(First(tracker, open)) /\ Cardinality(First(tracker, open)) \in Nat
         /\ open # {} => First(tracker, open) # {}
<1>1. IsFiniteSet(open) /\ open \subseteq Nat
  BY Typed, FS_Subset
<1>2. First(tracker, open) \subseteq open
  BY DEF First
<1>3. IsFiniteSet(First(tracker, open)) /\ Cardinality(First(tracker, open)) \in Nat
  BY <1>1, <1>2, FS_Subset, FS_CardinalityType
<1>4. ASSUME open # {}
      PROVE  First(tracker, open) # {}
  <2>1. PICK i \in open : \A j \in open : i <= j
    BY <1>1, <1>4, LeastNatural
  <2>2. {j \in open : j < i} = {}
    BY <1>1, <2>1
  <2>3. Cardinality({j \in open : j < i}) = 0
    BY <2>2, FS_EmptySet
  <2>4. Max1(tracker.per_run) \in Nat /\ 0 < Max1(tracker.per_run)
    BY DEF Row, Max1
  <2>5. i \in First(tracker, open)
    BY <2>3, <2>4 DEF First
  <2> QED
    BY <2>5
<1> QED
  BY <1>1, <1>2, <1>3, <1>4

\* Complete, Duplicate and Toggle change the status and leave the queue.
LEMMA StatusSearch ==
  ASSUME SearchInv, Complete \/ Duplicate \/ Toggle
  PROVE  SearchInv'
<1>1. /\ tracker # Null /\ UNCHANGED <<today, queue, saves, since>>
      /\ done' \in {done, {}} /\ wait' \in {wait, 0} /\ spent' \in {spent, 0}
      /\ safe' \in {safe, Null}
      /\ \E status \in Statuses : tracker' = WithStatus(tracker, status)
  BY DEF Complete, Duplicate, Toggle, Due, Statuses
<1>2. PICK status \in Statuses : tracker' = WithStatus(tracker, status)
  BY <1>1
<1>3. tracker' \in Row /\ Swept'
  BY <1>1, <1>2, StatusKeeps
<1>4. TypeOK'
  BY <1>1, <1>3 DEF SearchInv, TypeOK
<1> QED
  BY <1>1, <1>3, <1>4 DEF SearchInv

LEMMA CheckSearch ==
  ASSUME SearchInv, Check
  PROVE  /\ SearchInv'
         /\ Claimed(tracker) \subseteq DOMAIN queue
         /\ IsFiniteSet(Claimed(tracker)) /\ Cardinality(Claimed(tracker)) \in Nat
<1>1. tracker \in Row /\ TypeOK
  BY Typed DEF SearchInv, Check, Due
<1>2. Open \subseteq DOMAIN queue /\ DOMAIN queue \ Flown \subseteq DOMAIN queue /\ Flown \subseteq DOMAIN queue
  BY DEF Open, Flown
<1>3. /\ Claimed(tracker) \subseteq DOMAIN queue
      /\ IsFiniteSet(Claimed(tracker)) /\ Cardinality(Claimed(tracker)) \in Nat
  <2>1. CASE tracker.mode # "custom_window"
    <3>1. Claimed(tracker) = {}
      BY <2>1 DEF Claimed
    <3> QED
      BY <3>1, FS_EmptySet
  <2>2. CASE tracker.mode = "custom_window" /\ Open # {}
    <3>1. Claimed(tracker) = First(tracker, Open)
      BY <2>2 DEF Claimed
    <3>2. First(tracker, Open) \subseteq Open /\ IsFiniteSet(First(tracker, Open)) /\ Cardinality(First(tracker, Open)) \in Nat
      BY <1>1, <1>2, FirstOfOpen
    <3> QED
      BY <1>2, <3>1, <3>2
  <2>3. CASE tracker.mode = "custom_window" /\ Open = {}
    <3> DEFINE rest == DOMAIN queue \ Flown
    <3>1. Claimed(tracker) = First(tracker, rest)
      BY <2>3 DEF Claimed
    <3>2. rest \in SUBSET DOMAIN queue
      BY <1>2
    <3> HIDE DEF rest
    <3>3. First(tracker, rest) \subseteq rest /\ IsFiniteSet(First(tracker, rest)) /\ Cardinality(First(tracker, rest)) \in Nat
      BY <1>1, <3>2, FirstOfOpen
    <3> QED
      BY <3>1, <3>2, <3>3
  <2> QED
    BY <2>1, <2>2, <2>3
<1>4. /\ UNCHANGED <<today, tracker, queue, saves, since, safe>>
      /\ done' = (IF Open = {} THEN Flown ELSE done \cup Flown) \cup Claimed(tracker)
      /\ wait' = tracker.interval
      /\ spent' = spent + (IF tracker.mode = "custom_window" THEN Cardinality(Claimed(tracker)) ELSE 1)
                          * tracker.markets
  BY DEF Check
<1>5. done' \subseteq DOMAIN queue
  BY <1>1, <1>2, <1>3, <1>4 DEF TypeOK
<1>6. spent' \in Nat /\ wait' \in Nat
  <2> DEFINE pairs == IF tracker.mode = "custom_window" THEN Cardinality(Claimed(tracker)) ELSE 1
  <2>1. pairs \in Nat
    BY <1>3
  <2>2. tracker.markets \in Nat /\ tracker.interval \in Nat /\ spent \in Nat
    BY <1>1 DEF Row, TypeOK
  <2>3. spent' = spent + pairs * tracker.markets
    BY <1>4
  <2> HIDE DEF pairs
  <2>4. pairs * tracker.markets \in Nat
    BY <2>1, <2>2
  <2> QED
    BY <1>4, <2>2, <2>3, <2>4
<1>7. TypeOK'
  BY <1>1, <1>4, <1>5, <1>6 DEF TypeOK
<1>8. Swept' /\ (since <= today)'
  BY <1>4 DEF SearchInv, Swept
<1> QED
  BY <1>3, <1>7, <1>8 DEF SearchInv

LEMMA StepSearch ==
  ASSUME SearchInv, [Next]_vars
  PROVE  SearchInv'
<1>1. CASE Create \/ Edit \/ Resave
  <2>1. PICK f \in Form, left \in Safes, hard \in Hards : Submit(f, left, hard)
    BY <1>1, SubmittedForms
  <2> QED
    BY <2>1, SubmitSaves
<1>2. CASE Complete \/ Duplicate \/ Toggle
  BY <1>2, StatusSearch
<1>3. CASE Delete
  <2>1. /\ tracker' = Null /\ queue' = <<>> /\ done' = {} /\ wait' = 0
        /\ since' = 0 /\ safe' = Null /\ spent' = 0 /\ today' = today /\ saves' = saves
    BY <1>3 DEF Delete
  <2>2. TypeOK' /\ today \in Nat
    BY <2>1, CalendarAssumption DEF SearchInv, TypeOK
  <2> QED
    BY <2>1, <2>2 DEF SearchInv, Swept
<1>4. CASE Check
  BY <1>4, CheckSearch
<1>5. CASE DayPasses
  <2>1. /\ today < LastDay /\ today' = today + 1 /\ wait' = Max0(wait - 1)
        /\ safe' \in {safe, Null} /\ spent' \in {spent, 0}
        /\ UNCHANGED <<tracker, queue, done, saves, since>>
    BY <1>5 DEF DayPasses
  <2>2. wait' \in Nat
    BY <2>1, Typed DEF SearchInv, Max0
  <2>3. TypeOK'
    <3>1. today' \in 0..LastDay
      BY <2>1, Typed DEF SearchInv
    <3>2. spent' \in Nat /\ safe' \in Nat \cup {Null}
      BY <2>1 DEF SearchInv, TypeOK
    <3> QED
      BY <2>1, <2>2, <3>1, <3>2 DEF SearchInv, TypeOK
  <2>4. Swept'
    BY <2>1 DEF SearchInv, Swept
  <2> QED
    BY <2>1, <2>3, <2>4, Typed DEF SearchInv
<1>6. CASE UNCHANGED vars
  BY <1>6 DEF vars, SearchInv, TypeOK, Swept
<1> QED
  BY <1>1, <1>2, <1>3, <1>4, <1>5, <1>6 DEF Next

LEMMA SearchAlways == Spec => []SearchInv
<1>1. Init => SearchInv
  BY InitSearch
<1>2. SearchInv /\ [Next]_vars => SearchInv'
  BY StepSearch
<1> QED
  BY <1>1, <1>2, PTL DEF Spec

\* A queue is what its row means, on the day it was built.
LEMMA QueueNow ==
  ASSUME SearchInv, tracker # Null
  PROVE  /\ tracker \in Row /\ Dated(tracker) /\ DateErrors(tracker, since) = {}
         /\ tracker.mode \in Modes
         /\ tracker.mode # "custom_window" => queue = <<>>
         /\ tracker.mode = "custom_window" =>
              /\ WindowErrors(tracker) = {} /\ tracker.start <= tracker.end
              /\ DOMAIN queue # {}
              /\ \A i \in DOMAIN queue :
                   /\ queue[i][1] \in Nat /\ queue[i][2] \in Nat
                   /\ queue[i] = <<queue[i][1], queue[i][2]>>
                   /\ Trip(tracker, since, queue[i][1], queue[i][2])
              /\ \A i, j \in DOMAIN queue : queue[i] = queue[j] => i = j
              /\ \A i \in DOMAIN queue :
                   Place(queue[i], ToSet(queue)) = BisectionOrder(Len(queue))[i]
              /\ \A out, back \in Nat :
                   Trip(tracker, since, out, back) => \E i \in DOMAIN queue : queue[i] = <<out, back>>
<1>1. tracker \in Row /\ Dated(tracker) /\ since \in Nat
  BY Typed DEF SearchInv
<1>2. DateErrors(tracker, since) = {} /\ queue = Candidates(tracker, since)
  BY DEF SearchInv, Swept
<1>3. tracker.mode \in Modes
  BY <1>2 DEF DateErrors, Modes
<1>4. \A i \in DOMAIN queue : queue[i] \in Nat \X Nat
  BY Typed DEF SearchInv
<1>5. \A i \in DOMAIN queue : /\ queue[i][1] \in Nat /\ queue[i][2] \in Nat
                              /\ queue[i] = <<queue[i][1], queue[i][2]>>
  BY <1>4
<1>6. /\ tracker.mode # "custom_window" => queue = <<>>
      /\ tracker.mode = "custom_window" =>
           /\ WindowErrors(tracker) = {} /\ tracker.start <= tracker.end
           /\ DOMAIN queue # {}
           /\ \A i \in DOMAIN queue : Trip(tracker, since, queue[i][1], queue[i][2])
           /\ \A i, j \in DOMAIN queue : queue[i] = queue[j] => i = j
           /\ \A i \in DOMAIN queue :
                Place(queue[i], ToSet(queue)) = BisectionOrder(Len(queue))[i]
           /\ \A out, back \in Nat :
                Trip(tracker, since, out, back) => \E i \in DOMAIN queue : queue[i] = <<out, back>>
  BY <1>1, <1>2, QueueOfDates
<1> QED
  BY <1>1, <1>2, <1>3, <1>5, <1>6

-----------------------------------------------------------------------------
(* The sweep of a window.                                                  *)

\* Each trip that the window of a saved tracker means, and nothing else, is in its queue,
\* once: QueueMeansTheWindow of TrackerForm without the order, over all the dates there are.
SweptWhole ==
    IF tracker = Null \/ tracker.mode # "custom_window" THEN queue = <<>>
    ELSE /\ IsInjective(queue)
         /\ \A out, back \in Nat : <<out, back>> \in ToSet(queue) <=> Means(tracker, out, back)

LEMMA SearchedWhole ==
  ASSUME SearchInv
  PROVE  SweptWhole
<1>1. CASE tracker = Null
  BY <1>1 DEF SearchInv, Swept, SweptWhole
<1>2. CASE tracker # Null /\ tracker.mode # "custom_window"
  BY <1>2, QueueNow DEF SweptWhole
<1>3. CASE tracker # Null /\ tracker.mode = "custom_window"
  <2>1. IsInjective(queue)
    BY <1>3, QueueNow DEF IsInjective
  <2>2. ASSUME NEW out \in Nat, NEW back \in Nat
        PROVE  <<out, back>> \in ToSet(queue) <=> Trip(tracker, since, out, back)
    <3>1. <<out, back>> \in ToSet(queue) <=> \E i \in DOMAIN queue : queue[i] = <<out, back>>
      BY DEF ToSet
    <3>2. ASSUME NEW i \in DOMAIN queue, queue[i] = <<out, back>>
          PROVE  Trip(tracker, since, out, back)
      <4>1. queue[i][1] = out /\ queue[i][2] = back
        BY <3>2
      <4> QED
        BY <1>3, <4>1, QueueNow
    <3> QED
      BY <1>3, <3>1, <3>2, QueueNow
  <2>3. \A out, back \in Nat : Trip(tracker, since, out, back) <=> Means(tracker, out, back)
    BY DEF Trip, Means
  <2> QED
    BY <1>3, <2>1, <2>2, <2>3 DEF SweptWhole
<1> QED
  BY <1>1, <1>2, <1>3

\* generatePairs and the queue that persistTracker writes: whatever the forms and the
\* edits, a saved window is swept over exactly the trips it means, each of them once.
THEOREM SweptOverItsTrips == Spec => []SweptWhole
<1>1. SearchInv => SweptWhole
  BY SearchedWhole
<1> QED
  BY <1>1, SearchAlways, PTL

-----------------------------------------------------------------------------
(* Saving again what is searched for.                                      *)

\* Seen from a day when none of its pairs has flown, a row means the same queue.
LEMMA NothingFlown ==
  ASSUME SearchInv, tracker # Null, Flown = {}
  PROVE  Candidates(tracker, today) = Candidates(tracker, since)
<1>1. CASE tracker.mode # "custom_window"
  BY <1>1 DEF Candidates
<1>2. CASE tracker.mode = "custom_window"
  <2>1. /\ Dated(tracker) /\ WindowErrors(tracker) = {}
        /\ today \in Nat /\ since \in Nat /\ since <= today
    BY <1>2, QueueNow, Typed DEF SearchInv
  <2> DEFINE then == GeneratePairs(tracker, since)
             now == GeneratePairs(tracker, today)
  <2>2. /\ then \in SUBSET (Nat \X Nat) /\ now \in SUBSET (Nat \X Nat)
        /\ \A out, back \in Nat : <<out, back>> \in then <=> Trip(tracker, since, out, back)
        /\ \A out, back \in Nat : <<out, back>> \in now <=> Trip(tracker, today, out, back)
    BY <2>1, PairsAreTrips
  <2>3. \A i \in DOMAIN queue : ~(queue[i][1] < today)
    BY DEF Flown
  <2>4. ASSUME NEW out \in Nat, NEW back \in Nat
        PROVE  Trip(tracker, since, out, back) <=> Trip(tracker, today, out, back)
    <3>1. ASSUME Trip(tracker, since, out, back)
          PROVE  out >= today
      <4>1. PICK i \in DOMAIN queue : queue[i] = <<out, back>>
        BY <1>2, <3>1, QueueNow
      <4>2. queue[i][1] = out
        BY <4>1
      <4> QED
        BY <2>1, <2>3, <4>2
    <3> QED
      BY <2>1, <3>1 DEF Trip
  <2> HIDE DEF then, now
  <2>5. then = now
    <3>1. \A out, back \in Nat : <<out, back>> \in then <=> <<out, back>> \in now
      BY <2>2, <2>4
    <3> QED
      BY <2>2, <3>1
  <2> QED
    BY <1>2, <2>5 DEF Candidates, then, now
<1> QED
  BY <1>1, <1>2

LEMMA SavedByForm ==
  ASSUME SearchInv, [Next]_vars, saves' = saves + 1
  PROVE  \E f \in Form, left \in Safes, hard \in Hards : Submit(f, left, hard)
<1>1. saves' # saves
  BY Typed DEF SearchInv
<1>2. ~(Duplicate \/ Toggle \/ Delete \/ Complete \/ Check \/ DayPasses \/ UNCHANGED vars)
  BY <1>1 DEF Duplicate, Toggle, Delete, Complete, Check, DayPasses, vars
<1> QED
  BY <1>2, SubmittedForms DEF Next

LEMMA ProgressKept ==
  ASSUME SearchInv, [Next]_vars, saves' = saves + 1, tracker # Null, Flown = {},
         SameSearch(tracker, tracker')
  PROVE  queue' = queue /\ done' = done
<1>1. PICK f \in Form, left \in Safes, hard \in Hards : Submit(f, left, hard)
  BY SavedByForm
<1>2. /\ SearchInv' /\ tracker' # Null
      /\ Candidates(f, today) = Candidates(tracker', today)
      /\ (tracker # Null /\ Kept(f, Candidates(f, today)) => queue' = queue /\ done' = done)
      /\ \A k \in DateFields \cup {"mode", "markets"} : tracker'[k] = Fields(f)[k]
  BY <1>1, SubmitSaves
<1>3. /\ tracker.mode = tracker'.mode /\ tracker.markets = tracker'.markets
      /\ \A k \in OfMode(tracker.mode) : tracker[k] = tracker'[k]
  BY DEF SameSearch
<1>4. /\ \A k \in DateFields \ OfMode(tracker.mode) : tracker[k] = Null
      /\ queue = Candidates(tracker, since)
  BY DEF SearchInv, Swept
<1>5. \A k \in DateFields \ OfMode(tracker'.mode) : tracker'[k] = Null
  BY <1>2 DEF SearchInv, Swept
<1>6. \A k \in DateFields \cup {"mode", "markets"} : tracker[k] = Fields(f)[k]
  <2>1. \A k \in DateFields : tracker[k] = tracker'[k]
    BY <1>3, <1>4, <1>5
  <2> QED
    BY <1>2, <1>3, <2>1
<1>7. Searched(tracker) = Searched(Fields(f))
  BY <1>6 DEF Searched
<1>8. queue = Candidates(f, today)
  <2>1. Candidates(tracker, today) = Candidates(tracker', today)
    BY <1>3, SameDates
  <2> QED
    BY <1>2, <1>4, <2>1, NothingFlown
<1> QED
  BY <1>2, <1>7, <1>8 DEF Kept

\* ensureConfigVersion and persistTracker: a save that changes neither the dates nor the
\* number of markets leaves the queue and what was swept of it as they are, until a pair
\* of the queue has flown.
THEOREM ProgressSurvivesSaves == Spec => KeepsProgress
<1>1. SearchInv /\ [Next]_vars =>
        [saves' = saves + 1 /\ tracker # Null /\ Flown = {} =>
          (SameSearch(tracker, tracker') => queue' = queue /\ done' = done)]_vars
  BY ProgressKept
<1> QED
  BY <1>1, SearchAlways, PTL DEF Spec, KeepsProgress

-----------------------------------------------------------------------------
(* What there is to search.                                                *)

LEMMA MonthsAreNumbers == \A day \in Nat : MonthOf(day) \in Int
BY CalendarAssumption DEF MonthOf

\* What is accepted is not over, and a window has a pair that has not flown.
LEMMA AcceptedIsAhead ==
  ASSUME NEW f, Dated(f), today \in Nat, DateErrors(f, today) = {}
  PROVE  /\ ~TripOver(f)
         /\ f.mode = "custom_window" =>
              \E i \in DOMAIN Candidates(f, today) : Candidates(f, today)[i][1] >= today
<1>1. CASE f.mode = "exact"
  <2>1. ExactErrors(f, today) = {}
    BY <1>1 DEF DateErrors
  <2>2. IsDate(f.outbound) /\ IsDate(f.return) /\ "outbound" \notin ExactErrors(f, today)
    BY <2>1 DEF ExactErrors
  <2>3. ~(f.outbound < today)
    BY <2>2 DEF ExactErrors
  <2> QED
    BY <1>1, <2>3 DEF TripOver
<1>2. CASE f.mode = "flexible_preset"
  <2>1. PresetErrors(f, today) = {}
    BY <1>2 DEF DateErrors
  <2>2. IsDate(f.month) /\ f.month - MonthOf(today) \in 0..Horizon
    BY <2>1 DEF PresetErrors
  <2>3. f.month \in Nat /\ MonthOf(today) \in Int
    BY <2>2, MonthsAreNumbers DEF IsDate, Dated, Day
  <2>4. ~(f.month < MonthOf(today))
    BY <2>2, <2>3
  <2> QED
    BY <1>2, <2>4 DEF TripOver
<1>3. CASE f.mode = "custom_window"
  <2> DEFINE s == Candidates(f, today)
  <2>1. /\ WindowErrors(f) = {} /\ f.start <= f.end /\ today <= f.end
        /\ DOMAIN s # {} /\ s \in Seq(Nat \X Nat)
        /\ \A i \in DOMAIN s : Trip(f, today, s[i][1], s[i][2])
    BY <1>3, QueueOfDates
  <2> HIDE DEF s
  <2>2. f.end \in Nat
    BY <2>1, WindowInOrder
  <2>3. ~TripOver(f)
    BY <1>3, <2>1, <2>2 DEF TripOver
  <2>4. \E i \in DOMAIN s : s[i][1] >= today
    BY <2>1 DEF Trip
  <2> QED
    BY <2>3, <2>4 DEF s
<1>4. f.mode \in Modes
  BY DEF DateErrors, Modes
<1> QED
  BY <1>1, <1>2, <1>3, <1>4 DEF Modes

\* As long as a window is not over, a pair that leaves on its last day can be searched,
\* if the returns do not end before it.
LEMMA LastDayFlies ==
  ASSUME SearchInv, tracker # Null, tracker.mode = "custom_window",
         ~TripOver(tracker), ~ReturnsEndFirst(tracker)
  PROVE  DOMAIN queue \ Flown # {}
<1> DEFINE t == tracker
           back == IF t.return_start = Null THEN t.end + t.min_nights
                   ELSE IF t.min_nights = Null
                   THEN IF t.return_start > t.end + 1 THEN t.return_start ELSE t.end + 1
                   ELSE IF t.return_start > t.end + t.min_nights THEN t.return_start
                        ELSE t.end + t.min_nights
<1>1. /\ Dated(t) /\ WindowErrors(t) = {} /\ t.start <= t.end
      /\ today \in Nat /\ since \in Nat /\ since <= today
  BY QueueNow, Typed DEF SearchInv
<1>2. /\ t.start \in Nat /\ t.end \in Nat
      /\ t.return_start = Null <=> t.return_end = Null
      /\ t.return_start # Null => /\ t.return_start \in Nat /\ t.return_end \in Nat
                                  /\ t.return_start <= t.return_end
      /\ t.min_nights = Null <=> t.max_nights = Null
      /\ t.min_nights # Null => /\ t.min_nights \in Nat \ {0} /\ t.max_nights \in Nat \ {0}
                                /\ t.min_nights <= t.max_nights
      /\ t.return_start # Null \/ t.min_nights # Null
  BY <1>1, WindowInOrder
<1>3. today <= t.end
  BY <1>1, <1>2 DEF TripOver
<1>4. /\ t.return_start # Null /\ t.min_nights = Null => t.end + 1 <= t.return_end
      /\ t.return_start # Null /\ t.min_nights # Null => t.end + t.min_nights <= t.return_end
  <2>1. ASSUME t.return_start # Null
        PROVE  ~(t.return_end < t.end + (IF Given(t.min_nights) THEN t.min_nights ELSE 1))
    BY <1>2, <2>1 DEF ReturnsEndFirst, Given
  <2> QED
    BY <1>2, <2>1 DEF Given
<1>5. ASSUME t.return_start # Null, t.min_nights # Null
      PROVE  t.return_start <= t.end + t.max_nights
  <2>1. PICK i \in DOMAIN queue : /\ queue[i][1] \in Nat /\ queue[i][2] \in Nat
                                  /\ Trip(t, since, queue[i][1], queue[i][2])
    BY QueueNow
  <2>2. PICK o \in Nat, b \in Nat : Trip(t, since, o, b)
    BY <2>1
  <2>3. o <= t.end /\ t.return_start <= b /\ b - o <= t.max_nights
    BY <1>5, <2>2 DEF Trip, Given
  <2> QED
    BY <1>2, <1>5, <2>2, <2>3
<1>6. back \in Nat /\ Trip(t, since, t.end, back)
  <2>1. CASE t.return_start = Null
    <3>1. back = t.end + t.min_nights /\ ~Given(t.return_start) /\ Given(t.min_nights)
      BY <1>2, <2>1 DEF Given
    <3> HIDE DEF back
    <3> QED
      BY <1>1, <1>2, <1>3, <2>1, <3>1 DEF Trip
  <2>2. CASE t.return_start # Null /\ t.min_nights = Null
    <3>1. /\ back = IF t.return_start > t.end + 1 THEN t.return_start ELSE t.end + 1
          /\ Given(t.return_start) /\ ~Given(t.min_nights)
      BY <2>2 DEF Given
    <3> HIDE DEF back
    <3> QED
      BY <1>1, <1>2, <1>3, <1>4, <2>2, <3>1 DEF Trip
  <2>3. CASE t.return_start # Null /\ t.min_nights # Null
    <3>1. /\ back = IF t.return_start > t.end + t.min_nights THEN t.return_start
                    ELSE t.end + t.min_nights
          /\ Given(t.return_start) /\ Given(t.min_nights)
      BY <2>3 DEF Given
    <3> HIDE DEF back
    <3> QED
      BY <1>1, <1>2, <1>3, <1>4, <1>5, <2>3, <3>1 DEF Trip
  <2> QED
    BY <2>1, <2>2, <2>3
<1> HIDE DEF back
<1>7. PICK i \in DOMAIN queue : queue[i] = <<t.end, back>>
  BY <1>2, <1>6, QueueNow
<1>8. queue[i][1] = t.end
  BY <1>7
<1>9. i \notin Flown
  BY <1>1, <1>2, <1>3, <1>8 DEF Flown
<1> QED
  BY <1>7, <1>9

\* A check finds something, then.
LEMMA CheckSearches ==
  ASSUME SearchInv, Check
  PROVE  spent < spent' \/ ReturnsEndFirst(tracker)
<1> SUFFICES ASSUME ~ReturnsEndFirst(tracker)
             PROVE  spent < spent'
  OBVIOUS
<1> DEFINE pairs == IF tracker.mode = "custom_window" THEN Cardinality(Claimed(tracker)) ELSE 1
<1>1. /\ tracker # Null /\ tracker \in Row /\ TypeOK /\ ~TripOver(tracker)
      /\ spent' = spent + pairs * tracker.markets
  BY Typed DEF SearchInv, Check, Due
<1>2. pairs \in Nat \ {0}
  <2>1. CASE tracker.mode # "custom_window"
    BY <2>1
  <2>2. CASE tracker.mode = "custom_window"
    <3> DEFINE rest == DOMAIN queue \ Flown
    <3>1. rest # {} /\ rest \in SUBSET DOMAIN queue /\ Open \in SUBSET DOMAIN queue
      BY <1>1, <2>2, LastDayFlies DEF Open
    <3>2. Claimed(tracker) = IF Open # {} THEN First(tracker, Open) ELSE First(tracker, rest)
      BY <2>2 DEF Claimed
    <3> HIDE DEF rest
    <3>3. Claimed(tracker) # {}
      BY <1>1, <3>1, <3>2, FirstOfOpen
    <3>4. IsFiniteSet(Claimed(tracker)) /\ Cardinality(Claimed(tracker)) \in Nat
      BY CheckSearch
    <3>5. Cardinality(Claimed(tracker)) # 0
      BY <3>3, <3>4, FS_EmptySet
    <3> QED
      BY <2>2, <3>4, <3>5
  <2> QED
    BY <2>1, <2>2
<1>3. tracker.markets \in Nat \ {0} /\ spent \in Nat
  BY <1>1 DEF Row, TypeOK
<1> HIDE DEF pairs
<1>4. pairs * tracker.markets \in Nat \ {0}
  BY <1>2, <1>3
<1> QED
  BY <1>1, <1>3, <1>4

\* What is completed had flown.
LEMMA CompletedIsOver ==
  ASSUME SearchInv, Complete
  PROVE  /\ Flown = DOMAIN queue
         /\ tracker.mode = "exact" => tracker.outbound < today
<1>1. tracker # Null /\ TripOver(tracker) /\ today \in Nat
  BY Typed DEF SearchInv, Complete, Due
<1>2. tracker.mode = "exact" => tracker.outbound < today
  BY <1>1 DEF TripOver
<1>3. CASE tracker.mode # "custom_window"
  <2>1. queue = <<>>
    BY <1>1, <1>3, QueueNow
  <2>2. DOMAIN queue = {}
    BY <2>1
  <2> QED
    BY <1>2, <2>2 DEF Flown
<1>4. CASE tracker.mode = "custom_window"
  <2>1. tracker.end \in Nat /\ tracker.end < today
    BY <1>1, <1>4, QueueNow, WindowInOrder DEF TripOver
  <2>2. ASSUME NEW i \in DOMAIN queue
        PROVE  queue[i][1] < today
    <3>1. queue[i][1] \in Nat /\ queue[i][1] <= tracker.end
      BY <1>1, <1>4, QueueNow DEF Trip
    <3> QED
      BY <1>1, <2>1, <3>1
  <2> QED
    BY <1>2, <2>2 DEF Flown
<1> QED
  BY <1>3, <1>4

LEMMA SavedCanBeSearched ==
  ASSUME SearchInv, [Next]_vars, saves' = saves + 1
  PROVE  /\ ~TripOver(tracker')
         /\ tracker'.mode = "custom_window" => \E i \in DOMAIN queue' : queue'[i][1] >= today
<1>1. PICK f \in Form, left \in Safes, hard \in Hards : Submit(f, left, hard)
  BY SavedByForm
<1>2. /\ SearchInv' /\ tracker' # Null /\ DateErrors(tracker', today) = {}
      /\ queue' = Candidates(tracker', today)
  BY <1>1, SubmitSaves
<1>3. Dated(tracker') /\ today \in Nat
  BY <1>2, Typed, FormsAreDated DEF SearchInv, TypeOK
<1> QED
  BY <1>2, <1>3, AcceptedIsAhead

LEMMA WaitsAfterCheck ==
  ASSUME SearchInv, [Next]_vars, wait < wait'
  PROVE  spent < spent' \/ ReturnsEndFirst(tracker)
<1>1. wait \in Nat
  BY Typed DEF SearchInv
<1>2. CASE Create \/ Edit \/ Resave
  <2>1. wait' = wait
    BY <1>2, SubmittedForms, SubmitSaves
  <2> QED
    BY <1>1, <2>1
<1>3. CASE Duplicate \/ Toggle \/ Delete
  BY <1>1, <1>3 DEF Duplicate, Toggle, Delete
<1>4. CASE Complete \/ UNCHANGED vars
  BY <1>1, <1>4 DEF Complete, vars
<1>5. CASE DayPasses
  BY <1>1, <1>5 DEF DayPasses, Max0
<1>6. CASE Check
  BY <1>6, CheckSearches
<1> QED
  BY <1>2, <1>3, <1>4, <1>5, <1>6 DEF Next

LEMMA CompletedOnce ==
  ASSUME SearchInv, [Next]_vars, Completed(tracker'), ~Completed(tracker)
  PROVE  Complete
<1>1. tracker' # Null /\ tracker'.status = "completed" /\ ~(tracker' = tracker)
  BY DEF Completed
<1>2. ~(Create \/ Edit \/ Resave)
  BY <1>1, SubmittedForms, SubmitSaves
<1>3. ~(Duplicate \/ Toggle)
  <2>1. ASSUME Duplicate \/ Toggle
        PROVE  tracker # Null /\ UNCHANGED <<queue, since>>
               /\ \E status \in {"active", "paused"} : tracker' = WithStatus(tracker, status)
    BY <2>1 DEF Duplicate, Toggle
  <2>2. ASSUME Duplicate \/ Toggle
        PROVE  tracker'.status \in {"active", "paused"}
    BY <2>1, <2>2, StatusKeeps DEF Statuses
  <2> QED
    BY <1>1, <2>2
<1>4. ~(Delete \/ Check \/ DayPasses \/ UNCHANGED vars)
  BY <1>1 DEF Delete, Check, DayPasses, vars
<1> QED
  BY <1>2, <1>3, <1>4 DEF Next

\* parseTrackerForm and planUnits: what is accepted can be searched at once; a check of
\* a tracker that is not over costs a search, unless its returns end before its
\* departures; and what tripCompletedReason completes has flown.
THEOREM SavedIsSearchable == Spec => AlwaysSearchable
<1>1. SearchInv /\ [Next]_vars =>
        [/\ saves' = saves + 1 =>
              /\ ~TripOver(tracker')
              /\ tracker'.mode = "custom_window" => \E i \in DOMAIN queue' : queue'[i][1] >= today
         /\ wait < wait' => spent < spent' \/ ReturnsEndFirst(tracker)
         /\ Completed(tracker') /\ ~Completed(tracker) =>
              /\ Flown = DOMAIN queue
              /\ tracker.mode = "exact" => tracker.outbound < today]_vars
  BY SavedCanBeSearched, WaitsAfterCheck, CompletedOnce, CompletedIsOver
<1> QED
  BY <1>1, SearchAlways, PTL DEF Spec, AlwaysSearchable

-----------------------------------------------------------------------------
(* The budget.                                                             *)

LEMMA Quotient ==
  ASSUME NEW n \in Nat, NEW d \in Nat \ {0}
  PROVE  n \div d \in Nat /\ (n \div d) * d <= n /\ n < (n \div d) * d + d
OBVIOUS

LEMMA AtMost ==
  ASSUME NEW q \in Int, NEW r \in Int, NEW d \in Nat \ {0}, q * d < r * d + d
  PROVE  q <= r
OBVIOUS

LEMMA Times ==
  ASSUME NEW q \in Nat, NEW r \in Nat, NEW d \in Nat, q <= r
  PROVE  q * d \in Nat /\ r * d \in Nat /\ q * d <= r * d
OBVIOUS

LEMMA OneMore ==
  ASSUME NEW q \in Int, NEW d \in Int
  PROVE  (q + 1) * d = q * d + d
OBVIOUS

LEMMA QuotientsGrow ==
  ASSUME NEW m \in Nat, NEW n \in Nat, NEW d \in Nat \ {0}, m <= n
  PROVE  m \div d <= n \div d
<1> DEFINE q == m \div d
           r == n \div d
<1>1. q \in Nat /\ r \in Nat /\ q * d <= m /\ n < r * d + d
  BY Quotient
<1> HIDE DEF q, r
<1>2. q * d \in Nat /\ r * d \in Nat
  BY <1>1
<1>3. q * d < r * d + d
  BY <1>1, <1>2
<1>4. q <= r
  BY <1>1, <1>3, AtMost
<1> QED
  BY <1>4 DEF q, r

LEMMA QuotientWithout ==
  ASSUME NEW n \in Nat, NEW d \in Nat \ {0}, d <= n
  PROVE  1 + ((n - d) \div d) <= n \div d
<1> DEFINE q == (n - d) \div d
           r == n \div d
<1>1. q \in Nat /\ r \in Nat /\ q * d <= n - d /\ n < r * d + d
  BY Quotient
<1> HIDE DEF q, r
<1>2. (q + 1) * d = q * d + d /\ q * d \in Nat /\ r * d \in Nat
  BY <1>1, OneMore
<1>3. (q + 1) * d < r * d + d
  BY <1>1, <1>2
<1>4. q + 1 <= r
  BY <1>1, <1>3, AtMost
<1> QED
  BY <1>1, <1>4 DEF q, r

\* A month has a day left, today.
LEMMA DaysAreLeft ==
  ASSUME NEW day \in Nat
  PROVE  /\ DaysLeft(day) \in Nat \ {0}
         /\ MonthOf(day + 1) = MonthOf(day) => DaysLeft(day + 1) = DaysLeft(day) - 1
<1> DEFINE q == day \div MonthLength
<1>1. MonthLength \in Nat \ {0}
  BY CalendarAssumption
<1>2. q \in Nat /\ day < q * MonthLength + MonthLength
  BY <1>1, Quotient
<1>3. DaysLeft(day) = (q + 1) * MonthLength - day
  BY DEF DaysLeft, MonthOf
<1>4. ASSUME MonthOf(day + 1) = MonthOf(day)
      PROVE  DaysLeft(day + 1) = (q + 1) * MonthLength - (day + 1)
  BY <1>4 DEF DaysLeft, MonthOf
<1> HIDE DEF q
<1>5. (q + 1) * MonthLength = q * MonthLength + MonthLength /\ q * MonthLength \in Nat
  BY <1>1, <1>2, OneMore
<1> DEFINE whole == (q + 1) * MonthLength
<1>6. whole \in Nat /\ day < whole
  BY <1>1, <1>2, <1>5
<1> HIDE DEF whole
<1>7. DaysLeft(day) \in Nat \ {0}
  BY <1>3, <1>6 DEF whole
<1>8. ASSUME MonthOf(day + 1) = MonthOf(day)
      PROVE  DaysLeft(day + 1) = DaysLeft(day) - 1
  <2>1. DaysLeft(day + 1) = whole - (day + 1) /\ DaysLeft(day) = whole - day
    BY <1>3, <1>4, <1>8 DEF whole
  <2> QED
    BY <1>6, <2>1
<1> QED
  BY <1>7, <1>8

\* The scans that the rest of the month has room for.
ScansLeft(t) ==
    IF wait < DaysLeft(today) THEN 1 + ((DaysLeft(today) - 1 - wait) \div t.interval) ELSE 0

\* What the scans still to come can cost, with what was spent, is what was promised.
Promised ==
    tracker # Null /\ ~tracker.ack /\ safe # Null =>
        spent + ScansLeft(tracker) * CallsPerScan(tracker) <= safe + CallsPerScan(tracker)
BudgetInv == SearchInv /\ Promised

LEMMA ScanCosts ==
  ASSUME NEW t, t \in Row \cup Form
  PROVE  /\ PerScan(t) \in Nat \ {0} /\ CallsPerScan(t) \in Nat \ {0}
         /\ t.interval \in Nat \ {0}
<1>1. t.per_run \in Nat /\ t.markets \in Nat \ {0} /\ t.interval \in Nat \ {0}
  BY DEF Row, Form
<1>2. PerScan(t) \in Nat \ {0}
  BY <1>1 DEF PerScan, Max1
<1>3. PerScan(t) * t.markets \in Nat \ {0}
  BY <1>1, <1>2
<1> QED
  BY <1>1, <1>2, <1>3 DEF CallsPerScan

LEMMA ScansAreNumbers ==
  ASSUME TypeOK, NEW t, t \in Row \cup Form
  PROVE  ScansLeft(t) \in Nat
<1>1. today \in Nat /\ wait \in Nat /\ t.interval \in Nat \ {0} /\ DaysLeft(today) \in Nat \ {0}
  BY Typed, ScanCosts, DaysAreLeft
<1>2. CASE wait < DaysLeft(today)
  <2> DEFINE rest == DaysLeft(today) - 1 - wait
  <2>1. rest \in Nat
    BY <1>1, <1>2
  <2> HIDE DEF rest
  <2>2. rest \div t.interval \in Nat
    BY <1>1, <2>1, Quotient
  <2> QED
    BY <1>2, <2>2 DEF ScansLeft, rest
<1>3. CASE ~(wait < DaysLeft(today))
  BY <1>3 DEF ScansLeft
<1> QED
  BY <1>2, <1>3

\* A check takes no more pairs than a scan is to have.
LEMMA FirstAreFew ==
  ASSUME TypeOK, tracker \in Row, NEW open \in SUBSET DOMAIN queue
  PROVE  Cardinality(First(tracker, open)) <= Max1(tracker.per_run)
<1> DEFINE taken == First(tracker, open)
           most == Max1(tracker.per_run)
<1>1. /\ taken \subseteq open /\ IsFiniteSet(taken) /\ Cardinality(taken) \in Nat
      /\ IsFiniteSet(open)
  BY FirstOfOpen
<1>2. most \in Nat \ {0}
  BY DEF Row, Max1
<1>3. open \subseteq 1..Len(queue) /\ Len(queue) \in Nat
  BY Typed
<1>4. \A i \in taken : Cardinality({j \in open : j < i}) < most
  BY DEF First
<1> HIDE DEF taken, most
<1>5. CASE taken = {}
  BY <1>2, <1>5, FS_EmptySet DEF taken, most
<1>6. CASE taken # {}
  <2> DEFINE far == {Len(queue) - i : i \in taken}
  <2>1. far \in SUBSET Nat /\ far # {}
    BY <1>1, <1>3, <1>6
  <2>2. PICK d \in far : \A e \in far : d <= e
    BY <2>1, LeastNatural
  <2>3. PICK last \in taken : d = Len(queue) - last
    BY <2>2
  <2>4. ASSUME NEW i \in taken
        PROVE  i <= last
    <3>1. Len(queue) - i \in far
      OBVIOUS
    <3>2. Len(queue) - last <= Len(queue) - i
      BY <2>2, <2>3, <3>1
    <3>3. i \in Nat /\ last \in Nat /\ Len(queue) \in Nat
      BY <1>1, <1>3
    <3> HIDE DEF far
    <3> QED
      BY <3>2, <3>3
  <2> HIDE DEF far
  <2> DEFINE earlier == {j \in open : j < last}
  <2>5. taken \subseteq earlier \cup {last}
    BY <1>1, <1>3, <2>4
  <2>6. earlier \subseteq open /\ Cardinality(earlier) < most /\ last \notin earlier
    BY <1>1, <1>3, <1>4
  <2> HIDE DEF earlier
  <2>7. IsFiniteSet(earlier) /\ Cardinality(earlier) \in Nat
    BY <1>1, <2>6, FS_Subset, FS_CardinalityType
  <2>8. IsFiniteSet(earlier \cup {last}) /\ Cardinality(earlier \cup {last}) = Cardinality(earlier) + 1
    BY <2>6, <2>7, FS_AddElement
  <2>9. Cardinality(taken) <= Cardinality(earlier \cup {last})
    BY <2>5, <2>8, FS_Subset
  <2>10. Cardinality(taken) <= most
    BY <1>1, <1>2, <2>6, <2>7, <2>8, <2>9
  <2> QED
    BY <2>10 DEF taken, most
<1> QED
  BY <1>5, <1>6

LEMMA CheckCosts ==
  ASSUME SearchInv, Check
  PROVE  spent' <= spent + CallsPerScan(tracker)
<1> DEFINE pairs == IF tracker.mode = "custom_window" THEN Cardinality(Claimed(tracker)) ELSE 1
<1>1. /\ tracker \in Row /\ TypeOK /\ spent \in Nat /\ tracker.markets \in Nat
      /\ spent' = spent + pairs * tracker.markets
  BY Typed DEF SearchInv, Check, Due, Row
<1>2. PerScan(tracker) \in Nat
  BY <1>1, ScanCosts
<1>3. pairs \in Nat /\ pairs <= PerScan(tracker)
  <2>1. CASE tracker.mode # "custom_window"
    BY <2>1 DEF PerScan
  <2>2. CASE tracker.mode = "custom_window"
    <3> DEFINE rest == DOMAIN queue \ Flown
    <3>1. rest \in SUBSET DOMAIN queue /\ Open \in SUBSET DOMAIN queue
      BY DEF Open
    <3>2. Claimed(tracker) = IF Open # {} THEN First(tracker, Open) ELSE First(tracker, rest)
      BY <2>2 DEF Claimed
    <3> HIDE DEF rest
    <3>3. Cardinality(Claimed(tracker)) <= Max1(tracker.per_run)
      BY <1>1, <3>1, <3>2, FirstAreFew
    <3>4. Cardinality(Claimed(tracker)) \in Nat
      BY CheckSearch
    <3> QED
      BY <2>2, <3>3, <3>4 DEF PerScan
  <2> QED
    BY <2>1, <2>2
<1> HIDE DEF pairs
<1>4. /\ pairs * tracker.markets \in Nat /\ PerScan(tracker) * tracker.markets \in Nat
      /\ pairs * tracker.markets <= PerScan(tracker) * tracker.markets
  BY <1>1, <1>2, <1>3, Times
<1> QED
  BY <1>1, <1>4 DEF CallsPerScan

\* What is saved without the box ticked fits: CallsRemaining counts every scan but one.
LEMMA SubmitPromises ==
  ASSUME SearchInv, NEW f \in Form, NEW left \in Safes, NEW hard \in Hards,
         Submit(f, left, hard)
  PROVE  Promised'
<1> SUFFICES ASSUME tracker' # Null, ~tracker'.ack, safe' # Null
             PROVE  spent' + ScansLeft(tracker)' * CallsPerScan(tracker')
                      <= safe' + CallsPerScan(tracker')
  BY DEF Promised
<1>1. /\ SearchInv' /\ today' = today /\ wait' = wait
      /\ tracker'.mode = f.mode /\ tracker'.markets = f.markets
      /\ tracker'.per_run = f.per_run /\ tracker'.interval = f.interval
      /\ tracker'.ack = f.ack
  BY SubmitSaves
<1>2. /\ safe' = left /\ spent' = 0 /\ ~Warned(f, today, left) /\ left \in Nat
  BY <1>1, CalendarAssumption DEF Submit, Affordable
<1> DEFINE cost == CallsPerScan(f)
           days == DaysLeft(today)
           scans == ScansLeft(f)
<1>3. CallsPerScan(tracker') = cost /\ ScansLeft(tracker)' = scans
  BY <1>1 DEF CallsPerScan, PerScan, ScansLeft
<1>4. /\ cost \in Nat \ {0} /\ f.interval \in Nat \ {0} /\ wait \in Nat /\ today \in Nat
      /\ days \in Nat \ {0} /\ scans \in Nat
  BY ScanCosts, ScansAreNumbers, DaysAreLeft, Typed DEF SearchInv
<1>5. ~((days \div f.interval) * cost > left)
  BY <1>2 DEF Warned, CallsRemaining
<1>6. scans = IF wait < days THEN 1 + ((days - 1 - wait) \div f.interval) ELSE 0
  BY DEF ScansLeft
<1> HIDE DEF cost, days, scans
<1> DEFINE whole == days \div f.interval
<1>7. whole \in Nat
  BY <1>4, Quotient
<1>8. scans <= whole + 1
  <2>1. CASE wait < days
    <3> DEFINE rest == days - 1 - wait
    <3>1. rest \in Nat /\ rest <= days
      BY <1>4, <2>1
    <3> HIDE DEF rest
    <3>2. rest \div f.interval <= whole /\ rest \div f.interval \in Nat
      BY <1>4, <3>1, QuotientsGrow, Quotient
    <3>3. scans = 1 + (rest \div f.interval)
      BY <1>6, <2>1 DEF rest
    <3> HIDE DEF whole
    <3> QED
      BY <1>7, <3>2, <3>3
  <2>2. CASE ~(wait < days)
    <3> HIDE DEF whole
    <3> QED
      BY <1>6, <1>7, <2>2
  <2> QED
    BY <2>1, <2>2
<1> HIDE DEF whole
<1>9. scans * cost <= (whole + 1) * cost /\ scans * cost \in Nat
  <2>1. whole + 1 \in Nat /\ cost \in Nat
    BY <1>4, <1>7
  <2> QED
    BY <1>4, <1>8, <2>1, Times
<1>10. (whole + 1) * cost = whole * cost + cost /\ whole * cost \in Nat
  BY <1>4, <1>7, OneMore
<1>11. whole * cost <= left
  BY <1>2, <1>5, <1>10 DEF whole
<1> QED
  BY <1>2, <1>3, <1>4, <1>9, <1>10, <1>11

\* A check is one of the scans that were counted.
LEMMA CheckPromises ==
  ASSUME SearchInv, Promised, Check
  PROVE  Promised'
<1> SUFFICES ASSUME tracker' # Null, ~tracker'.ack, safe' # Null
             PROVE  spent' + ScansLeft(tracker)' * CallsPerScan(tracker')
                      <= safe' + CallsPerScan(tracker')
  BY DEF Promised
<1> DEFINE cost == CallsPerScan(tracker)
           days == DaysLeft(today)
           scans == ScansLeft(tracker)
           after == ScansLeft(tracker)'
           interval == tracker.interval
<1>1. /\ UNCHANGED <<today, tracker, safe>> /\ wait = 0 /\ wait' = interval
      /\ SearchInv' /\ tracker # Null /\ tracker \in Row
  BY CheckSearch, Typed DEF Check, Due, SearchInv
<1>2. spent + scans * cost <= safe + cost
  BY <1>1 DEF Promised
<1>3. spent' <= spent + cost
  BY CheckCosts
<1>4. /\ cost \in Nat \ {0} /\ interval \in Nat \ {0} /\ today \in Nat
      /\ days \in Nat \ {0} /\ scans \in Nat
  BY <1>1, ScanCosts, ScansAreNumbers, DaysAreLeft, Typed DEF SearchInv
<1>5. spent \in Nat /\ spent' \in Nat /\ safe \in Nat
  BY <1>1 DEF SearchInv, TypeOK
<1>6. scans = 1 + ((days - 1) \div interval)
  BY <1>1, <1>4 DEF ScansLeft
<1>7. after = IF interval < days THEN 1 + ((days - 1 - interval) \div interval) ELSE 0
  BY <1>1 DEF ScansLeft
<1>8. CallsPerScan(tracker') = cost
  BY <1>1
<1> HIDE DEF cost, days, scans, after, interval
<1>9. after \in Nat /\ after + 1 <= scans
  <2> DEFINE rest == days - 1
  <2>1. rest \in Nat
    BY <1>4
  <2>2. scans = 1 + (rest \div interval)
    BY <1>6
  <2>3. after = IF interval < days THEN 1 + ((rest - interval) \div interval) ELSE 0
    BY <1>7
  <2>4. interval < days <=> interval <= rest
    BY <1>4
  <2> HIDE DEF rest
  <2>5. CASE interval <= rest
    <3> DEFINE less == rest - interval
    <3>1. less \in Nat
      BY <1>4, <2>1, <2>5
    <3>2. 1 + ((rest - interval) \div interval) <= rest \div interval
      BY <1>4, <2>1, <2>5, QuotientWithout
    <3>3. after = 1 + (less \div interval)
      BY <2>3, <2>4, <2>5
    <3>4. 1 + (less \div interval) <= rest \div interval
      BY <3>2
    <3> HIDE DEF less
    <3>5. less \div interval \in Nat /\ rest \div interval \in Nat
      BY <1>4, <2>1, <3>1, Quotient
    <3> QED
      BY <2>2, <3>3, <3>4, <3>5
  <2>6. CASE ~(interval <= rest)
    <3>1. after = 0 /\ rest \div interval \in Nat
      BY <1>4, <2>1, <2>3, <2>4, <2>6, Quotient
    <3> QED
      BY <2>2, <3>1
  <2> QED
    BY <2>5, <2>6
<1>10. (after + 1) * cost <= scans * cost /\ scans * cost \in Nat
  <2>1. after + 1 \in Nat /\ cost \in Nat
    BY <1>4, <1>9
  <2> QED
    BY <1>4, <1>9, <2>1, Times
<1>11. (after + 1) * cost = after * cost + cost /\ after * cost \in Nat
  BY <1>4, <1>9, OneMore
<1>12. spent' + after * cost <= safe + cost
  BY <1>2, <1>3, <1>4, <1>5, <1>10, <1>11
<1> QED
  BY <1>1, <1>8, <1>12 DEF after

\* A day off the month is a day off the wait; and a new month was promised nothing.
LEMMA DayPromises ==
  ASSUME SearchInv, Promised, DayPasses
  PROVE  Promised'
<1> SUFFICES ASSUME tracker' # Null, ~tracker'.ack, safe' # Null
             PROVE  spent' + ScansLeft(tracker)' * CallsPerScan(tracker')
                      <= safe' + CallsPerScan(tracker')
  BY DEF Promised
<1> DEFINE cost == CallsPerScan(tracker)
           days == DaysLeft(today)
           scans == ScansLeft(tracker)
           after == ScansLeft(tracker)'
           interval == tracker.interval
<1>1. /\ today' = today + 1 /\ wait' = Max0(wait - 1) /\ tracker' = tracker
      /\ MonthOf(today') = MonthOf(today) /\ safe' = safe /\ spent' = spent
  BY DEF DayPasses
<1>2. spent + scans * cost <= safe + cost
  BY <1>1 DEF Promised
<1>3. /\ cost \in Nat \ {0} /\ interval \in Nat \ {0} /\ today \in Nat /\ wait \in Nat
      /\ days \in Nat \ {0} /\ scans \in Nat
  BY <1>1, ScanCosts, ScansAreNumbers, DaysAreLeft, Typed DEF SearchInv
<1>4. DaysLeft(today') = days - 1
  BY <1>1, <1>3, DaysAreLeft
<1>5. spent \in Nat /\ safe \in Nat
  BY <1>1 DEF SearchInv, TypeOK
<1>6. scans = IF wait < days THEN 1 + ((days - 1 - wait) \div interval) ELSE 0
  BY DEF ScansLeft
<1>7. after = IF wait' < days - 1 THEN 1 + ((days - 1 - 1 - wait') \div interval) ELSE 0
  BY <1>1, <1>4 DEF ScansLeft
<1>8. CallsPerScan(tracker') = cost
  BY <1>1
<1> HIDE DEF cost, days, scans, after, interval
<1>9. after \in Nat /\ after <= scans
  <2>1. CASE wait = 0
    <3>1. wait' = 0
      BY <1>1, <2>1 DEF Max0
    <3>2. CASE days = 1
      <4>1. after = 0
        BY <1>7, <3>1, <3>2
      <4> QED
        BY <1>3, <4>1
    <3>3. CASE days # 1
      <4> DEFINE rest == days - 2
      <4>1. rest \in Nat /\ rest + 1 = days - 1 /\ rest <= rest + 1
        BY <1>3, <3>3
      <4>2. after = 1 + (rest \div interval)
        <5>1. 0 < days - 1 /\ days - 1 - 1 - 0 = rest
          BY <1>3, <3>3
        <5> HIDE DEF rest
        <5> QED
          BY <1>7, <3>1, <5>1
      <4>3. scans = 1 + ((rest + 1) \div interval)
        <5>1. 0 < days /\ days - 1 - 0 = rest + 1
          BY <1>3, <4>1
        <5> HIDE DEF rest
        <5> QED
          BY <1>6, <2>1, <5>1
      <4> HIDE DEF rest
      <4>4. rest \div interval <= (rest + 1) \div interval
        BY <1>3, <4>1, QuotientsGrow
      <4>5. rest \div interval \in Nat /\ (rest + 1) \div interval \in Nat
        BY <1>3, <4>1, Quotient
      <4> QED
        BY <4>2, <4>3, <4>4, <4>5
    <3> QED
      BY <3>2, <3>3
  <2>2. CASE wait # 0
    <3>1. wait' = wait - 1
      BY <1>1, <1>3, <2>2 DEF Max0
    <3>2. days - 1 - 1 - wait' = days - 1 - wait /\ (wait' < days - 1 <=> wait < days)
      BY <1>3, <2>2, <3>1
    <3>3. after = scans
      BY <1>6, <1>7, <3>2
    <3> QED
      BY <1>3, <3>3
  <2> QED
    BY <2>1, <2>2
<1>10. after * cost <= scans * cost /\ scans * cost \in Nat /\ after * cost \in Nat
  <2>1. cost \in Nat
    BY <1>3
  <2> QED
    BY <1>3, <1>9, <2>1, Times
<1>11. spent + after * cost <= safe + cost
  BY <1>2, <1>3, <1>5, <1>10
<1> QED
  BY <1>1, <1>8, <1>11 DEF after

LEMMA StepBudget ==
  ASSUME BudgetInv, [Next]_vars
  PROVE  BudgetInv'
<1>1. SearchInv' /\ SearchInv /\ Promised
  BY StepSearch DEF BudgetInv
<1>2. CASE Create \/ Edit \/ Resave
  BY <1>1, <1>2, SubmittedForms, SubmitPromises DEF BudgetInv
<1>3. CASE Duplicate \/ Toggle \/ Delete
  <2>1. safe' = Null
    BY <1>3 DEF Duplicate, Toggle, Delete
  <2> QED
    BY <1>1, <2>1 DEF BudgetInv, Promised
<1>4. CASE Complete
  <2>1. /\ tracker \in Row /\ tracker' = WithStatus(tracker, "completed")
        /\ UNCHANGED <<today, wait, safe, spent>> /\ tracker # Null
    BY <1>1, <1>4, Typed DEF Complete, Due, SearchInv
  <2>2. /\ tracker'.mode = tracker.mode /\ tracker'.markets = tracker.markets
        /\ tracker'.per_run = tracker.per_run /\ tracker'.interval = tracker.interval
        /\ tracker'.ack = tracker.ack
    BY <2>1, RowWithStatus DEF Statuses
  <2>3. CallsPerScan(tracker') = CallsPerScan(tracker) /\ ScansLeft(tracker)' = ScansLeft(tracker)
    BY <2>1, <2>2 DEF CallsPerScan, PerScan, ScansLeft
  <2> QED
    BY <1>1, <2>1, <2>2, <2>3 DEF BudgetInv, Promised
<1>5. CASE Check
  BY <1>1, <1>5, CheckPromises DEF BudgetInv
<1>6. CASE DayPasses
  BY <1>1, <1>6, DayPromises DEF BudgetInv
<1>7. CASE UNCHANGED vars
  <2>1. UNCHANGED <<today, tracker, wait, safe, spent>>
    BY <1>7 DEF vars
  <2>2. ScansLeft(tracker)' = ScansLeft(tracker)
    BY <2>1 DEF ScansLeft
  <2> QED
    BY <1>1, <2>1, <2>2 DEF BudgetInv, Promised
<1> QED
  BY <1>2, <1>3, <1>4, <1>5, <1>6, <1>7 DEF Next

\* assess and refuseIfOverBudget: what is saved without the box ticked costs no more in its
\* month than was left for automation, but for one scan.
LEMMA PromiseFits ==
  ASSUME BudgetInv
  PROVE  WithinBudget
<1> SUFFICES ASSUME tracker # Null, ~tracker.ack, safe # Null
             PROVE  spent <= safe + CallsPerScan(tracker)
  BY DEF WithinBudget
<1> DEFINE cost == CallsPerScan(tracker)
           scans == ScansLeft(tracker)
<1>1. tracker \in Row /\ TypeOK /\ spent \in Nat /\ safe \in Nat
  BY Typed DEF BudgetInv, SearchInv, TypeOK
<1>2. cost \in Nat /\ scans \in Nat
  BY <1>1, ScanCosts, ScansAreNumbers
<1>3. spent + scans * cost <= safe + cost
  BY DEF BudgetInv, Promised
<1> HIDE DEF cost, scans
<1>4. scans * cost \in Nat
  BY <1>2
<1>5. spent <= safe + cost
  BY <1>1, <1>2, <1>3, <1>4
<1> QED
  BY <1>5 DEF cost

-----------------------------------------------------------------------------
(* All of it.                                                              *)

\* The first pairs of a queue are spread over its window.
LEMMA SearchedAcross ==
  ASSUME SearchInv, tracker # Null, tracker.mode = "custom_window"
  PROVE  Spread
<1>1. /\ DOMAIN queue = 1..Len(queue) /\ Len(queue) \in Nat
      /\ \A i \in DOMAIN queue : Place(queue[i], ToSet(queue)) = BisectionOrder(Len(queue))[i]
  BY QueueNow, Typed DEF SearchInv
<1> SUFFICES ASSUME NEW parts \in {2, 4, 8}, parts - 1 <= Len(queue),
                    NEW from \in 0..(Len(queue) - (Len(queue) \div parts + 1))
             PROVE  \E i \in 1..(parts - 1) :
                       Place(queue[i], ToSet(queue))
                         \in from..(from + (Len(queue) \div parts + 1) - 1)
  BY DEF Spread
<1> DEFINE n == Len(queue)
<1>2. n \in Nat
  BY <1>1
<1>3. from + (n \div parts + 1) - 1 = from + n \div parts
  <2> HIDE DEF n
  <2> QED
    BY <1>2
<1>4. 1..(parts - 1) \subseteq 1..n
  <2>1. parts - 1 <= n
    OBVIOUS
  <2> HIDE DEF n
  <2> QED
    BY <1>2, <2>1
<1>5. \A i \in 1..n : Place(queue[i], ToSet(queue)) = BisectionOrder(n)[i]
  BY <1>1
<1>6. \E i \in 1..(parts - 1) : BisectionOrder(n)[i] \in from..(from + n \div parts)
  BY <1>1, PlacesAreSpread
<1> HIDE DEF n
<1>7. \E i \in 1..(parts - 1) : Place(queue[i], ToSet(queue)) \in from..(from + n \div parts)
  BY <1>4, <1>5, <1>6
<1> QED
  BY <1>3, <1>7 DEF n

LEMMA QueueKeepsItsMeaning ==
  ASSUME SearchInv
  PROVE  QueueMeansTheWindow
<1>1. CASE tracker = Null \/ tracker.mode # "custom_window"
  BY <1>1, SearchedWhole DEF SweptWhole, QueueMeansTheWindow
<1>2. CASE ~(tracker = Null \/ tracker.mode # "custom_window")
  <2>1. /\ IsInjective(queue)
        /\ \A out, back \in Nat : <<out, back>> \in ToSet(queue) <=> Means(tracker, out, back)
    BY <1>2, SearchedWhole DEF SweptWhole
  <2>2. \A day \in 0..(2 * LastDay + 4) : day \in Nat
    BY CalendarAssumption
  <2>3. Spread
    BY <1>2, SearchedAcross
  <2> QED
    BY <1>2, <2>1, <2>2, <2>3 DEF QueueMeansTheWindow
<1> QED
  BY <1>1, <1>2

\* parseTrackerForm, generatePairs, bisectionOrder and refuseIfOverBudget: whatever the
\* forms, the edits and the calendar, a saved window is swept over the trips it means and
\* from its first scans on across the whole of it, and what is saved unacknowledged fits.
THEOREM SavedMeansWhatItSays == Spec => []FormInv
<1>1. Init => BudgetInv
  BY InitSearch DEF Init, BudgetInv, Promised
<1>2. BudgetInv /\ [Next]_vars => BudgetInv'
  BY StepBudget
<1>3. BudgetInv => FormInv
  BY PromiseFits, QueueKeepsItsMeaning DEF BudgetInv, SearchInv, FormInv
<1> QED
  BY <1>1, <1>2, <1>3, PTL DEF Spec
=============================================================================
