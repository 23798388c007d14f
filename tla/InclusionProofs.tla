--------------------------- MODULE InclusionProofs --------------------------
(***************************************************************************)
(* The inclusion proofs of an answer, for any number of assertions: from   *)
(* the leaf at its index, and from no other, the siblings lead to the      *)
(* root, and the root determines the assertions.  Induction over the levels is induction over the numbers of the   *)
(* levels, stated of sets of naturals (SetInduction), which the provers    *)
(* can instantiate.                                                        *)
(***************************************************************************)
EXTENDS AssertionProof, RmvmKernelProofs

-----------------------------------------------------------------------------
\* Induction over data, as a fact about sets of naturals

\* A set of naturals that has 0, and with a number its successor, has them all.
LEMMA SetInduction ==
    ASSUME NEW S, 0 \in S, \A n \in Nat : n \in S => n + 1 \in S
    PROVE  \A n \in Nat : n \in S
<1>1. SUFFICES ASSUME Nat \ S # {} PROVE FALSE
  OBVIOUS
<1>2. PICK m \in Nat \ S : \A n \in Nat \ S : m <= n
  <2>1. Min(Nat \ S) \in Nat \ S /\ \A n \in Nat \ S : Min(Nat \ S) <= n
    BY <1>1, MinInNat
  <2> QED
    BY <2>1
<1>3. m # 0 /\ m - 1 \in Nat /\ m - 1 + 1 = m
  OBVIOUS
<1>4. m - 1 \in S
  BY <1>2, <1>3
<1> QED
  BY <1>3, <1>4

-----------------------------------------------------------------------------
\* Levels

\* A list is what a Vec is: a function on an interval.
IsList(l) == \E n \in Nat : l = [i \in 1..n |-> l[i]]

\* A list of n items has length n.
LEMMA ListLength ==
    ASSUME NEW n \in Nat, NEW l, l = [i \in 1..n |-> l[i]]
    PROVE  Len(l) = n /\ DOMAIN l = 1..n
<1>1. l \in Seq({l[i] : i \in 1..n})
  OBVIOUS
<1> QED
  BY <1>1

\* The length and the domain of a list.
LEMMA ListFacts ==
    ASSUME NEW l, IsList(l)
    PROVE  Len(l) \in Nat /\ DOMAIN l = 1..Len(l) /\ l = [i \in 1..Len(l) |-> l[i]]
  BY ListLength DEF IsList

\* An odd level is rounded up, so that of n nodes half, or half and one, remain.
LEMMA ParentsLength ==
    ASSUME NEW l, IsList(l)
    PROVE  /\ IsList(Parents(l)) /\ Len(Parents(l)) = (Len(l) + 1) \div 2
           /\ \A i \in 1..Len(Parents(l)) : Parents(l)[i] = HashPair(l[2 * i - 1], NodeOrLast(l, 2 * i))
<1> DEFINE n == (Len(l) + 1) \div 2
           p == Parents(l)
<1>1. n \in Nat
  BY ListFacts
<1>2. p = [i \in 1..n |-> HashPair(l[2 * i - 1], NodeOrLast(l, 2 * i))]
  BY DEF Parents
<1>3. p = [i \in 1..n |-> p[i]]
  BY <1>2
<1>4. Len(p) = n /\ IsList(p)
  BY <1>1, <1>3, ListLength DEF IsList
<1> QED
  BY <1>2, <1>4

\* The levels of a list: the recursion of Levels has a solution, and it is the
\* one that Levels names.
LEMMA LevelsDef ==
    ASSUME NEW leaves, Len(leaves) \in Nat
    PROVE  /\ Levels(leaves)[0] = leaves
           /\ \A k \in 1..Len(leaves) : Levels(leaves)[k] = Parents(Levels(leaves)[k - 1])
<1> DEFINE IsPrefix(g, n) == g = [k \in 0..n |-> IF k = 0 THEN leaves ELSE Parents(g[k - 1])]
           Good == {n \in Nat : \E g : IsPrefix(g, n)}
<1>1. 0 \in Good
  <2>1. IsPrefix([k \in 0..0 |-> leaves], 0)
    OBVIOUS
  <2> QED
    BY <2>1
<1>2. ASSUME NEW n \in Nat, n \in Good
      PROVE  n + 1 \in Good
  <2>1. PICK g : IsPrefix(g, n)
    BY <1>2
  <2> DEFINE h == [k \in 0..(n + 1) |-> IF k = 0 THEN leaves ELSE Parents(g[k - 1])]
  <2>2. \A k \in 0..n : h[k] = g[k]
    BY <2>1
  <2>3. \A k \in 0..(n + 1) : k # 0 => h[k - 1] = g[k - 1]
    <3> HIDE DEF h, IsPrefix, Good
    <3> QED
      BY <2>2
  <2>4. IsPrefix(h, n + 1)
    BY <2>3
  <2>5. \E f : IsPrefix(f, n + 1)
    <3> HIDE DEF IsPrefix, h
    <3> QED
      BY <2>4
  <2> QED
    <3> HIDE DEF IsPrefix
    <3> QED
      BY <2>5
<1>3. Len(leaves) \in Good
  <2> HIDE DEF Good
  <2> QED
    BY <1>1, <1>2, SetInduction
<1>4. PICK g : IsPrefix(g, Len(leaves))
  BY <1>3
<1>5. Levels(leaves) = CHOOSE f : IsPrefix(f, Len(leaves))
  BY DEF Levels
<1>6. IsPrefix(Levels(leaves), Len(leaves))
  <2> HIDE DEF IsPrefix
  <2> QED
    BY <1>4, <1>5
<1> QED
  BY <1>6

\* Where the ancestors of a leaf are: cur is halved from level to level.
LEMMA AncestorsDef ==
    ASSUME NEW i, NEW h \in Nat
    PROVE  /\ Ancestors(i, h)[0] = i
           /\ \A k \in 1..h : Ancestors(i, h)[k] = (Ancestors(i, h)[k - 1] + 1) \div 2
<1> DEFINE IsPrefix(g, n) == g = [k \in 0..n |-> IF k = 0 THEN i ELSE (g[k - 1] + 1) \div 2]
           Good == {n \in Nat : \E g : IsPrefix(g, n)}
<1>1. 0 \in Good
  <2>1. IsPrefix([k \in 0..0 |-> i], 0)
    OBVIOUS
  <2> QED
    BY <2>1
<1>2. ASSUME NEW n \in Nat, n \in Good
      PROVE  n + 1 \in Good
  <2>1. PICK g : IsPrefix(g, n)
    BY <1>2
  <2> DEFINE f == [k \in 0..(n + 1) |-> IF k = 0 THEN i ELSE (g[k - 1] + 1) \div 2]
  <2>2. \A k \in 0..n : f[k] = g[k]
    BY <2>1
  <2>3. \A k \in 0..(n + 1) : k # 0 => f[k - 1] = g[k - 1]
    <3> HIDE DEF f, IsPrefix, Good
    <3> QED
      BY <2>2
  <2>4. IsPrefix(f, n + 1)
    BY <2>3
  <2>5. \E x : IsPrefix(x, n + 1)
    <3> HIDE DEF IsPrefix, f
    <3> QED
      BY <2>4
  <2> QED
    <3> HIDE DEF IsPrefix
    <3> QED
      BY <2>5
<1>3. h \in Good
  <2> HIDE DEF Good
  <2> QED
    BY <1>1, <1>2, SetInduction
<1>4. PICK g : IsPrefix(g, h)
  BY <1>3
<1>5. Ancestors(i, h) = CHOOSE f : IsPrefix(f, h)
  BY DEF Ancestors
<1>6. IsPrefix(Ancestors(i, h), h)
  <2> HIDE DEF IsPrefix
  <2> QED
    BY <1>4, <1>5
<1> QED
  BY <1>6

\* From level to level a node is hashed with the sibling, in the order that its
\* place says.
Climbs(node, h, cur, siblings) ==
    \A k \in 1..h : node[k] = IF cur[k - 1] % 2 = 1 THEN HashPair(node[k - 1], siblings[k])
                              ELSE HashPair(siblings[k], node[k - 1])

\* The nodes a client computes on the way up.
LEMMA RecomputedDef ==
    ASSUME NEW leaf, NEW i, NEW siblings, Len(siblings) \in Nat
    PROVE  \E node :
              /\ node[0] = leaf /\ node[Len(siblings)] = Recomputed(leaf, i, siblings)
              /\ Climbs(node, Len(siblings), Ancestors(i, Len(siblings)), siblings)
<1> DEFINE cur == Ancestors(i, Len(siblings))
           NodeAt(g, k) == IF cur[k - 1] % 2 = 1 THEN HashPair(g[k - 1], siblings[k])
                           ELSE HashPair(siblings[k], g[k - 1])
           IsPrefix(g, n) == g = [k \in 0..n |-> IF k = 0 THEN leaf ELSE NodeAt(g, k)]
           Good == {n \in Nat : \E g : IsPrefix(g, n)}
           node == CHOOSE g : IsPrefix(g, Len(siblings))
<1>1. 0 \in Good
  <2>1. IsPrefix([k \in 0..0 |-> leaf], 0)
    OBVIOUS
  <2> QED
    BY <2>1
<1>2. ASSUME NEW n \in Nat, n \in Good
      PROVE  n + 1 \in Good
  <2>1. PICK g : IsPrefix(g, n)
    BY <1>2
  <2> DEFINE f == [k \in 0..(n + 1) |-> IF k = 0 THEN leaf ELSE NodeAt(g, k)]
  <2>2. \A k \in 0..n : f[k] = g[k]
    BY <2>1
  <2>3. \A k \in 0..(n + 1) : k # 0 => f[k - 1] = g[k - 1]
    <3> HIDE DEF f, IsPrefix, Good
    <3> QED
      BY <2>2
  <2>4. IsPrefix(f, n + 1)
    BY <2>3
  <2>5. \E x : IsPrefix(x, n + 1)
    <3> HIDE DEF IsPrefix, f
    <3> QED
      BY <2>4
  <2> QED
    <3> HIDE DEF IsPrefix
    <3> QED
      BY <2>5
<1>3. Len(siblings) \in Good
  <2> HIDE DEF Good
  <2> QED
    BY <1>1, <1>2, SetInduction
<1>4. PICK g : IsPrefix(g, Len(siblings))
  BY <1>3
<1>5. IsPrefix(node, Len(siblings))
  <2> HIDE DEF IsPrefix
  <2> QED
    BY <1>4
<1>6. node[Len(siblings)] = Recomputed(leaf, i, siblings)
  BY DEF Recomputed
<1>7. node[0] = leaf /\ \A k \in 1..Len(siblings) : node[k] = NodeAt(node, k)
  <2> HIDE DEF node, NodeAt
  <2> QED
    BY <1>5
<1> QED
  <2> HIDE DEF node
  <2> QED
    BY <1>6, <1>7 DEF Climbs

-----------------------------------------------------------------------------
\* The shape of the tree

\* Every level is a list of one node at least, and gets shorter until it has one.
LEMMA LevelLengths ==
    ASSUME NEW leaves, IsList(leaves), Len(leaves) # 0
    PROVE  \A k \in 0..Len(leaves) :
              /\ IsList(Levels(leaves)[k]) /\ Len(Levels(leaves)[k]) \in Nat \ {0}
              /\ Len(Levels(leaves)[k]) = 1 \/ Len(Levels(leaves)[k]) + k <= Len(leaves)
<1> DEFINE L == Levels(leaves)
           n == Len(leaves)
           Fine(k) == /\ IsList(L[k]) /\ Len(L[k]) \in Nat \ {0}
                      /\ Len(L[k]) = 1 \/ Len(L[k]) + k <= n
           Good == {k \in Nat : k <= n => Fine(k)}
<1>1. n \in Nat /\ L[0] = leaves /\ \A k \in 1..n : L[k] = Parents(L[k - 1])
  BY ListFacts, LevelsDef
<1>2. 0 \in Good
  BY <1>1
<1>3. ASSUME NEW k \in Nat, k \in Good
      PROVE  k + 1 \in Good
  <2>1. CASE k + 1 <= n
    <3>1. Fine(k) /\ L[k + 1] = Parents(L[k])
      <4>1. k <= n /\ k + 1 \in 1..n /\ (k + 1) - 1 = k
        BY <1>1, <2>1
      <4> QED
        BY <1>1, <1>3, <4>1
    <3> DEFINE m == Len(L[k])
    <3>2. IsList(L[k + 1]) /\ Len(L[k + 1]) = (m + 1) \div 2
      BY <3>1, ParentsLength
    <3>3. m \in Nat \ {0} /\ (m = 1 \/ m + k <= n)
      BY <3>1
    <3>4. (m + 1) \div 2 \in Nat \ {0} /\ ((m + 1) \div 2 = 1 \/ (m + 1) \div 2 + (k + 1) <= n)
      <4> HIDE DEF m, n, Fine, Good, L
      <4> QED
        BY <1>1, <3>3
    <3>5. Fine(k + 1)
      <4> HIDE DEF m, n, L
      <4> QED
        BY <3>2, <3>4
    <3> QED
      <4> HIDE DEF Fine
      <4> QED
        BY <3>5
  <2>2. CASE ~(k + 1 <= n)
    BY <2>2
  <2> QED
    BY <2>1, <2>2
<1>4. \A k \in Nat : k \in Good
  <2> HIDE DEF Good
  <2> QED
    BY <1>2, <1>3, SetInduction
<1>5. \A k \in 0..n : Fine(k)
  <2> HIDE DEF Fine
  <2> QED
    BY <1>1, <1>4
<1> QED
  BY <1>5

\* The loop ends: there is a first level of one node.
LEMMA HeightFacts ==
    ASSUME NEW leaves, IsList(leaves), Len(leaves) # 0
    PROVE  /\ Height(leaves) \in 0..Len(leaves)
           /\ Len(Levels(leaves)[Height(leaves)]) = 1
           /\ \A lower \in 0..(Height(leaves) - 1) : Len(Levels(leaves)[lower]) > 1
<1> DEFINE n == Len(leaves)
           One == {k \in 0..n : Len(Levels(leaves)[k]) = 1}
<1>1. n \in Nat /\ n \in 0..n
  BY ListFacts
<1>2. Len(Levels(leaves)[n]) \in Nat \ {0} /\ (Len(Levels(leaves)[n]) = 1 \/ Len(Levels(leaves)[n]) + n <= n)
  BY <1>1, LevelLengths
<1>3. n \in One
  BY <1>1, <1>2
<1>4. PICK h \in One : \A k \in One : h <= k
  <2>1. One \subseteq Nat /\ One # {}
    BY <1>1, <1>3
  <2>2. Min(One) \in One /\ \A k \in One : Min(One) <= k
    <3> HIDE DEF One
    <3> QED
      BY <2>1, MinInNat
  <2> QED
    BY <2>2
<1>5. \A lower \in 0..(h - 1) : Len(Levels(leaves)[lower]) > 1
  <2>1. TAKE lower \in 0..(h - 1)
  <2>2. lower \in 0..n /\ ~(h <= lower)
    BY <1>1
  <2>3. Len(Levels(leaves)[lower]) # 1
    BY <1>4, <2>2
  <2>4. Len(Levels(leaves)[lower]) \in Nat \ {0}
    BY <2>2, LevelLengths
  <2>5. ASSUME NEW m \in Nat \ {0}, m # 1
        PROVE  m > 1
    BY <2>5
  <2> QED
    BY <2>3, <2>4, <2>5
<1> DEFINE Stops(k) == /\ Len(Levels(leaves)[k]) = 1
                       /\ \A lower \in 0..(k - 1) : Len(Levels(leaves)[lower]) > 1
<1>6. h \in 0..n /\ Stops(h)
  BY <1>5
<1>7. Height(leaves) = CHOOSE k \in 0..n : Stops(k)
  BY DEF Height
<1>8. Height(leaves) \in 0..n /\ Stops(Height(leaves))
  <2> HIDE DEF Stops
  <2> QED
    BY <1>6, <1>7
<1> QED
  BY <1>8

\* The ancestor of a leaf is on the level, whichever level it is.
LEMMA AncestorOnLevel ==
    ASSUME NEW leaves, IsList(leaves), Len(leaves) # 0, NEW i \in 1..Len(leaves),
           NEW h \in 0..Len(leaves)
    PROVE  \A k \in 0..h : Ancestors(i, h)[k] \in 1..Len(Levels(leaves)[k])
<1> DEFINE L == Levels(leaves)
           cur == Ancestors(i, h)
           On(k) == cur[k] \in 1..Len(L[k])
           Good == {k \in Nat : k <= h => On(k)}
<1>1. Len(leaves) \in Nat /\ h \in Nat
  BY ListFacts
<1>2. L[0] = leaves /\ \A k \in 1..Len(leaves) : L[k] = Parents(L[k - 1])
  BY <1>1, LevelsDef
<1>3. cur[0] = i /\ \A k \in 1..h : cur[k] = (cur[k - 1] + 1) \div 2
  BY <1>1, AncestorsDef
<1>4. 0 \in Good
  BY <1>2, <1>3
<1>5. ASSUME NEW k \in Nat, k \in Good
      PROVE  k + 1 \in Good
  <2>1. CASE k + 1 <= h
    <3>1. k <= h /\ k + 1 \in 1..h /\ k + 1 \in 1..Len(leaves) /\ (k + 1) - 1 = k /\ k \in 0..Len(leaves)
      BY <1>1, <2>1
    <3>2. On(k) /\ L[k + 1] = Parents(L[k]) /\ cur[k + 1] = (cur[k] + 1) \div 2
      BY <1>2, <1>3, <1>5, <3>1
    <3>3. IsList(L[k]) /\ Len(L[k]) \in Nat
      BY <3>1, LevelLengths
    <3>4. Len(L[k + 1]) = (Len(L[k]) + 1) \div 2
      BY <3>2, <3>3, ParentsLength
    <3>5. ASSUME NEW c \in Nat, NEW m \in Nat, c \in 1..m
          PROVE  (c + 1) \div 2 \in 1..((m + 1) \div 2)
      BY <3>5
    <3>6. cur[k] \in Nat /\ cur[k] \in 1..Len(L[k])
      BY <3>2, <3>3
    <3>7. (cur[k] + 1) \div 2 \in 1..((Len(L[k]) + 1) \div 2)
      <4> HIDE DEF L, cur
      <4> QED
        BY <3>3, <3>5, <3>6
    <3>8. On(k + 1)
      BY <3>2, <3>4, <3>7
    <3> QED
      <4> HIDE DEF On
      <4> QED
        BY <3>8
  <2>2. CASE ~(k + 1 <= h)
    BY <2>2
  <2> QED
    BY <2>1, <2>2
<1>6. \A k \in Nat : k \in Good
  <2> HIDE DEF Good
  <2> QED
    BY <1>4, <1>5, SetInduction
<1>7. \A k \in 0..h : On(k)
  <2> HIDE DEF On
  <2> QED
    BY <1>1, <1>6
<1> QED
  BY <1>7

\* One step up: a node and its sibling, in the order their places say, hash to
\* the node above.
LEMMA OneLevelUp ==
    ASSUME NEW l, IsList(l), NEW c \in 1..Len(l)
    PROVE  Parents(l)[(c + 1) \div 2] =
              IF c % 2 = 1 THEN HashPair(l[c], Sibling(l, c)) ELSE HashPair(Sibling(l, c), l[c])
<1> DEFINE up == (c + 1) \div 2
<1>1. Len(l) \in Nat /\ c \in Nat /\ 1 <= c /\ c <= Len(l)
  BY ListFacts
<1>2. up \in 1..Len(Parents(l))
  <2>1. up \in 1..((Len(l) + 1) \div 2)
    BY <1>1
  <2> QED
    BY <2>1, ParentsLength
<1>3. Parents(l)[up] = HashPair(l[2 * up - 1], NodeOrLast(l, 2 * up))
  BY <1>2, ParentsLength
<1>4. CASE c % 2 = 1
  <2>1. 2 * up - 1 = c /\ 2 * up = c + 1
    BY <1>1, <1>4
  <2> QED
    BY <1>3, <1>4, <2>1 DEF Sibling
<1>5. CASE c % 2 # 1
  <2>1. 2 * up - 1 = c - 1 /\ 2 * up = c
    BY <1>1, <1>5
  <2>2. NodeOrLast(l, c) = l[c]
    BY <1>1 DEF NodeOrLast
  <2> QED
    BY <1>3, <1>5, <2>1, <2>2 DEF Sibling
<1> QED
  BY <1>4, <1>5

\* Digests do not collide.
LEMMA HashPairInjective ==
    ASSUME NEW a, NEW b, NEW c, NEW d, HashPair(a, b) = HashPair(c, d)
    PROVE  a = c /\ b = d
<1>1. HashPair(a, b).left = a /\ HashPair(a, b).right = b
  BY DEF HashPair
<1>2. HashPair(c, d).left = c /\ HashPair(c, d).right = d
  BY DEF HashPair
<1> QED
  BY <1>1, <1>2

-----------------------------------------------------------------------------
\* Inclusion

\* The siblings of leaf i are as many as there are levels below the root.
LEMMA InclusionLength ==
    ASSUME NEW leaves, IsList(leaves), Len(leaves) # 0, NEW i \in 1..Len(leaves)
    PROVE  /\ Len(Inclusion(leaves)[i]) = Height(leaves)
           /\ \A k \in 1..Height(leaves) :
                 Inclusion(leaves)[i][k] =
                    Sibling(Levels(leaves)[k - 1], Ancestors(i, Height(leaves))[k - 1])
<1> DEFINE s == Inclusion(leaves)[i]
           h == Height(leaves)
<1>1. h \in Nat
  BY HeightFacts, ListFacts
<1>2. DOMAIN leaves = 1..Len(leaves)
  BY ListFacts
<1>3. s = [k \in 1..h |-> Sibling(Levels(leaves)[k - 1], Ancestors(i, h)[k - 1])]
  BY <1>2 DEF Inclusion
<1>4. s = [k \in 1..h |-> s[k]]
  BY <1>3
<1>5. Len(s) = h
  <2> HIDE DEF s
  <2> QED
    BY <1>1, <1>4, ListLength
<1> QED
  BY <1>3, <1>5

\* From the leaf at its own index, a client computes the ancestors of the leaf.
LEMMA RecomputedFromOwnLeaf ==
    ASSUME NEW leaves, IsList(leaves), Len(leaves) # 0, NEW i \in 1..Len(leaves), NEW node,
           node[0] = leaves[i],
           Climbs(node, Height(leaves), Ancestors(i, Height(leaves)), Inclusion(leaves)[i])
    PROVE  \A k \in 0..Height(leaves) :
              node[k] = Levels(leaves)[k][Ancestors(i, Height(leaves))[k]]
<1> DEFINE h == Height(leaves)
           cur == Ancestors(i, h)
           L == Levels(leaves)
           Own(k) == node[k] = L[k][cur[k]]
           Good == {k \in Nat : k <= h => Own(k)}
<1>1. Len(leaves) \in Nat /\ h \in Nat /\ h <= Len(leaves)
  BY HeightFacts, ListFacts
<1>2. L[0] = leaves /\ \A k \in 1..h : L[k] = Parents(L[k - 1])
  BY <1>1, LevelsDef
<1>3. cur[0] = i /\ \A k \in 1..h : cur[k] = (cur[k - 1] + 1) \div 2
  BY <1>1, AncestorsDef
<1>4. 0 \in Good
  BY <1>2, <1>3
<1>5. ASSUME NEW k \in Nat, k \in Good
      PROVE  k + 1 \in Good
  <2>1. CASE k + 1 <= h
    <3>1. /\ k <= h /\ k + 1 \in 1..h /\ (k + 1) - 1 = k
          /\ k \in 0..Len(leaves) /\ k \in 0..h /\ h \in 0..Len(leaves)
      BY <1>1, <2>1
    <3>2. Own(k) /\ L[k + 1] = Parents(L[k]) /\ cur[k + 1] = (cur[k] + 1) \div 2
      BY <1>2, <1>3, <1>5, <3>1
    <3>3. IsList(L[k]) /\ cur[k] \in 1..Len(L[k])
      BY <3>1, LevelLengths, AncestorOnLevel
    <3>4. Inclusion(leaves)[i][k + 1] = Sibling(L[k], cur[k])
      BY <3>1, InclusionLength
    <3>5. node[k + 1] = IF cur[k] % 2 = 1 THEN HashPair(node[k], Sibling(L[k], cur[k]))
                        ELSE HashPair(Sibling(L[k], cur[k]), node[k])
      BY <3>1, <3>4 DEF Climbs
    <3>6. L[k + 1][cur[k + 1]] = IF cur[k] % 2 = 1 THEN HashPair(L[k][cur[k]], Sibling(L[k], cur[k]))
                                 ELSE HashPair(Sibling(L[k], cur[k]), L[k][cur[k]])
      <4> HIDE DEF L, cur
      <4> QED
        BY <3>2, <3>3, OneLevelUp
    <3>7. Own(k + 1)
      <4> HIDE DEF L, cur
      <4> QED
        BY <3>2, <3>5, <3>6
    <3> QED
      <4> HIDE DEF Own
      <4> QED
        BY <3>7
  <2>2. CASE ~(k + 1 <= h)
    BY <2>2
  <2> QED
    BY <2>1, <2>2
<1>6. \A k \in Nat : k \in Good
  <2> HIDE DEF Good
  <2> QED
    BY <1>4, <1>5, SetInduction
<1>7. \A k \in 0..h : Own(k)
  <2> HIDE DEF Own
  <2> QED
    BY <1>1, <1>6
<1> QED
  BY <1>7

\* Two leaves that lead to one root along one path are the same.
LEMMA OnePathOneLeaf ==
    ASSUME NEW h \in Nat, NEW cur, NEW siblings, NEW a, NEW b,
           Climbs(a, h, cur, siblings), Climbs(b, h, cur, siblings), a[h] = b[h]
    PROVE  a[0] = b[0]
<1> DEFINE Good == {k \in Nat : k <= h /\ a[0] # b[0] => a[k] # b[k]}
<1>1. 0 \in Good
  OBVIOUS
<1>2. ASSUME NEW k \in Nat, k \in Good
      PROVE  k + 1 \in Good
  <2>1. SUFFICES ASSUME k + 1 <= h, a[0] # b[0]
                 PROVE  a[k + 1] # b[k + 1]
    OBVIOUS
  <2>2. k + 1 \in 1..h /\ (k + 1) - 1 = k /\ k <= h
    BY <2>1
  <2>3. a[k] # b[k]
    BY <1>2, <2>1, <2>2
  <2>4. CASE cur[k] % 2 = 1
    <3>1. a[k + 1] = HashPair(a[k], siblings[k + 1]) /\ b[k + 1] = HashPair(b[k], siblings[k + 1])
      BY <2>2, <2>4 DEF Climbs
    <3> QED
      BY <2>3, <3>1, HashPairInjective
  <2>5. CASE cur[k] % 2 # 1
    <3>1. a[k + 1] = HashPair(siblings[k + 1], a[k]) /\ b[k + 1] = HashPair(siblings[k + 1], b[k])
      BY <2>2, <2>5 DEF Climbs
    <3> QED
      BY <2>3, <3>1, HashPairInjective
  <2> QED
    BY <2>4, <2>5
<1>3. h \in Good
  <2> HIDE DEF Good
  <2> QED
    BY <1>1, <1>2, SetInduction
<1> QED
  BY <1>3

\* What an answer lists is a list.
AnswerList == IsList(response.assertions)

\* The leaves of a list are a list.
LEMMA LeavesList ==
    ASSUME NEW list, IsList(list)
    PROVE  IsList(Leaves(list))
<1>1. DOMAIN list = 1..Len(list) /\ Len(list) \in Nat
  BY ListFacts
<1>2. Leaves(list) = [i \in 1..Len(list) |-> Leaves(list)[i]]
  BY <1>1 DEF Leaves
<1> QED
  BY <1>1, <1>2 DEF IsList

\* A sequence is a list.
LEMMA SequenceIsList ==
    ASSUME NEW S, NEW s \in Seq(S)
    PROVE  IsList(s)
  BY DEF IsList

\* Only Render answers with assertions, and they are those of the execution.
LEMMA NextAnswerList ==
    ASSUME LineageInv, AnswerList, [Next]_vars
    PROVE  AnswerList'
<1>1. CASE UNCHANGED response
  BY <1>1 DEF AnswerList
<1>2. ASSUME NEW resp, Answer(resp), IsList(resp.assertions)
      PROVE  AnswerList'
  BY <1>2 DEF Answer, AnswerList
<1>3. IsList(<<>>)
  <2>1. <<>> \in Seq({})
    OBVIOUS
  <2> QED
    BY <2>1, SequenceIsList
<1>4. ASSUME NEW codes, RejectWith(codes)
      PROVE  AnswerList'
  <2>1. PICK c \in codes : Answer([Pending EXCEPT !.status = "REJECTED", !.code = c])
    BY <1>4 DEF RejectWith
  <2> QED
    BY <1>2, <1>3, <2>1 DEF Pending
<1>5. ASSUME NEW h, Stall(h)
      PROVE  AnswerList'
  BY <1>2, <1>3, <1>5 DEF Stall, Pending
<1>6. ASSUME Render
      PROVE  AnswerList'
  <2>1. IsList(assertions)
    BY SequenceIsList DEF LineageInv
  <2> QED
    BY <1>2, <1>4, <1>6, <2>1 DEF Render, Pending
<1>7. ASSUME NEW faults, NEW d, NEW c, Verify(faults, d, c)
      PROVE  AnswerList'
  BY <1>1, <1>4, <1>7 DEF Verify
<1>8. ASSUME NEW faults, NEW register, Conclude(faults, register)
      PROVE  AnswerList'
  BY <1>1, <1>4, <1>8 DEF Conclude, Store
<1>9. CASE Accept \/ CheckOut \/ FinishCheck
  BY <1>1, <1>4, <1>9 DEF Accept, CheckOut, FinishCheck
<1>10. CASE CheckFetch \/ CheckSelector \/ CheckUnary \/ CheckJoin \/ CheckAssert
  BY <1>7, <1>10 DEF CheckFetch, CheckSelector, CheckUnary, CheckJoin, CheckAssert
<1>11. CASE ExecFetch
  BY <1>4, <1>5, <1>8, <1>11 DEF ExecFetch
<1>12. CASE ExecApplySelector \/ ExecResolve \/ ExecFilter \/ ExecJoin \/ ExecProject
  BY <1>8, <1>12 DEF ExecApplySelector, ExecResolve, ExecFilter, ExecJoin, ExecProject
<1>13. CASE ExecAssert
  BY <1>1, <1>4, <1>13 DEF ExecAssert, Store
<1>14. CASE Answered \/ UNCHANGED vars
  BY <1>1, <1>14 DEF Answered, vars
<1> QED
  BY <1>6, <1>9, <1>10, <1>11, <1>12, <1>13, <1>14 DEF Next

\* For every list: the proof at an index leads from a leaf to the root if and
\* only if it is the leaf at that index.
THEOREM EveryProofProves ==
    ASSUME NEW leaves, IsList(leaves), NEW i \in DOMAIN leaves, NEW j \in DOMAIN leaves
    PROVE  (Recomputed(leaves[j], i, Inclusion(leaves)[i]) = SemanticRoot(leaves))
              <=> (leaves[j] = leaves[i])
<1> DEFINE h == Height(leaves)
           s == Inclusion(leaves)[i]
           cur == Ancestors(i, h)
<1>1. /\ Len(leaves) \in Nat /\ Len(leaves) # 0 /\ leaves # <<>>
      /\ i \in 1..Len(leaves) /\ j \in 1..Len(leaves)
  BY ListFacts
<1>2. h \in 0..Len(leaves) /\ h \in Nat /\ Len(Levels(leaves)[h]) = 1
  BY <1>1, HeightFacts
<1>3. Len(s) = h
  BY <1>1, InclusionLength
<1>4. ASSUME NEW leaf
      PROVE  \E a : a[0] = leaf /\ a[h] = Recomputed(leaf, i, s) /\ Climbs(a, h, cur, s)
  <2>1. \E a : /\ a[0] = leaf /\ a[Len(s)] = Recomputed(leaf, i, s)
               /\ Climbs(a, Len(s), Ancestors(i, Len(s)), s)
    <3> HIDE DEF s, h
    <3> QED
      BY <1>2, <1>3, RecomputedDef
  <2> HIDE DEF s
  <2> QED
    BY <1>3, <2>1
<1>5. PICK a : a[0] = leaves[i] /\ a[h] = Recomputed(leaves[i], i, s) /\ Climbs(a, h, cur, s)
  BY <1>4
<1>6. PICK b : b[0] = leaves[j] /\ b[h] = Recomputed(leaves[j], i, s) /\ Climbs(b, h, cur, s)
  BY <1>4
<1>7. a[h] = SemanticRoot(leaves)
  <2>1. a[h] = Levels(leaves)[h][cur[h]]
    BY <1>1, <1>2, <1>5, RecomputedFromOwnLeaf
  <2>2. cur[h] \in 1..Len(Levels(leaves)[h])
    <3>1. h \in 0..h
      BY <1>2
    <3> HIDE DEF h
    <3> QED
      BY <1>1, <1>2, <3>1, AncestorOnLevel
  <2>3. cur[h] = 1
    <3> HIDE DEF cur, h
    <3> QED
      BY <1>2, <2>2
  <2> QED
    BY <1>1, <2>1, <2>3 DEF SemanticRoot
<1>8. ASSUME b[h] = a[h]
      PROVE  b[0] = a[0]
  <2> HIDE DEF s, h, cur
  <2> QED
    BY <1>2, <1>5, <1>6, <1>8, OnePathOneLeaf
<1> QED
  BY <1>5, <1>6, <1>7, <1>8

\* For every request: the inclusion proofs of an answer prove its assertions.
THEOREM InclusionTheorem == Spec => []InclusionProves
<1>1. AnswerList => InclusionProves
  <2>1. SUFFICES ASSUME AnswerList, response.status = "OK"
                 PROVE  InclusionProves
    BY DEF InclusionProves
  <2> DEFINE leaves == Leaves(response.assertions)
  <2>2. IsList(leaves)
    BY <2>1, LeavesList DEF AnswerList
  <2> HIDE DEF leaves
  <2>3. \A i \in DOMAIN leaves, j \in DOMAIN leaves :
           (Recomputed(leaves[j], i, Inclusion(leaves)[i]) = SemanticRoot(leaves))
              <=> (leaves[j] = leaves[i])
    BY <2>2, EveryProofProves
  <2> QED
    BY <2>3 DEF InclusionProves, leaves
<1>2. Init => AnswerList
  <2>1. <<>> \in Seq({})
    OBVIOUS
  <2>2. IsList(<<>>)
    BY <2>1, SequenceIsList
  <2>3. Pending.assertions = <<>>
    BY DEF Pending
  <2> QED
    BY <2>2, <2>3 DEF Init, AnswerList
<1>3. LineageInv /\ AnswerList /\ [Next]_vars => AnswerList'
  BY NextAnswerList
<1> QED
  BY <1>1, <1>2, <1>3, LineageCorrect, PTL DEF Spec

-----------------------------------------------------------------------------
\* What the root determines

\* The shapes of the trees over two lists of one length are the same.
LEMMA SameShape ==
    ASSUME NEW a, IsList(a), NEW b, IsList(b), Len(a) = Len(b), Len(a) # 0
    PROVE  \A k \in 0..Len(a) : Len(Levels(a)[k]) = Len(Levels(b)[k])
<1> DEFINE n == Len(a)
           Same(k) == Len(Levels(a)[k]) = Len(Levels(b)[k])
           Good == {k \in Nat : k <= n => Same(k)}
<1>1. /\ n \in Nat /\ Levels(a)[0] = a /\ Levels(b)[0] = b
      /\ \A k \in 1..n : /\ Levels(a)[k] = Parents(Levels(a)[k - 1])
                         /\ Levels(b)[k] = Parents(Levels(b)[k - 1])
  BY ListFacts, LevelsDef
<1>2. 0 \in Good
  BY <1>1
<1>3. ASSUME NEW k \in Nat, k \in Good
      PROVE  k + 1 \in Good
  <2>1. CASE k + 1 <= n
    <3>1. k <= n /\ k + 1 \in 1..n /\ (k + 1) - 1 = k /\ k \in 0..n
      BY <1>1, <2>1
    <3>2. Same(k) /\ Levels(a)[k + 1] = Parents(Levels(a)[k]) /\ Levels(b)[k + 1] = Parents(Levels(b)[k])
      BY <1>1, <1>3, <3>1
    <3>3. IsList(Levels(a)[k]) /\ IsList(Levels(b)[k])
      BY <3>1, LevelLengths
    <3>4. Same(k + 1)
      BY <3>2, <3>3, ParentsLength
    <3> QED
      <4> HIDE DEF Same
      <4> QED
        BY <3>4
  <2>2. CASE ~(k + 1 <= n)
    BY <2>2
  <2> QED
    BY <2>1, <2>2
<1>4. \A k \in Nat : k \in Good
  <2> HIDE DEF Good
  <2> QED
    BY <1>2, <1>3, SetInduction
<1>5. \A k \in 0..n : Same(k)
  <2> HIDE DEF Same
  <2> QED
    BY <1>1, <1>4
<1> QED
  BY <1>5

\* So they are equally high.
LEMMA SameHeight ==
    ASSUME NEW a, IsList(a), NEW b, IsList(b), Len(a) = Len(b), Len(a) # 0
    PROVE  Height(a) = Height(b)
<1>1. Len(a) \in Nat
  BY ListFacts
<1>2. /\ Height(a) \in 0..Len(a) /\ Len(Levels(a)[Height(a)]) = 1
      /\ Height(b) \in 0..Len(a) /\ Len(Levels(b)[Height(b)]) = 1
      /\ \A lower \in 0..(Height(a) - 1) : Len(Levels(a)[lower]) > 1
      /\ \A lower \in 0..(Height(b) - 1) : Len(Levels(b)[lower]) > 1
  BY HeightFacts
<1>3. Len(Levels(a)[Height(b)]) = 1 /\ Len(Levels(b)[Height(a)]) = 1
  BY <1>2, SameShape
<1>4. ~(1 > 1)
  OBVIOUS
<1>5. Height(b) \notin 0..(Height(a) - 1) /\ Height(a) \notin 0..(Height(b) - 1)
  BY <1>2, <1>3, <1>4
<1> QED
  BY <1>1, <1>2, <1>5

\* Digests do not collide, level by level: what was hashed in pairs is known.
LEMMA ParentsInjective ==
    ASSUME NEW a, IsList(a), NEW b, IsList(b), Len(a) = Len(b), Parents(a) = Parents(b)
    PROVE  a = b
<1>1. /\ Len(a) \in Nat /\ a = [i \in 1..Len(a) |-> a[i]] /\ b = [i \in 1..Len(a) |-> b[i]]
  BY ListFacts
<1>2. ASSUME NEW i \in 1..Len(a)
      PROVE  a[i] = b[i]
  <2> DEFINE up == (i + 1) \div 2
  <2>1. up \in 1..Len(Parents(a)) /\ up \in 1..Len(Parents(b))
    <3>1. up \in 1..((Len(a) + 1) \div 2)
      BY <1>1
    <3> QED
      BY <3>1, ParentsLength
  <2>2. HashPair(a[2 * up - 1], NodeOrLast(a, 2 * up)) = HashPair(b[2 * up - 1], NodeOrLast(b, 2 * up))
    <3> HIDE DEF up
    <3> QED
      BY <2>1, ParentsLength
  <2>3. a[2 * up - 1] = b[2 * up - 1] /\ NodeOrLast(a, 2 * up) = NodeOrLast(b, 2 * up)
    <3> HIDE DEF up
    <3> QED
      BY <2>2, HashPairInjective
  <2>4. 2 * up - 1 = i \/ 2 * up = i
    <3>1. \A k \in Nat : 2 * ((k + 1) \div 2) - 1 = k \/ 2 * ((k + 1) \div 2) = k
      OBVIOUS
    <3>2. i \in Nat
      BY <1>1
    <3> QED
      BY <3>1, <3>2
  <2>5. NodeOrLast(a, i) = a[i] /\ NodeOrLast(b, i) = b[i]
    BY <1>1 DEF NodeOrLast
  <2> QED
    <3> HIDE DEF up
    <3> QED
      BY <2>3, <2>4, <2>5
<1> QED
  BY <1>1, <1>2

\* Equal nodes on one level are over equal leaves.
LEMMA LevelDeterminesLeaves ==
    ASSUME NEW a, IsList(a), NEW b, IsList(b), Len(a) = Len(b), Len(a) # 0,
           NEW h \in 0..Len(a), Levels(a)[h] = Levels(b)[h]
    PROVE  a = b
<1> DEFINE Good == {k \in Nat : k <= h /\ Levels(a)[k] = Levels(b)[k] => a = b}
<1>1. /\ Len(a) \in Nat /\ h \in Nat /\ h <= Len(a) /\ Levels(a)[0] = a /\ Levels(b)[0] = b
      /\ \A k \in 1..Len(a) : /\ Levels(a)[k] = Parents(Levels(a)[k - 1])
                              /\ Levels(b)[k] = Parents(Levels(b)[k - 1])
  BY ListFacts, LevelsDef
<1>2. 0 \in Good
  BY <1>1
<1>3. ASSUME NEW k \in Nat, k \in Good
      PROVE  k + 1 \in Good
  <2>1. SUFFICES ASSUME k + 1 <= h, Levels(a)[k + 1] = Levels(b)[k + 1]
                 PROVE  a = b
    OBVIOUS
  <2>2. k <= h /\ k + 1 \in 1..Len(a) /\ (k + 1) - 1 = k /\ k \in 0..Len(a)
    BY <1>1, <2>1
  <2>3. Parents(Levels(a)[k]) = Parents(Levels(b)[k])
    BY <1>1, <2>1, <2>2
  <2>4. /\ IsList(Levels(a)[k]) /\ IsList(Levels(b)[k])
        /\ Len(Levels(a)[k]) = Len(Levels(b)[k])
    BY <2>2, LevelLengths, SameShape
  <2>5. Levels(a)[k] = Levels(b)[k]
    BY <2>3, <2>4, ParentsInjective
  <2> QED
    BY <1>3, <2>2, <2>5
<1>4. h \in Good
  <2> HIDE DEF Good
  <2> QED
    BY <1>1, <1>2, <1>3, SetInduction
<1> QED
  BY <1>1, <1>4

\* The semantic root binds the answer: two answers of as many assertions that
\* have one root are assertion by assertion the same, in the same order.  The
\* number has to be known, since an odd level pairs its last node with itself.
THEOREM RootDeterminesAnswer ==
    ASSUME NEW a, IsList(a), NEW b, IsList(b), Len(a) = Len(b),
           SemanticRoot(Leaves(a)) = SemanticRoot(Leaves(b))
    PROVE  a = b
<1> DEFINE n == Len(a)
           la == Leaves(a)
           lb == Leaves(b)
<1>1. n \in Nat /\ a = [i \in 1..n |-> a[i]] /\ b = [i \in 1..n |-> b[i]]
  BY ListFacts
<1>2. la = [i \in 1..n |-> Leaf(a[i])] /\ lb = [i \in 1..n |-> Leaf(b[i])]
  BY <1>1 DEF Leaves
<1>3. /\ IsList(la) /\ IsList(lb) /\ Len(la) = n /\ Len(lb) = n
  <2>1. la = [i \in 1..n |-> la[i]] /\ lb = [i \in 1..n |-> lb[i]]
    BY <1>2
  <2> HIDE DEF la, lb, n
  <2> QED
    BY <1>1, <2>1, ListLength DEF IsList
<1>4. CASE n = 0
  BY <1>1, <1>4
<1>5. CASE n # 0
  <2> HIDE DEF la, lb, n
  <2>1. /\ Height(la) \in 0..n /\ Height(lb) \in 0..n
        /\ Len(Levels(la)[Height(la)]) = 1 /\ Len(Levels(lb)[Height(lb)]) = 1
    BY <1>3, <1>5, HeightFacts
  <2>2. Height(la) = Height(lb)
    BY <1>3, <1>5, SameHeight
  <2>3. /\ IsList(Levels(la)[Height(la)]) /\ IsList(Levels(lb)[Height(lb)])
    BY <1>3, <1>5, <2>1, LevelLengths
  <2>4. la # <<>> /\ lb # <<>>
    BY <1>3, <1>5
  <2>5. Levels(la)[Height(la)][1] = Levels(lb)[Height(lb)][1]
    BY <2>4 DEF SemanticRoot, la, lb
  <2>6. Levels(la)[Height(la)] = Levels(lb)[Height(la)]
    <3>1. ASSUME NEW l, NEW m, IsList(l), IsList(m), Len(l) = 1, Len(m) = 1, l[1] = m[1]
          PROVE  l = m
      <4>1. l = [i \in 1..1 |-> l[i]] /\ m = [i \in 1..1 |-> m[i]]
        BY <3>1, ListFacts
      <4>2. \A i \in 1..1 : l[i] = m[i]
        BY <3>1
      <4> QED
        BY <4>1, <4>2
    <3> QED
      BY <2>1, <2>2, <2>3, <2>5, <3>1
  <2>7. la = lb
    BY <1>3, <1>5, <2>1, <2>6, LevelDeterminesLeaves
  <2>8. \A i \in 1..n : a[i] = b[i]
    <3>1. \A i \in 1..n : la[i].leaf = a[i] /\ lb[i].leaf = b[i]
      BY <1>2 DEF Leaf
    <3> QED
      BY <2>7, <3>1
  <2> QED
    BY <1>1, <2>8
<1> QED
  BY <1>4, <1>5

=============================================================================
