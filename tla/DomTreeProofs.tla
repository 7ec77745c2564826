--------------------------- MODULE DomTreeProofs ---------------------------
(***************************************************************************)
(* Proofs about the document tree, for every world: any number of nodes of *)
(* any kinds and any sequence of calls, until the tree goes astray.        *)
(***************************************************************************)
EXTENDS DomTree, FiniteSetTheorems, WellFoundedInduction, TLAPS

-----------------------------------------------------------------------------
(***************************************************************************)
(* The inductive invariant.  N are the nodes, K their kinds, h the heap and *)
(* Q the attributes that are in a property list.                           *)
(***************************************************************************)
Slot(N) == [N -> N \cup {Nil}]

Heap(N, h) ==
  h \in [parent : Slot(N), next : Slot(N), prev : Slot(N), first : Slot(N),
                last : Slot(N), props : Slot(N), owner : Slot(N), content : [N -> Seq(N)],
                escaped : SUBSET N]

\* next and prev are inverse, and siblings have one parent.
Twins(N, h) ==
  \A x, y \in N : /\ h.next[x] = y <=> h.prev[y] = x
                  /\ h.next[x] = y => h.parent[x] = h.parent[y]

\* Following f leaves every set of nodes: no circle.
Ending(N, f) == \A S \in SUBSET N : S # {} => \E x \in S : f[x] \notin S

\* Q holds whole lists of attributes of elements.
Attributes(N, K, h, Q) ==
  /\ Q \subseteq N
  /\ \A x \in Q : K[x] = "Attribute" /\ h.parent[x] # Nil /\ K[h.parent[x]] = "Element"
  /\ \A x \in N : h.next[x] # Nil => (x \in Q <=> h.next[x] \in Q)

\* The ends of a list are where the parent points.
Heads(N, h, Q) ==
  \A x \in N : h.parent[x] # Nil =>
    /\ h.prev[x] = Nil /\ x \in Q => h.props[h.parent[x]] = x
    /\ h.prev[x] = Nil /\ x \notin Q => h.first[h.parent[x]] = x
    /\ h.next[x] = Nil /\ x \notin Q => h.last[h.parent[x]] = x

PropsHead(N, h, Q) ==
  \A p \in N : h.props[p] # Nil =>
    h.props[p] \in Q /\ h.parent[h.props[p]] = p /\ h.prev[h.props[p]] = Nil

\* A reference that holds an entity of the DTD has no child of its own.
Foreign(N, K, h, p) ==
  /\ K[p] = "EntityRef" /\ h.first[p] # Nil /\ h.last[p] # Nil /\ K[h.last[p]] = "Entity"
  /\ \A x \in N : h.parent[x] # p

Own(h, Q, p) ==
  /\ h.first[p] # Nil /\ h.last[p] # Nil
  /\ h.parent[h.first[p]] = p /\ h.first[p] \notin Q /\ h.prev[h.first[p]] = Nil
  /\ h.parent[h.last[p]] = p /\ h.last[p] \notin Q /\ h.next[h.last[p]] = Nil

ChildEnds(N, K, h, Q) ==
  \A p \in N : (h.first[p] = Nil /\ h.last[p] = Nil) \/ Own(h, Q, p) \/ Foreign(N, K, h, p)

Linked(N, K, h, Q) ==
  /\ Heap(N, h)
  /\ Twins(N, h) /\ Ending(N, h.prev) /\ Ending(N, h.next)
  /\ Attributes(N, K, h, Q) /\ Heads(N, h, Q) /\ PropsHead(N, h, Q) /\ ChildEnds(N, K, h, Q)

\* The children a traversal finds: the node's own, or the entity it holds.
Kids(N, h, Q, p) == {c \in N : (h.parent[c] = p /\ c \notin Q) \/ c = h.first[p]}

\* Every set of nodes has one without children in it: no circle.
Treelike(N, h, Q) ==
  \A S \in SUBSET N : S # {} => \E x \in S : Kids(N, h, Q, x) \cap S = {}

\* No document is in a list.
Roots(N, K, h) == \A x \in N : K[x] = "Document" => h.parent[x] = Nil

-----------------------------------------------------------------------------
(***************************************************************************)
(* Walk: the nodes of a chain, and where it ends.                          *)
(***************************************************************************)
\* A set of natural numbers has a least member.
LEMMA LeastNumber ==
  ASSUME NEW R \in SUBSET Nat, R # {}
  PROVE  \E m \in R : \A n \in R : m <= n
<1>1. IsWellFoundedOn(OpToRel(<, Nat), Nat)
  BY NatLessThanWellFounded
<1>2. PICK m \in R : \A n \in R : ~ (<<n, m>> \in OpToRel(<, Nat))
  BY <1>1, WFMin
<1>3. ASSUME NEW n \in R PROVE m <= n
  <2>1. m \in Nat /\ n \in Nat /\ <<n, m>> \in Nat \X Nat
    OBVIOUS
  <2>2. ~(<<n, m>>[1] < <<n, m>>[2])
    BY <1>2, <2>1 DEF OpToRel
  <2> QED BY <2>1, <2>2
<1> QED BY <1>3

\* Induction up to N over a set.
LEMMA StepByStep ==
  ASSUME NEW N \in Nat, NEW T, 0 \in T, \A k \in 0 .. N - 1 : k \in T => k + 1 \in T
  PROVE  \A k \in 0 .. N : k \in T
<1> DEFINE R == {k \in 0 .. N : k \notin T}
<1> SUFFICES ASSUME R # {} PROVE FALSE
  OBVIOUS
<1>1. R \in SUBSET Nat
  OBVIOUS
<1>2. PICK m \in R : \A n \in R : m <= n
  BY <1>1, LeastNumber
<1>3. m # 0 /\ m - 1 \in 0 .. N - 1 /\ m - 1 \notin R
  BY <1>2
<1> QED BY <1>2, <1>3

\* f begins with a and goes on by g.
Iterates(a, g, n, f) == f = [k \in 0 .. n |-> IF k = 0 THEN a ELSE g[f[k - 1]]]

GoesBy(a, g, n, f) == f[0] = a /\ \A k \in 1 .. n : f[k] = g[f[k - 1]]

\* The recursive functions of Walk and Reached exist.
LEMMA IterationExists ==
  ASSUME NEW a, NEW g, NEW N \in Nat
  PROVE  \E f : Iterates(a, g, N, f)
<1> DEFINE T == {n \in 0 .. N : \E f : Iterates(a, g, n, f)}
<1>1. 0 \in T
  <2> DEFINE f == [k \in 0 .. 0 |-> a]
  <2>1. Iterates(a, g, 0, f)
    BY DEF Iterates
  <2> QED BY <2>1
<1>2. ASSUME NEW n \in 0 .. N - 1, n \in T PROVE n + 1 \in T
  <2>1. PICK f : Iterates(a, g, n, f)
    BY <1>2
  <2>2. /\ n \in Nat /\ f[0] = a
        /\ \A k \in 0 .. n : k # 0 => f[k] = g[f[k - 1]]
    BY <2>1 DEF Iterates
  <2> DEFINE e == [k \in 0 .. n + 1 |-> IF k = n + 1 THEN g[f[n]] ELSE f[k]]
  <2>3. e[n + 1] = g[f[n]] /\ \A k \in 0 .. n : e[k] = f[k]
    BY <2>2
  <2>4. e = [k \in 0 .. n + 1 |-> e[k]]
    OBVIOUS
  <2> HIDE DEF e
  <2>5. ASSUME NEW k \in 0 .. n + 1 PROVE e[k] = IF k = 0 THEN a ELSE g[e[k - 1]]
    <3>1. CASE k = 0
      BY <2>2, <2>3, <3>1
    <3>2. CASE k = n + 1
      <4>1. k - 1 = n /\ k # 0 /\ n \in 0 .. n
        BY <2>2, <3>2
      <4> QED BY <2>3, <3>2, <4>1
    <3>3. CASE k # 0 /\ k # n + 1
      <4>1. k \in 0 .. n /\ k - 1 \in 0 .. n
        BY <2>2, <3>3
      <4> QED BY <2>2, <2>3, <3>3, <4>1
    <3> QED BY <3>1, <3>2, <3>3
  <2>6. Iterates(a, g, n + 1, e)
    BY <2>4, <2>5 DEF Iterates
  <2>7. n + 1 \in 0 .. N
    BY <2>2
  <2> QED BY <2>6, <2>7
<1> HIDE DEF T
<1>3. \A n \in 0 .. N : n \in T
  BY <1>1, <1>2, StepByStep
<1> QED BY <1>3 DEF T

\* An iteration, value by value.
LEMMA IterationGoes ==
  ASSUME NEW a, NEW g, NEW n \in Nat, NEW f, Iterates(a, g, n, f)
  PROVE  GoesBy(a, g, n, f)
<1>1. \A k \in 0 .. n : f[k] = IF k = 0 THEN a ELSE g[f[k - 1]]
  BY DEF Iterates
<1> QED BY <1>1 DEF GoesBy

\* What a walk is: it follows step to the end, or until it must have gone in a circle.
Walked(N, step, x, w) ==
  /\ w \in Seq(N) /\ Len(w) \in 0 .. Cardinality(N) + 1
  /\ x = Nil => Len(w) = 0
  /\ x # Nil => Len(w) >= 1 /\ w[1] = x
  /\ \A i \in 1 .. Len(w) - 1 : w[i + 1] = step[w[i]]
  /\ Len(w) >= 1 => step[w[Len(w)]] = Nil \/ Len(w) = Cardinality(N) + 1

\* Walk is such a walk.
LEMMA WalkIs ==
  ASSUME Nil \notin Node, IsFiniteSet(Node), NEW step \in Slot(Node), NEW x \in Ptr,
         NEW w, w = Walk(step, x)
  PROVE  Walked(Node, step, x, w)
<1> DEFINE C == Cardinality(Node)
           onward == [y \in Ptr |-> IF y = Nil THEN Nil ELSE step[y]]
           at == CHOOSE f : Iterates(x, onward, C, f)
           met == {k \in 0 .. C : at[k] # Nil}
<1>1. C \in Nat
  BY FS_CardinalityType
<1>2. Iterates(x, onward, C, at)
  <2> HIDE DEF onward, C
  <2> QED BY <1>1, IterationExists
<1>3. w = [i \in 1 .. Cardinality(met) |-> at[i - 1]]
  BY DEF Walk, Iterates
<1> HIDE DEF C, at
<1>4. at[0] = x /\ \A k \in 1 .. C : at[k] = onward[at[k - 1]]
  <2> HIDE DEF onward
  <2>1. GoesBy(x, onward, C, at)
    BY <1>1, <1>2, IterationGoes
  <2> QED BY <2>1 DEF GoesBy
<1>5. \A k \in 0 .. C : at[k] \in Ptr
  <2> DEFINE T == {k \in 0 .. C : at[k] \in Ptr}
  <2>1. 0 \in T
    BY <1>1, <1>4
  <2>2. ASSUME NEW k \in 0 .. C - 1, k \in T PROVE k + 1 \in T
    <3>1. k + 1 \in 1 .. C /\ k + 1 \in 0 .. C /\ (k + 1) - 1 = k
      BY <1>1
    <3>2. at[k + 1] = onward[at[k]] /\ at[k] \in Ptr
      BY <1>4, <2>2, <3>1
    <3>3. onward[at[k]] \in Ptr
      BY <3>2 DEF Ptr, Slot
    <3> QED BY <3>1, <3>2, <3>3
  <2> HIDE DEF T
  <2>3. \A k \in 0 .. C : k \in T
    BY <1>1, <2>1, <2>2, StepByStep
  <2> QED BY <2>3 DEF T
<1>6. \A k \in 1 .. C : at[k] = IF at[k - 1] = Nil THEN Nil ELSE step[at[k - 1]]
  <2>1. ASSUME NEW k \in 1 .. C PROVE k - 1 \in 0 .. C
    BY <1>1
  <2> QED BY <1>4, <1>5, <2>1
<1> HIDE DEF onward
<1>7. PICK m \in 0 .. C + 1 : met = 0 .. m - 1
  <2> DEFINE R == {k \in 0 .. C + 1 : k = C + 1 \/ at[k] = Nil}
  <2>1. R \in SUBSET Nat /\ C + 1 \in R
    BY <1>1
  <2>2. PICK m \in R : \A n \in R : m <= n
    BY <2>1, LeastNumber
  <2>3. \A k \in 0 .. C : k < m => at[k] # Nil
    BY <1>1, <2>1, <2>2
  <2>4. \A k \in 0 .. C : k >= m => at[k] = Nil
    <3> DEFINE T == {k \in 0 .. C : k >= m => at[k] = Nil}
    <3>1. 0 \in T
      BY <1>1, <2>1, <2>2
    <3>2. ASSUME NEW k \in 0 .. C - 1, k \in T PROVE k + 1 \in T
      <4>1. k + 1 \in 1 .. C /\ k + 1 \in 0 .. C /\ (k + 1) - 1 = k /\ m \in Nat
        BY <1>1, <2>1
      <4>2. CASE k >= m
        BY <1>6, <3>2, <4>1, <4>2
      <4>3. CASE ~(k >= m)
        BY <1>1, <2>2, <4>1, <4>3
      <4> QED BY <4>2, <4>3
    <3> HIDE DEF T
    <3>3. \A k \in 0 .. C : k \in T
      BY <1>1, <3>1, <3>2, StepByStep
    <3> QED BY <3>3 DEF T
  <2>5. m \in 0 .. C + 1 /\ met = 0 .. m - 1
    BY <1>1, <2>1, <2>2, <2>3, <2>4
  <2> QED BY <2>5
<1>8. m \in Nat /\ Cardinality(met) = m
  <2>1. 0 \in Int /\ m - 1 \in Int /\ m \in Nat
    BY <1>1
  <2>2. Cardinality(0 .. m - 1) = IF 0 > m - 1 THEN 0 ELSE (m - 1) - 0 + 1
    BY <2>1, FS_Interval
  <2>3. Cardinality(0 .. m - 1) = m
    BY <2>1, <2>2
  <2> HIDE DEF met
  <2> QED BY <1>7, <2>1, <2>3
<1>9. \A k \in 0 .. C : (at[k] # Nil <=> k < m)
  BY <1>1, <1>7, <1>8
<1> HIDE DEF met
<1>10. w = [i \in 1 .. m |-> at[i - 1]]
  BY <1>3, <1>8
<1>11. ASSUME NEW i \in 1 .. m PROVE i - 1 \in 0 .. C /\ at[i - 1] \in Node
  BY <1>1, <1>5, <1>8, <1>9 DEF Ptr
<1>12. w \in Seq(Node) /\ Len(w) = m
  BY <1>8, <1>10, <1>11
<1>13. ASSUME NEW i \in 1 .. m - 1 PROVE w[i + 1] = step[w[i]]
  <2>1. i \in 1 .. m /\ i + 1 \in 1 .. m /\ i \in 1 .. C /\ (i + 1) - 1 = i
    BY <1>1, <1>8
  <2>2. w[i + 1] = at[i] /\ w[i] = at[i - 1] /\ at[i - 1] \in Node
    BY <1>10, <1>11, <2>1
  <2> QED BY <1>6, <2>1, <2>2
<1>14. m >= 1 => w[1] = x /\ x # Nil
  BY <1>1, <1>4, <1>8, <1>9, <1>10
<1>15. x # Nil => m >= 1
  BY <1>1, <1>4, <1>8, <1>9
<1>16. m >= 1 => step[w[m]] = Nil \/ m = C + 1
  <2> SUFFICES ASSUME m >= 1, m # C + 1 PROVE step[w[m]] = Nil
    OBVIOUS
  <2>1. m \in 1 .. C /\ m \in 0 .. C /\ m \in 1 .. m /\ ~(m < m)
    BY <1>1, <1>8
  <2>2. w[m] = at[m - 1] /\ at[m - 1] \in Node /\ at[m] = Nil
    BY <1>9, <1>10, <1>11, <2>1
  <2> QED BY <1>6, <2>1, <2>2
<1> QED BY <1>1, <1>7, <1>8, <1>12, <1>13, <1>14, <1>15, <1>16 DEF Walked, C

\* A walk stays in every set of nodes that it cannot leave.
LEMMA WalkStays ==
  ASSUME NEW step \in Slot(Node), NEW x \in Ptr, NEW w, Walked(Node, step, x, w),
         NEW S, x # Nil => x \in S, \A y \in S : step[y] # Nil => step[y] \in S, Nil \notin Node
  PROVE  Elems(w) \subseteq S
<1> DEFINE n == Len(w)
<1>1. n \in Nat /\ DOMAIN w = 1 .. n /\ \A i \in 1 .. n : w[i] \in Node
  BY DEF Walked
<1> DEFINE T == {k \in 0 .. n : k = 0 \/ w[k] \in S}
<1>2. 0 \in T
  BY <1>1
<1>3. ASSUME NEW k \in 0 .. n - 1, k \in T PROVE k + 1 \in T
  <2>1. k + 1 \in 0 .. n /\ k + 1 \in 1 .. n
    BY <1>1
  <2>2. CASE k = 0
    <3>1. n >= 1 /\ k + 1 = 1
      BY <1>1, <2>2
    <3>2. x # Nil /\ w[1] = x
      BY <3>1 DEF Walked
    <3> QED BY <2>1, <3>1, <3>2
  <2>3. CASE k # 0
    <3>1. k \in 1 .. n - 1 /\ w[k] \in S
      BY <1>1, <1>3, <2>3
    <3>2. w[k + 1] = step[w[k]]
      BY <3>1 DEF Walked
    <3>3. w[k + 1] # Nil
      BY <1>1, <2>1
    <3> QED BY <2>1, <3>1, <3>2, <3>3
  <2> QED BY <2>2, <2>3
<1> HIDE DEF T
<1>4. \A k \in 0 .. n : k \in T
  BY <1>1, <1>2, <1>3, StepByStep
<1>5. ASSUME NEW i \in 1 .. n PROVE w[i] \in S
  <2>1. i \in 0 .. n /\ i # 0
    BY <1>1
  <2> QED BY <1>4, <2>1 DEF T
<1> QED BY <1>1, <1>5 DEF Elems

\* A walk meets all that can be met: in a circle it comes back to where it was.
LEMMA WalkCloses ==
  ASSUME Nil \notin Node, IsFiniteSet(Node), NEW step \in Slot(Node), NEW x \in Ptr,
         NEW w, Walked(Node, step, x, w)
  PROVE  /\ Elems(w) \subseteq Node /\ (x # Nil => x \in Elems(w))
         /\ \A y \in Elems(w) : step[y] # Nil => step[y] \in Elems(w)
<1> DEFINE n == Len(w)
           C == Cardinality(Node)
<1>1. n \in Nat /\ DOMAIN w = 1 .. n /\ C \in Nat /\ \A i \in 1 .. n : w[i] \in Node
  <2>1. C \in Nat
    BY FS_CardinalityType
  <2> QED BY <2>1 DEF Walked
<1>2. Elems(w) \subseteq Node /\ \A i \in 1 .. n : w[i] \in Elems(w)
  BY <1>1 DEF Elems
<1>3. x # Nil => x \in Elems(w)
  <2> SUFFICES ASSUME x # Nil PROVE x \in Elems(w)
    OBVIOUS
  <2>1. n >= 1 /\ w[1] = x
    BY DEF Walked
  <2> QED BY <1>1, <1>2, <2>1
<1>4. ASSUME NEW i \in 1 .. n, i < n PROVE step[w[i]] \in Elems(w)
  <2>1. i \in 1 .. n - 1 /\ i + 1 \in 1 .. n
    BY <1>1, <1>4
  <2>2. w[i + 1] = step[w[i]]
    BY <2>1 DEF Walked
  <2> QED BY <1>2, <2>1, <2>2
<1>5. ASSUME n >= 1, step[w[n]] # Nil PROVE step[w[n]] \in Elems(w)
  <2>1. n = C + 1
    BY <1>5 DEF Walked
  <2> DEFINE T == {j \in 1 .. n : \E i \in 1 .. n : i < j /\ w[i] = w[j]}
  <2>2. T # {}
    <3> DEFINE D == 1 .. n
               f == [i \in D |-> w[i]]
    <3>1. IsFiniteSet(D) /\ Cardinality(D) = n
      <4>1. 1 \in Int /\ n \in Int
        BY <1>1
      <4>2. IsFiniteSet(1 .. n) /\ Cardinality(1 .. n) = IF 1 > n THEN 0 ELSE n - 1 + 1
        BY <4>1, FS_Interval
      <4> QED BY <1>1, <1>5, <4>2
    <3>2. f \in [D -> Node] /\ C < n
      BY <1>1, <2>1
    <3> HIDE DEF f, D
    <3>3. \E i, j \in D : i # j /\ f[i] = f[j]
      BY <3>1, <3>2, FS_PigeonHole
    <3>4. PICK i \in D, j \in D : i # j /\ f[i] = f[j]
      BY <3>3
    <3>5. i \in 1 .. n /\ j \in 1 .. n /\ i # j /\ w[i] = w[j]
      BY <3>4 DEF f, D
    <3>6. i < j \/ j < i
      BY <1>1, <3>5
    <3> QED BY <3>5, <3>6
  <2>3. PICK m \in T : \A j \in T : j <= m
    <3> DEFINE R == {k \in 0 .. n : n - k \in T}
    <3>1. R \in SUBSET Nat /\ R # {}
      <4>1. PICK j \in T : TRUE
        BY <2>2
      <4>2. n - j \in 0 .. n /\ n - (n - j) = j
        BY <1>1, <4>1
      <4>3. n - j \in R
        BY <4>1, <4>2
      <4>4. R \in SUBSET Nat
        BY <1>1
      <4> QED BY <4>3, <4>4
    <3> HIDE DEF R
    <3>2. PICK k \in R : \A l \in R : k <= l
      BY <3>1, LeastNumber
    <3>3. k \in 0 .. n /\ n - k \in T
      BY <3>2 DEF R
    <3>4. ASSUME NEW j \in T PROVE j <= n - k
      <4>1. j \in 1 .. n /\ n - j \in 0 .. n /\ n - (n - j) = j
        BY <1>1
      <4>2. n - j \in R
        BY <4>1 DEF R
      <4>3. k <= n - j
        BY <3>2, <4>2
      <4> QED BY <1>1, <3>3, <4>1, <4>3
    <3> QED BY <3>3, <3>4
  <2>4. PICK i \in 1 .. n : i < m /\ w[i] = w[m]
    BY <2>3
  <2>5. m \in 1 .. n /\ i < n
    BY <1>1, <2>3, <2>4
  <2>6. CASE m = n
    BY <1>4, <2>4, <2>5, <2>6
  <2>7. CASE m # n
    <3>1. m \in 1 .. n - 1 /\ i \in 1 .. n - 1 /\ m + 1 \in 1 .. n /\ i + 1 \in 1 .. n /\ i + 1 < m + 1
      <4> HIDE DEF n
      <4>1. i \in 1 .. n /\ m \in Nat /\ i \in Nat
        BY <1>1, <2>4, <2>5
      <4> QED BY <1>1, <2>4, <2>5, <2>7, <4>1
    <3>2. w[m + 1] = step[w[m]] /\ w[i + 1] = step[w[i]]
      BY <3>1 DEF Walked
    <3>3. m + 1 \in T
      BY <2>4, <3>1, <3>2
    <3>4. m + 1 <= m
      BY <2>3, <3>3
    <3> QED BY <1>1, <3>1, <3>4
  <2> QED BY <2>6, <2>7
<1>6. ASSUME NEW y \in Elems(w), step[y] # Nil PROVE step[y] \in Elems(w)
  <2>1. PICK i \in 1 .. n : y = w[i]
    BY <1>1 DEF Elems
  <2> HIDE DEF n
  <2>2. i = n \/ i < n
    BY <1>1, <2>1
  <2>3. n >= 1
    BY <1>1, <2>1
  <2> QED BY <1>4, <1>5, <1>6, <2>1, <2>2, <2>3
<1> QED BY <1>2, <1>3, <1>6

\* Where no circle is, a walk goes to the end.
LEMMA WalkEnds ==
  ASSUME Nil \notin Node, IsFiniteSet(Node), NEW step \in Slot(Node), Ending(Node, step),
         NEW x \in Node, NEW w, Walked(Node, step, x, w)
  PROVE  Tail1(w) \in Elems(w) /\ step[Tail1(w)] = Nil
<1> DEFINE n == Len(w)
<1>1. n \in Nat /\ DOMAIN w = 1 .. n /\ n >= 1 /\ \A i \in 1 .. n : w[i] \in Node
  BY DEF Walked
<1>2. Tail1(w) = w[n] /\ w[n] \in Elems(w)
  BY <1>1 DEF Tail1, Elems
<1>3. SUFFICES ASSUME step[w[n]] # Nil PROVE FALSE
  BY <1>2
<1>4. x \in Ptr
  BY DEF Ptr
<1>5. /\ Elems(w) \subseteq Node
      /\ \A y \in Elems(w) : step[y] # Nil => step[y] \in Elems(w)
  BY <1>4, WalkCloses
<1>6. ASSUME NEW y \in Elems(w) PROVE step[y] # Nil
  <2>1. PICK i \in 1 .. n : y = w[i]
    BY <1>1 DEF Elems
  <2>2. CASE i = n
    BY <1>3, <2>1, <2>2
  <2>3. CASE i # n
    <3>1. i \in 1 .. n - 1 /\ i + 1 \in 1 .. n
      <4> HIDE DEF n
      <4> QED BY <1>1, <2>1, <2>3
    <3>2. w[i + 1] = step[w[i]] /\ w[i + 1] \in Node
      BY <1>1, <3>1 DEF Walked
    <3> QED BY <2>1, <3>2
  <2> QED BY <2>2, <2>3
<1>7. Elems(w) \in SUBSET Node /\ Elems(w) # {}
  BY <1>2, <1>5
<1>8. PICK y \in Elems(w) : step[y] \notin Elems(w)
  BY <1>7 DEF Ending
<1> QED BY <1>5, <1>6, <1>8

NodesOK == Nil \notin Node /\ IsFiniteSet(Node)

\* A list whose members come one after the other from its head is in the walk.
LEMMA WalkCovers ==
  ASSUME NodesOK, NEW step \in Slot(Node), NEW before \in Slot(Node), Ending(Node, before),
         NEW x \in Ptr, NEW w, w = Walk(step, x), NEW L \in SUBSET Node,
         \A y \in L : before[y] = Nil => y = x,
         \A y \in L : before[y] # Nil => before[y] \in L /\ step[before[y]] = y
  PROVE  L \subseteq Elems(w)
<1>1. Walked(Node, step, x, w)
  BY WalkIs DEF NodesOK
<1>2. /\ x # Nil => x \in Elems(w)
      /\ \A y \in Elems(w) : step[y] # Nil => step[y] \in Elems(w)
  BY <1>1, WalkCloses DEF NodesOK
<1> DEFINE S == L \ Elems(w)
<1>3. SUFFICES ASSUME S # {} PROVE FALSE
  OBVIOUS
<1>4. S \in SUBSET Node
  OBVIOUS
<1>5. PICK y \in S : before[y] \notin S
  BY <1>3, <1>4 DEF Ending
<1>6. y \in Node /\ y # Nil
  BY <1>4 DEF NodesOK
<1> QED BY <1>2, <1>5, <1>6

\* The same walk, whole.
LEMMA WalkFacts ==
  ASSUME NodesOK, NEW step \in Slot(Node), NEW x \in Ptr, NEW w, w = Walk(step, x)
  PROVE  /\ Walked(Node, step, x, w) /\ Elems(w) \subseteq Node
         /\ x # Nil => x \in Elems(w)
         /\ \A y \in Elems(w) : step[y] # Nil => step[y] \in Elems(w)
<1>1. Walked(Node, step, x, w)
  BY WalkIs DEF NodesOK
<1> QED BY <1>1, WalkCloses DEF NodesOK

-----------------------------------------------------------------------------
(***************************************************************************)
(* The lists of a heap.                                                    *)
(***************************************************************************)
LEMMA HeapFields ==
  ASSUME NEW N, NEW h, Heap(N, h)
  PROVE  /\ h.parent \in Slot(N) /\ h.next \in Slot(N) /\ h.prev \in Slot(N)
         /\ h.first \in Slot(N) /\ h.last \in Slot(N) /\ h.props \in Slot(N)
         /\ h.owner \in Slot(N) /\ h.content \in [N -> Seq(N)] /\ h.escaped \in SUBSET N
BY DEF Heap

\* Properties(h, e) are the attributes in Q whose parent e is.
LEMMA PropertiesAre ==
  ASSUME NodesOK, NEW h, NEW Q, Linked(Node, Kind, h, Q), NEW e \in Node,
         NEW w, w = Properties(h, e)
  PROVE  /\ Walked(Node, NextAttribute(h), h.props[e], w)
         /\ Elems(w) = {x \in Q : h.parent[x] = e}
         /\ \A x \in Q : NextAttribute(h)[x] = h.next[x]
<1>1. Heap(Node, h) /\ Twins(Node, h) /\ Ending(Node, h.prev) /\ Attributes(Node, Kind, h, Q)
      /\ Heads(Node, h, Q) /\ PropsHead(Node, h, Q)
  BY DEF Linked
<1>2. h.parent \in Slot(Node) /\ h.next \in Slot(Node) /\ h.prev \in Slot(Node) /\ h.props \in Slot(Node)
  BY <1>1, HeapFields
<1> DEFINE step == NextAttribute(h)
           L == {x \in Q : h.parent[x] = e}
           head == h.props[e]
<1>3. step \in Slot(Node)
  BY <1>2 DEF NextAttribute, Slot, Attrs
<1>4. \A x \in Q : x \in Node /\ Kind[x] = "Attribute" /\ h.parent[x] # Nil /\ (h.next[x] # Nil => h.next[x] \in Q)
  BY <1>1 DEF Attributes
<1>5. \A x \in Q : step[x] = h.next[x]
  BY <1>2, <1>4 DEF NextAttribute, Slot, Attrs
<1>6. head \in Ptr
  BY <1>2 DEF Slot, Ptr
<1>7. L \in SUBSET Node
  BY <1>4
<1>8. ASSUME NEW y \in L PROVE h.prev[y] = Nil => y = head
  BY <1>1, <1>4 DEF Heads, NodesOK
<1>9. ASSUME NEW y \in L, h.prev[y] # Nil PROVE h.prev[y] \in L /\ step[h.prev[y]] = y
  <2>1. h.prev[y] \in Node /\ y \in Node
    BY <1>2, <1>4, <1>9 DEF Slot
  <2>2. h.next[h.prev[y]] = y /\ h.parent[h.prev[y]] = e
    BY <1>1, <2>1 DEF Twins
  <2>3. h.prev[y] \in Q
    BY <1>1, <2>1, <2>2 DEF Attributes, NodesOK
  <2> QED BY <1>5, <2>2, <2>3
<1>10. w = Walk(step, head)
  BY DEF Properties
<1>11. head # Nil => head \in L
  BY <1>1 DEF PropsHead
<1>12. ASSUME NEW y \in L, step[y] # Nil PROVE step[y] \in L
  <2>1. y \in Node /\ h.next[y] # Nil /\ h.next[y] \in Q /\ step[y] = h.next[y]
    BY <1>4, <1>5, <1>12
  <2>2. h.next[y] \in Node
    BY <1>4, <2>1
  <2>3. h.parent[h.next[y]] = e
    BY <1>1, <2>1, <2>2 DEF Twins
  <2> QED BY <2>1, <2>3
<1> HIDE DEF step, head, L
<1>13. L \subseteq Elems(w)
  BY <1>1, <1>2, <1>3, <1>6, <1>7, <1>8, <1>9, <1>10, WalkCovers
<1>14. Walked(Node, step, head, w)
  BY <1>3, <1>6, <1>10, WalkFacts
<1>15. Elems(w) \subseteq L
  BY <1>3, <1>6, <1>11, <1>12, <1>14, WalkStays DEF NodesOK
<1> QED BY <1>5, <1>13, <1>14, <1>15 DEF step, head, L

\* IsProperty says which attributes are in Q.
LEMMA PropertyIs ==
  ASSUME NodesOK, NEW h, NEW Q, Linked(Node, Kind, h, Q), NEW x \in Node
  PROVE  IsProperty(h, x) <=> x \in Q
<1>1. Heap(Node, h) /\ Attributes(Node, Kind, h, Q)
  BY DEF Linked
<1>2. h.parent[x] \in Ptr
  BY <1>1, HeapFields DEF Slot, Ptr
<1>3. x \in Q => Kind[x] = "Attribute" /\ h.parent[x] # Nil /\ Kind[h.parent[x]] = "Element"
  BY <1>1 DEF Attributes
<1>4. h.parent[x] # Nil => Elems(Properties(h, h.parent[x])) = {y \in Q : h.parent[y] = h.parent[x]}
  <2> SUFFICES ASSUME h.parent[x] # Nil
               PROVE  Elems(Properties(h, h.parent[x])) = {y \in Q : h.parent[y] = h.parent[x]}
    OBVIOUS
  <2>1. h.parent[x] \in Node
    BY <1>2 DEF Ptr
  <2> QED BY <2>1, PropertiesAre
<1> QED BY <1>2, <1>3, <1>4 DEF IsProperty, Attrs

\* What a child list holds: the children, and no property.
LEMMA ChildrenAre ==
  ASSUME NodesOK, NEW h, NEW Q, Linked(Node, Kind, h, Q), NEW p \in Node
  PROVE  /\ \A x \in Node : h.parent[x] = p /\ x \notin Q => x \in Elems(Walk(h.next, h.first[p]))
         /\ \A x \in Node : h.parent[x] = p /\ x \in Q => x \notin Elems(Walk(h.next, h.first[p]))
<1>1. Heap(Node, h) /\ Twins(Node, h) /\ Ending(Node, h.prev) /\ Attributes(Node, Kind, h, Q)
      /\ Heads(Node, h, Q) /\ ChildEnds(Node, Kind, h, Q)
  BY DEF Linked
<1>2. h.parent \in Slot(Node) /\ h.next \in Slot(Node) /\ h.prev \in Slot(Node) /\ h.first \in Slot(Node)
  BY <1>1, HeapFields
<1> DEFINE head == h.first[p]
           w == Walk(h.next, head)
           L == {x \in Node : h.parent[x] = p /\ x \notin Q}
           R == {x \in Node : x \notin Q}
<1>3. head \in Ptr
  BY <1>2 DEF Slot, Ptr
<1>4. ASSUME NEW y \in L PROVE h.prev[y] = Nil => y = head
  BY <1>1 DEF Heads, NodesOK
<1>5. ASSUME NEW y \in L, h.prev[y] # Nil PROVE h.prev[y] \in L /\ h.next[h.prev[y]] = y
  <2>1. h.prev[y] \in Node /\ y \in Node
    BY <1>2, <1>5 DEF Slot
  <2>2. h.next[h.prev[y]] = y /\ h.parent[h.prev[y]] = p
    BY <1>1, <2>1 DEF Twins
  <2>3. h.prev[y] \notin Q
    BY <1>1, <2>1, <2>2 DEF Attributes, NodesOK
  <2> QED BY <2>1, <2>2, <2>3
<1>6. L \subseteq Elems(w)
  <2>1. L \in SUBSET Node /\ w = Walk(h.next, head)
    OBVIOUS
  <2> HIDE DEF L, w, head
  <2> QED BY <1>1, <1>2, <1>3, <1>4, <1>5, <2>1, WalkCovers
<1>7. ASSUME NEW x \in Node, h.parent[x] = p, x \in Q PROVE x \notin Elems(w)
  <2>1. ~Foreign(Node, Kind, h, p)
    BY <1>7 DEF Foreign
  <2>2. head # Nil => head \in R
    BY <1>1, <1>3, <2>1 DEF ChildEnds, Own, Ptr
  <2>3. ASSUME NEW y \in R, h.next[y] # Nil PROVE h.next[y] \in R
    <3>1. h.next[y] \in Node
      BY <1>2, <2>3 DEF Slot
    <3> QED BY <1>1, <2>3, <3>1 DEF Attributes
  <2>4. Walked(Node, h.next, head, w)
    BY <1>2, <1>3, WalkFacts
  <2>5. Elems(w) \subseteq R
    <3> HIDE DEF R, w, head
    <3> QED BY <1>2, <1>3, <2>2, <2>3, <2>4, WalkStays DEF NodesOK
  <2> QED BY <1>7, <2>5
<1> QED BY <1>6, <1>7

\* What a traversal enumerates are the children.
LEMMA OwnChildrenAre ==
  ASSUME NodesOK, NEW h, NEW Q, Linked(Node, Kind, h, Q), NEW p \in Node
  PROVE  OwnChildren(h, p) = Kids(Node, h, Q, p)
<1>1. Heap(Node, h) /\ Twins(Node, h) /\ Ending(Node, h.prev) /\ Attributes(Node, Kind, h, Q)
      /\ Heads(Node, h, Q) /\ ChildEnds(Node, Kind, h, Q)
  BY DEF Linked
<1>2. h.parent \in Slot(Node) /\ h.next \in Slot(Node) /\ h.prev \in Slot(Node) /\ h.first \in Slot(Node)
  BY <1>1, HeapFields
<1> DEFINE head == h.first[p]
           step == [c \in Node |-> IF h.parent[c] = p THEN h.next[c] ELSE Nil]
           w == Walk(step, head)
           L == {x \in Node : h.parent[x] = p /\ x \notin Q}
           R == Kids(Node, h, Q, p)
<1>3. head \in Ptr /\ step \in Slot(Node)
  BY <1>2 DEF Slot, Ptr
<1>4. OwnChildren(h, p) = Elems(w)
  BY DEF OwnChildren
<1>5. ASSUME NEW y \in L PROVE h.prev[y] = Nil => y = head
  BY <1>1 DEF Heads, NodesOK
<1>6. ASSUME NEW y \in L, h.prev[y] # Nil PROVE h.prev[y] \in L /\ step[h.prev[y]] = y
  <2>1. h.prev[y] \in Node /\ y \in Node
    BY <1>2, <1>6 DEF Slot
  <2>2. h.next[h.prev[y]] = y /\ h.parent[h.prev[y]] = p
    BY <1>1, <2>1 DEF Twins
  <2>3. h.prev[y] \notin Q
    BY <1>1, <2>1, <2>2 DEF Attributes, NodesOK
  <2> QED BY <2>1, <2>2, <2>3
<1>7. L \subseteq Elems(w)
  <2>1. L \in SUBSET Node /\ w = Walk(step, head)
    OBVIOUS
  <2> HIDE DEF L, w, head, step
  <2> QED BY <1>1, <1>2, <1>3, <1>5, <1>6, <2>1, WalkCovers
<1>8. Walked(Node, step, head, w) /\ (head # Nil => head \in Elems(w))
  <2>1. w = Walk(step, head)
    OBVIOUS
  <2> HIDE DEF w, head, step
  <2> QED BY <1>3, <2>1, WalkFacts
<1>9. R \subseteq Elems(w)
  <2>1. R \subseteq L \cup {c \in Node : c = head}
    BY DEF Kids
  <2>2. head \in Node => head # Nil
    BY DEF NodesOK
  <2> HIDE DEF L, w, head, step, R
  <2> QED BY <1>7, <1>8, <2>1, <2>2
<1>10. head # Nil => head \in R
  BY <1>3 DEF Ptr, Kids
<1>11. ASSUME NEW y \in R, step[y] # Nil PROVE step[y] \in R
  <2>1. y \in Node /\ h.parent[y] = p /\ step[y] = h.next[y]
    BY <1>11 DEF Kids
  <2>2. h.next[y] \in Node
    BY <1>2, <1>11, <2>1 DEF Slot
  <2>3. h.parent[h.next[y]] = p
    BY <1>1, <2>1, <2>2 DEF Twins
  <2>4. y \notin Q
    <3>1. CASE y = head
      <4>1. ~Foreign(Node, Kind, h, p)
        BY <2>1 DEF Foreign
      <4>2. h.first[p] # Nil
        BY <2>1, <3>1 DEF NodesOK
      <4> QED BY <1>1, <3>1, <4>1, <4>2 DEF ChildEnds, Own
    <3>2. CASE y # head
      BY <1>11, <3>2 DEF Kids
    <3> QED BY <3>1, <3>2
  <2>5. h.next[y] \notin Q
    BY <1>1, <1>11, <2>1, <2>2, <2>4 DEF Attributes
  <2> QED BY <2>1, <2>2, <2>3, <2>5 DEF Kids
<1>12. Elems(w) \subseteq R
  <2> HIDE DEF R, w, head, step
  <2> QED BY <1>3, <1>8, <1>10, <1>11, WalkStays DEF NodesOK
<1> QED BY <1>4, <1>9, <1>12

-----------------------------------------------------------------------------
(***************************************************************************)
(* What childReaches visits.                                               *)
(***************************************************************************)
Closed(N, h, Q, S) == \A p \in S : Kids(N, h, Q, p) \subseteq S

\* Reached(h, x) is the least set that holds x and the children of its members.
LEMMA ReachedIs ==
  ASSUME NodesOK, NEW h, NEW Q, Linked(Node, Kind, h, Q), NEW x \in Node, NEW R, R = Reached(h, x)
  PROVE  /\ R \in SUBSET Node /\ x \in R /\ Closed(Node, h, Q, R)
         /\ \A S \in SUBSET Node : x \in S /\ Closed(Node, h, Q, S) => R \subseteq S
<1> DEFINE C == Cardinality(Node)
           further == [s \in SUBSET Node |-> s \cup UNION {OwnChildren(h, p) : p \in s}]
           seen == CHOOSE f : Iterates({x}, further, C, f)
           kids(p) == Kids(Node, h, Q, p)
<1>1. C \in Nat
  BY FS_CardinalityType DEF NodesOK
<1>2. Iterates({x}, further, C, seen)
  <2> HIDE DEF further, C
  <2> QED BY <1>1, IterationExists
<1>3. R = seen[C]
  BY DEF Reached, Iterates
<1> HIDE DEF C, seen
<1>4. seen[0] = {x} /\ \A k \in 1 .. C : seen[k] = further[seen[k - 1]]
  <2> HIDE DEF further
  <2>1. GoesBy({x}, further, C, seen)
    BY <1>1, <1>2, IterationGoes
  <2> QED BY <2>1 DEF GoesBy
<1>5. ASSUME NEW p \in Node PROVE OwnChildren(h, p) = kids(p) /\ kids(p) \subseteq Node
  BY OwnChildrenAre DEF Kids
<1>6. ASSUME NEW s \in SUBSET Node
      PROVE  further[s] = s \cup UNION {kids(p) : p \in s} /\ further[s] \in SUBSET Node
  <2>1. {OwnChildren(h, p) : p \in s} = {kids(p) : p \in s}
    BY <1>5
  <2>2. UNION {kids(p) : p \in s} \subseteq Node
    BY <1>5
  <2> QED BY <2>1, <2>2
<1> HIDE DEF further
<1>7. \A k \in 0 .. C : seen[k] \in SUBSET Node /\ x \in seen[k]
  <2> DEFINE T == {k \in 0 .. C : seen[k] \in SUBSET Node /\ x \in seen[k]}
  <2>1. 0 \in T
    BY <1>1, <1>4
  <2>2. ASSUME NEW k \in 0 .. C - 1, k \in T PROVE k + 1 \in T
    <3>1. k + 1 \in 1 .. C /\ k + 1 \in 0 .. C /\ (k + 1) - 1 = k
      BY <1>1
    <3>2. seen[k + 1] = further[seen[k]] /\ seen[k] \in SUBSET Node /\ x \in seen[k]
      BY <1>4, <2>2, <3>1
    <3> QED BY <1>6, <3>1, <3>2
  <2> HIDE DEF T
  <2>3. \A k \in 0 .. C : k \in T
    BY <1>1, <2>1, <2>2, StepByStep
  <2> QED BY <2>3 DEF T
<1>8. ASSUME NEW k \in 0 .. C - 1
      PROVE  /\ k + 1 \in 0 .. C /\ k \in 0 .. C
             /\ seen[k + 1] = seen[k] \cup UNION {kids(p) : p \in seen[k]}
  <2>1. k + 1 \in 1 .. C /\ k + 1 \in 0 .. C /\ (k + 1) - 1 = k /\ k \in 0 .. C
    BY <1>1
  <2>2. seen[k + 1] = further[seen[k]] /\ seen[k] \in SUBSET Node
    BY <1>4, <1>7, <2>1
  <2> QED BY <1>6, <2>1, <2>2
<1>9. ASSUME NEW S \in SUBSET Node, x \in S, Closed(Node, h, Q, S) PROVE R \subseteq S
  <2> DEFINE T == {k \in 0 .. C : seen[k] \subseteq S}
  <2>1. 0 \in T
    BY <1>1, <1>4, <1>9
  <2>2. ASSUME NEW k \in 0 .. C - 1, k \in T PROVE k + 1 \in T
    <3>1. \A p \in seen[k] : kids(p) \subseteq S
      BY <1>9, <2>2 DEF Closed
    <3>2. UNION {kids(p) : p \in seen[k]} \subseteq S
      <4> HIDE DEF kids
      <4> QED BY <3>1
    <3> QED BY <1>8, <2>2, <3>2
  <2> HIDE DEF T
  <2>3. \A k \in 0 .. C : k \in T
    BY <1>1, <2>1, <2>2, StepByStep
  <2>4. C \in 0 .. C
    BY <1>1
  <2> QED BY <1>3, <2>3, <2>4 DEF T
<1>10. Closed(Node, h, Q, R)
  <2> DEFINE T == {k \in 0 .. C : Closed(Node, h, Q, seen[k]) \/ Cardinality(seen[k]) >= k + 1}
  <2>1. 0 \in T
    <3>1. Cardinality(seen[0]) = 1
      BY <1>4, FS_Singleton
    <3> QED BY <1>1, <3>1
  <2>2. ASSUME NEW k \in 0 .. C - 1, k \in T PROVE k + 1 \in T
    <3> DEFINE s == seen[k]
               t == seen[k + 1]
    <3>1. k + 1 \in 0 .. C /\ k \in 0 .. C /\ s \subseteq t /\ t \in SUBSET Node
      BY <1>7, <1>8
    <3>2. CASE Closed(Node, h, Q, s)
      <4>1. UNION {kids(p) : p \in s} \subseteq s
        BY <3>2 DEF Closed
      <4>2. t = s
        BY <1>8, <4>1
      <4> QED BY <3>1, <3>2, <4>2
    <3>3. CASE ~Closed(Node, h, Q, s)
      <4>1. PICK p \in s : ~(kids(p) \subseteq s)
        BY <3>3 DEF Closed
      <4>2. kids(p) \subseteq t
        BY <1>8, <4>1
      <4>3. t # s
        BY <4>1, <4>2
      <4>4. IsFiniteSet(t)
        BY <3>1, FS_Subset DEF NodesOK
      <4>5. Cardinality(s) <= Cardinality(t) /\ Cardinality(t) # Cardinality(s)
        <5>1. s \in SUBSET t
          BY <3>1
        <5> HIDE DEF s, t
        <5> QED BY <4>3, <4>4, <5>1, FS_Subset
      <4>6. IsFiniteSet(s)
        BY <3>1, <4>4, FS_Subset
      <4>7. Cardinality(s) \in Nat /\ Cardinality(t) \in Nat
        BY <4>4, <4>6, FS_CardinalityType
      <4>8. Cardinality(s) >= k + 1
        BY <2>2, <3>3
      <4>9. Cardinality(t) >= (k + 1) + 1
        <5> HIDE DEF s, t
        <5> QED BY <1>1, <4>5, <4>7, <4>8
      <4> QED BY <3>1, <4>9
    <3> QED BY <3>2, <3>3
  <2> HIDE DEF T
  <2>3. \A k \in 0 .. C : k \in T
    BY <1>1, <2>1, <2>2, StepByStep
  <2>4. C \in 0 .. C
    BY <1>1
  <2>5. Closed(Node, h, Q, R) \/ Cardinality(R) >= C + 1
    BY <1>3, <2>3, <2>4 DEF T
  <2>6. R \in SUBSET Node
    BY <1>3, <1>7, <2>4
  <2>7. Cardinality(R) <= C /\ Cardinality(R) \in Nat
    BY <2>6, FS_Subset, FS_CardinalityType DEF NodesOK, C
  <2> QED BY <1>1, <2>5, <2>7
<1>11. R \in SUBSET Node /\ x \in R
  <2>1. C \in 0 .. C
    BY <1>1
  <2> QED BY <1>3, <1>7, <2>1
<1> QED BY <1>9, <1>10, <1>11

\* No node of a tree-like heap is reached from its own children.
LEMMA TreelikeIsAcyclic ==
  ASSUME NodesOK, NEW h, NEW Q, Linked(Node, Kind, h, Q), Treelike(Node, h, Q),
         NEW x \in Node, NEW c \in Kids(Node, h, Q, x)
  PROVE  x \notin Reached(h, c)
<1> SUFFICES ASSUME x \in Reached(h, c) PROVE FALSE
  OBVIOUS
<1> DEFINE D == {y \in Node : x \in Reached(h, y)}
<1>1. c \in Node
  BY DEF Kids
<1>2. c \in D /\ x \in D
  BY <1>1, ReachedIs
<1>3. ASSUME NEW y \in Node, y # x, y \in D PROVE Kids(Node, h, Q, y) \cap D # {}
  <2> SUFFICES ASSUME Kids(Node, h, Q, y) \cap D = {} PROVE FALSE
    OBVIOUS
  <2> DEFINE S == {y} \cup (Node \ D)
  <2>1. ASSUME NEW z \in Node \ D, NEW k \in Kids(Node, h, Q, z) PROVE k \in Node \ D
    <3>1. k \in Node
      BY DEF Kids
    <3>2. k \in Reached(h, z)
      BY ReachedIs DEF Closed
    <3>3. Reached(h, z) \in SUBSET Node /\ Closed(Node, h, Q, Reached(h, z))
      BY ReachedIs
    <3>4. Reached(h, k) \subseteq Reached(h, z)
      BY <3>1, <3>2, <3>3, ReachedIs
    <3> QED BY <3>1, <3>4
  <2>2. Kids(Node, h, Q, y) \subseteq Node \ D
    BY DEF Kids
  <2>3. Closed(Node, h, Q, S) /\ S \in SUBSET Node /\ y \in S
    <3> HIDE DEF D
    <3> QED BY <2>1, <2>2 DEF Closed
  <2>4. Reached(h, y) \subseteq S
    BY <2>3, ReachedIs
  <2>5. x \notin S
    BY <1>2, <1>3
  <2> QED BY <1>3, <2>4, <2>5
<1>4. D \in SUBSET Node /\ D # {}
  BY <1>2
<1>5. PICK y \in D : Kids(Node, h, Q, y) \cap D = {}
  BY <1>4 DEF Treelike
<1>6. y = x
  BY <1>3, <1>4, <1>5
<1> QED BY <1>2, <1>5, <1>6

-----------------------------------------------------------------------------
(***************************************************************************)
(* Unlinking.                                                              *)
(***************************************************************************)
\* r is h with x taken out of its list.
Without(N, h, Q, x, r) ==
  /\ Heap(N, r) /\ r.owner = h.owner /\ r.content = h.content /\ r.escaped = h.escaped
  /\ \A y \in N : r.parent[y] = IF y = x THEN Nil ELSE h.parent[y]
  /\ \A y \in N : r.next[y] = IF y = x THEN Nil ELSE IF y = h.prev[x] THEN h.next[x] ELSE h.next[y]
  /\ \A y \in N : r.prev[y] = IF y = x THEN Nil ELSE IF y = h.next[x] THEN h.prev[x] ELSE h.prev[y]
  /\ \A p \in N : r.first[p] = IF x \notin Q /\ p = h.parent[x] /\ h.first[p] = x THEN h.next[x] ELSE h.first[p]
  /\ \A p \in N : r.last[p] = IF x \notin Q /\ p = h.parent[x] /\ h.last[p] = x THEN h.prev[x] ELSE h.last[p]
  /\ \A p \in N : r.props[p] = IF x \in Q /\ p = h.parent[x] /\ h.props[p] = x THEN h.next[x] ELSE h.props[p]

\* The heap with other links, and a slot with one value changed.
Relink(h, a, b, c, d, e, f) ==
  [h EXCEPT !.props = a, !.first = b, !.last = c, !.next = d, !.prev = e, !.parent = f]

Poke(f, x, v) == [f EXCEPT ![x] = v]

Relinked(h, r, a, b, c, d, e, f) ==
  /\ Heap(Node, r) /\ r.props = a /\ r.first = b /\ r.last = c /\ r.next = d
  /\ r.prev = e /\ r.parent = f /\ r.owner = h.owner /\ r.content = h.content
  /\ r.escaped = h.escaped

\* The heap with new links, and the rest as it was.
LEMMA RelinkIs ==
  ASSUME NEW h, Heap(Node, h), NEW a \in Slot(Node), NEW b \in Slot(Node), NEW c \in Slot(Node),
         NEW d \in Slot(Node), NEW e \in Slot(Node), NEW f \in Slot(Node)
  PROVE  Relinked(h, Relink(h, a, b, c, d, e, f), a, b, c, d, e, f)
<1> DEFINE r == Relink(h, a, b, c, d, e, f)
           S == Slot(Node)
           C == [Node -> Seq(Node)]
           E == SUBSET Node
<1>1. h \in [parent : S, next : S, prev : S, first : S, last : S, props : S, owner : S,
             content : C, escaped : E]
  BY DEF Heap
<1> HIDE DEF S, C, E
<1>2. /\ r \in [parent : S, next : S, prev : S, first : S, last : S, props : S, owner : S,
                content : C, escaped : E]
      /\ r.props = a /\ r.first = b /\ r.last = c /\ r.next = d
      /\ r.prev = e /\ r.parent = f /\ r.owner = h.owner /\ r.content = h.content
      /\ r.escaped = h.escaped
  BY <1>1 DEF S, Relink
<1> QED BY <1>2 DEF Relinked, Heap, S, C, E

\* A slot with one pointer changed.
LEMMA PokeIs ==
  ASSUME NEW f \in Slot(Node), NEW x \in Node, NEW v \in Ptr
  PROVE  Poke(f, x, v) \in Slot(Node) /\ \A y \in Node : Poke(f, x, v)[y] = IF y = x THEN v ELSE f[y]
BY DEF Slot, Poke, Ptr

\* Put leaves a slot as it is for Nil.
LEMMA PutIs ==
  ASSUME Nil \notin Node, NEW f \in Slot(Node), NEW x \in Ptr, NEW v \in Ptr
  PROVE  Put(f, x, v) \in Slot(Node) /\ \A y \in Node : Put(f, x, v)[y] = IF y = x THEN v ELSE f[y]
<1>1. CASE x = Nil
  BY <1>1 DEF Put, Ptr
<1>2. CASE x # Nil
  <2>1. Put(f, x, v) = Poke(f, x, v) /\ x \in Node
    BY <1>2 DEF Put, Poke, Ptr
  <2> QED BY <2>1, PokeIs
<1> QED BY <1>1, <1>2

\* What Unlink does to every pointer.
LEMMA UnlinkIs ==
  ASSUME NodesOK, NEW h, NEW Q, Linked(Node, Kind, h, Q), NEW x \in Node, NEW r, r = Unlink(h, x)
  PROVE  Without(Node, h, Q, x, r)
<1> DEFINE P == h.parent
           X == h.next
           V == h.prev
           F == h.first
           L == h.last
           A == h.props
           p == P[x]
           before == V[x]
           after == X[x]
           prop == IsProperty(h, x)
           a == IF prop /\ A[p] = x THEN Poke(A, p, NextAttribute(h)[x]) ELSE A
           b == IF ~prop /\ p # Nil /\ F[p] = x THEN Poke(F, p, after) ELSE F
           c == IF ~prop /\ p # Nil /\ L[p] = x THEN Poke(L, p, before) ELSE L
           d0 == Put(X, before, after)
           d == Poke(d0, x, Nil)
           e0 == Put(V, after, before)
           e == Poke(e0, x, Nil)
           f == Poke(P, x, Nil)
           S == Slot(Node)
<1>1. r = Relink(h, a, b, c, d, e, f)
  BY DEF Unlink, Relink, Poke
<1>2. Heap(Node, h) /\ Nil \notin Node /\ Attributes(Node, Kind, h, Q)
  BY DEF Linked, NodesOK
<1>3. /\ P \in S /\ X \in S /\ V \in S /\ F \in S /\ L \in S
      /\ A \in S
  BY <1>2, HeapFields
<1> HIDE DEF P, X, V, F, L, A
<1>4. p \in Ptr /\ before \in Ptr /\ after \in Ptr /\ Nil \in Ptr
  BY <1>3 DEF Slot, Ptr
<1>5. prop <=> x \in Q
  BY PropertyIs
<1>6. x \in Q => p \in Node /\ NextAttribute(h)[x] = after
  <2> SUFFICES ASSUME x \in Q PROVE p \in Node /\ NextAttribute(h)[x] = after
    OBVIOUS
  <2>1. p # Nil
    BY <1>2 DEF Attributes, P
  <2> QED BY <1>4, <2>1, PropertiesAre DEF X, Ptr
<1>7. a \in S /\ \A q \in Node : a[q] = IF x \in Q /\ q = p /\ A[q] = x THEN after ELSE A[q]
  <2> HIDE DEF prop, p, after
  <2>1. CASE prop /\ A[p] = x
    <3> DEFINE g == Poke(A, p, after)
    <3>1. g \in S /\ \A q \in Node : g[q] = IF q = p THEN after ELSE A[q]
      BY <1>3, <1>4, <1>5, <1>6, <2>1, PokeIs
    <3>2. a = g
      BY <1>5, <1>6, <2>1
    <3> HIDE DEF a, g
    <3> QED BY <1>5, <2>1, <3>1, <3>2
  <2>2. CASE ~(prop /\ A[p] = x)
    BY <1>3, <1>5, <2>2
  <2> QED BY <2>1, <2>2
<1>8. b \in S /\ \A q \in Node : b[q] = IF x \notin Q /\ q = p /\ F[q] = x THEN after ELSE F[q]
  <2> HIDE DEF prop, p, after
  <2>1. CASE ~prop /\ p # Nil /\ F[p] = x
    <3> DEFINE g == Poke(F, p, after)
    <3>1. p \in Node
      BY <1>4, <2>1 DEF Ptr
    <3>2. g \in S /\ \A q \in Node : g[q] = IF q = p THEN after ELSE F[q]
      BY <1>3, <1>4, <3>1, PokeIs
    <3>3. b = g
      BY <2>1
    <3> HIDE DEF b, g
    <3> QED BY <1>5, <2>1, <3>2, <3>3
  <2>2. CASE ~(~prop /\ p # Nil /\ F[p] = x)
    BY <1>2, <1>3, <1>5, <2>2
  <2> QED BY <2>1, <2>2
<1>9. c \in S /\ \A q \in Node : c[q] = IF x \notin Q /\ q = p /\ L[q] = x THEN before ELSE L[q]
  <2> HIDE DEF prop, p, before
  <2>1. CASE ~prop /\ p # Nil /\ L[p] = x
    <3> DEFINE g == Poke(L, p, before)
    <3>1. p \in Node
      BY <1>4, <2>1 DEF Ptr
    <3>2. g \in S /\ \A q \in Node : g[q] = IF q = p THEN before ELSE L[q]
      BY <1>3, <1>4, <3>1, PokeIs
    <3>3. c = g
      BY <2>1
    <3> HIDE DEF c, g
    <3> QED BY <1>5, <2>1, <3>2, <3>3
  <2>2. CASE ~(~prop /\ p # Nil /\ L[p] = x)
    BY <1>2, <1>3, <1>5, <2>2
  <2> QED BY <2>1, <2>2
<1>10. d \in S /\ \A y \in Node : d[y] = IF y = x THEN Nil ELSE IF y = before THEN after ELSE X[y]
  <2>1. d0 \in S /\ \A y \in Node : d0[y] = IF y = before THEN after ELSE X[y]
    <3> HIDE DEF before, after
    <3> QED BY <1>2, <1>3, <1>4, PutIs
  <2>2. d \in S /\ \A y \in Node : d[y] = IF y = x THEN Nil ELSE d0[y]
    <3> HIDE DEF d0
    <3> QED BY <1>4, <2>1, PokeIs
  <2> HIDE DEF d, d0
  <2> QED BY <2>1, <2>2
<1>11. e \in S /\ \A y \in Node : e[y] = IF y = x THEN Nil ELSE IF y = after THEN before ELSE V[y]
  <2>1. e0 \in S /\ \A y \in Node : e0[y] = IF y = after THEN before ELSE V[y]
    <3> HIDE DEF before, after
    <3> QED BY <1>2, <1>3, <1>4, PutIs
  <2>2. e \in S /\ \A y \in Node : e[y] = IF y = x THEN Nil ELSE e0[y]
    <3> HIDE DEF e0
    <3> QED BY <1>4, <2>1, PokeIs
  <2> HIDE DEF e, e0
  <2> QED BY <2>1, <2>2
<1>12. f \in S /\ \A y \in Node : f[y] = IF y = x THEN Nil ELSE P[y]
  BY <1>3, <1>4, PokeIs
<1> HIDE DEF a, b, c, d, e, f
<1>13. /\ Heap(Node, r) /\ r.props = a /\ r.first = b /\ r.last = c /\ r.next = d
       /\ r.prev = e /\ r.parent = f /\ r.owner = h.owner /\ r.content = h.content
       /\ r.escaped = h.escaped
  <2>1. a \in S /\ b \in S /\ c \in S /\ d \in S /\ e \in S /\ f \in S
    BY <1>7, <1>8, <1>9, <1>10, <1>11, <1>12
  <2>2. Relinked(h, r, a, b, c, d, e, f)
    BY <1>1, <1>2, <2>1, RelinkIs
  <2> QED BY <2>2 DEF Relinked
<1> QED BY <1>7, <1>8, <1>9, <1>10, <1>11, <1>12, <1>13 DEF Without, P, X, V, F, L, A

\* The neighbours of a node.
LEMMA Neighbours ==
  ASSUME NodesOK, NEW h, NEW Q, Linked(Node, Kind, h, Q), NEW x \in Node
  PROVE  /\ h.parent[x] \in Ptr /\ h.next[x] \in Ptr /\ h.prev[x] \in Ptr
         /\ h.first[x] \in Ptr /\ h.last[x] \in Ptr /\ h.props[x] \in Ptr /\ h.owner[x] \in Ptr
         /\ x # Nil /\ h.next[x] # x /\ h.prev[x] # x
         /\ h.next[x] # Nil => /\ h.next[x] \in Node /\ h.prev[h.next[x]] = x
                               /\ h.parent[h.next[x]] = h.parent[x] /\ (h.next[x] \in Q <=> x \in Q)
         /\ h.prev[x] # Nil => /\ h.prev[x] \in Node /\ h.next[h.prev[x]] = x
                               /\ h.parent[h.prev[x]] = h.parent[x] /\ (h.prev[x] \in Q <=> x \in Q)
<1>1. /\ Heap(Node, h) /\ Twins(Node, h) /\ Ending(Node, h.prev) /\ Ending(Node, h.next)
      /\ Attributes(Node, Kind, h, Q) /\ x # Nil
  BY DEF Linked, NodesOK
<1>2. /\ h.parent \in Slot(Node) /\ h.next \in Slot(Node) /\ h.prev \in Slot(Node)
      /\ h.first \in Slot(Node) /\ h.last \in Slot(Node) /\ h.props \in Slot(Node) /\ h.owner \in Slot(Node)
  BY <1>1, HeapFields
<1>3. /\ h.parent[x] \in Ptr /\ h.next[x] \in Ptr /\ h.prev[x] \in Ptr
      /\ h.first[x] \in Ptr /\ h.last[x] \in Ptr /\ h.props[x] \in Ptr /\ h.owner[x] \in Ptr
  BY <1>2 DEF Slot, Ptr
<1>4. h.next[x] # x /\ h.prev[x] # x
  <2>1. {x} \in SUBSET Node /\ {x} # {}
    OBVIOUS
  <2>2. PICK y \in {x} : h.next[y] \notin {x}
    BY <1>1, <2>1 DEF Ending
  <2>3. PICK z \in {x} : h.prev[z] \notin {x}
    BY <1>1, <2>1 DEF Ending
  <2> QED BY <2>2, <2>3
<1>5. h.next[x] # Nil => /\ h.next[x] \in Node /\ h.prev[h.next[x]] = x
                         /\ h.parent[h.next[x]] = h.parent[x] /\ (h.next[x] \in Q <=> x \in Q)
  BY <1>1, <1>3 DEF Ptr, Twins, Attributes
<1>6. h.prev[x] # Nil => /\ h.prev[x] \in Node /\ h.next[h.prev[x]] = x
                         /\ h.parent[h.prev[x]] = h.parent[x] /\ (h.prev[x] \in Q <=> x \in Q)
  BY <1>1, <1>3 DEF Ptr, Twins, Attributes
<1> QED BY <1>1, <1>3, <1>4, <1>5, <1>6

\* Fewer children, so no new circle.
Fewer(N, h, Q, r, P) == \A p \in N : Kids(N, r, P, p) \subseteq Kids(N, h, Q, p)

\* A heap without x is linked as before, and x is alone.
LEMMA WithoutLinked ==
  ASSUME NodesOK, NEW h, NEW Q, Linked(Node, Kind, h, Q), NEW x \in Node, NEW r,
         Without(Node, h, Q, x, r)
  PROVE  /\ Linked(Node, Kind, r, Q \ {x}) /\ Fewer(Node, h, Q, r, Q \ {x})
         /\ \A p \in Node : Foreign(Node, Kind, r, p) <=> Foreign(Node, Kind, h, p)
<1> DEFINE P == Q \ {x}
           p0 == h.parent[x]
           before == h.prev[x]
           after == h.next[x]
<1>1. /\ Twins(Node, h) /\ Ending(Node, h.prev) /\ Ending(Node, h.next) /\ Heads(Node, h, Q)
      /\ Attributes(Node, Kind, h, Q) /\ PropsHead(Node, h, Q) /\ ChildEnds(Node, Kind, h, Q)
  BY DEF Linked
<1>2. /\ \A y \in Node : r.parent[y] = IF y = x THEN Nil ELSE h.parent[y]
      /\ \A y \in Node : r.next[y] = IF y = x THEN Nil ELSE IF y = before THEN after ELSE h.next[y]
      /\ \A y \in Node : r.prev[y] = IF y = x THEN Nil ELSE IF y = after THEN before ELSE h.prev[y]
      /\ \A p \in Node : r.first[p] = IF x \notin Q /\ p = p0 /\ h.first[p] = x THEN after ELSE h.first[p]
      /\ \A p \in Node : r.last[p] = IF x \notin Q /\ p = p0 /\ h.last[p] = x THEN before ELSE h.last[p]
      /\ \A p \in Node : r.props[p] = IF x \in Q /\ p = p0 /\ h.props[p] = x THEN after ELSE h.props[p]
  BY DEF Without
<1>3. \A y \in Node :
         /\ h.parent[y] \in Ptr /\ h.next[y] \in Ptr /\ h.prev[y] \in Ptr
         /\ h.first[y] \in Ptr /\ h.last[y] \in Ptr /\ h.props[y] \in Ptr
         /\ y # Nil /\ h.next[y] # y /\ h.prev[y] # y
         /\ h.next[y] # Nil => /\ h.next[y] \in Node /\ h.prev[h.next[y]] = y
                               /\ h.parent[h.next[y]] = h.parent[y] /\ (h.next[y] \in Q <=> y \in Q)
         /\ h.prev[y] # Nil => /\ h.prev[y] \in Node /\ h.next[h.prev[y]] = y
                               /\ h.parent[h.prev[y]] = h.parent[y] /\ (h.prev[y] \in Q <=> y \in Q)
  BY Neighbours
<1>4. Heap(Node, r)
  BY DEF Without
<1> HIDE DEF before, after, p0
<1>5. /\ before # x /\ after # x
      /\ before # Nil => before \in Node /\ h.next[before] = x /\ h.parent[before] = p0 /\ (before \in Q <=> x \in Q)
      /\ after # Nil => after \in Node /\ h.prev[after] = x /\ h.parent[after] = p0 /\ (after \in Q <=> x \in Q)
      /\ h.prev[x] = before /\ h.next[x] = after /\ h.parent[x] = p0
  BY <1>3 DEF before, after, p0
<1>6. Twins(Node, r)
  <2>1. ASSUME NEW y \in Node, NEW z \in Node PROVE r.next[y] = z <=> r.prev[z] = y
    BY <1>2, <1>3, <1>5
  <2>2. ASSUME NEW y \in Node, NEW z \in Node, r.next[y] = z PROVE r.parent[y] = r.parent[z]
    BY <1>2, <1>3, <1>5, <2>2
  <2> QED BY <2>1, <2>2 DEF Twins
<1>7. Ending(Node, r.prev)
  <2> SUFFICES ASSUME NEW S \in SUBSET Node, S # {}, \A y \in S : r.prev[y] \in S PROVE FALSE
    BY DEF Ending
  <2> DEFINE T == IF after \in S THEN S \cup {x} ELSE S
  <2>1. x \notin S /\ Nil \notin S
    BY <1>2, <1>3
  <2>2. T \in SUBSET Node /\ T # {}
    OBVIOUS
  <2>3. ASSUME NEW y \in T PROVE h.prev[y] \in T
    <3>1. CASE y = x
      <4>1. after \in S /\ r.prev[after] = before
        BY <1>2, <1>5, <2>1, <3>1
      <4> QED BY <1>5, <3>1, <4>1
    <3>2. CASE y = after
      BY <1>5, <2>1, <2>3, <3>2
    <3>3. CASE y # x /\ y # after
      <4>1. y \in S /\ r.prev[y] = h.prev[y]
        BY <1>2, <2>3, <3>3
      <4> QED BY <4>1
    <3> QED BY <3>1, <3>2, <3>3
  <2> QED BY <1>1, <2>2, <2>3 DEF Ending
<1>8. Ending(Node, r.next)
  <2> SUFFICES ASSUME NEW S \in SUBSET Node, S # {}, \A y \in S : r.next[y] \in S PROVE FALSE
    BY DEF Ending
  <2> DEFINE T == IF before \in S THEN S \cup {x} ELSE S
  <2>1. x \notin S /\ Nil \notin S
    BY <1>2, <1>3
  <2>2. T \in SUBSET Node /\ T # {}
    OBVIOUS
  <2>3. ASSUME NEW y \in T PROVE h.next[y] \in T
    <3>1. CASE y = x
      <4>1. before \in S /\ r.next[before] = after
        BY <1>2, <1>5, <2>1, <3>1
      <4> QED BY <1>5, <3>1, <4>1
    <3>2. CASE y = before
      BY <1>5, <2>1, <2>3, <3>2
    <3>3. CASE y # x /\ y # before
      <4>1. y \in S /\ r.next[y] = h.next[y]
        BY <1>2, <2>3, <3>3
      <4> QED BY <4>1
    <3> QED BY <3>1, <3>2, <3>3
  <2> QED BY <1>1, <2>2, <2>3 DEF Ending
<1>9. Attributes(Node, Kind, r, P)
  <2>1. P \subseteq Node
    BY <1>1 DEF Attributes
  <2>2. ASSUME NEW y \in P PROVE Kind[y] = "Attribute" /\ r.parent[y] # Nil /\ Kind[r.parent[y]] = "Element"
    BY <1>1, <1>2, <2>1 DEF Attributes
  <2>3. ASSUME NEW y \in Node, r.next[y] # Nil PROVE y \in P <=> r.next[y] \in P
    <3>1. y # x
      BY <1>2, <2>3
    <3>2. \A z \in Node : z \in P <=> z \in Q /\ z # x
      OBVIOUS
    <3>3. r.next[y] \in Node /\ r.next[y] # x /\ (y \in Q <=> r.next[y] \in Q)
      <4>1. CASE y = before
        <5>1. r.next[y] = after /\ after # Nil
          BY <1>2, <2>3, <3>1, <4>1
        <5>2. before # Nil
          BY <1>3, <4>1
        <5> QED BY <1>5, <4>1, <5>1, <5>2
      <4>2. CASE y # before
        <5>1. r.next[y] = h.next[y]
          BY <1>2, <3>1, <4>2
        <5>2. h.next[y] # x
          BY <1>3, <1>5, <4>2
        <5> QED BY <1>3, <2>3, <5>1, <5>2
      <4> QED BY <4>1, <4>2
    <3> HIDE DEF P
    <3> QED BY <3>1, <3>2, <3>3
  <2> QED BY <2>1, <2>2, <2>3 DEF Attributes
<1>10. Heads(Node, r, P)
  <2> SUFFICES ASSUME NEW y \in Node, r.parent[y] # Nil
               PROVE  /\ r.prev[y] = Nil /\ y \in P => r.props[r.parent[y]] = y
                      /\ r.prev[y] = Nil /\ y \notin P => r.first[r.parent[y]] = y
                      /\ r.next[y] = Nil /\ y \notin P => r.last[r.parent[y]] = y
    BY DEF Heads
  <2> DEFINE q == h.parent[y]
  <2>1. y # x /\ r.parent[y] = q /\ q \in Node /\ q # Nil /\ (y \in P <=> y \in Q)
    BY <1>2, <1>3 DEF Ptr
  <2>2. /\ h.prev[y] = Nil /\ y \in Q => h.props[q] = y
        /\ h.prev[y] = Nil /\ y \notin Q => h.first[q] = y
        /\ h.next[y] = Nil /\ y \notin Q => h.last[q] = y
    BY <1>1, <2>1 DEF Heads
  <2>3. p0 # Nil =>
        /\ before = Nil /\ x \in Q => h.props[p0] = x
        /\ before = Nil /\ x \notin Q => h.first[p0] = x
        /\ after = Nil /\ x \notin Q => h.last[p0] = x
    BY <1>1, <1>5 DEF Heads
  <2> HIDE DEF q
  <2>4. q = h.parent[y]
    BY DEF q
  <2>5. CASE y = after
    <3>1. q = p0 /\ (y \in Q <=> x \in Q) /\ r.prev[y] = before /\ h.prev[y] = x /\ x # Nil
      BY <1>2, <1>3, <1>5, <2>1, <2>4, <2>5
    <3>2. before = Nil /\ y \in Q => r.props[q] = y
      BY <1>2, <2>1, <2>3, <2>5, <3>1
    <3>3. before = Nil /\ y \notin Q => r.first[q] = y
      BY <1>2, <2>1, <2>3, <2>5, <3>1
    <3>4. r.next[y] = Nil /\ y \notin Q => r.last[q] = y
      <4> SUFFICES ASSUME r.next[y] = Nil, y \notin Q PROVE r.last[q] = y
        OBVIOUS
      <4>1. h.next[y] = Nil
        <5>1. y = before => r.next[y] = y /\ y # Nil
          BY <1>2, <1>3, <2>1, <2>5
        <5> QED BY <1>2, <2>1, <5>1
      <4>2. h.last[q] = y
        BY <2>2, <4>1
      <4> QED BY <1>2, <2>1, <4>2
    <3> QED BY <2>1, <3>1, <3>2, <3>3, <3>4
  <2>6. CASE y # after
    <3>1. r.prev[y] = h.prev[y]
      BY <1>2, <2>1, <2>6
    <3>2. r.prev[y] = Nil /\ y \in Q => r.props[q] = y
      BY <1>2, <2>1, <2>2, <3>1
    <3>3. r.prev[y] = Nil /\ y \notin Q => r.first[q] = y
      BY <1>2, <2>1, <2>2, <3>1
    <3>4. r.next[y] = Nil /\ y \notin Q => r.last[q] = y
      <4> SUFFICES ASSUME r.next[y] = Nil, y \notin Q PROVE r.last[q] = y
        OBVIOUS
      <4>1. CASE y = before
        <5>1. after = Nil /\ q = p0 /\ x \notin Q
          BY <1>2, <1>3, <1>5, <2>1, <2>4, <4>1
        <5>2. h.last[p0] = x
          BY <2>1, <2>3, <5>1
        <5> QED BY <1>2, <2>1, <4>1, <5>1, <5>2
      <4>2. CASE y # before
        <5>1. h.last[q] = y
          BY <1>2, <2>1, <2>2, <4>2
        <5> QED BY <1>2, <2>1, <5>1
      <4> QED BY <4>1, <4>2
    <3> QED BY <2>1, <3>2, <3>3, <3>4
  <2> QED BY <2>5, <2>6
<1>11. PropsHead(Node, r, P)
  <2> SUFFICES ASSUME NEW p \in Node, r.props[p] # Nil
               PROVE  r.props[p] \in P /\ r.parent[r.props[p]] = p /\ r.prev[r.props[p]] = Nil
    BY DEF PropsHead
  <2>1. h.props[p] # Nil => h.props[p] \in Q /\ h.parent[h.props[p]] = p /\ h.prev[h.props[p]] = Nil
    BY <1>1 DEF PropsHead
  <2>2. CASE x \in Q /\ p = p0 /\ h.props[p] = x
    BY <1>2, <1>3, <1>5, <2>1, <2>2
  <2>3. CASE ~(x \in Q /\ p = p0 /\ h.props[p] = x)
    <3>1. r.props[p] = h.props[p]
      BY <1>2, <2>3
    <3>2. h.props[p] \in Q /\ h.parent[h.props[p]] = p /\ h.prev[h.props[p]] = Nil /\ h.props[p] # x
      BY <1>5, <2>1, <2>3, <3>1
    <3>3. h.props[p] \in Node
      BY <1>3, <3>1 DEF Ptr
    <3>4. h.props[p] # after
      BY <1>3, <1>5, <3>2, <3>3
    <3> QED BY <1>2, <3>1, <3>2, <3>3, <3>4
  <2> QED BY <2>2, <2>3
<1>12. ASSUME NEW p \in Node PROVE (h.first[p] = Nil /\ h.last[p] = Nil) => (r.first[p] = Nil /\ r.last[p] = Nil)
  BY <1>2, <1>3
<1>13. ASSUME NEW p \in Node, Own(h, Q, p)
       PROVE  (r.first[p] = Nil /\ r.last[p] = Nil) \/ Own(r, P, p)
  <2> DEFINE a == h.first[p]
             b == h.last[p]
  <2>1. /\ a \in Node /\ b \in Node /\ a # Nil /\ b # Nil /\ a \notin Q /\ b \notin Q
        /\ h.parent[a] = p /\ h.prev[a] = Nil /\ h.parent[b] = p /\ h.next[b] = Nil
    BY <1>3, <1>13 DEF Own, Ptr
  <2>2. /\ r.first[p] = IF a = x THEN after ELSE a
        /\ r.last[p] = IF b = x THEN before ELSE b
    BY <1>2, <1>5, <2>1
  <2>3. a # after /\ b # before
    BY <1>3, <1>5, <2>1
  <2> HIDE DEF a, b
  <2>4. CASE a = x /\ b = x
    <3>1. before = Nil /\ after = Nil
      BY <1>5, <2>1, <2>4
    <3> QED BY <2>2, <2>4, <3>1
  <2>5. CASE a = x /\ b # x
    <3>1. after # Nil
      <4>1. h.next[x] = Nil /\ x \notin Q /\ h.parent[x] # Nil => h.last[h.parent[x]] = x
        BY <1>1 DEF Heads
      <4>2. h.parent[x] = p /\ p # Nil
        BY <1>3, <2>1, <2>5
      <4> QED BY <1>5, <2>1, <2>5, <4>1, <4>2 DEF b
    <3>2. /\ after \in Node /\ after # Nil /\ r.parent[after] = p /\ after \notin P
          /\ r.prev[after] = Nil
      BY <1>2, <1>5, <2>1, <2>5, <3>1
    <3>3. r.parent[b] = p /\ r.next[b] = Nil /\ b \notin P
      BY <1>2, <2>1, <2>3, <2>5
    <3> QED BY <2>1, <2>2, <2>5, <3>2, <3>3 DEF Own
  <2>6. CASE a # x /\ b = x
    <3>1. before # Nil
      <4>1. h.prev[x] = Nil /\ x \notin Q /\ h.parent[x] # Nil => h.first[h.parent[x]] = x
        BY <1>1 DEF Heads
      <4>2. h.parent[x] = p /\ p # Nil
        BY <1>3, <2>1, <2>6
      <4> QED BY <1>5, <2>1, <2>6, <4>1, <4>2 DEF a
    <3>2. /\ before \in Node /\ before # Nil /\ r.parent[before] = p /\ before \notin P
          /\ r.next[before] = Nil
      BY <1>2, <1>5, <2>1, <2>6, <3>1
    <3>3. r.parent[a] = p /\ r.prev[a] = Nil /\ a \notin P
      BY <1>2, <2>1, <2>3, <2>6
    <3> QED BY <2>1, <2>2, <2>6, <3>2, <3>3 DEF Own
  <2>7. CASE a # x /\ b # x
    <3>1. r.parent[a] = p /\ r.prev[a] = Nil /\ r.parent[b] = p /\ r.next[b] = Nil
      BY <1>2, <2>1, <2>3, <2>7
    <3> QED BY <2>1, <2>2, <2>7, <3>1 DEF Own
  <2> QED BY <2>4, <2>5, <2>6, <2>7
<1>14. ASSUME NEW p \in Node, Foreign(Node, Kind, h, p) PROVE Foreign(Node, Kind, r, p)
  <2>1. p # p0
    BY <1>5, <1>14 DEF Foreign
  <2>2. r.first[p] = h.first[p] /\ r.last[p] = h.last[p]
    BY <1>2, <2>1
  <2>3. \A y \in Node : r.parent[y] # p
    BY <1>2, <1>3, <1>14 DEF Foreign
  <2> QED BY <1>14, <2>2, <2>3 DEF Foreign
<1>15. ChildEnds(Node, Kind, r, P)
  BY <1>1, <1>12, <1>13, <1>14 DEF ChildEnds
<1>16. Fewer(Node, h, Q, r, P)
  <2> SUFFICES ASSUME NEW p \in Node, NEW c \in Kids(Node, r, P, p) PROVE c \in Kids(Node, h, Q, p)
    BY DEF Fewer
  <2>1. c \in Node
    BY DEF Kids
  <2>2. CASE r.parent[c] = p /\ c \notin P
    <3>1. c # x /\ h.parent[c] = p
      BY <1>2, <1>3, <2>1, <2>2
    <3> QED BY <2>1, <2>2, <3>1 DEF Kids
  <2>3. CASE c = r.first[p]
    <3>1. CASE x \notin Q /\ p = p0 /\ h.first[p] = x
      <4>1. c = after
        BY <1>2, <2>3, <3>1
      <4>2. h.parent[c] = p /\ c \notin Q
        BY <1>3, <1>5, <2>1, <3>1, <4>1
      <4> QED BY <2>1, <4>2 DEF Kids
    <3>2. CASE ~(x \notin Q /\ p = p0 /\ h.first[p] = x)
      <4>1. c = h.first[p]
        BY <1>2, <2>3, <3>2
      <4> QED BY <2>1, <4>1 DEF Kids
    <3> QED BY <3>1, <3>2
  <2> QED BY <2>2, <2>3 DEF Kids
<1>17. ASSUME NEW p \in Node, Foreign(Node, Kind, r, p) PROVE Foreign(Node, Kind, h, p)
  <2>1. ~(h.first[p] = Nil /\ h.last[p] = Nil)
    BY <1>12, <1>17 DEF Foreign
  <2>2. ~Own(h, Q, p)
    <3> SUFFICES ASSUME Own(h, Q, p) PROVE FALSE
      OBVIOUS
    <3>1. Own(r, P, p)
      BY <1>13, <1>17 DEF Foreign
    <3>2. r.first[p] \in Node
      <4>1. r.first \in Slot(Node)
        BY <1>4, HeapFields
      <4> QED BY <3>1, <4>1 DEF Own, Slot
    <3> QED BY <1>17, <3>1, <3>2 DEF Own, Foreign
  <2> QED BY <1>1, <2>1, <2>2 DEF ChildEnds
<1> QED BY <1>4, <1>6, <1>7, <1>8, <1>9, <1>10, <1>11, <1>14, <1>15, <1>16, <1>17 DEF Linked
\* Everything the counterparts need: a relation between the members of M.
Ordered(M, c, e, nx, pv) ==
  /\ c \in M /\ e \in M /\ Nil \notin M
  /\ \A x \in M : nx[x] \in M \cup {Nil} /\ pv[x] \in M \cup {Nil}
  /\ \A x, y \in M : nx[x] = y <=> pv[y] = x
  /\ \A x \in M : (nx[x] = Nil <=> x = e) /\ (pv[x] = Nil <=> x = c)
  /\ \A S \in SUBSET M : S # {} => (\E x \in S : nx[x] \notin S) /\ (\E x \in S : pv[x] \notin S)

\* A node that is in no list.
Loose(h, y) == h.parent[y] = Nil /\ h.prev[y] = Nil /\ h.next[y] = Nil

\* The members of M, in order, are where n was.
Spliced(N, h, Q, n, M, c, e, nx, pv, r) ==
  /\ Heap(N, r) /\ r.owner = h.owner /\ r.content = h.content /\ r.escaped = h.escaped
  /\ \A y \in N : r.parent[y] = IF y \in M THEN h.parent[n] ELSE IF y = n THEN Nil ELSE h.parent[y]
  /\ \A y \in N : r.next[y] = IF y \in M THEN (IF y = e THEN h.next[n] ELSE nx[y])
                              ELSE IF y = n THEN Nil ELSE IF y = h.prev[n] THEN c ELSE h.next[y]
  /\ \A y \in N : r.prev[y] = IF y \in M THEN (IF y = c THEN h.prev[n] ELSE pv[y])
                              ELSE IF y = n THEN Nil ELSE IF y = h.next[n] THEN e ELSE h.prev[y]
  /\ \A p \in N : r.props[p] = IF n \in Q /\ p = h.parent[n] /\ h.props[p] = n THEN c ELSE h.props[p]
  /\ \A p \in N : r.first[p] = IF n \notin Q /\ p = h.parent[n] /\ h.first[p] = n THEN c ELSE h.first[p]
  /\ \A p \in N : r.last[p] = IF n \notin Q /\ p = h.parent[n] /\ h.last[p] = n THEN e ELSE h.last[p]

\* The attributes that are properties once M is where n was.
Taking(Q, n, M) == IF n \in Q THEN (Q \ {n}) \cup M ELSE Q

\* Where the links of n, of its neighbours and of the inserted nodes lead.
SpliceFacts(N, h, Q, n, M, c, e, nx, pv) ==
  /\ \A y \in M : y # n => h.parent[y] = Nil /\ h.prev[y] = Nil /\ h.next[y] = Nil /\ y \notin Q
  /\ h.prev[n] \notin M /\ h.next[n] \notin M /\ h.prev[n] # n /\ h.next[n] # n
  /\ h.prev[n] # Nil => h.prev[n] \in N /\ h.next[h.prev[n]] = n /\ h.parent[h.prev[n]] = h.parent[n]
                        /\ (h.prev[n] \in Q <=> n \in Q)
  /\ h.next[n] # Nil => h.next[n] \in N /\ h.prev[h.next[n]] = n /\ h.parent[h.next[n]] = h.parent[n]
                        /\ (h.next[n] \in Q <=> n \in Q)
  /\ \A y \in N : y \in Taking(Q, n, M) <=> IF y \in M THEN n \in Q ELSE y \in Q /\ y # n
  /\ h.parent[n] \in Ptr /\ h.prev[n] \in Ptr /\ h.next[n] \in Ptr

\* Those facts hold in a linked heap.
LEMMA SpliceFactsHold ==
  ASSUME NodesOK, NEW h, NEW Q, Linked(Node, Kind, h, Q), NEW n \in Node, NEW M \in SUBSET Node,
         NEW c, NEW e, NEW nx, NEW pv, Ordered(M, c, e, nx, pv),
         \A y \in M : y # n => Loose(h, y)
  PROVE  SpliceFacts(Node, h, Q, n, M, c, e, nx, pv)
<1>1. Attributes(Node, Kind, h, Q) /\ Nil \notin Node
  BY DEF Linked, NodesOK
<1>2. ASSUME NEW y \in M, y # n
      PROVE  h.parent[y] = Nil /\ h.prev[y] = Nil /\ h.next[y] = Nil /\ y \notin Q
  BY <1>1, <1>2 DEF Loose, Attributes
<1>3. /\ h.parent[n] \in Ptr /\ h.next[n] \in Ptr /\ h.prev[n] \in Ptr
      /\ n # Nil /\ h.next[n] # n /\ h.prev[n] # n
      /\ h.next[n] # Nil => /\ h.next[n] \in Node /\ h.prev[h.next[n]] = n
                            /\ h.parent[h.next[n]] = h.parent[n] /\ (h.next[n] \in Q <=> n \in Q)
      /\ h.prev[n] # Nil => /\ h.prev[n] \in Node /\ h.next[h.prev[n]] = n
                            /\ h.parent[h.prev[n]] = h.parent[n] /\ (h.prev[n] \in Q <=> n \in Q)
  BY Neighbours
<1>4. h.prev[n] \notin M /\ h.next[n] \notin M
  BY <1>1, <1>2, <1>3
<1>5. ASSUME NEW y \in Node
      PROVE  y \in Taking(Q, n, M) <=> IF y \in M THEN n \in Q ELSE y \in Q /\ y # n
  BY <1>2 DEF Taking
<1> QED BY <1>2, <1>3, <1>4, <1>5 DEF SpliceFacts

\* The links of a row that took n's place.
LEMMA SplicedTwins ==
  ASSUME NodesOK, NEW h, NEW Q, Linked(Node, Kind, h, Q), NEW n \in Node, NEW M \in SUBSET Node,
         NEW c, NEW e, NEW nx, NEW pv, Ordered(M, c, e, nx, pv),
         SpliceFacts(Node, h, Q, n, M, c, e, nx, pv), NEW r, Spliced(Node, h, Q, n, M, c, e, nx, pv, r)
  PROVE  Twins(Node, r)
<1> DEFINE p == h.parent[n]
           before == h.prev[n]
           after == h.next[n]
<1>1. /\ \A y \in M : y # n => h.parent[y] = Nil /\ h.prev[y] = Nil /\ h.next[y] = Nil
      /\ before \notin M /\ after \notin M /\ before # n /\ after # n
      /\ before # Nil => before \in Node /\ h.next[before] = n /\ h.parent[before] = p
      /\ after # Nil => after \in Node /\ h.prev[after] = n /\ h.parent[after] = p
  BY DEF SpliceFacts
<1>2. /\ \A y \in Node : r.parent[y] = IF y \in M THEN p ELSE IF y = n THEN Nil ELSE h.parent[y]
      /\ \A y \in Node : r.next[y] = IF y \in M THEN (IF y = e THEN after ELSE nx[y])
                              ELSE IF y = n THEN Nil ELSE IF y = before THEN c ELSE h.next[y]
      /\ \A y \in Node : r.prev[y] = IF y \in M THEN (IF y = c THEN before ELSE pv[y])
                              ELSE IF y = n THEN Nil ELSE IF y = after THEN e ELSE h.prev[y]
  BY DEF Spliced
<1>3. \A y, z \in Node : (h.next[y] = z <=> h.prev[z] = y) /\ (h.next[y] = z => h.parent[y] = h.parent[z])
  BY DEF Linked, Twins
<1>4. h.prev[n] = before /\ h.next[n] = after /\ h.parent[n] = p /\ Nil \notin Node
  BY DEF NodesOK
<1>5. /\ c \in M /\ e \in M /\ Nil \notin M
      /\ \A x \in M : nx[x] \in M \cup {Nil} /\ pv[x] \in M \cup {Nil}
      /\ \A x, y \in M : nx[x] = y <=> pv[y] = x
      /\ \A x \in M : (nx[x] = Nil <=> x = e) /\ (pv[x] = Nil <=> x = c)
  BY DEF Ordered
<1> HIDE DEF p, before, after
<1>6. ASSUME NEW y \in Node, NEW z \in Node
      PROVE  (r.next[y] = z <=> r.prev[z] = y) /\ (r.next[y] = z => r.parent[y] = r.parent[z])
  <2>1. CASE y \in M /\ z \in M
    <3>1. r.parent[y] = r.parent[z]
      BY <1>2, <2>1
    <3>2. r.next[y] = z <=> r.prev[z] = y
      BY <1>1, <1>2, <1>5, <2>1
    <3> QED BY <3>1, <3>2
  <2>2. CASE y \in M /\ z \notin M
    <3>1. r.next[y] = z <=> y = e /\ z = after
      BY <1>2, <1>4, <1>5, <2>2
    <3>2. r.prev[z] = y => z = after /\ y = e
      <4> SUFFICES ASSUME r.prev[z] = y, z # after PROVE FALSE
        BY <1>1, <1>2, <2>2
      <4>1. z # n /\ h.prev[z] = y
        BY <1>2, <1>4, <2>2
      <4>2. h.next[y] = z
        BY <1>3, <4>1
      <4> QED BY <1>1, <1>4, <2>2, <4>2
    <3>3. z = after /\ y = e => r.prev[z] = y /\ r.parent[z] = r.parent[y]
      BY <1>1, <1>2, <1>4, <2>2
    <3> QED BY <3>1, <3>2, <3>3
  <2>3. CASE y \notin M /\ z \in M
    <3>1. r.prev[z] = y <=> z = c /\ y = before
      BY <1>2, <1>4, <1>5, <2>3
    <3>2. r.next[y] = z => y = before /\ z = c
      <4> SUFFICES ASSUME r.next[y] = z, y # before PROVE FALSE
        BY <1>1, <1>2, <2>3
      <4>1. y # n /\ h.next[y] = z
        BY <1>2, <1>4, <2>3
      <4>2. h.prev[z] = y
        BY <1>3, <4>1
      <4> QED BY <1>1, <1>4, <2>3, <4>2
    <3>3. y = before /\ z = c => r.next[y] = z /\ r.parent[z] = r.parent[y]
      BY <1>1, <1>2, <1>4, <2>3
    <3> QED BY <3>1, <3>2, <3>3
  <2>4. CASE y \notin M /\ z \notin M
    <3>1. CASE y = n \/ y = before
      <4>1. r.next[y] # z
        BY <1>1, <1>2, <1>4, <1>5, <2>4, <3>1
      <4>2. r.prev[z] # y
        <5> SUFFICES ASSUME r.prev[z] = y PROVE FALSE
          OBVIOUS
        <5>1. z # n /\ z # after /\ h.prev[z] = y
          BY <1>2, <1>4, <1>5, <2>4
        <5>2. h.next[y] = z
          BY <1>3, <5>1
        <5> QED BY <1>1, <1>4, <3>1, <5>1, <5>2
      <4> QED BY <4>1, <4>2
    <3>2. CASE z = n \/ z = after
      <4>1. r.prev[z] # y
        BY <1>1, <1>2, <1>4, <1>5, <2>4, <3>2
      <4>2. r.next[y] # z
        <5> SUFFICES ASSUME r.next[y] = z PROVE FALSE
          OBVIOUS
        <5>1. y # n /\ y # before /\ h.next[y] = z
          BY <1>2, <1>4, <1>5, <2>4
        <5>2. h.prev[z] = y
          BY <1>3, <5>1
        <5> QED BY <1>1, <1>4, <3>2, <5>1, <5>2
      <4> QED BY <4>1, <4>2
    <3>3. CASE y # n /\ y # before /\ z # n /\ z # after
      BY <1>2, <1>3, <2>4, <3>3
    <3> QED BY <3>1, <3>2, <3>3
  <2> QED BY <2>1, <2>2, <2>3, <2>4
<1> QED BY <1>6 DEF Twins

\* One direction of the links of a row that took n's place: g before, f after,
\* b beyond n, a on this side of n.
Turned(M, n, c, e, k, a, b, g, f) ==
  \A y \in Node : f[y] = IF y \in M THEN (IF y = c THEN b ELSE k[y])
                         ELSE IF y = n THEN Nil ELSE IF y = a THEN e ELSE g[y]

\* What the end of f needs.
Direction(M, n, c, e, k, a, b, g, f) ==
  /\ Turned(M, n, c, e, k, a, b, g, f) /\ Ending(Node, g)
  /\ b = g[n] /\ b \notin M /\ (\A y \in M : y # c => k[y] \in M)
  /\ \A y, z \in Node : y \in M /\ y # n => g[z] # y
  /\ \A z \in Node : g[z] = n <=> z = a
  /\ \A T \in SUBSET M : T # {} => \E x \in T : k[x] \notin T

\* A direction that ends still ends with the row in n's place.
LEMMA SplicedEnding ==
  ASSUME Nil \notin Node, NEW M \in SUBSET Node, NEW n \in Node, NEW c \in M, NEW e \in M,
         NEW k, NEW a, NEW b, NEW f, NEW g, Direction(M, n, c, e, k, a, b, g, f)
  PROVE  Ending(Node, f)
<1>0. /\ b = g[n] /\ b \notin M /\ (\A y \in M : y # c => k[y] \in M)
      /\ \A y, z \in Node : y \in M /\ y # n => g[z] # y
      /\ \A z \in Node : g[z] = n <=> z = a
      /\ \A T \in SUBSET M : T # {} => \E x \in T : k[x] \notin T
      /\ Ending(Node, g)
  BY DEF Direction
<1>1. \A y \in Node : f[y] = IF y \in M THEN (IF y = c THEN b ELSE k[y])
                         ELSE IF y = n THEN Nil ELSE IF y = a THEN e ELSE g[y]
  BY DEF Direction, Turned
<1> SUFFICES ASSUME NEW S \in SUBSET Node, S # {}, \A y \in S : f[y] \in S PROVE FALSE
  BY DEF Ending
<1>2. CASE S \cap M = {}
  <2>1. ASSUME NEW y \in S PROVE g[y] \in S
    <3>1. y \in Node /\ y \notin M /\ f[y] \in S
      BY <1>2
    <3>2. y # n /\ y # a
      BY <1>1, <1>2, <3>1
    <3> QED BY <1>1, <3>1, <3>2
  <2> QED BY <1>0, <2>1 DEF Ending
<1>3. CASE S \cap M # {}
  <2>1. PICK x \in S \cap M : k[x] \notin S \cap M
    BY <1>0, <1>3
  <2>2. x = c
    <3>1. x # c => f[x] = k[x] /\ k[x] \in M
      BY <1>0, <1>1
    <3> QED BY <2>1, <3>1
  <2>4. c \in S /\ b \in S
    BY <1>1, <2>2
  <2> DEFINE T == (S \ M) \cup {n}
  <2>5. T \in SUBSET Node /\ T # {}
    OBVIOUS
  <2>6. ASSUME NEW y \in T PROVE g[y] \in T
    <3>1. CASE y = n
      BY <1>0, <2>4, <3>1
    <3>2. CASE y # n /\ y = a
      BY <1>0, <2>5, <3>2
    <3>3. CASE y # n /\ y # a
      <4>1. y \in S /\ y \notin M /\ y \in Node
        BY <3>3
      <4>2. g[y] = f[y] /\ f[y] \in S
        BY <1>1, <3>3, <4>1
      <4>3. g[y] \in M => g[y] \in Node /\ g[y] # n
        BY <1>0, <3>3, <4>1
      <4>4. g[y] \notin M
        BY <1>0, <4>1, <4>3
      <4> QED BY <4>2, <4>4
    <3> QED BY <3>1, <3>2, <3>3
  <2> HIDE DEF T
  <2> QED BY <1>0, <2>5, <2>6 DEF Ending
<1> QED BY <1>2, <1>3

\* Both directions end.
LEMMA SplicedEndings ==
  ASSUME NodesOK, NEW h, NEW Q, Linked(Node, Kind, h, Q), NEW n \in Node, NEW M \in SUBSET Node,
         NEW c, NEW e, NEW nx, NEW pv, Ordered(M, c, e, nx, pv),
         SpliceFacts(Node, h, Q, n, M, c, e, nx, pv), NEW r, Spliced(Node, h, Q, n, M, c, e, nx, pv, r)
  PROVE  Ending(Node, r.prev) /\ Ending(Node, r.next)
<1>1. Ending(Node, h.prev) /\ Ending(Node, h.next) /\ Nil \notin Node
  BY DEF Linked, NodesOK
<1>2. \A y, z \in Node : h.next[y] = z <=> h.prev[z] = y
  BY DEF Linked, Twins
<1>3. /\ c \in M /\ e \in M
      /\ \A x \in M : nx[x] \in M \cup {Nil} /\ pv[x] \in M \cup {Nil}
      /\ \A x \in M : (nx[x] = Nil <=> x = e) /\ (pv[x] = Nil <=> x = c)
      /\ \A S \in SUBSET M : S # {} => (\E x \in S : nx[x] \notin S) /\ (\E x \in S : pv[x] \notin S)
  BY DEF Ordered
<1>4. /\ \A y \in M : y # n => h.prev[y] = Nil /\ h.next[y] = Nil
      /\ h.prev[n] \notin M /\ h.next[n] \notin M
      /\ h.prev[n] # Nil => h.prev[n] \in Node /\ h.next[h.prev[n]] = n
      /\ h.next[n] # Nil => h.next[n] \in Node /\ h.prev[h.next[n]] = n
  BY DEF SpliceFacts
<1>5. Turned(M, n, c, e, pv, h.next[n], h.prev[n], h.prev, r.prev)
  BY DEF Spliced, Turned
<1>6. Turned(M, n, e, c, nx, h.prev[n], h.next[n], h.next, r.next)
  BY DEF Spliced, Turned
<1>7. ASSUME NEW y \in Node, NEW z \in Node, y \in M, y # n PROVE h.prev[z] # y /\ h.next[z] # y
  BY <1>1, <1>2, <1>4, <1>7
<1>8. ASSUME NEW z \in Node PROVE (h.prev[z] = n <=> z = h.next[n]) /\ (h.next[z] = n <=> z = h.prev[n])
  BY <1>2
<1>9. (\A y \in M : y # c => pv[y] \in M) /\ (\A y \in M : y # e => nx[y] \in M)
  BY <1>3
<1>10. Direction(M, n, c, e, pv, h.next[n], h.prev[n], h.prev, r.prev)
  BY <1>1, <1>3, <1>4, <1>5, <1>7, <1>8, <1>9 DEF Direction
<1>11. Direction(M, n, e, c, nx, h.prev[n], h.next[n], h.next, r.next)
  BY <1>1, <1>3, <1>4, <1>6, <1>7, <1>8, <1>9 DEF Direction
<1> QED BY <1>1, <1>3, <1>10, <1>11, SplicedEnding

\* A row in n's place keeps every list; a property's place is taken by attributes.
LEMMA SplicedLinked ==
  ASSUME NodesOK, NEW h, NEW Q, Linked(Node, Kind, h, Q), NEW n \in Node, NEW M \in SUBSET Node,
         NEW c, NEW e, NEW nx, NEW pv, Ordered(M, c, e, nx, pv),
         \A y \in M : y # n => Loose(h, y), n \in Q => M \subseteq Attrs,
         NEW r, Spliced(Node, h, Q, n, M, c, e, nx, pv, r)
  PROVE  Linked(Node, Kind, r, Taking(Q, n, M))
<1> DEFINE p0 == h.parent[n]
           before == h.prev[n]
           after == h.next[n]
           P == Taking(Q, n, M)
<1>1. /\ Heads(Node, h, Q) /\ Attributes(Node, Kind, h, Q) /\ PropsHead(Node, h, Q)
      /\ ChildEnds(Node, Kind, h, Q)
  BY DEF Linked
<1>2. /\ \A y \in Node : r.parent[y] = IF y \in M THEN p0 ELSE IF y = n THEN Nil ELSE h.parent[y]
      /\ \A y \in Node : r.next[y] = IF y \in M THEN (IF y = e THEN after ELSE nx[y])
                              ELSE IF y = n THEN Nil ELSE IF y = before THEN c ELSE h.next[y]
      /\ \A y \in Node : r.prev[y] = IF y \in M THEN (IF y = c THEN before ELSE pv[y])
                              ELSE IF y = n THEN Nil ELSE IF y = after THEN e ELSE h.prev[y]
      /\ \A p \in Node : r.props[p] = IF n \in Q /\ p = p0 /\ h.props[p] = n THEN c ELSE h.props[p]
      /\ \A p \in Node : r.first[p] = IF n \notin Q /\ p = p0 /\ h.first[p] = n THEN c ELSE h.first[p]
      /\ \A p \in Node : r.last[p] = IF n \notin Q /\ p = p0 /\ h.last[p] = n THEN e ELSE h.last[p]
      /\ Heap(Node, r)
  BY DEF Spliced
<1>3. SpliceFacts(Node, h, Q, n, M, c, e, nx, pv)
  BY SpliceFactsHold
<1>4. Twins(Node, r) /\ Ending(Node, r.prev) /\ Ending(Node, r.next)
  BY <1>3, SplicedTwins, SplicedEndings
<1>5. /\ \A y \in M : y # n => h.parent[y] = Nil /\ h.prev[y] = Nil /\ h.next[y] = Nil /\ y \notin Q
      /\ before \notin M /\ after \notin M /\ before # n /\ after # n
      /\ before # Nil => before \in Node /\ h.next[before] = n /\ h.parent[before] = p0 /\ (before \in Q <=> n \in Q)
      /\ after # Nil => after \in Node /\ h.prev[after] = n /\ h.parent[after] = p0 /\ (after \in Q <=> n \in Q)
      /\ \A y \in Node : y \in P <=> IF y \in M THEN n \in Q ELSE y \in Q /\ y # n
      /\ p0 \in Ptr /\ before \in Ptr /\ after \in Ptr
  BY <1>3 DEF SpliceFacts
<1>6. h.prev[n] = before /\ h.next[n] = after /\ h.parent[n] = p0 /\ Nil \notin Node
  BY DEF NodesOK
<1>7. /\ c \in M /\ e \in M /\ Nil \notin M
      /\ \A x \in M : nx[x] \in M \cup {Nil} /\ pv[x] \in M \cup {Nil}
      /\ \A x \in M : (nx[x] = Nil <=> x = e) /\ (pv[x] = Nil <=> x = c)
  BY DEF Ordered
<1>8. \A y \in Node :
         /\ h.parent[y] \in Ptr /\ h.next[y] \in Ptr /\ h.prev[y] \in Ptr
         /\ h.first[y] \in Ptr /\ h.last[y] \in Ptr /\ h.props[y] \in Ptr
         /\ h.next[y] # Nil => h.next[y] \in Node /\ h.prev[h.next[y]] = y /\ (h.next[y] \in Q <=> y \in Q)
         /\ h.prev[y] # Nil => h.prev[y] \in Node /\ h.next[h.prev[y]] = y
  BY Neighbours
<1>9. P \subseteq Node
  BY <1>1 DEF Taking, Attributes
<1> HIDE DEF p0, before, after, P
<1>10. Attributes(Node, Kind, r, P)
  <2>1. ASSUME NEW y \in P PROVE Kind[y] = "Attribute" /\ r.parent[y] # Nil /\ Kind[r.parent[y]] = "Element"
    <3>1. CASE y \in M
      <4>1. n \in Q /\ y \in Node
        BY <1>5, <1>9, <3>1
      <4>2. p0 # Nil /\ Kind[p0] = "Element"
        BY <1>1, <1>6, <4>1 DEF Attributes
      <4>3. Kind[y] = "Attribute"
        BY <3>1, <4>1 DEF Attrs
      <4> QED BY <1>2, <3>1, <4>1, <4>2, <4>3
    <3>2. CASE y \notin M
      <4>1. y \in Node /\ y \in Q /\ y # n
        BY <1>5, <1>9, <3>2
      <4> QED BY <1>1, <1>2, <3>2, <4>1 DEF Attributes
    <3> QED BY <3>1, <3>2
  <2>2. ASSUME NEW y \in Node, r.next[y] # Nil PROVE y \in P <=> r.next[y] \in P
    <3>1. CASE y \in M /\ y = e
      <4>1. r.next[y] = after /\ after # Nil
        BY <1>2, <2>2, <3>1
      <4> QED BY <1>5, <3>1, <4>1
    <3>2. CASE y \in M /\ y # e
      <4>1. r.next[y] = nx[y] /\ nx[y] \in M /\ nx[y] \in Node
        BY <1>2, <1>7, <3>2
      <4> QED BY <1>5, <3>2, <4>1
    <3>3. CASE y \notin M /\ y = before
      <4>1. r.next[y] = c /\ c \in Node /\ before # Nil
        BY <1>2, <1>5, <1>6, <1>7, <3>3
      <4> QED BY <1>5, <1>7, <3>3, <4>1
    <3>4. CASE y \notin M /\ y # before
      <4>1. y # n /\ r.next[y] = h.next[y]
        BY <1>2, <2>2, <3>4
      <4>2. h.next[y] \in Node /\ h.prev[h.next[y]] = y /\ (h.next[y] \in Q <=> y \in Q)
        BY <1>8, <2>2, <4>1
      <4>3. h.next[y] # n
        BY <1>6, <3>4, <4>2
      <4>4. h.next[y] \notin M
        BY <1>5, <1>6, <4>2, <4>3
      <4> QED BY <1>5, <3>4, <4>1, <4>2, <4>3, <4>4
    <3> QED BY <3>1, <3>2, <3>3, <3>4
  <2> QED BY <1>9, <2>1, <2>2 DEF Attributes
<1>11. Heads(Node, r, P)
  <2>1. ASSUME NEW y \in Node, y \in M, p0 # Nil
        PROVE  /\ r.prev[y] = Nil /\ y \in P => r.props[p0] = y
               /\ r.prev[y] = Nil /\ y \notin P => r.first[p0] = y
               /\ r.next[y] = Nil /\ y \notin P => r.last[p0] = y
    <3>1. /\ before = Nil /\ n \in Q => h.props[p0] = n
          /\ before = Nil /\ n \notin Q => h.first[p0] = n
          /\ after = Nil /\ n \notin Q => h.last[p0] = n
      BY <1>1, <1>6, <2>1 DEF Heads
    <3>2. y \in P <=> n \in Q
      BY <1>5, <2>1
    <3>3. r.prev[y] = Nil => y = c /\ before = Nil
      BY <1>2, <1>7, <2>1
    <3>4. r.next[y] = Nil => y = e /\ after = Nil
      BY <1>2, <1>7, <2>1
    <3>5. p0 \in Node
      BY <1>5, <2>1 DEF Ptr
    <3> QED BY <1>2, <3>1, <3>2, <3>3, <3>4, <3>5
  <2>2. ASSUME NEW y \in Node, y \notin M, y # n, h.parent[y] # Nil
        PROVE  /\ r.prev[y] = Nil /\ y \in P => r.props[h.parent[y]] = y
               /\ r.prev[y] = Nil /\ y \notin P => r.first[h.parent[y]] = y
               /\ r.next[y] = Nil /\ y \notin P => r.last[h.parent[y]] = y
    <3>1. /\ h.prev[y] = Nil /\ y \in Q => h.props[h.parent[y]] = y
          /\ h.prev[y] = Nil /\ y \notin Q => h.first[h.parent[y]] = y
          /\ h.next[y] = Nil /\ y \notin Q => h.last[h.parent[y]] = y
      BY <1>1, <2>2 DEF Heads
    <3>2. y \in P <=> y \in Q
      BY <1>5, <2>2
    <3>3. r.prev[y] = Nil => h.prev[y] = Nil
      BY <1>2, <1>6, <1>7, <2>2
    <3>4. r.next[y] = Nil => h.next[y] = Nil
      BY <1>2, <1>6, <1>7, <2>2
    <3>5. h.parent[y] \in Node
      BY <1>8, <2>2 DEF Ptr
    <3> QED BY <1>2, <2>2, <3>1, <3>2, <3>3, <3>4, <3>5
  <2>3. ASSUME NEW y \in Node, r.parent[y] # Nil
        PROVE  /\ r.prev[y] = Nil /\ y \in P => r.props[r.parent[y]] = y
               /\ r.prev[y] = Nil /\ y \notin P => r.first[r.parent[y]] = y
               /\ r.next[y] = Nil /\ y \notin P => r.last[r.parent[y]] = y
    <3>1. CASE y \in M
      <4>1. r.parent[y] = p0
        BY <1>2, <3>1
      <4> QED BY <2>1, <2>3, <3>1, <4>1
    <3>2. CASE y \notin M
      <4>1. y # n /\ r.parent[y] = h.parent[y]
        BY <1>2, <2>3, <3>2
      <4> QED BY <2>2, <2>3, <3>2, <4>1
    <3> QED BY <3>1, <3>2
  <2> QED BY <2>3 DEF Heads
<1>12. PropsHead(Node, r, P)
  <2> SUFFICES ASSUME NEW p \in Node, r.props[p] # Nil
               PROVE  r.props[p] \in P /\ r.parent[r.props[p]] = p /\ r.prev[r.props[p]] = Nil
    BY DEF PropsHead
  <2>1. h.props[p] # Nil => h.props[p] \in Q /\ h.parent[h.props[p]] = p /\ h.prev[h.props[p]] = Nil
    BY <1>1 DEF PropsHead
  <2>2. CASE n \in Q /\ p = p0 /\ h.props[p] = n
    <3>1. r.props[p] = c /\ c \in Node /\ c \in P
      BY <1>2, <1>5, <1>7, <2>2
    <3>2. before = Nil
      BY <1>6, <2>1, <2>2
    <3> QED BY <1>2, <1>7, <2>2, <3>1, <3>2
  <2>3. CASE ~(n \in Q /\ p = p0 /\ h.props[p] = n)
    <3>1. r.props[p] = h.props[p]
      BY <1>2, <2>3
    <3>2. h.props[p] \in Node /\ h.props[p] # Nil
      BY <1>6, <1>8, <3>1 DEF Ptr
    <3>3. h.props[p] \in Q /\ h.parent[h.props[p]] = p /\ h.prev[h.props[p]] = Nil
      BY <2>1, <3>2
    <3>4. h.props[p] # n
      BY <1>6, <2>3, <3>3
    <3>5. h.props[p] \notin M
      BY <1>5, <3>3, <3>4
    <3>6. h.props[p] # after
      BY <1>5, <1>6, <3>2, <3>3
    <3> QED BY <1>2, <1>5, <3>1, <3>2, <3>3, <3>4, <3>5, <3>6
  <2> QED BY <2>2, <2>3
<1>13. ASSUME NEW p \in Node, h.first[p] = Nil, h.last[p] = Nil PROVE r.first[p] = Nil /\ r.last[p] = Nil
  BY <1>2, <1>6, <1>13
<1>14. ASSUME NEW p \in Node, Own(h, Q, p) PROVE Own(r, P, p)
  <2> DEFINE a == h.first[p]
             b == h.last[p]
  <2>1. /\ a \in Node /\ b \in Node /\ a # Nil /\ b # Nil /\ a \notin Q /\ b \notin Q
        /\ h.parent[a] = p /\ h.prev[a] = Nil /\ h.parent[b] = p /\ h.next[b] = Nil
    BY <1>8, <1>14 DEF Own, Ptr
  <2>2. /\ r.first[p] = IF a = n THEN c ELSE a
        /\ r.last[p] = IF b = n THEN e ELSE b
    BY <1>2, <1>6, <2>1
  <2>3. p # Nil /\ (n \in M => n = a \/ n = b \/ TRUE)
    BY <1>6
  <2> HIDE DEF a, b
  <2>4. /\ r.first[p] # Nil /\ r.parent[r.first[p]] = p /\ r.first[p] \notin P
        /\ r.prev[r.first[p]] = Nil
    <3>1. CASE a = n
      <4>1. n \notin Q /\ p0 = p /\ before = Nil
        BY <1>6, <2>1, <3>1
      <4>2. c \in M /\ c \in Node /\ c # Nil /\ c \notin P
        BY <1>5, <1>6, <1>7, <4>1
      <4> QED BY <1>2, <2>2, <3>1, <4>1, <4>2
    <3>2. CASE a # n
      <4>1. a \notin M /\ a # after
        BY <1>5, <1>6, <2>1, <2>3, <3>2
      <4>2. a \notin P
        BY <1>5, <2>1, <4>1
      <4> QED BY <1>2, <2>1, <2>2, <3>2, <4>1, <4>2
    <3> QED BY <3>1, <3>2
  <2>5. /\ r.last[p] # Nil /\ r.parent[r.last[p]] = p /\ r.last[p] \notin P
        /\ r.next[r.last[p]] = Nil
    <3>1. CASE b = n
      <4>1. n \notin Q /\ p0 = p /\ after = Nil
        BY <1>6, <2>1, <3>1
      <4>2. e \in M /\ e \in Node /\ e # Nil /\ e \notin P
        BY <1>5, <1>6, <1>7, <4>1
      <4> QED BY <1>2, <2>2, <3>1, <4>1, <4>2
    <3>2. CASE b # n
      <4>1. b \notin M /\ b # before
        BY <1>5, <1>6, <2>1, <2>3, <3>2
      <4>2. b \notin P
        BY <1>5, <2>1, <4>1
      <4> QED BY <1>2, <2>1, <2>2, <3>2, <4>1, <4>2
    <3> QED BY <3>1, <3>2
  <2> QED BY <2>4, <2>5 DEF Own
<1>15. ASSUME NEW p \in Node, Foreign(Node, Kind, h, p) PROVE Foreign(Node, Kind, r, p)
  <2>1. p # p0 /\ p # Nil
    BY <1>6, <1>15 DEF Foreign
  <2>2. r.first[p] = h.first[p] /\ r.last[p] = h.last[p]
    BY <1>2, <2>1
  <2>3. \A y \in Node : r.parent[y] # p
    BY <1>2, <1>15, <2>1 DEF Foreign
  <2> QED BY <1>15, <2>2, <2>3 DEF Foreign
<1>16. ChildEnds(Node, Kind, r, P)
  BY <1>1, <1>13, <1>14, <1>15 DEF ChildEnds
<1> QED BY <1>2, <1>4, <1>10, <1>11, <1>12, <1>16 DEF Linked, P

\* Only the parent of n gains children, the members of M.
LEMMA SplicedKids ==
  ASSUME NodesOK, NEW h, NEW Q, Linked(Node, Kind, h, Q), NEW n \in Node, NEW M \in SUBSET Node,
         NEW c, NEW e, NEW nx, NEW pv, Ordered(M, c, e, nx, pv),
         \A y \in M : y # n => Loose(h, y),
         NEW r, Spliced(Node, h, Q, n, M, c, e, nx, pv, r), NEW p \in Node
  PROVE  Kids(Node, r, Taking(Q, n, M), p) \subseteq
           Kids(Node, h, Q, p) \cup (IF p = h.parent[n] /\ n \notin Q THEN M \ {n} ELSE {})
<1> DEFINE P == Taking(Q, n, M)
<1>1. /\ \A y \in Node : r.parent[y] = IF y \in M THEN h.parent[n] ELSE IF y = n THEN Nil ELSE h.parent[y]
      /\ r.first[p] = IF n \notin Q /\ p = h.parent[n] /\ h.first[p] = n THEN c ELSE h.first[p]
  BY DEF Spliced
<1>2. /\ \A y \in Node : y \in P <=> IF y \in M THEN n \in Q ELSE y \in Q /\ y # n
      /\ p # Nil /\ c \in M
  <2>1. SpliceFacts(Node, h, Q, n, M, c, e, nx, pv)
    BY SpliceFactsHold
  <2> QED BY <2>1 DEF SpliceFacts, NodesOK, Ordered
<1> HIDE DEF P
<1> SUFFICES ASSUME NEW x \in Kids(Node, r, P, p)
             PROVE  x \in Kids(Node, h, Q, p) \cup (IF p = h.parent[n] /\ n \notin Q THEN M \ {n} ELSE {})
  BY DEF P
<1>3. x \in Node
  BY DEF Kids
<1>4. CASE r.parent[x] = p /\ x \notin P
  <2>1. CASE x \in M /\ x # n
    BY <1>1, <1>2, <1>3, <1>4, <2>1
  <2>2. CASE x \in M /\ x = n
    <3>1. h.parent[x] = p /\ x \notin Q
      BY <1>1, <1>2, <1>3, <1>4, <2>2
    <3> QED BY <1>3, <3>1 DEF Kids
  <2>3. CASE x \notin M
    <3>1. h.parent[x] = p /\ x \notin Q
      BY <1>1, <1>2, <1>3, <1>4, <2>3
    <3> QED BY <1>3, <3>1 DEF Kids
  <2> QED BY <2>1, <2>2, <2>3
<1>5. CASE x = r.first[p]
  <2>1. CASE n \notin Q /\ p = h.parent[n] /\ h.first[p] = n
    <3>1. x \in M
      BY <1>1, <1>2, <1>5, <2>1
    <3>2. x = n => x \in Kids(Node, h, Q, p)
      BY <1>3, <2>1 DEF Kids
    <3> QED BY <2>1, <3>1, <3>2
  <2>2. CASE ~(n \notin Q /\ p = h.parent[n] /\ h.first[p] = n)
    BY <1>1, <1>3, <1>5, <2>2 DEF Kids
  <2> QED BY <2>1, <2>2
<1> QED BY <1>4, <1>5 DEF Kids

\* x, in no list, becomes the only child of n.
OnlyChild(N, h, n, x, r) ==
  /\ Heap(N, r) /\ r.owner = h.owner /\ r.content = h.content /\ r.escaped = h.escaped
  /\ r.next = h.next /\ r.prev = h.prev /\ r.props = h.props
  /\ \A y \in N : r.parent[y] = IF y = x THEN n ELSE h.parent[y]
  /\ \A p \in N : r.first[p] = IF p = n THEN x ELSE h.first[p]
  /\ \A p \in N : r.last[p] = IF p = n THEN x ELSE h.last[p]

\* x, in no list, becomes the only property of n.
OnlyProperty(N, h, n, x, r) ==
  /\ Heap(N, r) /\ r.owner = h.owner /\ r.content = h.content /\ r.escaped = h.escaped
  /\ r.next = h.next /\ r.prev = h.prev /\ r.first = h.first /\ r.last = h.last
  /\ \A y \in N : r.parent[y] = IF y = x THEN n ELSE h.parent[y]
  /\ \A p \in N : r.props[p] = IF p = n THEN x ELSE h.props[p]

\* A node without firstChild has no children.
LEMMA Childless ==
  ASSUME NodesOK, NEW h, NEW Q, Linked(Node, Kind, h, Q), NEW p \in Node, h.first[p] = Nil
  PROVE  Kids(Node, h, Q, p) = {} /\ \A y \in Node : h.parent[y] = p => y \in Q
<1>1. h.next \in Slot(Node) /\ Nil \notin Node
  BY HeapFields DEF Linked, NodesOK
<1>2. Walked(Node, h.next, Nil, Walk(h.next, Nil))
  BY <1>1, WalkIs DEF Ptr, NodesOK
<1>3. Elems(Walk(h.next, h.first[p])) = {}
  BY <1>2 DEF Walked, Elems
<1>4. \A y \in Node : h.parent[y] = p => y \in Q
  BY <1>3, ChildrenAre
<1> QED BY <1>1, <1>4 DEF Kids

\* The lists with the only child.
LEMMA OnlyChildLinked ==
  ASSUME NodesOK, NEW h, NEW Q, Linked(Node, Kind, h, Q), NEW n \in Node, NEW x \in Node,
         Loose(h, x), x # n, h.first[n] = Nil, NEW r, OnlyChild(Node, h, n, x, r)
  PROVE  /\ Linked(Node, Kind, r, Q)
         /\ \A p \in Node : Kids(Node, r, Q, p) \subseteq Kids(Node, h, Q, p) \cup (IF p = n THEN {x} ELSE {})
<1>1. /\ Heads(Node, h, Q) /\ Attributes(Node, Kind, h, Q) /\ PropsHead(Node, h, Q)
      /\ ChildEnds(Node, Kind, h, Q) /\ Twins(Node, h) /\ Ending(Node, h.prev) /\ Ending(Node, h.next)
      /\ Nil \notin Node
  BY DEF Linked, NodesOK
<1>2. /\ r.next = h.next /\ r.prev = h.prev /\ r.props = h.props /\ Heap(Node, r)
      /\ \A y \in Node : r.parent[y] = IF y = x THEN n ELSE h.parent[y]
      /\ \A p \in Node : r.first[p] = IF p = n THEN x ELSE h.first[p]
      /\ \A p \in Node : r.last[p] = IF p = n THEN x ELSE h.last[p]
  BY DEF OnlyChild
<1>3. h.parent[x] = Nil /\ h.prev[x] = Nil /\ h.next[x] = Nil /\ x \notin Q
  BY <1>1 DEF Loose, Attributes
<1>4. \A y \in Node : h.parent[y] = n => y \in Q
  BY Childless
<1>5. Twins(Node, r)
  <2>1. \A y, z \in Node : (h.next[y] = z <=> h.prev[z] = y) /\ (h.next[y] = z => h.parent[y] = h.parent[z])
    BY <1>1 DEF Twins
  <2>2. ASSUME NEW y \in Node, NEW z \in Node, h.next[y] = z PROVE y # x /\ z # x
    BY <1>1, <1>3, <2>1, <2>2
  <2> QED BY <1>2, <2>1, <2>2 DEF Twins
<1>6. Attributes(Node, Kind, r, Q)
  BY <1>1, <1>2, <1>3 DEF Attributes
<1>7. Heads(Node, r, Q)
  <2> SUFFICES ASSUME NEW y \in Node, r.parent[y] # Nil
        PROVE  /\ r.prev[y] = Nil /\ y \in Q => r.props[r.parent[y]] = y
               /\ r.prev[y] = Nil /\ y \notin Q => r.first[r.parent[y]] = y
               /\ r.next[y] = Nil /\ y \notin Q => r.last[r.parent[y]] = y
    BY DEF Heads
  <2>1. CASE y = x
    BY <1>2, <1>3, <2>1
  <2>2. CASE y # x
    <3>1. h.parent[y] = r.parent[y] /\ h.parent[y] \in Node
      BY <1>2, <2>2, Neighbours DEF Ptr
    <3>2. /\ h.prev[y] = Nil /\ y \in Q => h.props[h.parent[y]] = y
          /\ h.prev[y] = Nil /\ y \notin Q => h.first[h.parent[y]] = y
          /\ h.next[y] = Nil /\ y \notin Q => h.last[h.parent[y]] = y
      BY <1>1, <3>1 DEF Heads
    <3>3. y \notin Q => h.parent[y] # n
      BY <1>4
    <3> QED BY <1>2, <3>1, <3>2, <3>3
  <2> QED BY <2>1, <2>2
<1>8. PropsHead(Node, r, Q)
  <2>1. \A p \in Node : h.props[p] \in Q => h.props[p] \in Node /\ h.props[p] # x
    BY <1>1, <1>3 DEF Attributes
  <2> QED BY <1>1, <1>2, <2>1 DEF PropsHead
<1>9. ChildEnds(Node, Kind, r, Q)
  <2> SUFFICES ASSUME NEW p \in Node
               PROVE  (r.first[p] = Nil /\ r.last[p] = Nil) \/ Own(r, Q, p) \/ Foreign(Node, Kind, r, p)
    BY DEF ChildEnds
  <2>1. CASE p = n
    <3>1. Own(r, Q, p)
      BY <1>1, <1>2, <1>3, <2>1 DEF Own
    <3> QED BY <3>1
  <2>2. CASE p # n
    <3>1. r.first[p] = h.first[p] /\ r.last[p] = h.last[p]
      BY <1>2, <2>2
    <3>2. CASE h.first[p] = Nil /\ h.last[p] = Nil
      BY <3>1, <3>2
    <3>3. CASE Own(h, Q, p)
      <4>1. h.first[p] # x /\ h.last[p] # x /\ h.first[p] \in Node /\ h.last[p] \in Node
        BY <1>1, <1>3, <3>3, Neighbours DEF Own, Ptr
      <4>2. Own(r, Q, p)
        BY <1>2, <3>1, <3>3, <4>1 DEF Own
      <4> QED BY <4>2
    <3>4. CASE Foreign(Node, Kind, h, p)
      <4>1. Foreign(Node, Kind, r, p)
        BY <1>2, <2>2, <3>1, <3>4 DEF Foreign
      <4> QED BY <4>1
    <3> QED BY <1>1, <3>2, <3>3, <3>4 DEF ChildEnds
  <2> QED BY <2>1, <2>2
<1>10. ASSUME NEW p \in Node
       PROVE  Kids(Node, r, Q, p) \subseteq Kids(Node, h, Q, p) \cup (IF p = n THEN {x} ELSE {})
  BY <1>2 DEF Kids
<1> QED BY <1>1, <1>2, <1>5, <1>6, <1>7, <1>8, <1>9, <1>10 DEF Linked

\* The lists with the only property.
LEMMA OnlyPropertyLinked ==
  ASSUME NodesOK, NEW h, NEW Q, Linked(Node, Kind, h, Q), NEW n \in Node, NEW x \in Node,
         Loose(h, x), x \in Attrs, Kind[n] = "Element", \A y \in Q : h.parent[y] # n,
         NEW r, OnlyProperty(Node, h, n, x, r)
  PROVE  /\ Linked(Node, Kind, r, Q \cup {x})
         /\ \A p \in Node : Kids(Node, r, Q \cup {x}, p) \subseteq Kids(Node, h, Q, p)
<1> DEFINE P == Q \cup {x}
<1>1. /\ Heads(Node, h, Q) /\ Attributes(Node, Kind, h, Q) /\ PropsHead(Node, h, Q)
      /\ ChildEnds(Node, Kind, h, Q) /\ Twins(Node, h) /\ Ending(Node, h.prev) /\ Ending(Node, h.next)
      /\ Nil \notin Node
  BY DEF Linked, NodesOK
<1>2. /\ r.next = h.next /\ r.prev = h.prev /\ r.first = h.first /\ r.last = h.last /\ Heap(Node, r)
      /\ \A y \in Node : r.parent[y] = IF y = x THEN n ELSE h.parent[y]
      /\ \A p \in Node : r.props[p] = IF p = n THEN x ELSE h.props[p]
  BY DEF OnlyProperty
<1>3. h.parent[x] = Nil /\ h.prev[x] = Nil /\ h.next[x] = Nil /\ x \notin Q /\ Kind[x] = "Attribute"
  BY <1>1 DEF Loose, Attributes, Attrs
<1>4. \A y, z \in Node : (h.next[y] = z <=> h.prev[z] = y) /\ (h.next[y] = z => h.parent[y] = h.parent[z])
  BY <1>1 DEF Twins
<1>5. ASSUME NEW y \in Node, NEW z \in Node, h.next[y] = z PROVE y # x /\ z # x
  BY <1>1, <1>3, <1>4, <1>5
<1>6. P \subseteq Node /\ \A y \in Node : y \in P <=> y \in Q \/ y = x
  BY <1>1 DEF Attributes
<1> HIDE DEF P
<1>7. Twins(Node, r)
  BY <1>2, <1>4, <1>5 DEF Twins
<1>8. Attributes(Node, Kind, r, P)
  <2>1. ASSUME NEW y \in P PROVE Kind[y] = "Attribute" /\ r.parent[y] # Nil /\ Kind[r.parent[y]] = "Element"
    BY <1>1, <1>2, <1>3, <1>6 DEF Attributes
  <2>2. ASSUME NEW y \in Node, r.next[y] # Nil PROVE y \in P <=> r.next[y] \in P
    <3>1. h.next[y] \in Node /\ (h.next[y] \in Q <=> y \in Q)
      BY <1>2, <2>2, Neighbours
    <3>2. y # x /\ h.next[y] # x
      BY <1>5, <3>1
    <3> QED BY <1>2, <1>6, <3>1, <3>2
  <2> QED BY <1>6, <2>1, <2>2 DEF Attributes
<1>9. Heads(Node, r, P)
  <2> SUFFICES ASSUME NEW y \in Node, r.parent[y] # Nil
        PROVE  /\ r.prev[y] = Nil /\ y \in P => r.props[r.parent[y]] = y
               /\ r.prev[y] = Nil /\ y \notin P => r.first[r.parent[y]] = y
               /\ r.next[y] = Nil /\ y \notin P => r.last[r.parent[y]] = y
    BY DEF Heads
  <2>1. CASE y = x
    BY <1>2, <1>6, <2>1
  <2>2. CASE y # x
    <3>1. h.parent[y] = r.parent[y] /\ h.parent[y] \in Node /\ (y \in P <=> y \in Q)
      BY <1>2, <1>6, <2>2, Neighbours DEF Ptr
    <3>2. /\ h.prev[y] = Nil /\ y \in Q => h.props[h.parent[y]] = y
          /\ h.prev[y] = Nil /\ y \notin Q => h.first[h.parent[y]] = y
          /\ h.next[y] = Nil /\ y \notin Q => h.last[h.parent[y]] = y
      BY <1>1, <3>1 DEF Heads
    <3>3. y \in Q => h.parent[y] # n
      OBVIOUS
    <3> QED BY <1>2, <3>1, <3>2, <3>3
  <2> QED BY <2>1, <2>2
<1>10. PropsHead(Node, r, P)
  <2> SUFFICES ASSUME NEW p \in Node, r.props[p] # Nil
               PROVE  r.props[p] \in P /\ r.parent[r.props[p]] = p /\ r.prev[r.props[p]] = Nil
    BY DEF PropsHead
  <2>1. CASE p = n
    BY <1>2, <1>3, <1>6, <2>1
  <2>2. CASE p # n
    <3>1. h.props[p] \in Q /\ h.parent[h.props[p]] = p /\ h.prev[h.props[p]] = Nil /\ r.props[p] = h.props[p]
      BY <1>1, <1>2, <2>2 DEF PropsHead
    <3>2. h.props[p] \in Node /\ h.props[p] # x
      BY <1>1, <1>3, <3>1 DEF Attributes
    <3> QED BY <1>2, <1>6, <3>1, <3>2
  <2> QED BY <2>1, <2>2
<1>11. ChildEnds(Node, Kind, r, P)
  <2> SUFFICES ASSUME NEW p \in Node
               PROVE  (r.first[p] = Nil /\ r.last[p] = Nil) \/ Own(r, P, p) \/ Foreign(Node, Kind, r, p)
    BY DEF ChildEnds
  <2>1. CASE h.first[p] = Nil /\ h.last[p] = Nil
    BY <1>2, <2>1
  <2>2. CASE Own(h, Q, p)
    <3>1. h.first[p] # x /\ h.last[p] # x /\ h.first[p] \in Node /\ h.last[p] \in Node
      BY <1>1, <1>3, <2>2, Neighbours DEF Own, Ptr
    <3>2. h.first[p] \notin P /\ h.last[p] \notin P
      BY <1>6, <2>2, <3>1 DEF Own
    <3>3. Own(r, P, p)
      BY <1>2, <2>2, <3>1, <3>2 DEF Own
    <3> QED BY <3>3
  <2>3. CASE Foreign(Node, Kind, h, p)
    <3>1. p # n
      BY <2>3 DEF Foreign
    <3>2. Foreign(Node, Kind, r, p)
      BY <1>2, <2>3, <3>1 DEF Foreign
    <3> QED BY <3>2
  <2> QED BY <1>1, <2>1, <2>2, <2>3 DEF ChildEnds
<1>12. ASSUME NEW p \in Node PROVE Kids(Node, r, P, p) \subseteq Kids(Node, h, Q, p)
  <2> SUFFICES ASSUME NEW y \in Kids(Node, r, P, p) PROVE y \in Kids(Node, h, Q, p)
    OBVIOUS
  <2>1. y \in Node /\ ((r.parent[y] = p /\ y \notin P) \/ y = r.first[p])
    BY DEF Kids
  <2>2. (h.parent[y] = p /\ y \notin Q) \/ y = h.first[p]
    BY <1>2, <1>6, <2>1
  <2> QED BY <2>1, <2>2 DEF Kids
<1>13. Linked(Node, Kind, r, P)
  BY <1>1, <1>2, <1>7, <1>8, <1>9, <1>10, <1>11 DEF Linked
<1> QED BY <1>12, <1>13 DEF P

-----------------------------------------------------------------------------
(***************************************************************************)
(* No circles.                                                             *)
(***************************************************************************)
\* Fewer children, and the circles stay away.
LEMMA FewerTreelike ==
  ASSUME NEW h, NEW Q, NEW r, NEW P, Treelike(Node, h, Q), Fewer(Node, h, Q, r, P)
  PROVE  Treelike(Node, r, P)
<1> SUFFICES ASSUME NEW S \in SUBSET Node, S # {} PROVE \E x \in S : Kids(Node, r, P, x) \cap S = {}
  BY DEF Treelike
<1>1. PICK x \in S : Kids(Node, h, Q, x) \cap S = {}
  BY DEF Treelike
<1>2. Kids(Node, r, P, x) \subseteq Kids(Node, h, Q, x)
  BY DEF Fewer
<1> QED BY <1>1, <1>2

\* p gains children that p is not reached from.
Gains(N, h, Q, r, P, p, R) ==
  /\ R \in SUBSET N /\ Closed(N, h, Q, R) /\ p \notin R
  /\ \A q \in N : Kids(N, r, P, q) \subseteq Kids(N, h, Q, q) \cup (IF q = p THEN R ELSE {})

\* A tree stays a tree when p gains what p is not reached from.
LEMMA GainsTreelike ==
  ASSUME NEW h, NEW Q, NEW r, NEW P, NEW p, NEW R, Treelike(Node, h, Q), Gains(Node, h, Q, r, P, p, R)
  PROVE  Treelike(Node, r, P)
<1>1. /\ R \in SUBSET Node /\ Closed(Node, h, Q, R) /\ p \notin R
      /\ \A q \in Node : Kids(Node, r, P, q) \subseteq Kids(Node, h, Q, q) \cup (IF q = p THEN R ELSE {})
  BY DEF Gains
<1> SUFFICES ASSUME NEW S \in SUBSET Node, S # {}, \A x \in S : Kids(Node, r, P, x) \cap S # {} PROVE FALSE
  BY DEF Treelike
<1>2. CASE S \cap R # {}
  <2> DEFINE T == S \cap R
  <2>1. PICK x \in T : Kids(Node, h, Q, x) \cap T = {}
    BY <1>2 DEF Treelike
  <2>2. x \in S /\ x \in R /\ x \in Node /\ x # p
    BY <1>1
  <2>3. PICK y \in S : y \in Kids(Node, r, P, x)
    BY <2>2
  <2>4. y \in Kids(Node, h, Q, x)
    BY <1>1, <2>2, <2>3
  <2>5. y \in R
    BY <1>1, <2>2, <2>4 DEF Closed
  <2> QED BY <2>1, <2>3, <2>4, <2>5
<1>3. CASE S \cap R = {}
  <2>1. PICK x \in S : Kids(Node, h, Q, x) \cap S = {}
    BY DEF Treelike
  <2>2. PICK y \in S : y \in Kids(Node, r, P, x)
    OBVIOUS
  <2>3. y \in Kids(Node, h, Q, x)
    BY <1>1, <1>3, <2>2
  <2> QED BY <2>1, <2>3
<1> QED BY <1>2, <1>3

-----------------------------------------------------------------------------
(***************************************************************************)
(* Before the links change: the marks, the cycle guard, the unlinking.     *)
(***************************************************************************)
\* What every heap is: linked, without circles, with no document in a list.
Tree(h, Q) == Linked(Node, Kind, h, Q) /\ Treelike(Node, h, Q) /\ Roots(Node, Kind, h)

\* g is h without some of its links.
Shrunk(h, Q, g, P) ==
  /\ P \subseteq Q /\ Fewer(Node, h, Q, g, P) /\ g.owner = h.owner /\ g.content = h.content
  /\ \A y \in Node : g.parent[y] \in {h.parent[y], Nil}
  /\ \A y \in Node : g.first[y] # Nil => h.first[y] # Nil
  /\ \A p \in Node : Foreign(Node, Kind, g, p) <=> Foreign(Node, Kind, h, p)
  /\ \A y \in Node : Loose(h, y) => Loose(g, y)

\* The heap with the same links.
SameLinks(h, g) ==
  /\ g.parent = h.parent /\ g.next = h.next /\ g.prev = h.prev /\ g.first = h.first
  /\ g.last = h.last /\ g.props = h.props

\* The properties of a heap are those of its links.
LEMMA SameTree ==
  ASSUME NEW h, NEW g, NEW Q, Tree(h, Q), Heap(Node, g), SameLinks(h, g)
  PROVE  /\ Tree(g, Q) /\ \A p \in Node : Kids(Node, g, Q, p) = Kids(Node, h, Q, p)
         /\ \A p \in Node : Foreign(Node, Kind, g, p) <=> Foreign(Node, Kind, h, p)
<1>1. /\ g.parent = h.parent /\ g.next = h.next /\ g.prev = h.prev /\ g.first = h.first
      /\ g.last = h.last /\ g.props = h.props
  BY DEF SameLinks
<1>2. \A p \in Node : Kids(Node, g, Q, p) = Kids(Node, h, Q, p)
  BY <1>1 DEF Kids
<1>3. \A p \in Node : Foreign(Node, Kind, g, p) <=> Foreign(Node, Kind, h, p)
  BY <1>1 DEF Foreign
<1>4. Treelike(Node, g, Q)
  BY <1>2 DEF Treelike, Tree
<1>5. Roots(Node, Kind, g)
  BY <1>1 DEF Roots, Tree
<1>6. Linked(Node, Kind, h, Q)
  BY DEF Tree
<1>7. Twins(Node, g) /\ Ending(Node, g.prev) /\ Ending(Node, g.next)
  BY <1>1, <1>6 DEF Linked, Twins
<1>8. Attributes(Node, Kind, g, Q) /\ PropsHead(Node, g, Q)
  BY <1>1, <1>6 DEF Linked, Attributes, PropsHead
<1>9. Heads(Node, g, Q)
  BY <1>1, <1>6 DEF Linked, Heads
<1>10. ChildEnds(Node, Kind, g, Q)
  BY <1>1, <1>3, <1>6 DEF Linked, ChildEnds, Own
<1> QED BY <1>2, <1>3, <1>4, <1>5, <1>7, <1>8, <1>9, <1>10 DEF Linked, Tree

\* A heap with other marks has the same links.
LEMMA EscapeIs ==
  ASSUME NEW h, Heap(Node, h), NEW E \in SUBSET Node, NEW g, g = [h EXCEPT !.escaped = E]
  PROVE  /\ Heap(Node, g) /\ SameLinks(h, g) /\ g.owner = h.owner /\ g.content = h.content
         /\ g.escaped = E
<1> DEFINE S == Slot(Node)
           C == [Node -> Seq(Node)]
<1>1. h \in [parent : S, next : S, prev : S, first : S, last : S, props : S, owner : S,
             content : C, escaped : SUBSET Node]
  BY DEF Heap
<1> HIDE DEF S, C
<1>2. /\ g \in [parent : S, next : S, prev : S, first : S, last : S, props : S, owner : S,
                content : C, escaped : SUBSET Node]
      /\ SameLinks(h, g) /\ g.owner = h.owner /\ g.content = h.content /\ g.escaped = E
  BY <1>1 DEF SameLinks
<1> QED BY <1>2 DEF Heap, S, C

\* Losing links goes on losing links.
LEMMA ShrunkAgain ==
  ASSUME NEW h, NEW Q, NEW g, NEW P, NEW f, NEW O, Shrunk(h, Q, g, P), Shrunk(g, P, f, O)
  PROVE  Shrunk(h, Q, f, O)
<1>1. O \subseteq Q /\ f.owner = h.owner /\ f.content = h.content
  BY DEF Shrunk
<1>2. Fewer(Node, h, Q, f, O)
  BY DEF Shrunk, Fewer
<1>3. \A y \in Node : f.parent[y] \in {h.parent[y], Nil}
  BY DEF Shrunk
<1>4. \A y \in Node : f.first[y] # Nil => h.first[y] # Nil
  BY DEF Shrunk
<1>5. \A p \in Node : Foreign(Node, Kind, f, p) <=> Foreign(Node, Kind, h, p)
  BY DEF Shrunk
<1>6. \A y \in Node : Loose(h, y) => Loose(f, y)
  BY DEF Shrunk
<1> QED BY <1>1, <1>2, <1>3, <1>4, <1>5, <1>6 DEF Shrunk

\* Unlink cuts x out and keeps the tree.
LEMMA UnlinkKeeps ==
  ASSUME NodesOK, NEW h, NEW Q, Tree(h, Q), NEW x \in Node, NEW g, g = Unlink(h, x)
  PROVE  /\ Tree(g, Q \ {x}) /\ Shrunk(h, Q, g, Q \ {x}) /\ Loose(g, x) /\ g.escaped = h.escaped
         /\ \A y \in Node : y # x => g.parent[y] = h.parent[y]
<1>1. Linked(Node, Kind, h, Q)
  BY DEF Tree
<1>2. Without(Node, h, Q, x, g)
  BY <1>1, UnlinkIs
<1>3. /\ Linked(Node, Kind, g, Q \ {x}) /\ Fewer(Node, h, Q, g, Q \ {x})
      /\ \A p \in Node : Foreign(Node, Kind, g, p) <=> Foreign(Node, Kind, h, p)
  BY <1>1, <1>2, WithoutLinked
<1>4. Treelike(Node, g, Q \ {x})
  BY <1>3, FewerTreelike DEF Tree
<1>5. /\ \A y \in Node : g.parent[y] = IF y = x THEN Nil ELSE h.parent[y]
      /\ \A y \in Node : g.next[y] = IF y = x THEN Nil ELSE IF y = h.prev[x] THEN h.next[x] ELSE h.next[y]
      /\ \A y \in Node : g.prev[y] = IF y = x THEN Nil ELSE IF y = h.next[x] THEN h.prev[x] ELSE h.prev[y]
      /\ \A p \in Node : g.first[p] = IF x \notin Q /\ p = h.parent[x] /\ h.first[p] = x THEN h.next[x] ELSE h.first[p]
      /\ g.owner = h.owner /\ g.content = h.content /\ g.escaped = h.escaped
  BY <1>2 DEF Without
<1>6. Roots(Node, Kind, g)
  BY <1>5 DEF Roots, Tree
<1>7. Loose(g, x)
  BY <1>5 DEF Loose
<1>8. \A y \in Node : g.first[y] # Nil => h.first[y] # Nil
  BY <1>5 DEF NodesOK
<1>9. ASSUME NEW y \in Node, Loose(h, y) PROVE Loose(g, y)
  <2>1. y = x \/ (y # h.prev[x] /\ y # h.next[x])
    BY <1>1, <1>9, Neighbours DEF Loose
  <2> QED BY <1>5, <1>9, <2>1 DEF Loose
<1>10. Shrunk(h, Q, g, Q \ {x})
  BY <1>3, <1>5, <1>8, <1>9 DEF Shrunk
<1> QED BY <1>3, <1>4, <1>5, <1>6, <1>7, <1>10 DEF Tree

\* The auto-unlink of the preflights.
LEMMA UnlinkIfLinkedKeeps ==
  ASSUME NodesOK, NEW h, NEW Q, Tree(h, Q), NEW x \in Node, NEW g, g = UnlinkIfLinked(h, x)
  PROVE  /\ Tree(g, Q \ {x}) /\ Shrunk(h, Q, g, Q \ {x}) /\ Loose(g, x) /\ g.escaped = h.escaped
         /\ \A y \in Node : y # x => g.parent[y] = h.parent[y]
<1>1. CASE h.parent[x] # Nil \/ h.prev[x] # Nil \/ h.next[x] # Nil
  <2>1. g = Unlink(h, x)
    BY <1>1 DEF UnlinkIfLinked
  <2> QED BY <2>1, UnlinkKeeps
<1>2. CASE Loose(h, x)
  <2>1. g = h
    BY <1>2 DEF UnlinkIfLinked, Loose
  <2>2. x \notin Q
    BY <1>2 DEF Tree, Linked, Attributes, Loose
  <2>3. Q \ {x} = Q
    BY <2>2
  <2>4. Shrunk(h, Q, h, Q)
    BY DEF Shrunk, Fewer
  <2> QED BY <1>2, <2>1, <2>3, <2>4
<1> QED BY <1>1, <1>2 DEF Loose

\* p is not reached from x.
Apart(h, Q, p, x) == \E R \in SUBSET Node : x \in R /\ p \notin R /\ Closed(Node, h, Q, R)

\* What the cycle guard lets pass.
LEMMA NoCycleIsApart ==
  ASSUME NodesOK, NEW h, NEW Q, Linked(Node, Kind, h, Q), NEW p \in Ptr, NEW x \in Node,
         ~WouldCreateCycle(h, p, x)
  PROVE  Apart(h, Q, p, x)
<1>1. CASE p = Nil
  <2>1. Closed(Node, h, Q, Node) /\ p \notin Node
    BY <1>1 DEF Closed, Kids, NodesOK
  <2> QED BY <2>1 DEF Apart
<1>2. CASE p # Nil /\ h.first[x] # Nil
  <2> DEFINE R == Reached(h, x)
  <2>1. p \notin R
    BY <1>2 DEF WouldCreateCycle
  <2>2. R \in SUBSET Node /\ x \in R /\ Closed(Node, h, Q, R)
    BY ReachedIs
  <2> QED BY <2>1, <2>2 DEF Apart
<1>3. CASE p # Nil /\ h.first[x] = Nil
  <2>1. Kids(Node, h, Q, x) = {}
    BY <1>3, Childless
  <2>2. h.parent \in Slot(Node)
    BY HeapFields DEF Linked
  <2>3. p \in Elems(Walk(h.parent, p))
    BY <1>3, <2>2, WalkFacts
  <2>4. p # x
    BY <2>3 DEF WouldCreateCycle
  <2>5. Closed(Node, h, Q, {x}) /\ {x} \in SUBSET Node
    BY <2>1 DEF Closed
  <2> QED BY <2>4, <2>5 DEF Apart
<1> QED BY <1>1, <1>2, <1>3

\* What is apart stays apart.
LEMMA StillApart ==
  ASSUME NEW h, NEW Q, NEW g, NEW P, Shrunk(h, Q, g, P), NEW p, NEW x \in Node, Apart(h, Q, p, x)
  PROVE  Apart(g, P, p, x)
<1>1. PICK R \in SUBSET Node : x \in R /\ p \notin R /\ Closed(Node, h, Q, R)
  BY DEF Apart
<1>2. Closed(Node, g, P, R)
  <2> SUFFICES ASSUME NEW q \in R PROVE Kids(Node, g, P, q) \subseteq R
    BY DEF Closed
  <2>1. Kids(Node, g, P, q) \subseteq Kids(Node, h, Q, q)
    BY DEF Shrunk, Fewer
  <2> QED BY <1>1, <2>1 DEF Closed
<1> QED BY <1>1, <1>2 DEF Apart

\* The cycle guard does not refuse later what it let pass.
LEMMA GuardStays ==
  ASSUME NodesOK, NEW h, NEW Q, Linked(Node, Kind, h, Q), NEW g, NEW P, Linked(Node, Kind, g, P),
         Shrunk(h, Q, g, P), NEW p \in Ptr, NEW x \in Node, ~WouldCreateCycle(h, p, x)
  PROVE  ~WouldCreateCycle(g, p, x)
<1>1. h.parent \in Slot(Node) /\ g.parent \in Slot(Node) /\ Nil \notin Node
  BY HeapFields DEF Linked, NodesOK
<1> DEFINE A == Elems(Walk(h.parent, p))
           w == Walk(g.parent, p)
<1>2. /\ A \subseteq Node
      /\ p # Nil => p \in A
      /\ \A y \in A : h.parent[y] # Nil => h.parent[y] \in A
  BY <1>1, WalkFacts
<1>3. Walked(Node, g.parent, p, w)
  BY <1>1, WalkFacts
<1> HIDE DEF w, A
<1>4. ASSUME NEW y \in A, g.parent[y] # Nil PROVE g.parent[y] \in A
  <2>1. CASE p # Nil
    BY <1>2, <1>4, <2>1 DEF Shrunk
  <2>2. CASE p = Nil
    <3>1. Walked(Node, h.parent, Nil, Walk(h.parent, Nil))
      BY <1>1, WalkFacts DEF Ptr
    <3>2. A = {}
      BY <2>2, <3>1 DEF Walked, Elems, A
    <3> QED BY <3>2
  <2> QED BY <2>1, <2>2
<1>5. Elems(w) \subseteq A
  <2>1. p # Nil => p \in A
    BY <1>1, WalkFacts DEF A
  <2> QED BY <1>1, <1>3, <1>4, <2>1, WalkStays
<1>6. x \notin A
  BY DEF WouldCreateCycle, A
<1>7. ASSUME p # Nil, g.first[x] # Nil, p \in Reached(g, x) PROVE FALSE
  <2>1. Apart(g, P, p, x)
    BY NoCycleIsApart, StillApart
  <2>2. PICK R \in SUBSET Node : x \in R /\ p \notin R /\ Closed(Node, g, P, R)
    BY <2>1 DEF Apart
  <2>3. Reached(g, x) \subseteq R
    BY <2>2, ReachedIs
  <2> QED BY <1>7, <2>2, <2>3
<1> QED BY <1>5, <1>6, <1>7 DEF WouldCreateCycle, w

-----------------------------------------------------------------------------
(***************************************************************************)
(* Rows to put in, and what an edit leaves.                                *)
(***************************************************************************)
\* Two nodes in a row, and one.
LEMMA PairIsOrdered ==
  ASSUME Nil \notin Node, NEW l \in Node, NEW x \in Node, l # x
  PROVE  Ordered({l, x}, l, x, [y \in {l, x} |-> IF y = l THEN x ELSE Nil],
                 [y \in {l, x} |-> IF y = x THEN l ELSE Nil])
<1> DEFINE M == {l, x}
           nx == [y \in M |-> IF y = l THEN x ELSE Nil]
           pv == [y \in M |-> IF y = x THEN l ELSE Nil]
<1>1. nx[l] = x /\ nx[x] = Nil /\ pv[l] = Nil /\ pv[x] = l /\ l # Nil /\ x # Nil
  OBVIOUS
<1> HIDE DEF nx, pv
<1>2. ASSUME NEW S \in SUBSET M, S # {}
      PROVE  (\E y \in S : nx[y] \notin S) /\ (\E y \in S : pv[y] \notin S)
  <2>1. l \in S \/ x \in S
    <3>1. PICK y \in S : y \in M
      BY <1>2
    <3> QED BY <3>1
  <2>2. Nil \notin S
    BY <1>1
  <2> QED BY <1>1, <2>1, <2>2
<1>3. \A y \in M : nx[y] \in M \cup {Nil} /\ pv[y] \in M \cup {Nil}
  BY <1>1
<1>4. \A y, z \in M : nx[y] = z <=> pv[z] = y
  BY <1>1
<1>5. \A y \in M : (nx[y] = Nil <=> y = x) /\ (pv[y] = Nil <=> y = l)
  BY <1>1
<1>6. Ordered(M, l, x, nx, pv)
  BY <1>1, <1>2, <1>3, <1>4, <1>5 DEF Ordered
<1> QED BY <1>6 DEF nx, pv

\* One node is a row.
LEMMA OneIsOrdered ==
  ASSUME Nil \notin Node, NEW x \in Node
  PROVE  Ordered({x}, x, x, [y \in {x} |-> Nil], [y \in {x} |-> Nil])
<1> DEFINE M == {x}
           nx == [y \in M |-> Nil]
<1>1. nx[x] = Nil /\ x # Nil
  OBVIOUS
<1>2. ASSUME NEW S \in SUBSET M, S # {} PROVE \E y \in S : nx[y] \notin S
  <2>1. x \in S /\ Nil \notin S
    BY <1>1, <1>2
  <2> QED BY <1>1, <2>1
<1> QED BY <1>1, <1>2 DEF Ordered

\* The place of x in a sequence without duplicates, and its neighbours there.
Place(ns, x) == CHOOSE i \in DOMAIN ns : ns[i] = x

After(ns) == [x \in Elems(ns) |-> IF x = Tail1(ns) THEN Nil ELSE ns[Place(ns, x) + 1]]

Before(ns) == [x \in Elems(ns) |-> IF x = ns[1] THEN Nil ELSE ns[Place(ns, x) - 1]]

\* A sequence of different nodes.
Distinct(ns) ==
  ns \in Seq(Node) /\ Len(ns) >= 1 /\ \A i, j \in 1 .. Len(ns) : ns[i] = ns[j] => i = j

\* Each of different nodes has its place in the sequence.
LEMMA PlaceIs ==
  ASSUME NEW ns, Distinct(ns)
  PROVE  /\ \A i \in 1 .. Len(ns) : ns[i] \in Elems(ns) /\ Place(ns, ns[i]) = i
         /\ \A x \in Elems(ns) : Place(ns, x) \in 1 .. Len(ns) /\ ns[Place(ns, x)] = x /\ x \in Node
         /\ Len(ns) \in Nat /\ ns[1] \in Elems(ns) /\ Tail1(ns) \in Elems(ns)
         /\ Tail1(ns) = ns[Len(ns)]
<1>1. /\ Len(ns) \in Nat /\ DOMAIN ns = 1 .. Len(ns) /\ Len(ns) >= 1
      /\ \A i \in 1 .. Len(ns) : ns[i] \in Node
      /\ \A i, j \in 1 .. Len(ns) : ns[i] = ns[j] => i = j
  BY DEF Distinct
<1>2. ASSUME NEW i \in 1 .. Len(ns) PROVE ns[i] \in Elems(ns) /\ Place(ns, ns[i]) = i
  <2>1. ns[i] \in Elems(ns)
    BY <1>1 DEF Elems
  <2>2. \E j \in DOMAIN ns : ns[j] = ns[i]
    BY <1>1
  <2>3. Place(ns, ns[i]) \in DOMAIN ns /\ ns[Place(ns, ns[i])] = ns[i]
    BY <2>2 DEF Place
  <2> QED BY <1>1, <2>1, <2>3
<1>3. ASSUME NEW x \in Elems(ns)
      PROVE  Place(ns, x) \in 1 .. Len(ns) /\ ns[Place(ns, x)] = x /\ x \in Node
  <2>1. PICK i \in 1 .. Len(ns) : x = ns[i]
    BY <1>1 DEF Elems
  <2> QED BY <1>1, <1>2, <2>1
<1>4. Tail1(ns) = ns[Len(ns)]
  BY DEF Tail1
<1> QED BY <1>1, <1>2, <1>3, <1>4

\* A sequence of different nodes is a row.
LEMMA RowIsOrdered ==
  ASSUME Nil \notin Node, NEW ns, Distinct(ns)
  PROVE  Ordered(Elems(ns), ns[1], Tail1(ns), After(ns), Before(ns))
<1> DEFINE M == Elems(ns)
           n == Len(ns)
           at(x) == Place(ns, x)
           nx == After(ns)
           pv == Before(ns)
<1>1. /\ \A i \in 1 .. n : ns[i] \in M /\ at(ns[i]) = i
      /\ \A x \in M : at(x) \in 1 .. n /\ ns[at(x)] = x /\ x \in Node
      /\ n \in Nat /\ n >= 1 /\ ns[1] \in M /\ Tail1(ns) \in M /\ Tail1(ns) = ns[n]
  BY PlaceIs DEF Distinct
<1>2. \A x \in M : /\ nx[x] = IF x = Tail1(ns) THEN Nil ELSE ns[at(x) + 1]
                   /\ pv[x] = IF x = ns[1] THEN Nil ELSE ns[at(x) - 1]
  BY DEF After, Before
<1> HIDE DEF M, n, at, nx, pv
<1>3. \A x \in M : (x = Tail1(ns) <=> at(x) = n) /\ (x = ns[1] <=> at(x) = 1)
  BY <1>1
<1>4. ASSUME NEW x \in M, x # Tail1(ns)
      PROVE  nx[x] \in M /\ at(nx[x]) = at(x) + 1
  <2>1. at(x) + 1 \in 1 .. n
    BY <1>1, <1>3, <1>4
  <2> QED BY <1>1, <1>2, <1>4, <2>1
<1>5. ASSUME NEW x \in M, x # ns[1]
      PROVE  pv[x] \in M /\ at(pv[x]) = at(x) - 1
  <2>1. at(x) - 1 \in 1 .. n
    BY <1>1, <1>3, <1>5
  <2> QED BY <1>1, <1>2, <1>5, <2>1
<1>6. Nil \notin M
  BY <1>1
<1>7. ASSUME NEW x \in M PROVE (nx[x] = Nil <=> x = Tail1(ns)) /\ (pv[x] = Nil <=> x = ns[1])
  BY <1>2, <1>4, <1>5, <1>6
<1>8. ASSUME NEW x \in M PROVE nx[x] \in M \cup {Nil} /\ pv[x] \in M \cup {Nil}
  BY <1>2, <1>4, <1>5
<1>9. ASSUME NEW x \in M, NEW y \in M PROVE nx[x] = y <=> pv[y] = x
  <2>1. ASSUME nx[x] = y PROVE pv[y] = x
    <3>1. x # Tail1(ns)
      BY <1>6, <1>7, <2>1
    <3>2. at(y) = at(x) + 1
      BY <1>4, <2>1, <3>1
    <3>3. y # ns[1] /\ at(y) - 1 = at(x)
      BY <1>1, <1>3, <3>2
    <3> QED BY <1>1, <1>2, <3>3
  <2>2. ASSUME pv[y] = x PROVE nx[x] = y
    <3>1. y # ns[1]
      BY <1>6, <1>7, <2>2
    <3>2. at(x) = at(y) - 1
      BY <1>5, <2>2, <3>1
    <3>3. x # Tail1(ns) /\ at(x) + 1 = at(y)
      BY <1>1, <1>3, <3>2
    <3> QED BY <1>1, <1>2, <3>3
  <2> QED BY <2>1, <2>2
<1>10. ASSUME NEW S \in SUBSET M, S # {}
       PROVE  (\E x \in S : nx[x] \notin S) /\ (\E x \in S : pv[x] \notin S)
  <2>1. \E x \in S : pv[x] \notin S
    <3> DEFINE R == {at(x) : x \in S}
    <3>1. R \in SUBSET Nat /\ R # {}
      BY <1>1, <1>10
    <3>2. PICK m \in R : \A k \in R : m <= k
      BY <3>1, LeastNumber
    <3>3. PICK x \in S : m = at(x)
      BY <3>2
    <3>4. pv[x] \notin S
      <4> SUFFICES ASSUME pv[x] \in S PROVE FALSE
        OBVIOUS
      <4>1. x # ns[1] /\ x \in M
        BY <1>6, <1>7
      <4>2. at(pv[x]) = at(x) - 1 /\ at(pv[x]) \in R /\ at(x) \in Nat
        BY <1>1, <1>5, <4>1
      <4>3. m <= at(x) - 1
        BY <3>2, <4>2
      <4> QED BY <3>3, <4>2, <4>3
    <3> QED BY <3>4
  <2>2. \E x \in S : nx[x] \notin S
    <3> DEFINE R == {n - at(x) : x \in S}
    <3>1. R \in SUBSET Nat /\ R # {}
      <4>1. \A x \in S : n - at(x) \in Nat
        BY <1>1
      <4> QED BY <1>10, <4>1
    <3>2. PICK m \in R : \A k \in R : m <= k
      BY <3>1, LeastNumber
    <3>3. PICK x \in S : m = n - at(x)
      BY <3>2
    <3>4. nx[x] \notin S
      <4> SUFFICES ASSUME nx[x] \in S PROVE FALSE
        OBVIOUS
      <4>1. x # Tail1(ns) /\ x \in M
        BY <1>6, <1>7
      <4>2. at(nx[x]) = at(x) + 1 /\ n - at(nx[x]) \in R /\ at(x) \in Nat /\ n \in Nat
        BY <1>1, <1>4, <4>1
      <4>3. m <= n - (at(x) + 1)
        BY <3>2, <4>2
      <4> QED BY <3>3, <4>2, <4>3
    <3> QED BY <3>4
  <2> QED BY <2>1, <2>2
<1>11. Ordered(M, ns[1], Tail1(ns), nx, pv)
  BY <1>1, <1>6, <1>7, <1>8, <1>9, <1>10 DEF Ordered
<1> QED BY <1>11 DEF M, nx, pv

\* A row that n's parent is not below, put where n was.
LEMMA SplicedTree ==
  ASSUME NodesOK, NEW h, NEW Q, Tree(h, Q), NEW n \in Node, NEW M \in SUBSET Node,
         NEW c, NEW e, NEW nx, NEW pv, Ordered(M, c, e, nx, pv),
         \A y \in M : y # n => Loose(h, y) /\ Kind[y] # "Document", n \in Q => M \subseteq Attrs,
         n \notin Q => \E R \in SUBSET Node : /\ M \ {n} \subseteq R /\ h.parent[n] \notin R
                                              /\ Closed(Node, h, Q, R),
         NEW r, Spliced(Node, h, Q, n, M, c, e, nx, pv, r)
  PROVE  Tree(r, Taking(Q, n, M)) /\ Taking(Q, n, M) \in SUBSET Node
<1> DEFINE P == Taking(Q, n, M)
<1>1. Linked(Node, Kind, h, Q) /\ Treelike(Node, h, Q) /\ Roots(Node, Kind, h)
  BY DEF Tree
<1>2. Linked(Node, Kind, r, P)
  BY <1>1, SplicedLinked
<1>3. \A p \in Node : Kids(Node, r, P, p) \subseteq
           Kids(Node, h, Q, p) \cup (IF p = h.parent[n] /\ n \notin Q THEN M \ {n} ELSE {})
  BY <1>1, SplicedKids
<1> HIDE DEF P
<1>6. Treelike(Node, r, P)
  <2>1. CASE n \in Q
    <3>1. Fewer(Node, h, Q, r, P)
      BY <1>3, <2>1 DEF Fewer
    <3> QED BY <1>1, <3>1, FewerTreelike
  <2>2. CASE n \notin Q
    <3>1. PICK R \in SUBSET Node : /\ M \ {n} \subseteq R /\ h.parent[n] \notin R
                                   /\ Closed(Node, h, Q, R)
      BY <2>2
    <3>2. Gains(Node, h, Q, r, P, h.parent[n], R)
      BY <1>3, <3>1 DEF Gains
    <3> QED BY <1>1, <3>2, GainsTreelike
  <2> QED BY <2>1, <2>2
<1>7. Roots(Node, Kind, r)
  <2>1. \A y \in Node : r.parent[y] = IF y \in M THEN h.parent[n] ELSE IF y = n THEN Nil ELSE h.parent[y]
    BY DEF Spliced
  <2>2. \A y \in Node : Kind[y] = "Document" => h.parent[y] = Nil
    BY <1>1 DEF Roots
  <2> QED BY <2>1, <2>2 DEF Roots
<1>8. P \in SUBSET Node
  BY <1>2 DEF Linked, Attributes
<1> QED BY <1>2, <1>6, <1>7, <1>8 DEF Tree, P

\* The heaps of the edits that assign only some of the pointers.
RelinkRow(h, c, d, e, f) == [h EXCEPT !.next = d, !.prev = e, !.parent = f, !.last = c]

RelinkChain(h, d, e, f) == [h EXCEPT !.next = d, !.prev = e, !.parent = f]

RelinkOnly(h, b, c, f) == [h EXCEPT !.first = b, !.last = c, !.parent = f]

RelinkProperty(h, a, f) == [h EXCEPT !.props = a, !.parent = f]

RelinkSwap(h, a, d, e, f) == [h EXCEPT !.props = a, !.next = d, !.prev = e, !.parent = f]

RelinkLast(h, c) == [h EXCEPT !.last = c]

\* They leave the other pointers.
LEMMA RelinkSome ==
  ASSUME NEW h, Heap(Node, h), NEW a \in Slot(Node), NEW b \in Slot(Node), NEW c \in Slot(Node),
         NEW d \in Slot(Node), NEW e \in Slot(Node), NEW f \in Slot(Node)
  PROVE  /\ Relinked(h, RelinkRow(h, c, d, e, f), h.props, h.first, c, d, e, f)
         /\ Relinked(h, RelinkChain(h, d, e, f), h.props, h.first, h.last, d, e, f)
         /\ Relinked(h, RelinkOnly(h, b, c, f), h.props, b, c, h.next, h.prev, f)
         /\ Relinked(h, RelinkProperty(h, a, f), a, h.first, h.last, h.next, h.prev, f)
         /\ Relinked(h, RelinkSwap(h, a, d, e, f), a, h.first, h.last, d, e, f)
         /\ Relinked(h, RelinkLast(h, c), h.props, h.first, c, h.next, h.prev, h.parent)
<1> DEFINE S == Slot(Node)
           C == [Node -> Seq(Node)]
           E == SUBSET Node
           H == [parent : S, next : S, prev : S, first : S, last : S, props : S, owner : S,
                 content : C, escaped : E]
<1>1. h \in H /\ \A r : r \in H <=> Heap(Node, r)
  BY DEF Heap
<1> HIDE DEF S, C, E
<1>2. Relinked(h, RelinkRow(h, c, d, e, f), h.props, h.first, c, d, e, f)
  BY <1>1 DEF Relinked, S, RelinkRow
<1>3. Relinked(h, RelinkChain(h, d, e, f), h.props, h.first, h.last, d, e, f)
  BY <1>1 DEF Relinked, S, RelinkChain
<1>4. Relinked(h, RelinkOnly(h, b, c, f), h.props, b, c, h.next, h.prev, f)
  BY <1>1 DEF Relinked, S, RelinkOnly
<1>5. Relinked(h, RelinkProperty(h, a, f), a, h.first, h.last, h.next, h.prev, f)
  BY <1>1 DEF Relinked, S, RelinkProperty
<1>6. Relinked(h, RelinkSwap(h, a, d, e, f), a, h.first, h.last, d, e, f)
  BY <1>1 DEF Relinked, S, RelinkSwap
<1>7. Relinked(h, RelinkLast(h, c), h.props, h.first, c, h.next, h.prev, h.parent)
  BY <1>1 DEF Relinked, S, RelinkLast
<1> QED BY <1>2, <1>3, <1>4, <1>5, <1>6, <1>7

\* x is put after l, the last of its list.
Appended(h, Q, l, x, r) ==
  /\ Heap(Node, r) /\ r.owner = h.owner /\ r.content = h.content /\ r.escaped = h.escaped
  /\ r.props = h.props /\ r.first = h.first
  /\ \A y \in Node : r.next[y] = IF y = l THEN x ELSE h.next[y]
  /\ \A y \in Node : r.prev[y] = IF y = x THEN l ELSE h.prev[y]
  /\ \A y \in Node : r.parent[y] = IF y = x THEN h.parent[l] ELSE h.parent[y]
  /\ \A p \in Node : r.last[p] = IF l \notin Q /\ p = h.parent[l] THEN x ELSE h.last[p]

\* What is put after the last of a list leaves a tree.
LEMMA AppendedTree ==
  ASSUME NodesOK, NEW h, NEW Q, Tree(h, Q), NEW l \in Node, NEW x \in Node, l # x, Loose(h, x),
         Kind[x] # "Document", h.next[l] = Nil, l \in Q => x \in Attrs,
         l \notin Q => Apart(h, Q, h.parent[l], x), NEW r, Appended(h, Q, l, x, r)
  PROVE  \E P \in SUBSET Node : Tree(r, P)
<1> DEFINE M == {l, x}
           nx == [y \in {l, x} |-> IF y = l THEN x ELSE Nil]
           pv == [y \in {l, x} |-> IF y = x THEN l ELSE Nil]
<1>1. Ordered(M, l, x, nx, pv) /\ M \in SUBSET Node
  BY PairIsOrdered DEF NodesOK
<1>2. Linked(Node, Kind, h, Q)
  BY DEF Tree
<1>3. Heads(Node, h, Q) /\ Attributes(Node, Kind, h, Q) /\ Twins(Node, h) /\ PropsHead(Node, h, Q)
      /\ ChildEnds(Node, Kind, h, Q)
  BY <1>2 DEF Linked
<1>4. Spliced(Node, h, Q, l, M, l, x, nx, pv, r)
  <2>1. /\ Heap(Node, r) /\ r.owner = h.owner /\ r.content = h.content /\ r.escaped = h.escaped
        /\ r.props = h.props /\ r.first = h.first
        /\ \A y \in Node : r.next[y] = IF y = l THEN x ELSE h.next[y]
        /\ \A y \in Node : r.prev[y] = IF y = x THEN l ELSE h.prev[y]
        /\ \A y \in Node : r.parent[y] = IF y = x THEN h.parent[l] ELSE h.parent[y]
        /\ \A p \in Node : r.last[p] = IF l \notin Q /\ p = h.parent[l] THEN x ELSE h.last[p]
    BY DEF Appended
  <2>2. h.parent[x] = Nil /\ h.prev[x] = Nil /\ h.next[x] = Nil /\ h.next[l] = Nil
    BY DEF Loose
  <2>3. nx[l] = x /\ nx[x] = Nil /\ pv[l] = Nil /\ pv[x] = l
    OBVIOUS
  <2>4. \A y \in Node : (y = h.prev[l] => h.next[y] = l) /\ h.next[l] # y /\ y # Nil
    BY <1>3, <2>2 DEF Twins, NodesOK
  <2>5. \A p \in Node : p = h.parent[l] /\ l \notin Q => h.last[p] = l
    BY <1>3, <2>2, <2>4 DEF Heads
  <2> HIDE DEF nx, pv
  <2>6. \A y \in Node : r.parent[y] = IF y \in M THEN h.parent[l] ELSE IF y = l THEN Nil ELSE h.parent[y]
    BY <2>1
  <2>7. \A y \in Node : r.next[y] = IF y \in M THEN (IF y = x THEN h.next[l] ELSE nx[y])
                              ELSE IF y = l THEN Nil ELSE IF y = h.prev[l] THEN l ELSE h.next[y]
    BY <2>1, <2>2, <2>3, <2>4
  <2>8. \A y \in Node : r.prev[y] = IF y \in M THEN (IF y = l THEN h.prev[l] ELSE pv[y])
                              ELSE IF y = l THEN Nil ELSE IF y = h.next[l] THEN x ELSE h.prev[y]
    BY <2>1, <2>2, <2>3, <2>4
  <2>9. \A p \in Node : r.props[p] = IF l \in Q /\ p = h.parent[l] /\ h.props[p] = l THEN l ELSE h.props[p]
    BY <2>1
  <2>10. \A p \in Node : r.first[p] = IF l \notin Q /\ p = h.parent[l] /\ h.first[p] = l THEN l ELSE h.first[p]
    BY <2>1
  <2>11. \A p \in Node : r.last[p] = IF l \notin Q /\ p = h.parent[l] /\ h.last[p] = l THEN x ELSE h.last[p]
    BY <2>1, <2>5
  <2> HIDE DEF M
  <2> QED BY <2>1, <2>6, <2>7, <2>8, <2>9, <2>10, <2>11 DEF Spliced
<1>5. l \in Q => M \subseteq Attrs
  BY <1>3 DEF Attributes, Attrs
<1>6. \A y \in M : y # l => Loose(h, y) /\ Kind[y] # "Document"
  OBVIOUS
<1>7. l \notin Q => \E R \in SUBSET Node : /\ M \ {l} \subseteq R /\ h.parent[l] \notin R
                                          /\ Closed(Node, h, Q, R)
  BY DEF Apart
<1> HIDE DEF M, nx, pv
<1> QED BY <1>1, <1>4, <1>5, <1>6, <1>7, SplicedTree

\* Where a node may have come to be: its owner gave it up, or owns its new list.
Settled(h, r, x) ==
  \/ r.parent[x] \in {h.parent[x], Nil}
  \/ h.owner[x] \in r.escaped \cup {Nil}
  \/ DestinationDocument(h, r.parent[x]) = h.owner[x]
  \/ \E y \in Node : h.parent[y] = r.parent[x] /\ DestinationDocument(h, y) = h.owner[x]

\* What an edit with the operands Ops leaves.
Edit(h, r, Ops) ==
  /\ \E P \in SUBSET Node : Tree(r, P)
  /\ r.owner = h.owner /\ h.escaped \subseteq r.escaped
  /\ \A d \in r.escaped : d \in h.escaped \/ \E x \in Ops : d = h.owner[x]
  /\ \A x \in Node : Settled(h, r, x)

\* cur is free to go where the document d is at home.
Adopted(h, cur, d) == h.owner[cur] \in h.escaped \cup {Nil, d}

\* The end of n's list.
LEMMA EndIs ==
  ASSUME NodesOK, NEW h, NEW Q, Linked(Node, Kind, h, Q), NEW n \in Node, NEW e, e = Tail1(Walk(h.next, n))
  PROVE  e \in Node /\ h.next[e] = Nil /\ h.parent[e] = h.parent[n] /\ (e \in Q <=> n \in Q)
         /\ (n # e => h.prev[e] # Nil)
<1>1. h.next \in Slot(Node) /\ Ending(Node, h.next) /\ Nil \notin Node
  BY HeapFields DEF Linked, NodesOK
<1> DEFINE w == Walk(h.next, n)
<1>2. Walked(Node, h.next, n, w) /\ Elems(w) \subseteq Node
  BY <1>1, WalkFacts DEF Ptr
<1>3. e \in Elems(w) /\ h.next[e] = Nil
  BY <1>1, <1>2, WalkEnds DEF NodesOK
<1> DEFINE S == {y \in Node : h.parent[y] = h.parent[n] /\ (y \in Q <=> n \in Q)
                              /\ (n # y => h.prev[y] # Nil)}
<1>4. \A y \in S : h.next[y] # Nil => h.next[y] \in S
  <2> SUFFICES ASSUME NEW y \in S, h.next[y] # Nil PROVE h.next[y] \in S
    OBVIOUS
  <2>1. /\ h.next[y] \in Node /\ h.prev[h.next[y]] = y
        /\ h.parent[h.next[y]] = h.parent[y] /\ (h.next[y] \in Q <=> y \in Q)
    BY Neighbours
  <2> QED BY <1>1, <2>1
<1>5. n \in S /\ n \in Ptr
  BY DEF Ptr
<1> HIDE DEF w, S
<1>6. Elems(w) \subseteq S
  BY <1>1, <1>2, <1>4, <1>5, WalkStays
<1> QED BY <1>3, <1>6 DEF S

-----------------------------------------------------------------------------
(***************************************************************************)
(* The edits.                                                              *)
(***************************************************************************)
\* x goes to the end of the list of n.
LEMMA AppendedEdit ==
  ASSUME NodesOK, NEW h, NEW Q, Tree(h, Q), NEW n \in Node, NEW l \in Node, NEW x \in Node,
         l # x, Loose(h, x), Kind[x] # "Document", h.next[l] = Nil, l \in Q => x \in Attrs,
         l \notin Q => Apart(h, Q, h.parent[l], x), NEW r, Appended(h, Q, l, x, r),
         h.parent[l] = h.parent[n], Adopted(h, x, DestinationDocument(h, n))
  PROVE  Edit(h, r, {x})
<1>1. \E P \in SUBSET Node : Tree(r, P)
  BY AppendedTree
<1>2. /\ r.owner = h.owner /\ r.escaped = h.escaped
      /\ \A y \in Node : r.parent[y] = IF y = x THEN h.parent[l] ELSE h.parent[y]
  BY DEF Appended
<1>3. ASSUME NEW y \in Node PROVE Settled(h, r, y)
  <2>1. CASE y # x
    BY <1>2, <2>1 DEF Settled
  <2>2. CASE y = x
    BY <1>2, <2>2 DEF Settled, Adopted
  <2> QED BY <2>1, <2>2
<1> QED BY <1>1, <1>2, <1>3 DEF Edit

\* The tail of AddSibling in a child list.
LEMMA LinkAtEndEdit ==
  ASSUME NodesOK, NEW h, NEW Q, Tree(h, Q), NEW n \in Node, NEW cur \in Node, n # cur,
         Loose(h, cur), Kind[cur] # "Document", n \notin Q, Apart(h, Q, h.parent[n], cur),
         Adopted(h, cur, DestinationDocument(h, n)), NEW r, r = LinkAtEnd(h, n, cur)
  PROVE  Edit(h, r, {cur})
<1> DEFINE end == Tail1(Walk(h.next, n))
           p == h.parent[end]
           X == h.next
           V == h.prev
           U == h.parent
           L == h.last
           d == Poke(X, end, cur)
           e == Poke(V, cur, end)
           f == Poke(U, cur, p)
           c == Put(L, p, cur)
<1>1. Linked(Node, Kind, h, Q) /\ Heap(Node, h) /\ Nil \notin Node
  BY DEF Tree, Linked, NodesOK
<1>2. end \in Node /\ h.next[end] = Nil /\ h.parent[end] = h.parent[n] /\ (end \in Q <=> n \in Q)
      /\ (n # end => h.prev[end] # Nil)
  BY <1>1, EndIs
<1>3. r = RelinkRow(h, c, d, e, f)
  BY DEF LinkAtEnd, Poke, RelinkRow
<1> HIDE DEF end
<1>4. end # cur
  BY <1>2 DEF Loose
<1>5. /\ U \in Slot(Node) /\ X \in Slot(Node) /\ V \in Slot(Node)
      /\ h.first \in Slot(Node) /\ L \in Slot(Node) /\ h.props \in Slot(Node)
      /\ p \in Ptr /\ cur \in Ptr /\ end \in Ptr
  BY <1>1, <1>2, HeapFields, Neighbours DEF Ptr
<1> HIDE DEF p, X, V, U, L
<1>6. d \in Slot(Node) /\ \A y \in Node : d[y] = IF y = end THEN cur ELSE X[y]
  BY <1>2, <1>5, PokeIs
<1>7. e \in Slot(Node) /\ \A y \in Node : e[y] = IF y = cur THEN end ELSE V[y]
  BY <1>2, <1>5, PokeIs
<1>8. f \in Slot(Node) /\ \A y \in Node : f[y] = IF y = cur THEN p ELSE U[y]
  BY <1>2, <1>5, PokeIs
<1>9. c \in Slot(Node) /\ \A y \in Node : c[y] = IF y = p THEN cur ELSE L[y]
  BY <1>1, <1>5, PutIs
<1> HIDE DEF d, e, f, c
<1>10. Relinked(h, r, h.props, h.first, c, d, e, f)
  <2>1. c \in Slot(Node) /\ d \in Slot(Node) /\ e \in Slot(Node) /\ f \in Slot(Node)
    BY <1>6, <1>7, <1>8, <1>9
  <2>2. Relinked(h, RelinkRow(h, c, d, e, f), h.props, h.first, c, d, e, f)
    BY <1>1, <2>1, RelinkSome
  <2> QED BY <1>3, <2>2
<1>11. Appended(h, Q, end, cur, r)
  BY <1>2, <1>6, <1>7, <1>8, <1>9, <1>10 DEF Appended, Relinked, p, X, V, U, L
<1> QED BY <1>2, <1>4, <1>11, AppendedEdit

\* The tail of AddSibling in a property list.
LEMMA LinkAtEndOfChainEdit ==
  ASSUME NodesOK, NEW h, NEW Q, Tree(h, Q), NEW n \in Node, NEW cur \in Node, n # cur,
         Loose(h, cur), cur \in Attrs, n \in Q,
         Adopted(h, cur, DestinationDocument(h, n)), NEW r, r = LinkAtEndOfChain(h, n, cur)
  PROVE  Edit(h, r, {cur})
<1> DEFINE end == Tail1(Walk(h.next, n))
           p == h.parent[n]
           X == h.next
           V == h.prev
           U == h.parent
           L == h.last
           d == Poke(X, end, cur)
           e == Poke(V, cur, end)
           f == Poke(U, cur, p)
<1>1. Linked(Node, Kind, h, Q) /\ Heap(Node, h) /\ Nil \notin Node
  BY DEF Tree, Linked, NodesOK
<1>2. end \in Node /\ h.next[end] = Nil /\ h.parent[end] = h.parent[n] /\ (end \in Q <=> n \in Q)
      /\ (n # end => h.prev[end] # Nil)
  BY <1>1, EndIs
<1>3. r = RelinkChain(h, d, e, f)
  BY DEF LinkAtEndOfChain, Poke, RelinkChain
<1> HIDE DEF end
<1>4. end # cur /\ Kind[cur] # "Document"
  BY <1>2 DEF Loose, Attrs
<1>5. /\ U \in Slot(Node) /\ X \in Slot(Node) /\ V \in Slot(Node)
      /\ h.first \in Slot(Node) /\ L \in Slot(Node) /\ h.props \in Slot(Node)
      /\ p \in Ptr /\ cur \in Ptr /\ end \in Ptr
  BY <1>1, <1>2, HeapFields, Neighbours DEF Ptr
<1> HIDE DEF p, X, V, U, L
<1>6. d \in Slot(Node) /\ \A y \in Node : d[y] = IF y = end THEN cur ELSE X[y]
  BY <1>2, <1>5, PokeIs
<1>7. e \in Slot(Node) /\ \A y \in Node : e[y] = IF y = cur THEN end ELSE V[y]
  BY <1>2, <1>5, PokeIs
<1>8. f \in Slot(Node) /\ \A y \in Node : f[y] = IF y = cur THEN p ELSE U[y]
  BY <1>2, <1>5, PokeIs
<1> HIDE DEF d, e, f
<1>9. Relinked(h, r, h.props, h.first, L, d, e, f)
  BY <1>1, <1>3, <1>5, <1>6, <1>7, <1>8, RelinkSome DEF L
<1>10. Appended(h, Q, end, cur, r)
  BY <1>2, <1>6, <1>7, <1>8, <1>9 DEF Appended, Relinked, p, X, V, U, L
<1> QED BY <1>2, <1>4, <1>10, AppendedEdit

\* addProperty puts a at the end of e's properties, or in the place of its like.
LEMMA AddPropertyEdit ==
  ASSUME NodesOK, NEW h, NEW Q, Tree(h, Q), NEW e \in Node, NEW a \in Node, Kind[e] = "Element",
         a \in Attrs, Loose(h, a), Adopted(h, a, DestinationDocument(h, e)), NEW r, r = AddProperty(h, e, a)
  PROVE  Edit(h, r, {a})
<1> DEFINE X == h.next
           V == h.prev
           U == h.parent
           A == h.props
           chain == Properties(h, e)
           hits == {i \in DOMAIN chain : AttrMatches(chain[i], a)}
           old == chain[CHOOSE i \in hits : \A j \in hits : i <= j]
           l == Tail1(chain)
<1>1. Linked(Node, Kind, h, Q) /\ Heap(Node, h) /\ Nil \notin Node /\ Attributes(Node, Kind, h, Q)
      /\ Ending(Node, h.next)
  BY DEF Tree, Linked, NodesOK
<1>2. /\ U \in Slot(Node) /\ X \in Slot(Node) /\ V \in Slot(Node) /\ A \in Slot(Node)
      /\ h.first \in Slot(Node) /\ h.last \in Slot(Node) /\ e \in Ptr /\ a \in Ptr /\ Nil \in Ptr
      /\ A[e] \in Ptr /\ NextAttribute(h) \in Slot(Node)
  BY <1>1, HeapFields, Neighbours DEF Ptr, NextAttribute, Attrs, Slot
<1>3. /\ Walked(Node, NextAttribute(h), A[e], chain)
      /\ Elems(chain) = {x \in Q : U[x] = e}
      /\ \A x \in Q : NextAttribute(h)[x] = X[x]
  BY <1>1, PropertiesAre
<1>4. U[a] = Nil /\ V[a] = Nil /\ X[a] = Nil /\ a \notin Q /\ Kind[a] # "Document" /\ e # a /\ e # Nil
  BY <1>1 DEF Loose, Attributes, Attrs
<1>5. chain \in Seq(Node) /\ Len(chain) \in Nat /\ DOMAIN chain = 1 .. Len(chain)
  BY <1>3 DEF Walked
<1>6. CASE chain = << >>
  <2> DEFINE g == Poke(A, e, a)
             f == Poke(U, a, e)
  <2>1. r = RelinkProperty(h, g, f)
    <3>1. r = [h EXCEPT !.props[e] = a, !.parent[a] = e]
      BY <1>6 DEF AddProperty
    <3> QED BY <3>1 DEF RelinkProperty, Poke
  <2> HIDE DEF A, U, X, V
  <2>2. g \in Slot(Node) /\ \A y \in Node : g[y] = IF y = e THEN a ELSE A[y]
    BY <1>2, PokeIs
  <2>3. f \in Slot(Node) /\ \A y \in Node : f[y] = IF y = a THEN e ELSE U[y]
    BY <1>2, PokeIs
  <2> HIDE DEF g, f
  <2>4. Relinked(h, RelinkProperty(h, g, f), g, h.first, h.last, h.next, h.prev, f)
    <3>1. Heap(Node, h) /\ g \in Slot(Node) /\ f \in Slot(Node)
      BY <1>1, <2>2, <2>3
    <3> QED BY <3>1, RelinkSome
  <2>5. OnlyProperty(Node, h, e, a, r)
    BY <2>1, <2>2, <2>3, <2>4 DEF OnlyProperty, Relinked, A, U
  <2>6. Elems(chain) = {}
    BY <1>6 DEF Elems
  <2>7. \A y \in Q : h.parent[y] # e
    BY <1>3, <2>6 DEF U
  <2>8. /\ Linked(Node, Kind, r, Q \cup {a})
        /\ \A p \in Node : Kids(Node, r, Q \cup {a}, p) \subseteq Kids(Node, h, Q, p)
    BY <1>1, <2>5, <2>7, OnlyPropertyLinked
  <2>9. Treelike(Node, r, Q \cup {a})
    BY <2>8, FewerTreelike DEF Tree, Fewer
  <2>10. \A y \in Node : r.parent[y] = IF y = a THEN e ELSE h.parent[y]
    BY <2>5 DEF OnlyProperty
  <2>11. Roots(Node, Kind, r)
    BY <1>4, <2>10 DEF Roots, Tree
  <2>12. \E P \in SUBSET Node : Tree(r, P)
    BY <1>1, <2>8, <2>9, <2>11 DEF Tree, Attributes
  <2>13. r.owner = h.owner /\ r.escaped = h.escaped
    BY <2>5 DEF OnlyProperty
  <2>14. \A y \in Node : Settled(h, r, y)
    BY <2>10, <2>13 DEF Settled, Adopted
  <2> QED BY <2>12, <2>13, <2>14 DEF Edit
<1>7. CASE chain # << >> /\ hits = {}
  <2> DEFINE d == Poke(X, l, a)
             g == Poke(V, a, l)
             f == Poke(U, a, e)
  <2>1. r = RelinkChain(h, d, g, f)
    <3>1. r = [h EXCEPT !.next[l] = a, !.prev[a] = l, !.parent[a] = e]
      BY <1>7 DEF AddProperty
    <3> HIDE DEF l
    <3> QED BY <3>1 DEF RelinkChain, Poke
  <2>2. Ending(Node, NextAttribute(h))
    <3> SUFFICES ASSUME NEW S \in SUBSET Node, S # {}, \A x \in S : NextAttribute(h)[x] \in S PROVE FALSE
      BY DEF Ending
    <3>1. \A x \in S : h.next[x] \in S
      BY <1>1 DEF NextAttribute
    <3> QED BY <1>1, <3>1 DEF Ending
  <2>3. A[e] # Nil
    BY <1>3, <1>5, <1>7 DEF Walked
  <2>4. l \in Elems(chain) /\ NextAttribute(h)[l] = Nil
    BY <1>1, <1>2, <1>3, <2>2, <2>3, WalkEnds DEF Ptr, NodesOK
  <2>5. l \in Node /\ l \in Q /\ U[l] = e /\ X[l] = Nil /\ l # a /\ l \in Ptr
    BY <1>1, <1>3, <1>4, <2>4 DEF Attributes, Ptr
  <2> HIDE DEF A, U, X, V, l
  <2>6. d \in Slot(Node) /\ \A y \in Node : d[y] = IF y = l THEN a ELSE X[y]
    BY <1>2, <2>5, PokeIs
  <2>7. g \in Slot(Node) /\ \A y \in Node : g[y] = IF y = a THEN l ELSE V[y]
    BY <1>2, <2>5, PokeIs
  <2>8. f \in Slot(Node) /\ \A y \in Node : f[y] = IF y = a THEN e ELSE U[y]
    BY <1>2, PokeIs
  <2> HIDE DEF d, g, f
  <2>9. Relinked(h, RelinkChain(h, d, g, f), h.props, h.first, h.last, d, g, f)
    BY <1>1, <1>2, <2>6, <2>7, <2>8, RelinkSome
  <2>10. Appended(h, Q, l, a, r)
    BY <2>1, <2>5, <2>6, <2>7, <2>8, <2>9 DEF Appended, Relinked, A, U, X, V
  <2>11. \E P \in SUBSET Node : Tree(r, P)
    BY <1>4, <2>5, <2>10, AppendedTree DEF X
  <2>12. \A y \in Node : r.parent[y] = IF y = a THEN e ELSE h.parent[y]
    BY <2>5, <2>10 DEF Appended, U
  <2>13. r.owner = h.owner /\ r.escaped = h.escaped
    BY <2>10 DEF Appended
  <2>14. \A y \in Node : Settled(h, r, y)
    BY <2>12, <2>13 DEF Settled, Adopted
  <2> QED BY <2>11, <2>13, <2>14 DEF Edit
<1>8. CASE chain # << >> /\ hits # {}
  <2> DEFINE before == V[old]
             after == X[old]
             v == IF A[e] = old THEN a ELSE A[e]
             g == Poke(A, e, v)
             d0 == Put(X, before, a)
             d1 == Poke(d0, a, after)
             d == Poke(d1, old, Nil)
             k0 == Put(V, after, a)
             k1 == Poke(k0, a, before)
             k == Poke(k1, old, Nil)
             f0 == Poke(U, a, e)
             f == Poke(f0, old, Nil)
  <2>1. r = RelinkSwap(h, g, d, k, f)
    <3>1. r = [h EXCEPT
                !.props[e] = IF @ = old THEN a ELSE @,
                !.next = [Put(@, h.prev[old], a) EXCEPT ![a] = h.next[old], ![old] = Nil],
                !.prev = [Put(@, h.next[old], a) EXCEPT ![a] = h.prev[old], ![old] = Nil],
                !.parent[a] = e, !.parent[old] = Nil]
      BY <1>8 DEF AddProperty
    <3> HIDE DEF old
    <3>2. /\ g = [h.props EXCEPT ![e] = IF @ = old THEN a ELSE @]
          /\ d = [Put(h.next, h.prev[old], a) EXCEPT ![a] = h.next[old], ![old] = Nil]
          /\ k = [Put(h.prev, h.next[old], a) EXCEPT ![a] = h.prev[old], ![old] = Nil]
          /\ f = [h.parent EXCEPT ![a] = e, ![old] = Nil]
      BY DEF Poke
    <3> HIDE DEF g, d, k, f
    <3> QED BY <3>1, <3>2 DEF RelinkSwap
  <2>2. old \in Elems(chain)
    <3>1. hits \in SUBSET Nat
      BY <1>5
    <3>2. \E i \in hits : \A j \in hits : i <= j
      BY <1>8, <3>1, LeastNumber
    <3>3. (CHOOSE i \in hits : \A j \in hits : i <= j) \in DOMAIN chain
      BY <3>2
    <3> QED BY <3>3 DEF Elems
  <2>3. old \in Q /\ old \in Node /\ U[old] = e /\ old # a
    BY <1>1, <1>3, <1>4, <2>2 DEF Attributes
  <2>4. before \in Ptr /\ after \in Ptr /\ v \in Ptr /\ old \in Ptr
    BY <1>1, <1>2, <2>3, Neighbours DEF Ptr
  <2>5. \A y \in Node : (y = before => X[y] = old) /\ (y = after => V[y] = old)
    BY <1>1, <2>3, Neighbours
  <2> HIDE DEF A, U, X, V, old, chain, hits
  <2>6. g \in Slot(Node) /\ \A y \in Node : g[y] = IF y = e THEN v ELSE A[y]
    <3> HIDE DEF v
    <3> QED BY <1>2, <2>4, PokeIs
  <2>7. d \in Slot(Node) /\ \A y \in Node : d[y] = IF y = old THEN Nil ELSE IF y = a THEN after
                                                   ELSE IF y = before THEN a ELSE X[y]
    <3>1. d0 \in Slot(Node) /\ \A y \in Node : d0[y] = IF y = before THEN a ELSE X[y]
      <4> HIDE DEF before
      <4> QED BY <1>1, <1>2, <2>4, PutIs
    <3>2. d1 \in Slot(Node) /\ \A y \in Node : d1[y] = IF y = a THEN after ELSE d0[y]
      <4> HIDE DEF d0, after
      <4> QED BY <1>2, <2>4, <3>1, PokeIs
    <3>3. d \in Slot(Node) /\ \A y \in Node : d[y] = IF y = old THEN Nil ELSE d1[y]
      <4> HIDE DEF d1
      <4> QED BY <1>2, <2>3, <3>2, PokeIs
    <3> HIDE DEF d0, d1, d
    <3> QED BY <3>1, <3>2, <3>3
  <2>8. k \in Slot(Node) /\ \A y \in Node : k[y] = IF y = old THEN Nil ELSE IF y = a THEN before
                                                   ELSE IF y = after THEN a ELSE V[y]
    <3>1. k0 \in Slot(Node) /\ \A y \in Node : k0[y] = IF y = after THEN a ELSE V[y]
      <4> HIDE DEF after
      <4> QED BY <1>1, <1>2, <2>4, PutIs
    <3>2. k1 \in Slot(Node) /\ \A y \in Node : k1[y] = IF y = a THEN before ELSE k0[y]
      <4> HIDE DEF k0, before
      <4> QED BY <1>2, <2>4, <3>1, PokeIs
    <3>3. k \in Slot(Node) /\ \A y \in Node : k[y] = IF y = old THEN Nil ELSE k1[y]
      <4> HIDE DEF k1
      <4> QED BY <1>2, <2>3, <3>2, PokeIs
    <3> HIDE DEF k0, k1, k
    <3> QED BY <3>1, <3>2, <3>3
  <2>9. f \in Slot(Node) /\ \A y \in Node : f[y] = IF y = old THEN Nil ELSE IF y = a THEN e ELSE U[y]
    <3>1. f0 \in Slot(Node) /\ \A y \in Node : f0[y] = IF y = a THEN e ELSE U[y]
      BY <1>2, PokeIs
    <3>2. f \in Slot(Node) /\ \A y \in Node : f[y] = IF y = old THEN Nil ELSE f0[y]
      <4> HIDE DEF f0
      <4> QED BY <1>2, <2>3, <3>1, PokeIs
    <3> HIDE DEF f0, f
    <3> QED BY <3>1, <3>2
  <2> HIDE DEF g, d, k, f
  <2>10. Relinked(h, RelinkSwap(h, g, d, k, f), g, h.first, h.last, d, k, f)
    BY <1>1, <1>2, <2>6, <2>7, <2>8, <2>9, RelinkSome
  <2> DEFINE z == [y \in {a} |-> Nil]
  <2>11. Spliced(Node, h, Q, old, {a}, a, a, z, z, r)
    <3>1. /\ Heap(Node, r) /\ r.owner = h.owner /\ r.content = h.content /\ r.escaped = h.escaped
          /\ r.props = g /\ r.first = h.first /\ r.last = h.last /\ r.next = d /\ r.prev = k /\ r.parent = f
      BY <2>1, <2>10 DEF Relinked
    <3>2. before # old /\ after # old /\ before # a /\ after # a
      BY <1>1, <1>4, <2>3, <2>5, Neighbours DEF X, V
    <3> HIDE DEF z
    <3>3. \A y \in Node : r.parent[y] = IF y \in {a} THEN U[old] ELSE IF y = old THEN Nil ELSE U[y]
      BY <2>3, <2>9, <3>1
    <3>4. \A y \in Node : r.next[y] = IF y \in {a} THEN (IF y = a THEN after ELSE z[y])
                              ELSE IF y = old THEN Nil ELSE IF y = before THEN a ELSE X[y]
      BY <2>3, <2>7, <3>1, <3>2
    <3>5. \A y \in Node : r.prev[y] = IF y \in {a} THEN (IF y = a THEN before ELSE z[y])
                              ELSE IF y = old THEN Nil ELSE IF y = after THEN a ELSE V[y]
      BY <2>3, <2>8, <3>1, <3>2
    <3>6. \A p \in Node : r.props[p] = IF old \in Q /\ p = U[old] /\ A[p] = old THEN a ELSE A[p]
      BY <2>3, <2>6, <3>1
    <3> QED BY <2>3, <3>1, <3>3, <3>4, <3>5, <3>6 DEF Spliced, U, X, V, A
  <2>12. Ordered({a}, a, a, z, z)
    BY <1>1, OneIsOrdered
  <2>13. {a} \subseteq Attrs /\ {a} \in SUBSET Node
    OBVIOUS
  <2>14. \E P \in SUBSET Node : Tree(r, P)
    <3> HIDE DEF z
    <3>1. \A y \in {a} : y # old => Loose(h, y) /\ Kind[y] # "Document"
      BY <1>4
    <3> QED BY <2>3, <2>11, <2>12, <2>13, <3>1, SplicedTree
  <2>15. r.owner = h.owner /\ r.escaped = h.escaped
    BY <2>11 DEF Spliced
  <2>16. \A y \in Node : r.parent[y] = IF y = a THEN e ELSE IF y = old THEN Nil ELSE h.parent[y]
    BY <2>3, <2>11 DEF Spliced, U
  <2>17. \A y \in Node : Settled(h, r, y)
    BY <2>15, <2>16 DEF Settled, Adopted
  <2> QED BY <2>14, <2>15, <2>17 DEF Edit
<1> QED BY <1>6, <1>7, <1>8

\* An edit that leaves the links alone.
LEMMA SameEdit ==
  ASSUME NEW h, NEW r, NEW Q \in SUBSET Node, Tree(h, Q), Heap(Node, r), SameLinks(h, r),
         r.owner = h.owner, h.escaped \subseteq r.escaped, NEW Ops,
         \A d \in r.escaped : d \in h.escaped \/ \E x \in Ops : d = h.owner[x]
  PROVE  Edit(h, r, Ops)
<1>1. Tree(r, Q)
  BY SameTree
<1>2. \A x \in Node : Settled(h, r, x)
  BY DEF Settled, SameLinks
<1> QED BY <1>1, <1>2 DEF Edit

\* Q is a set of nodes.
LEMMA TreeNodes ==
  ASSUME NEW h, NEW Q, Tree(h, Q)
  PROVE  Q \in SUBSET Node /\ Heap(Node, h) /\ Linked(Node, Kind, h, Q)
BY DEF Tree, Linked, Attributes

\* The mark of an operand that leaves its document.
LEMMA MarkIs ==
  ASSUME NEW h, Heap(Node, h), NEW dest, NEW cur \in Node, NEW g, g = NoteCrossDocumentEscape(h, dest, cur)
  PROVE  /\ Heap(Node, g) /\ SameLinks(h, g) /\ g.owner = h.owner /\ g.content = h.content
         /\ h.escaped \subseteq g.escaped /\ \A d \in g.escaped : d \in h.escaped \/ d = h.owner[cur]
         /\ Adopted(g, cur, dest) /\ g = [h EXCEPT !.escaped = g.escaped]
<1> DEFINE E == h.escaped \cup ({h.owner[cur]} \ {Nil, dest})
<1>1. h.owner \in Slot(Node) /\ h.escaped \in SUBSET Node
  BY HeapFields
<1>2. E \in SUBSET Node
  BY <1>1 DEF Slot
<1>3. g = [h EXCEPT !.escaped = E]
  BY DEF NoteCrossDocumentEscape
<1>4. /\ Heap(Node, g) /\ SameLinks(h, g) /\ g.owner = h.owner /\ g.content = h.content
      /\ g.escaped = E
  <2> HIDE DEF E
  <2> QED BY <1>2, <1>3, EscapeIs
<1>5. Adopted(g, cur, dest)
  BY <1>4 DEF Adopted
<1> QED BY <1>3, <1>4, <1>5

\* The bytes of cur are added to n.
LEMMA MergeIs ==
  ASSUME NEW h, Heap(Node, h), NEW n \in Node, NEW cur \in Node, NEW g, g = Merge(h, n, cur)
  PROVE  Heap(Node, g) /\ SameLinks(h, g) /\ g.owner = h.owner /\ g.escaped = h.escaped
<1> DEFINE S == Slot(Node)
           C == [Node -> Seq(Node)]
           E == SUBSET Node
           k == h.content
           v == [k EXCEPT ![n] = k[n] \o k[cur]]
<1>1. h \in [parent : S, next : S, prev : S, first : S, last : S, props : S, owner : S,
             content : C, escaped : E]
  BY DEF Heap
<1>2. k \in C
  BY HeapFields
<1>3. v \in C
  <2> HIDE DEF k
  <2>1. k[n] \in Seq(Node) /\ k[cur] \in Seq(Node)
    BY <1>2
  <2>2. k[n] \o k[cur] \in Seq(Node)
    BY <2>1
  <2> QED BY <1>2, <2>2
<1>4. g = [h EXCEPT !.content = v]
  BY DEF Merge
<1> HIDE DEF S, C, E, v
<1>5. /\ g \in [parent : S, next : S, prev : S, first : S, last : S, props : S, owner : S,
                content : C, escaped : E]
      /\ SameLinks(h, g) /\ g.owner = h.owner /\ g.escaped = h.escaped
  BY <1>1, <1>3, <1>4 DEF SameLinks
<1> QED BY <1>5 DEF Heap, S, C, E

\* An edit after the unlinking is an edit.
LEMMA EditLater ==
  ASSUME NEW h, NEW Q, NEW g, NEW P, Shrunk(h, Q, g, P), h.escaped \subseteq g.escaped, NEW Ops,
         \A d \in g.escaped : d \in h.escaped \/ \E x \in Ops : d = h.owner[x],
         NEW r, Edit(g, r, Ops)
  PROVE  Edit(h, r, Ops)
<1>1. g.owner = h.owner /\ \A y \in Node : g.parent[y] \in {h.parent[y], Nil}
  BY DEF Shrunk
<1>2. /\ r.owner = g.owner /\ g.escaped \subseteq r.escaped
      /\ \A d \in r.escaped : d \in g.escaped \/ \E x \in Ops : d = g.owner[x]
      /\ \A x \in Node : Settled(g, r, x)
  BY DEF Edit
<1>3. \A y : DestinationDocument(g, y) = DestinationDocument(h, y)
  BY <1>1 DEF DestinationDocument
<1>4. ASSUME NEW x \in Node PROVE Settled(h, r, x)
  <2>1. CASE r.parent[x] \in {g.parent[x], Nil}
    BY <1>1, <2>1 DEF Settled
  <2>2. CASE g.owner[x] \in r.escaped \cup {Nil}
    BY <1>1, <2>2 DEF Settled
  <2>3. CASE DestinationDocument(g, r.parent[x]) = g.owner[x]
    BY <1>1, <1>3, <2>3 DEF Settled
  <2>4. ASSUME NEW y \in Node, g.parent[y] = r.parent[x], DestinationDocument(g, y) = g.owner[x]
        PROVE  Settled(h, r, x)
    <3>1. g.parent[y] \in {h.parent[y], Nil}
      BY <1>1
    <3> QED BY <1>1, <1>3, <2>4, <3>1 DEF Settled
  <2> QED BY <1>2, <2>1, <2>2, <2>3, <2>4 DEF Settled
<1> QED BY <1>1, <1>2, <1>4 DEF Edit

\* What the preflights leave when they let cur pass to a list of p.
Prepared(h, Q, p, cur, dest, g) ==
  /\ Tree(g, Q \ {cur}) /\ Shrunk(h, Q, g, Q \ {cur}) /\ Loose(g, cur)
  /\ Apart(g, Q \ {cur}, p, cur) /\ ~WouldCreateCycle(g, p, cur) /\ Adopted(g, cur, dest)
  /\ h.escaped \subseteq g.escaped /\ \A d \in g.escaped : d \in h.escaped \/ \E x \in {cur} : d = h.owner[x]
  /\ \A y \in Node : y # cur => g.parent[y] = h.parent[y]

\* addChildPreflight and addSiblingPreflight: cur is unlinked, marked, and not above p.
LEMMA PreflightIs ==
  ASSUME NodesOK, NEW h, NEW Q, Tree(h, Q), NEW p \in Ptr, NEW cur \in Node, NEW dest,
         ~WouldCreateCycle(h, p, cur), NEW g, g = UnlinkIfLinked(NoteCrossDocumentEscape(h, dest, cur), cur)
  PROVE  Prepared(h, Q, p, cur, dest, g)
<1> DEFINE m == NoteCrossDocumentEscape(h, dest, cur)
<1>1. Heap(Node, h) /\ Linked(Node, Kind, h, Q)
  BY TreeNodes
<1>2. /\ Heap(Node, m) /\ SameLinks(h, m) /\ m.owner = h.owner /\ m.content = h.content
      /\ h.escaped \subseteq m.escaped /\ \A d \in m.escaped : d \in h.escaped \/ d = h.owner[cur]
      /\ Adopted(m, cur, dest)
  BY <1>1, MarkIs
<1> HIDE DEF m
<1>3. /\ Tree(m, Q) /\ \A q \in Node : Kids(Node, m, Q, q) = Kids(Node, h, Q, q)
      /\ \A q \in Node : Foreign(Node, Kind, m, q) <=> Foreign(Node, Kind, h, q)
  BY <1>2, SameTree
<1>4. Shrunk(h, Q, m, Q)
  BY <1>2, <1>3 DEF Shrunk, Fewer, SameLinks, Loose
<1>5. /\ Tree(g, Q \ {cur}) /\ Shrunk(m, Q, g, Q \ {cur}) /\ Loose(g, cur) /\ g.escaped = m.escaped
      /\ \A y \in Node : y # cur => g.parent[y] = m.parent[y]
  BY <1>3, UnlinkIfLinkedKeeps DEF m
<1>6. Shrunk(h, Q, g, Q \ {cur})
  BY <1>4, <1>5, ShrunkAgain
<1>7. Apart(g, Q \ {cur}, p, cur)
  BY <1>1, <1>6, NoCycleIsApart, StillApart
<1>8. ~WouldCreateCycle(g, p, cur)
  BY <1>1, <1>5, <1>6, TreeNodes, GuardStays
<1>9. Adopted(g, cur, dest) /\ \A y \in Node : y # cur => g.parent[y] = h.parent[y]
  BY <1>2, <1>5, <1>6 DEF Adopted, Shrunk, SameLinks
<1>10. h.escaped \subseteq g.escaped /\ \A d \in g.escaped : d \in h.escaped \/ \E x \in {cur} : d = h.owner[x]
  BY <1>2, <1>5
<1> QED BY <1>5, <1>6, <1>7, <1>8, <1>9, <1>10 DEF Prepared

\* What a method returns, and the heap it leaves.
Errors == {"nil", "ErrCyclicNode", "ErrInvalidOperation", "no sibling of a document"}

Answer(h, res, Ops) ==
  /\ Edit(h, res.dom, Ops) /\ res.err \in Errors
  /\ res.err # "nil" => res.dom = [h EXCEPT !.escaped = res.dom.escaped]

\* A method that refuses at once has answered.
LEMMA FailAnswer ==
  ASSUME NEW h, NEW Q, Tree(h, Q), NEW e \in Errors, NEW Ops
  PROVE  Answer(h, Fail(h, e), Ops)
<1>1. Q \in SUBSET Node /\ Heap(Node, h)
  BY TreeNodes
<1>2. Edit(h, h, Ops)
  BY <1>1, SameEdit DEF SameLinks
<1>3. h = [h EXCEPT !.escaped = h.escaped]
  BY <1>1 DEF Heap
<1> QED BY <1>2, <1>3 DEF Answer, Fail

\* A preflight that refuses has only marked.
LEMMA MarkedAnswer ==
  ASSUME NEW h, NEW Q, Tree(h, Q), NEW dest, NEW cur \in Node, NEW e \in Errors
  PROVE  Answer(h, Fail(NoteCrossDocumentEscape(h, dest, cur), e), {cur})
<1> DEFINE g == NoteCrossDocumentEscape(h, dest, cur)
<1>1. Q \in SUBSET Node /\ Heap(Node, h)
  BY TreeNodes
<1>2. /\ Heap(Node, g) /\ SameLinks(h, g) /\ g.owner = h.owner /\ h.escaped \subseteq g.escaped
      /\ \A d \in g.escaped : d \in h.escaped \/ d = h.owner[cur]
      /\ g = [h EXCEPT !.escaped = g.escaped]
  BY <1>1, MarkIs
<1> HIDE DEF g
<1>3. Edit(h, g, {cur})
  BY <1>1, <1>2, SameEdit
<1>4. Answer(h, Fail(g, e), {cur})
  BY <1>2, <1>3 DEF Answer, Fail
<1> QED BY <1>4 DEF g

\* An edit after a preflight.
LEMMA PreparedAnswer ==
  ASSUME NEW h, NEW Q, NEW p, NEW cur, NEW dest, NEW g, Prepared(h, Q, p, cur, dest, g),
         NEW r, Edit(g, r, {cur})
  PROVE  Answer(h, Done(r), {cur})
<1>1. Edit(h, r, {cur})
  BY EditLater DEF Prepared
<1> QED BY <1>1 DEF Answer, Done, Errors

\* AddSibling on what is no Text: an answer, and no refusal when the guard lets cur pass.
LEMMA GenericAddSiblingAnswer ==
  ASSUME NodesOK, NEW h, NEW Q, Tree(h, Q), NEW n \in Node, NEW cur \in Node,
         Kind[n] # "Document", Kind[cur] # "Document"
  PROVE  /\ Answer(h, GenericAddSibling(h, n, cur), {cur})
         /\ n \notin Attrs /\ cur # n /\ ~WouldCreateCycle(h, h.parent[n], cur)
              => GenericAddSibling(h, n, cur).err = "nil"
<1> DEFINE dest == h.owner[n]
           p == h.parent[n]
           m == NoteCrossDocumentEscape(h, dest, cur)
           g == UnlinkIfLinked(m, cur)
           pre == AddSiblingPreflight(h, n, cur)
           bad == cur = n \/ WouldCreateCycle(h, p, cur)
           res == GenericAddSibling(h, n, cur)
<1>1. Q \in SUBSET Node /\ Heap(Node, h) /\ Linked(Node, Kind, h, Q)
  BY TreeNodes
<1>2. p \in Ptr /\ DestinationDocument(h, n) = dest
  BY <1>1, Neighbours DEF DestinationDocument
<1>3. IsProperty(h, n) <=> n \in Q
  BY <1>1, PropertyIs
<1>4. pre = IF bad THEN Fail(m, "ErrCyclicNode") ELSE Done(g)
  BY DEF AddSiblingPreflight
<1>5. ~bad => pre.err = "nil" /\ pre.dom = g
  BY <1>4 DEF Done
<1>6. bad => pre.err # "nil" /\ pre = Fail(m, "ErrCyclicNode")
  BY <1>4 DEF Fail
<1>7. Answer(h, Fail(m, "ErrCyclicNode"), {cur}) /\ Answer(h, Fail(h, "ErrInvalidOperation"), {cur})
  BY MarkedAnswer, FailAnswer DEF Errors
<1>8. ~bad => Prepared(h, Q, p, cur, dest, g)
  BY <1>2, PreflightIs
<1> HIDE DEF m, g, pre
<1>9. ASSUME ~bad PROVE DestinationDocument(g, n) = dest /\ g.parent[n] = p /\ n # cur
  BY <1>2, <1>8, <1>9 DEF Prepared, Shrunk, DestinationDocument
<1>10. CASE n \in Q /\ cur \notin Attrs
  <2>1. res = Fail(h, "ErrInvalidOperation")
    BY <1>3, <1>10 DEF GenericAddSibling
  <2>2. n \in Attrs
    BY <1>1, <1>10 DEF Linked, Attributes, Attrs
  <2> QED BY <1>7, <2>1, <2>2
<1>11. CASE n \in Q /\ cur \in Attrs
  <2>1. res = IF pre.err # "nil" THEN pre ELSE Done(LinkAtEndOfChain(pre.dom, n, cur))
    BY <1>3, <1>11 DEF GenericAddSibling, pre
  <2>2. n \in Attrs
    BY <1>1, <1>11 DEF Linked, Attributes, Attrs
  <2>3. CASE bad
    BY <1>6, <1>7, <2>1, <2>2, <2>3
  <2>4. CASE ~bad
    <3> DEFINE r == LinkAtEndOfChain(g, n, cur)
    <3>1. res = Done(r)
      BY <1>5, <2>1, <2>4
    <3>2. n \in Q \ {cur}
      BY <1>9, <1>11, <2>4
    <3>3. Edit(g, r, {cur})
      BY <1>8, <1>9, <1>11, <2>4, <3>2, LinkAtEndOfChainEdit DEF Prepared
    <3> HIDE DEF r
    <3> QED BY <1>8, <2>2, <2>4, <3>1, <3>3, PreparedAnswer
  <2> QED BY <2>3, <2>4
<1>12. CASE n \notin Q
  <2>1. res = IF pre.err # "nil" THEN pre ELSE Done(LinkAtEnd(pre.dom, n, cur))
    BY <1>3, <1>12 DEF GenericAddSibling, pre
  <2>3. CASE bad
    BY <1>6, <1>7, <2>1, <2>3
  <2>4. CASE ~bad
    <3> DEFINE r == LinkAtEnd(g, n, cur)
    <3>1. res = Done(r) /\ res.err = "nil"
      BY <1>5, <2>1, <2>4 DEF Done
    <3>2. n \notin Q \ {cur}
      BY <1>12
    <3>3. Edit(g, r, {cur})
      BY <1>8, <1>9, <2>4, <3>2, LinkAtEndEdit DEF Prepared
    <3> HIDE DEF r
    <3>4. Answer(h, res, {cur})
      BY <1>8, <2>4, <3>1, <3>3, PreparedAnswer
    <3> QED BY <3>1, <3>4
  <2> QED BY <2>3, <2>4
<1> QED BY <1>10, <1>11, <1>12

\* AddSibling: the second preflight of a Text cannot refuse what the first let pass.
LEMMA AddSiblingAnswer ==
  ASSUME NodesOK, NEW h, NEW Q, Tree(h, Q), NEW n \in Node, NEW cur \in Node, Kind[cur] # "Document"
  PROVE  Answer(h, AddSiblingResult(h, n, cur), {cur})
<1> DEFINE res == AddSiblingResult(h, n, cur)
<1>1. CASE Kind[n] = "Document"
  <2>1. res = Fail(h, "no sibling of a document")
    BY <1>1 DEF AddSiblingResult
  <2> QED BY <2>1, FailAnswer DEF Errors
<1>2. CASE Kind[n] # "Document" /\ Kind[n] # "Text"
  <2>1. res = GenericAddSibling(h, n, cur)
    BY <1>2 DEF AddSiblingResult
  <2> QED BY <1>2, <2>1, GenericAddSiblingAnswer
<1>3. CASE Kind[n] = "Text"
  <2> DEFINE dest == h.owner[n]
             p == h.parent[n]
             m == NoteCrossDocumentEscape(h, dest, cur)
             g == UnlinkIfLinked(m, cur)
             pre == AddSiblingPreflight(h, n, cur)
             bad == cur = n \/ WouldCreateCycle(h, p, cur)
  <2>1. res = IF pre.err # "nil" THEN pre
              ELSE IF Kind[cur] = "Text" THEN Done(Merge(pre.dom, n, cur))
              ELSE GenericAddSibling(pre.dom, n, cur)
    BY <1>3 DEF AddSiblingResult, TextAddSibling
  <2>2. Q \in SUBSET Node /\ Heap(Node, h) /\ Linked(Node, Kind, h, Q)
    BY TreeNodes
  <2>3. p \in Ptr
    BY <2>2, Neighbours
  <2>4. pre = IF bad THEN Fail(m, "ErrCyclicNode") ELSE Done(g)
    BY DEF AddSiblingPreflight
  <2>5. (~bad => pre.err = "nil" /\ pre.dom = g) /\ (bad => pre.err # "nil" /\ pre = Fail(m, "ErrCyclicNode"))
    BY <2>4 DEF Done, Fail
  <2>6. ~bad => Prepared(h, Q, p, cur, dest, g)
    BY <2>3, PreflightIs
  <2>7. CASE bad
    <3>1. Answer(h, Fail(m, "ErrCyclicNode"), {cur})
      BY MarkedAnswer DEF Errors
    <3> QED BY <2>1, <2>5, <2>7, <3>1
  <2> HIDE DEF m, g, pre
  <2>8. CASE ~bad /\ Kind[cur] = "Text"
    <3> DEFINE r == Merge(g, n, cur)
    <3>1. res = Done(r)
      BY <2>1, <2>5, <2>8
    <3>2. Tree(g, Q \ {cur})
      BY <2>6, <2>8 DEF Prepared
    <3>3. Q \ {cur} \in SUBSET Node /\ Heap(Node, g)
      BY <3>2, TreeNodes
    <3>4. Heap(Node, r) /\ SameLinks(g, r) /\ r.owner = g.owner /\ r.escaped = g.escaped
      BY <3>3, MergeIs
    <3> HIDE DEF r
    <3>5. Edit(g, r, {cur})
      BY <3>2, <3>3, <3>4, SameEdit
    <3> QED BY <2>6, <2>8, <3>1, <3>5, PreparedAnswer
  <2>9. CASE ~bad /\ Kind[cur] # "Text"
    <3> DEFINE s == GenericAddSibling(g, n, cur)
    <3>1. res = s
      BY <2>1, <2>5, <2>9
    <3>2. Tree(g, Q \ {cur}) /\ g.parent[n] = p /\ ~WouldCreateCycle(g, p, cur) /\ n # cur
      BY <2>6, <2>9 DEF Prepared
    <3>3. n \notin Attrs
      BY <1>3 DEF Attrs
    <3>4. Answer(g, s, {cur}) /\ s.err = "nil"
      BY <1>3, <3>2, <3>3, GenericAddSiblingAnswer
    <3> HIDE DEF s
    <3>5. Answer(h, Done(s.dom), {cur})
      BY <2>6, <2>9, <3>4, PreparedAnswer DEF Answer
    <3> QED BY <3>1, <3>4, <3>5 DEF Answer, Done
  <2> QED BY <2>7, <2>8, <2>9
<1> QED BY <1>1, <1>2, <1>3

\* addChild links cur as n's last child, or merges it into the last Text.
LEMMA LinkLastChildEdit ==
  ASSUME NodesOK, NEW h, NEW Q, Tree(h, Q), NEW n \in Node, NEW cur \in Node, Loose(h, cur),
         Kind[cur] # "Document", Apart(h, Q, n, cur), ~WouldCreateCycle(h, n, cur),
         ~Foreign(Node, Kind, h, n), Adopted(h, cur, DestinationDocument(h, n)),
         NEW res, res = LinkLastChild(h, n, cur)
  PROVE  res.err = "nil" /\ Edit(h, res.dom, {cur})
<1> DEFINE l == h.last[n]
           X == h.next
           V == h.prev
           U == h.parent
           F == h.first
           L == h.last
           r == res.dom
           texts == Kind[l] = "Text" /\ Kind[cur] = "Text"
<1>1. Q \in SUBSET Node /\ Heap(Node, h) /\ Linked(Node, Kind, h, Q) /\ Nil \notin Node
  BY TreeNodes DEF NodesOK
<1>2. /\ U \in Slot(Node) /\ X \in Slot(Node) /\ V \in Slot(Node) /\ F \in Slot(Node) /\ L \in Slot(Node)
      /\ h.props \in Slot(Node) /\ n \in Ptr /\ cur \in Ptr /\ l \in Ptr
  BY <1>1, HeapFields, Neighbours DEF Ptr
<1>3. (h.first[n] = Nil /\ h.last[n] = Nil) \/ Own(h, Q, n)
  BY <1>1 DEF Linked, ChildEnds
<1>4. n # cur /\ n # Nil
  BY <1>1 DEF Apart
<1>5. CASE l = Nil
  <2> DEFINE b == Poke(F, n, cur)
             c == Poke(L, n, cur)
             f == Poke(U, cur, n)
  <2>1. res.err = "nil" /\ r = RelinkOnly(h, b, c, f)
    BY <1>5 DEF LinkLastChild, Done, RelinkOnly, Poke
  <2>2. h.first[n] = Nil
    BY <1>3, <1>5 DEF Own
  <2> HIDE DEF U, F, L, X, V, r
  <2>3. b \in Slot(Node) /\ \A y \in Node : b[y] = IF y = n THEN cur ELSE F[y]
    BY <1>2, PokeIs
  <2>4. c \in Slot(Node) /\ \A y \in Node : c[y] = IF y = n THEN cur ELSE L[y]
    BY <1>2, PokeIs
  <2>5. f \in Slot(Node) /\ \A y \in Node : f[y] = IF y = cur THEN n ELSE U[y]
    BY <1>2, PokeIs
  <2> HIDE DEF b, c, f
  <2>6. Relinked(h, RelinkOnly(h, b, c, f), h.props, b, c, h.next, h.prev, f)
    BY <1>1, <2>3, <2>4, <2>5, RelinkSome
  <2>7. OnlyChild(Node, h, n, cur, r)
    BY <2>1, <2>3, <2>4, <2>5, <2>6 DEF OnlyChild, Relinked, U, F, L
  <2>8. /\ Linked(Node, Kind, r, Q)
        /\ \A p \in Node : Kids(Node, r, Q, p) \subseteq Kids(Node, h, Q, p) \cup (IF p = n THEN {cur} ELSE {})
    BY <1>1, <1>4, <2>2, <2>7, OnlyChildLinked
  <2>9. Treelike(Node, r, Q)
    <3>1. PICK R \in SUBSET Node : cur \in R /\ n \notin R /\ Closed(Node, h, Q, R)
      BY DEF Apart
    <3>2. Gains(Node, h, Q, r, Q, n, R)
      BY <2>8, <3>1 DEF Gains
    <3> QED BY <3>2, GainsTreelike DEF Tree
  <2>10. /\ \A y \in Node : r.parent[y] = IF y = cur THEN n ELSE h.parent[y]
         /\ r.owner = h.owner /\ r.escaped = h.escaped
    BY <2>7 DEF OnlyChild
  <2>11. Roots(Node, Kind, r)
    BY <2>10 DEF Roots, Tree
  <2>12. \E P \in SUBSET Node : Tree(r, P)
    BY <1>1, <2>8, <2>9, <2>11 DEF Tree
  <2>13. \A y \in Node : Settled(h, r, y)
    BY <2>10 DEF Settled, Adopted
  <2>14. Edit(h, r, {cur})
    BY <2>10, <2>12, <2>13 DEF Edit
  <2> QED BY <2>1, <2>14 DEF r
<1>6. CASE l # Nil
  <2>1. /\ l \in Node /\ h.parent[l] = n /\ l \notin Q /\ h.next[l] = Nil
    BY <1>2, <1>3, <1>6 DEF Own, Ptr
  <2>2. l # cur
    BY <1>4, <2>1 DEF Loose
  <2>3. CASE ~texts
    <3> DEFINE d == Poke(X, l, cur)
               e == Poke(V, cur, l)
               f == Poke(U, cur, n)
               c == Poke(L, n, cur)
    <3>1. res.err = "nil" /\ r = RelinkRow(h, c, d, e, f)
      BY <1>6, <2>1, <2>3 DEF LinkLastChild, Done, RelinkRow, Poke
    <3> HIDE DEF U, F, L, X, V, r, l
    <3>2. d \in Slot(Node) /\ \A y \in Node : d[y] = IF y = l THEN cur ELSE X[y]
      BY <1>2, <2>1, PokeIs
    <3>3. e \in Slot(Node) /\ \A y \in Node : e[y] = IF y = cur THEN l ELSE V[y]
      BY <1>2, <2>1, PokeIs
    <3>4. f \in Slot(Node) /\ \A y \in Node : f[y] = IF y = cur THEN n ELSE U[y]
      BY <1>2, PokeIs
    <3>5. c \in Slot(Node) /\ \A y \in Node : c[y] = IF y = n THEN cur ELSE L[y]
      BY <1>2, PokeIs
    <3> HIDE DEF c, d, e, f
    <3>6. Relinked(h, RelinkRow(h, c, d, e, f), h.props, h.first, c, d, e, f)
      <4>1. c \in Slot(Node) /\ d \in Slot(Node) /\ e \in Slot(Node) /\ f \in Slot(Node)
        BY <3>2, <3>3, <3>4, <3>5
      <4> QED BY <1>1, <4>1, RelinkSome
    <3>7. Appended(h, Q, l, cur, r)
      BY <2>1, <3>1, <3>2, <3>3, <3>4, <3>5, <3>6 DEF Appended, Relinked, X, V, U, L
    <3>8. \E P \in SUBSET Node : Tree(r, P)
      BY <2>1, <2>2, <3>7, AppendedTree
    <3>9. /\ \A y \in Node : r.parent[y] = IF y = cur THEN n ELSE h.parent[y]
          /\ r.owner = h.owner /\ r.escaped = h.escaped
      BY <2>1, <3>7 DEF Appended
    <3>10. \A y \in Node : Settled(h, r, y)
      BY <3>9 DEF Settled, Adopted
    <3>11. Edit(h, r, {cur})
      BY <3>8, <3>9, <3>10 DEF Edit
    <3> QED BY <3>1, <3>11 DEF r
  <2>4. CASE texts
    <3> DEFINE m == NoteCrossDocumentEscape(h, h.owner[l], cur)
               g == Merge(m, l, cur)
    <3>1. AddSiblingPreflight(h, l, cur) = Done(UnlinkIfLinked(m, cur))
      BY <2>1, <2>2 DEF AddSiblingPreflight
    <3>2. /\ Heap(Node, m) /\ SameLinks(h, m) /\ m.owner = h.owner
          /\ h.escaped \subseteq m.escaped /\ \A d \in m.escaped : d \in h.escaped \/ d = h.owner[cur]
      BY <1>1, MarkIs
    <3> HIDE DEF m
    <3>3. UnlinkIfLinked(m, cur) = m
      BY <3>2 DEF UnlinkIfLinked, SameLinks, Loose
    <3>4. AddSiblingResult(h, l, cur) = Done(g)
      BY <2>4, <3>1, <3>3 DEF AddSiblingResult, TextAddSibling, Done
    <3>5. Heap(Node, g) /\ SameLinks(m, g) /\ g.owner = m.owner /\ g.escaped = m.escaped
      <4> HIDE DEF l
      <4> QED BY <2>1, <3>2, MergeIs
    <3> HIDE DEF g
    <3> DEFINE c == Poke(g.last, n, l)
    <3>6. res = Done(RelinkLast(g, c))
      <4>1. res = LET sib == AddSiblingResult(h, l, cur)
                  IN  IF sib.err = "nil" THEN Done([sib.dom EXCEPT !.last[n] = l]) ELSE sib
        BY <1>6, <2>4 DEF LinkLastChild
      <4> QED BY <3>4, <4>1 DEF Done, RelinkLast, Poke
    <3>7. g.last \in Slot(Node) /\ g.next \in Slot(Node) /\ g.prev \in Slot(Node) /\ g.parent \in Slot(Node)
      BY <3>5, HeapFields
    <3>8. c \in Slot(Node) /\ \A y \in Node : c[y] = IF y = n THEN l ELSE h.last[y]
      <4>1. c = Poke(L, n, l)
        BY <3>2, <3>5 DEF SameLinks
      <4>2. Poke(L, n, l) \in Slot(Node) /\ \A y \in Node : Poke(L, n, l)[y] = IF y = n THEN l ELSE L[y]
        <5> HIDE DEF L, l
        <5> QED BY <1>2, PokeIs
      <4> HIDE DEF c
      <4> QED BY <4>1, <4>2
    <3>9. c = h.last
      BY <1>2, <3>8 DEF Slot
    <3> HIDE DEF c
    <3>10. Relinked(g, RelinkLast(g, c), g.props, g.first, c, g.next, g.prev, g.parent)
      BY <3>5, <3>7, <3>8, RelinkSome
    <3>11. res.err = "nil" /\ res.dom = RelinkLast(g, c)
      BY <3>6 DEF Done
    <3>12. Heap(Node, r) /\ SameLinks(h, r) /\ r.owner = h.owner /\ r.escaped = m.escaped
      BY <3>2, <3>5, <3>9, <3>10, <3>11 DEF Relinked, SameLinks
    <3>13. Edit(h, r, {cur})
      <4> HIDE DEF r
      <4> QED BY <1>1, <3>2, <3>12, SameEdit
    <3> QED BY <3>11, <3>13
  <2> QED BY <2>3, <2>4
<1> QED BY <1>5, <1>6


\* What may become of a call that adds to a reference which shows an Entity of the DTD: an
\* edit, or a refusal after cur was unlinked.
Passed(h, res, cur) ==
  /\ Edit(h, res.dom, {cur}) /\ res.err \in Errors
  /\ res.err # "nil" => \/ res.dom = [h EXCEPT !.escaped = res.dom.escaped]
                        \/ res.dom = [UnlinkIfLinked(h, cur) EXCEPT !.escaped = res.dom.escaped]

\* Marks do not change what is unlinked.
LEMMA UnlinkMarked ==
  ASSUME NEW h, Heap(Node, h), NEW cur \in Node, NEW E, NEW m, m = [h EXCEPT !.escaped = E]
  PROVE  UnlinkIfLinked(m, cur) = [UnlinkIfLinked(h, cur) EXCEPT !.escaped = E]
<1>1. h = [parent |-> h.parent, next |-> h.next, prev |-> h.prev, first |-> h.first,
           last |-> h.last, props |-> h.props, owner |-> h.owner, content |-> h.content,
           escaped |-> h.escaped]
  BY DEF Heap
<1>2. m = [parent |-> h.parent, next |-> h.next, prev |-> h.prev, first |-> h.first,
           last |-> h.last, props |-> h.props, owner |-> h.owner, content |-> h.content,
           escaped |-> E]
  BY <1>1
<1>3. NextAttribute(m) = NextAttribute(h) /\ (IsProperty(m, cur) <=> IsProperty(h, cur))
  BY <1>2 DEF NextAttribute, IsProperty, Properties
<1> DEFINE prop == IsProperty(h, cur)
           p == h.parent[cur]
           props == IF prop /\ h.props[p] = cur
                      THEN [h.props EXCEPT ![p] = NextAttribute(h)[cur]] ELSE h.props
           first == IF ~prop /\ p # Nil /\ h.first[p] = cur
                      THEN [h.first EXCEPT ![p] = h.next[cur]] ELSE h.first
           last == IF ~prop /\ p # Nil /\ h.last[p] = cur
                     THEN [h.last EXCEPT ![p] = h.prev[cur]] ELSE h.last
           next == [Put(h.next, h.prev[cur], h.next[cur]) EXCEPT ![cur] = Nil]
           prev == [Put(h.prev, h.next[cur], h.prev[cur]) EXCEPT ![cur] = Nil]
           parent == [h.parent EXCEPT ![cur] = Nil]
<1>4. /\ m.parent = h.parent /\ m.next = h.next /\ m.prev = h.prev /\ m.first = h.first
      /\ m.last = h.last /\ m.props = h.props
  BY <1>2
<1>5. Unlink(h, cur) = [h EXCEPT !.props = props, !.first = first, !.last = last, !.next = next,
                                !.prev = prev, !.parent = parent]
  BY DEF Unlink
<1> DEFINE q == m.parent[cur]
           props2 == IF IsProperty(m, cur) /\ m.props[q] = cur
                       THEN [m.props EXCEPT ![q] = NextAttribute(m)[cur]] ELSE m.props
           first2 == IF ~IsProperty(m, cur) /\ q # Nil /\ m.first[q] = cur
                       THEN [m.first EXCEPT ![q] = m.next[cur]] ELSE m.first
           last2 == IF ~IsProperty(m, cur) /\ q # Nil /\ m.last[q] = cur
                      THEN [m.last EXCEPT ![q] = m.prev[cur]] ELSE m.last
           next2 == [Put(m.next, m.prev[cur], m.next[cur]) EXCEPT ![cur] = Nil]
           prev2 == [Put(m.prev, m.next[cur], m.prev[cur]) EXCEPT ![cur] = Nil]
           parent2 == [m.parent EXCEPT ![cur] = Nil]
<1>6. Unlink(m, cur) = [m EXCEPT !.props = props2, !.first = first2, !.last = last2, !.next = next2,
                                !.prev = prev2, !.parent = parent2]
  BY DEF Unlink
<1>7. /\ props2 = props /\ first2 = first /\ last2 = last /\ next2 = next /\ prev2 = prev
      /\ parent2 = parent
  BY <1>3, <1>4
<1> HIDE DEF props, first, last, next, prev, parent, props2, first2, last2, next2, prev2, parent2
<1>8. Unlink(h, cur) = [parent |-> parent, next |-> next, prev |-> prev, first |-> first,
                        last |-> last, props |-> props, owner |-> h.owner, content |-> h.content,
                        escaped |-> h.escaped]
  BY <1>1, <1>5
<1>9. Unlink(m, cur) = [parent |-> parent, next |-> next, prev |-> prev, first |-> first,
                        last |-> last, props |-> props, owner |-> h.owner, content |-> h.content,
                        escaped |-> E]
  BY <1>2, <1>6, <1>7
<1>10. Unlink(m, cur) = [Unlink(h, cur) EXCEPT !.escaped = E]
  BY <1>8, <1>9
<1> QED BY <1>4, <1>10 DEF UnlinkIfLinked

\* Behind an Entity that is not the last of its list, cur goes to the end of that list.
LEMMA LinkLastChildPasses ==
  ASSUME NodesOK, NEW h, NEW Q, Tree(h, Q), NEW n \in Node, NEW cur \in Node,
         Kind[cur] # "Document", Foreign(Node, Kind, h, n), NEW res, res = LinkLastChild(h, n, cur),
         res.err = "nil" => res.dom.parent[cur] # n
  PROVE  Answer(h, res, {cur})
<1> DEFINE l == h.last[n]
           sib == AddSiblingResult(h, l, cur)
           behind == [h EXCEPT !.next[l] = cur, !.prev[cur] = l, !.parent[cur] = n, !.last[n] = cur]
<1>1. Heap(Node, h) /\ Nil \notin Node
  BY TreeNodes DEF NodesOK
<1>2. h.last \in Slot(Node) /\ h.parent \in Slot(Node)
  BY <1>1, HeapFields
<1>3. l \in Node /\ l # Nil /\ Kind[l] # "Text"
  BY <1>1, <1>2 DEF Foreign, Slot
<1>4. behind.parent[cur] = n
  <2>1. behind.parent = [h.parent EXCEPT ![cur] = n]
    BY <1>1 DEF Heap
  <2> QED BY <1>2, <2>1 DEF Slot
<1>5. res = IF h.next[l] = Nil THEN Done(behind)
            ELSE IF sib.err = "nil" /\ FALSE THEN Done([sib.dom EXCEPT !.last[n] = l]) ELSE sib
  BY <1>3 DEF LinkLastChild
<1> HIDE DEF behind, sib
<1>6. res = sib
  BY <1>4, <1>5 DEF Done
<1>7. Answer(h, sib, {cur})
  BY <1>3, AddSiblingAnswer DEF sib
<1> QED BY <1>6, <1>7

\* An addition to a reference that shows an Entity, when it does not become the parent.
LEMMA AddChildPasses ==
  ASSUME NodesOK, NEW h, NEW Q, Tree(h, Q), NEW n \in Node, NEW cur \in Node,
         Kind[cur] # "Document", Foreign(Node, Kind, h, n), NEW res, res = AddChildResult(h, n, cur),
         res.err = "nil" => res.dom.parent[cur] # n
  PROVE  Passed(h, res, cur)
<1> DEFINE dest == DestinationDocument(h, n)
           m == NoteCrossDocumentEscape(h, dest, cur)
           g == UnlinkIfLinked(m, cur)
           pre == AddChildPreflight(h, n, cur)
           bad == WouldCreateCycle(h, n, cur)
           s == LinkLastChild(g, n, cur)
<1>1. n \in Ptr /\ Kind[n] = "EntityRef" /\ n \notin CharData
  BY DEF Ptr, Foreign, CharData
<1>2. pre = IF bad THEN Fail(m, "ErrCyclicNode") ELSE Done(g)
  BY DEF AddChildPreflight
<1>3. /\ ~bad => pre.err = "nil" /\ pre.dom = g
      /\ bad => pre.err # "nil" /\ pre = Fail(m, "ErrCyclicNode")
  BY <1>2 DEF Done, Fail
<1>4. Answer(h, Fail(m, "ErrCyclicNode"), {cur}) /\ Answer(h, Fail(h, "ErrInvalidOperation"), {cur})
  BY MarkedAnswer, FailAnswer DEF Errors
<1>5. ~bad => Prepared(h, Q, n, cur, dest, g)
  <2>1. n \in Ptr
    BY <1>1
  <2> QED BY <2>1, PreflightIs
<1>6. res = IF cur \in Attrs /\ Kind[n] # "Element" THEN Fail(h, "ErrInvalidOperation")
            ELSE CASE pre.err # "nil" -> pre
                   [] pre.err = "nil" /\ cur \in Attrs -> Done(AddProperty(pre.dom, n, cur))
                   [] OTHER -> LinkLastChild(pre.dom, n, cur)
  <2>1. res = GenericAddChild(h, n, cur)
    BY <1>1 DEF AddChildResult
  <2> QED BY <2>1 DEF GenericAddChild
<1>7. Heap(Node, h)
  BY TreeNodes
<1>8. UnlinkIfLinked(m, cur) = [UnlinkIfLinked(h, cur) EXCEPT !.escaped = m.escaped]
  <2>1. m = [h EXCEPT !.escaped = m.escaped]
    BY <1>7 DEF NoteCrossDocumentEscape, Heap
  <2> HIDE DEF m
  <2> QED BY <1>7, <2>1, UnlinkMarked
<1> HIDE DEF m, g, pre, bad, s
<1>9. CASE cur \in Attrs
  BY <1>1, <1>4, <1>6, <1>9 DEF Answer, Passed
<1>10. CASE cur \notin Attrs /\ bad
  <2>1. res = pre
    BY <1>3, <1>6, <1>10
  <2> QED BY <1>3, <1>4, <1>10, <2>1 DEF Answer, Passed
<1>11. CASE cur \notin Attrs /\ ~bad
  <2>1. res = s
    BY <1>3, <1>6, <1>11 DEF s
  <2>2. Tree(g, Q \ {cur}) /\ Foreign(Node, Kind, g, n)
    BY <1>5, <1>11 DEF Prepared, Shrunk
  <2>3. Answer(g, s, {cur})
    BY <2>1, <2>2, LinkLastChildPasses DEF s
  <2>4. Edit(g, s.dom, {cur}) /\ s.err \in Errors /\ (s.err # "nil" => s.dom = [g EXCEPT !.escaped = s.dom.escaped])
    BY <2>3 DEF Answer
  <2>5. Answer(h, Done(s.dom), {cur})
    BY <1>5, <1>11, <2>4, PreparedAnswer
  <2>6. Edit(h, s.dom, {cur})
    BY <2>5 DEF Answer, Done
  <2>7. [g EXCEPT !.escaped = s.dom.escaped] = [UnlinkIfLinked(h, cur) EXCEPT !.escaped = s.dom.escaped]
    BY <1>8 DEF g
  <2> QED BY <2>1, <2>4, <2>6, <2>7 DEF Passed
<1> QED BY <1>9, <1>10, <1>11

\* An attribute goes among the properties of an element, all else to the end of the children.
LEMMA GenericAddChildAnswer ==
  ASSUME NodesOK, NEW h, NEW Q, Tree(h, Q), NEW n \in Node, NEW cur \in Node,
         Kind[cur] # "Document", ~Foreign(Node, Kind, h, n)
  PROVE  Answer(h, GenericAddChild(h, n, cur), {cur})
<1> DEFINE dest == DestinationDocument(h, n)
           m == NoteCrossDocumentEscape(h, dest, cur)
           g == UnlinkIfLinked(m, cur)
           pre == AddChildPreflight(h, n, cur)
           bad == WouldCreateCycle(h, n, cur)
           res == GenericAddChild(h, n, cur)
<1>1. n \in Ptr
  BY DEF Ptr
<1>2. pre = IF bad THEN Fail(m, "ErrCyclicNode") ELSE Done(g)
  BY DEF AddChildPreflight
<1>3. ~bad => pre.err = "nil" /\ pre.dom = g
  BY <1>2 DEF Done
<1>4. bad => pre.err # "nil" /\ pre = Fail(m, "ErrCyclicNode")
  BY <1>2 DEF Fail
<1>5. Answer(h, Fail(m, "ErrCyclicNode"), {cur}) /\ Answer(h, Fail(h, "ErrInvalidOperation"), {cur})
  BY MarkedAnswer, FailAnswer DEF Errors
<1>6. ~bad => Prepared(h, Q, n, cur, dest, g)
  BY <1>1, PreflightIs
<1>7. res = IF cur \in Attrs /\ Kind[n] # "Element" THEN Fail(h, "ErrInvalidOperation")
            ELSE CASE pre.err # "nil" -> pre
                   [] pre.err = "nil" /\ cur \in Attrs -> Done(AddProperty(pre.dom, n, cur))
                   [] OTHER -> LinkLastChild(pre.dom, n, cur)
  BY DEF GenericAddChild
<1> HIDE DEF m, g, pre, bad, res
<1>8. ASSUME ~bad
      PROVE  /\ Tree(g, Q \ {cur}) /\ Loose(g, cur) /\ Apart(g, Q \ {cur}, n, cur)
             /\ ~WouldCreateCycle(g, n, cur) /\ ~Foreign(Node, Kind, g, n)
             /\ Adopted(g, cur, DestinationDocument(g, n))
  BY <1>6, <1>8 DEF Prepared, Shrunk, DestinationDocument
<1>9. CASE cur \in Attrs /\ Kind[n] # "Element"
  BY <1>5, <1>7, <1>9 DEF res
<1>10. CASE ~(cur \in Attrs /\ Kind[n] # "Element") /\ bad
  <2>1. res = pre
    BY <1>4, <1>7, <1>10
  <2> QED BY <1>4, <1>5, <1>10, <2>1 DEF res
<1>11. CASE cur \in Attrs /\ Kind[n] = "Element" /\ ~bad
  <2> DEFINE r == AddProperty(g, n, cur)
  <2>1. res = Done(r)
    BY <1>3, <1>7, <1>11
  <2>2. Edit(g, r, {cur})
    BY <1>8, <1>11, AddPropertyEdit
  <2> HIDE DEF r
  <2>3. Answer(h, res, {cur})
    BY <1>6, <1>11, <2>1, <2>2, PreparedAnswer
  <2> QED BY <2>3 DEF res
<1>12. CASE cur \notin Attrs /\ ~bad
  <2> DEFINE s == LinkLastChild(g, n, cur)
  <2>1. res = s
    BY <1>3, <1>7, <1>12
  <2>2. s.err = "nil" /\ Edit(g, s.dom, {cur})
    BY <1>8, <1>12, LinkLastChildEdit
  <2> HIDE DEF s
  <2>3. Answer(h, Done(s.dom), {cur})
    BY <1>6, <1>12, <2>2, PreparedAnswer
  <2>4. Answer(h, s, {cur})
    BY <2>2, <2>3 DEF Answer, Done
  <2> QED BY <2>1, <2>4 DEF res
<1> QED BY <1>9, <1>10, <1>11, <1>12 DEF res

\* A leaf takes the bytes of its like, or nothing.
LEMMA LeafAddChildAnswer ==
  ASSUME NodesOK, NEW h, NEW Q, Tree(h, Q), NEW n \in Node, NEW cur \in Node
  PROVE  Answer(h, LeafAddChild(h, n, cur), {cur})
<1> DEFINE dest == DestinationDocument(h, n)
           m == NoteCrossDocumentEscape(h, dest, cur)
           g == UnlinkIfLinked(m, cur)
           pre == AddChildPreflight(h, n, cur)
           bad == WouldCreateCycle(h, n, cur)
           res == LeafAddChild(h, n, cur)
<1>1. n \in Ptr
  BY DEF Ptr
<1>2. pre = IF bad THEN Fail(m, "ErrCyclicNode") ELSE Done(g)
  BY DEF AddChildPreflight
<1>3. (~bad => pre.err = "nil" /\ pre.dom = g) /\ (bad => pre.err # "nil" /\ pre = Fail(m, "ErrCyclicNode"))
  BY <1>2 DEF Done, Fail
<1>4. /\ Answer(h, Fail(m, "ErrCyclicNode"), {cur})
      /\ \A e \in Errors : Answer(h, Fail(h, e), {cur})
  BY MarkedAnswer, FailAnswer DEF Errors
<1>5. ~bad => Prepared(h, Q, n, cur, dest, g)
  BY <1>1, PreflightIs
<1>6. res = IF Absorbs(n, cur)
              THEN IF pre.err # "nil" THEN pre ELSE Done(Merge(pre.dom, n, cur))
              ELSE Fail(h, IF Kind[n] = "PI" /\ cur = n THEN "ErrCyclicNode" ELSE "ErrInvalidOperation")
  BY DEF LeafAddChild
<1> HIDE DEF m, g, pre, bad, res
<1>7. CASE ~Absorbs(n, cur)
  <2> DEFINE e == IF Kind[n] = "PI" /\ cur = n THEN "ErrCyclicNode" ELSE "ErrInvalidOperation"
  <2>1. e \in Errors /\ res = Fail(h, e)
    BY <1>6, <1>7 DEF Errors
  <2> HIDE DEF e
  <2> QED BY <1>4, <2>1 DEF res
<1>8. CASE Absorbs(n, cur) /\ bad
  BY <1>3, <1>4, <1>6, <1>8 DEF res
<1>9. CASE Absorbs(n, cur) /\ ~bad
  <2> DEFINE r == Merge(g, n, cur)
  <2>1. res = Done(r)
    BY <1>3, <1>6, <1>9
  <2>2. Tree(g, Q \ {cur})
    BY <1>5, <1>9 DEF Prepared
  <2>3. Q \ {cur} \in SUBSET Node /\ Heap(Node, g)
    BY <2>2, TreeNodes
  <2>4. Heap(Node, r) /\ SameLinks(g, r) /\ r.owner = g.owner /\ r.escaped = g.escaped
    BY <2>3, MergeIs
  <2> HIDE DEF r
  <2>5. Edit(g, r, {cur})
    BY <2>2, <2>3, <2>4, SameEdit
  <2>6. Answer(h, res, {cur})
    BY <1>5, <1>9, <2>1, <2>5, PreparedAnswer
  <2> QED BY <2>6 DEF res
<1> QED BY <1>7, <1>8, <1>9

\* AddChild, on every kind of node.
LEMMA AddChildAnswer ==
  ASSUME NodesOK, NEW h, NEW Q, Tree(h, Q), NEW n \in Node, NEW cur \in Node,
         Kind[cur] # "Document", ~Foreign(Node, Kind, h, n)
  PROVE  Answer(h, AddChildResult(h, n, cur), {cur})
<1>1. CASE n \in CharData
  <2>1. AddChildResult(h, n, cur) = LeafAddChild(h, n, cur)
    BY <1>1 DEF AddChildResult
  <2> QED BY <2>1, LeafAddChildAnswer
<1>2. CASE n \notin CharData
  <2>1. AddChildResult(h, n, cur) = GenericAddChild(h, n, cur)
    BY <1>2 DEF AddChildResult
  <2> QED BY <2>1, GenericAddChildAnswer
<1> QED BY <1>1, <1>2

\* One operand of Replace is unlinked, unless it is the node to be replaced.
Cut(g, x, n) == IF x = n THEN g ELSE Unlink(g, x)

\* f are the heaps after each of the first m operands.
Cuts(h, ns, n, m, f) == f = [k \in 0 .. m |-> IF k = 0 THEN h ELSE Cut(f[k - 1], ns[k], n)]

CutsGo(h, ns, n, m, f) == f[0] = h /\ \A k \in 1 .. m : f[k] = Cut(f[k - 1], ns[k], n)

\* The recursive function of UnlinkAll exists.
LEMMA CutsExist ==
  ASSUME NEW h, NEW ns, NEW n, NEW N \in Nat
  PROVE  \E f : Cuts(h, ns, n, N, f)
<1> DEFINE T == {m \in 0 .. N : \E f : Cuts(h, ns, n, m, f)}
<1>1. 0 \in T
  <2> DEFINE f == [k \in 0 .. 0 |-> h]
  <2>1. Cuts(h, ns, n, 0, f)
    BY DEF Cuts
  <2> QED BY <2>1
<1>2. ASSUME NEW m \in 0 .. N - 1, m \in T PROVE m + 1 \in T
  <2>1. PICK f : Cuts(h, ns, n, m, f)
    BY <1>2
  <2>2. /\ m \in Nat /\ f[0] = h
        /\ \A k \in 0 .. m : k # 0 => f[k] = Cut(f[k - 1], ns[k], n)
    BY <2>1 DEF Cuts
  <2> DEFINE e == [k \in 0 .. m + 1 |-> IF k = m + 1 THEN Cut(f[m], ns[k], n) ELSE f[k]]
  <2>3. e[m + 1] = Cut(f[m], ns[m + 1], n) /\ \A k \in 0 .. m : e[k] = f[k]
    BY <2>2
  <2>4. e = [k \in 0 .. m + 1 |-> e[k]]
    OBVIOUS
  <2> HIDE DEF e
  <2>5. ASSUME NEW k \in 0 .. m + 1 PROVE e[k] = IF k = 0 THEN h ELSE Cut(e[k - 1], ns[k], n)
    <3>1. CASE k = 0
      BY <2>2, <2>3, <3>1
    <3>2. CASE k = m + 1
      <4>1. k - 1 = m /\ k # 0 /\ m \in 0 .. m
        BY <2>2, <3>2
      <4> QED BY <2>3, <3>2, <4>1
    <3>3. CASE k # 0 /\ k # m + 1
      <4>1. k \in 0 .. m /\ k - 1 \in 0 .. m
        BY <2>2, <3>3
      <4> QED BY <2>2, <2>3, <3>3, <4>1
    <3> QED BY <3>1, <3>2, <3>3
  <2>6. Cuts(h, ns, n, m + 1, e)
    BY <2>4, <2>5 DEF Cuts
  <2>7. m + 1 \in 0 .. N
    BY <2>2
  <2> QED BY <2>6, <2>7
<1> HIDE DEF T
<1>3. \A m \in 0 .. N : m \in T
  BY <1>1, <1>2, StepByStep
<1> QED BY <1>3 DEF T

\* The heaps between, value by value.
LEMMA CutsAre ==
  ASSUME NEW h, NEW ns, NEW n, NEW m \in Nat, NEW f, Cuts(h, ns, n, m, f)
  PROVE  CutsGo(h, ns, n, m, f)
<1>1. \A k \in 0 .. m : f[k] = IF k = 0 THEN h ELSE Cut(f[k - 1], ns[k], n)
  BY DEF Cuts
<1> QED BY <1>1 DEF CutsGo

\* g is h with the first k operands taken out of their lists, n left where it is.
Cleared(h, Q, ns, n, k, g, P) ==
  /\ Tree(g, P) /\ Shrunk(h, Q, g, P) /\ g.escaped = h.escaped
  /\ g.parent[n] = h.parent[n] /\ (n \in P <=> n \in Q)
  /\ \A i \in 1 .. k : ns[i] # n => Loose(g, ns[i])

\* All operands of Replace are detached.
LEMMA UnlinkAllKeeps ==
  ASSUME NodesOK, NEW h, NEW Q, Tree(h, Q), NEW ns \in Seq(Node), NEW n \in Node,
         NEW g, g = UnlinkAll(h, ns, n)
  PROVE  \E P : Cleared(h, Q, ns, n, Len(ns), g, P)
<1> DEFINE L == Len(ns)
           f == CHOOSE e : Cuts(h, ns, n, L, e)
           T == {k \in 0 .. L : \E P : Cleared(h, Q, ns, n, k, f[k], P)}
<1>1. L \in Nat /\ \A i \in 1 .. L : ns[i] \in Node
  OBVIOUS
<1>2. Cuts(h, ns, n, L, f)
  <2> HIDE DEF L
  <2> QED BY <1>1, CutsExist
<1>3. g = f[L]
  BY DEF UnlinkAll, Cuts, Cut
<1> HIDE DEF L, f
<1>4. f[0] = h /\ \A k \in 1 .. L : f[k] = Cut(f[k - 1], ns[k], n)
  <2>1. CutsGo(h, ns, n, L, f)
    BY <1>1, <1>2, CutsAre
  <2> QED BY <2>1 DEF CutsGo
<1>5. 0 \in T
  <2>1. Shrunk(h, Q, h, Q)
    BY DEF Shrunk, Fewer
  <2>2. Cleared(h, Q, ns, n, 0, h, Q)
    BY <2>1 DEF Cleared
  <2> QED BY <1>1, <1>4, <2>2
<1>6. ASSUME NEW k \in 0 .. L - 1, k \in T PROVE k + 1 \in T
  <2> DEFINE x == ns[k + 1]
             m == f[k]
             r == f[k + 1]
  <2>1. k + 1 \in 1 .. L /\ k + 1 \in 0 .. L /\ (k + 1) - 1 = k /\ k \in Nat /\ x \in Node
    BY <1>1
  <2>2. PICK P : Cleared(h, Q, ns, n, k, m, P)
    BY <1>6
  <2>3. r = Cut(m, x, n)
    BY <1>4, <2>1
  <2>4. CASE x = n
    <3>1. r = m
      BY <2>3, <2>4 DEF Cut
    <3>2. \A i \in 1 .. k + 1 : i \in 1 .. k \/ i = k + 1
      BY <2>1
    <3>3. Cleared(h, Q, ns, n, k + 1, r, P)
      BY <2>2, <2>4, <3>1, <3>2 DEF Cleared
    <3> QED BY <2>1, <3>3
  <2>5. CASE x # n
    <3>1. r = Unlink(m, x)
      BY <2>3, <2>5 DEF Cut
    <3> HIDE DEF x, m, r
    <3>2. Tree(m, P) /\ Shrunk(h, Q, m, P) /\ m.escaped = h.escaped
      BY <2>2 DEF Cleared
    <3>3. /\ Tree(r, P \ {x}) /\ Shrunk(m, P, r, P \ {x}) /\ Loose(r, x) /\ r.escaped = m.escaped
          /\ \A y \in Node : y # x => r.parent[y] = m.parent[y]
      BY <2>1, <3>1, <3>2, UnlinkKeeps
    <3>4. Shrunk(h, Q, r, P \ {x})
      BY <3>2, <3>3, ShrunkAgain
    <3>5. ASSUME NEW i \in 1 .. k + 1, ns[i] # n PROVE Loose(r, ns[i])
      <4>1. CASE i = k + 1
        BY <3>3, <4>1 DEF x
      <4>2. CASE i \in 1 .. k
        <5>1. Loose(m, ns[i]) /\ ns[i] \in Node
          BY <1>1, <2>1, <2>2, <3>5, <4>2 DEF Cleared
        <5> QED BY <3>3, <5>1 DEF Shrunk
      <4> QED BY <2>1, <4>1, <4>2
    <3>6. Cleared(h, Q, ns, n, k + 1, r, P \ {x})
      BY <2>2, <2>5, <3>2, <3>3, <3>4, <3>5 DEF Cleared
    <3> QED BY <2>1, <3>6 DEF r
  <2> QED BY <2>4, <2>5
<1> HIDE DEF T
<1>7. \A k \in 0 .. L : k \in T
  BY <1>1, <1>5, <1>6, StepByStep
<1>8. L \in T
  BY <1>1, <1>7
<1> QED BY <1>3, <1>8 DEF T, L

\* The heaps that Splice makes.
RelinkRows(h, d, e, f, a, b, c) ==
  [h EXCEPT !.next = d, !.prev = e, !.parent = f, !.props = a, !.first = b, !.last = c]

RelinkBack(h, f, e, d) == [h EXCEPT !.parent = f, !.prev = e, !.next = d]

\* They have the links they are given.
LEMMA RelinkMore ==
  ASSUME NEW h, Heap(Node, h), NEW a \in Slot(Node), NEW b \in Slot(Node), NEW c \in Slot(Node),
         NEW d \in Slot(Node), NEW e \in Slot(Node), NEW f \in Slot(Node)
  PROVE  /\ Relinked(h, RelinkRows(h, d, e, f, a, b, c), a, b, c, d, e, f)
         /\ Relinked(h, RelinkBack(h, f, e, d), h.props, h.first, h.last, d, e, f)
<1> DEFINE S == Slot(Node)
           C == [Node -> Seq(Node)]
           E == SUBSET Node
           H == [parent : S, next : S, prev : S, first : S, last : S, props : S, owner : S,
                 content : C, escaped : E]
<1>1. h \in H /\ \A r : r \in H <=> Heap(Node, r)
  BY DEF Heap
<1> HIDE DEF S, C, E
<1>2. Relinked(h, RelinkRows(h, d, e, f, a, b, c), a, b, c, d, e, f)
  BY <1>1 DEF Relinked, S, RelinkRows
<1>3. Relinked(h, RelinkBack(h, f, e, d), h.props, h.first, h.last, d, e, f)
  BY <1>1 DEF Relinked, S, RelinkBack
<1> QED BY <1>2, <1>3

\* Of a node in a child list: it is its parent's lastChild when nothing comes after it.
LEMMA LastIs ==
  ASSUME NodesOK, NEW h, NEW Q, Linked(Node, Kind, h, Q), NEW n \in Node, n \notin Q, h.parent[n] # Nil
  PROVE  h.last[h.parent[n]] = n <=> h.next[n] = Nil
<1>1. h.parent[n] \in Node
  BY Neighbours DEF Ptr
<1>2. h.next[n] = Nil => h.last[h.parent[n]] = n
  BY DEF Linked, Heads
<1>3. ASSUME h.last[h.parent[n]] = n PROVE h.next[n] = Nil
  <2>1. ~Foreign(Node, Kind, h, h.parent[n])
    BY DEF Foreign
  <2>2. Own(h, Q, h.parent[n])
    BY <1>1, <1>3, <2>1 DEF Linked, ChildEnds, NodesOK
  <2> QED BY <1>3, <2>2 DEF Own
<1> QED BY <1>2, <1>3

\* Splice puts the row ns where n was.
LEMMA SpliceIs ==
  ASSUME NodesOK, NEW h, NEW Q, Linked(Node, Kind, h, Q), NEW n \in Node, NEW ns, Distinct(ns),
         NEW attrList \in BOOLEAN, attrList <=> n \in Q, NEW r, r = Splice(h, n, ns, attrList)
  PROVE  Spliced(Node, h, Q, n, Elems(ns), ns[1], Tail1(ns), After(ns), Before(ns), r)
<1> DEFINE M == Elems(ns)
           X == h.next
           V == h.prev
           U == h.parent
           F == h.first
           L == h.last
           A == h.props
           cur == ns[1]
           end == Tail1(ns)
           p == U[n]
           afterN == X[n]
           before == V[n]
           d == [x \in Node |-> CASE x \in M -> IF x = end THEN afterN ELSE ns[Place(ns, x) + 1]
                                  [] x \notin M /\ x = before -> cur
                                  [] OTHER -> X[x]]
           e == [x \in Node |-> CASE x \in M -> IF x = cur THEN before ELSE ns[Place(ns, x) - 1]
                                  [] x \notin M /\ x = afterN -> end
                                  [] OTHER -> V[x]]
           f == [x \in Node |-> IF x \in M THEN p ELSE U[x]]
           a == IF p # Nil /\ attrList /\ A[p] = n THEN Poke(A, p, cur) ELSE A
           b == IF p # Nil /\ ~attrList /\ F[p] = n THEN Poke(F, p, cur) ELSE F
           c == IF p = Nil \/ attrList THEN L
                ELSE IF afterN = Nil /\ Len(ns) > 1 THEN Poke(L, p, end)
                ELSE IF L[p] = n THEN Poke(L, p, cur) ELSE L
           placed == RelinkRows(h, d, e, f, a, b, c)
<1>1. Heap(Node, h) /\ Nil \notin Node
  BY DEF Linked, NodesOK
<1>2. /\ U \in Slot(Node) /\ X \in Slot(Node) /\ V \in Slot(Node)
      /\ F \in Slot(Node) /\ L \in Slot(Node) /\ A \in Slot(Node)
      /\ p \in Ptr /\ afterN \in Ptr /\ before \in Ptr /\ before # n /\ afterN # n
  BY <1>1, HeapFields, Neighbours
<1>3. /\ \A x \in M : Place(ns, x) \in 1 .. Len(ns) /\ ns[Place(ns, x)] = x /\ x \in Node
      /\ \A i \in 1 .. Len(ns) : ns[i] \in M /\ Place(ns, ns[i]) = i
      /\ Len(ns) \in Nat /\ cur \in M /\ end \in M /\ end = ns[Len(ns)] /\ Len(ns) >= 1
  BY PlaceIs DEF Distinct
<1>4. /\ \A x \in M : After(ns)[x] = IF x = end THEN Nil ELSE ns[Place(ns, x) + 1]
      /\ \A x \in M : Before(ns)[x] = IF x = cur THEN Nil ELSE ns[Place(ns, x) - 1]
  BY DEF After, Before
<1>5. /\ \A x \in M : x # end => ns[Place(ns, x) + 1] \in Node
      /\ \A x \in M : x # cur => ns[Place(ns, x) - 1] \in Node
  <2>1. ASSUME NEW x \in M, x # end PROVE ns[Place(ns, x) + 1] \in Node
    <3>1. Place(ns, x) + 1 \in 1 .. Len(ns)
      BY <1>3, <2>1
    <3> QED BY <1>3, <3>1
  <2>2. ASSUME NEW x \in M, x # cur PROVE ns[Place(ns, x) - 1] \in Node
    <3>1. Place(ns, x) - 1 \in 1 .. Len(ns)
      BY <1>3, <2>2
    <3> QED BY <1>3, <3>1
  <2> QED BY <2>1, <2>2
<1>6. r = IF n \in M THEN placed
          ELSE RelinkBack(placed, Poke(placed.parent, n, Nil), Poke(placed.prev, n, Nil),
                          Poke(placed.next, n, Nil))
  BY DEF Splice, Place, Poke, RelinkRows, RelinkBack
<1>8. n \notin Q /\ p # Nil => (L[p] = n <=> afterN = Nil)
  BY LastIs
<1>9. Len(ns) > 1 \/ cur = end
  BY <1>3
<1>10. p # Nil => p \in Node
  BY <1>2 DEF Ptr
<1>11. cur \in Node /\ end \in Node /\ cur \in Ptr /\ end \in Ptr /\ Nil \in Ptr /\ n \in Ptr
  BY <1>3 DEF Ptr
<1> HIDE DEF X, V, U, F, L, A, M, cur, end, p, afterN, before
<1>12. d \in Slot(Node)
  BY <1>2, <1>5, <1>11 DEF Slot, Ptr
<1>13. e \in Slot(Node)
  BY <1>2, <1>5, <1>11 DEF Slot, Ptr
<1>14. f \in Slot(Node)
  BY <1>2 DEF Slot, Ptr
<1>15. a \in Slot(Node) /\ \A q \in Node : a[q] = IF n \in Q /\ q = p /\ A[q] = n THEN cur ELSE A[q]
  <2>1. CASE p # Nil /\ attrList /\ A[p] = n
    <3>1. a = Poke(A, p, cur) /\ p \in Node
      BY <1>10, <2>1
    <3> HIDE DEF a, b, c
    <3>2. Poke(A, p, cur) \in Slot(Node) /\ \A y \in Node : Poke(A, p, cur)[y] = IF y = p THEN cur ELSE A[y]
      <4>1. A \in Slot(Node) /\ p \in Node /\ cur \in Ptr
        BY <1>2, <1>11, <3>1
      <4> QED BY <4>1, PokeIs
    <3> QED BY <2>1, <3>1, <3>2
  <2>2. CASE ~(p # Nil /\ attrList /\ A[p] = n)
    <3>1. a = A
      BY <2>2
    <3> QED BY <1>1, <1>2, <2>2, <3>1
  <2> QED BY <2>1, <2>2
<1>16. b \in Slot(Node) /\ \A q \in Node : b[q] = IF n \notin Q /\ q = p /\ F[q] = n THEN cur ELSE F[q]
  <2>1. CASE p # Nil /\ ~attrList /\ F[p] = n
    <3>1. b = Poke(F, p, cur) /\ p \in Node
      BY <1>10, <2>1
    <3> HIDE DEF a, b, c
    <3>2. Poke(F, p, cur) \in Slot(Node) /\ \A y \in Node : Poke(F, p, cur)[y] = IF y = p THEN cur ELSE F[y]
      <4>1. F \in Slot(Node) /\ p \in Node /\ cur \in Ptr
        BY <1>2, <1>11, <3>1
      <4> QED BY <4>1, PokeIs
    <3> QED BY <2>1, <3>1, <3>2
  <2>2. CASE ~(p # Nil /\ ~attrList /\ F[p] = n)
    <3>1. b = F
      BY <2>2
    <3> QED BY <1>1, <1>2, <2>2, <3>1
  <2> QED BY <2>1, <2>2
<1>17. c \in Slot(Node) /\ \A q \in Node : c[q] = IF n \notin Q /\ q = p /\ L[q] = n THEN end ELSE L[q]
  <2>1. CASE p = Nil \/ attrList
    <3>1. c = L
      BY <2>1
    <3> QED BY <1>1, <1>2, <2>1, <3>1
  <2>2. CASE p # Nil /\ ~attrList /\ L[p] = n
    <3>1. c = Poke(L, p, end) /\ p \in Node
      BY <1>8, <1>9, <1>10, <2>2
    <3> HIDE DEF a, b, c
    <3>2. Poke(L, p, end) \in Slot(Node) /\ \A y \in Node : Poke(L, p, end)[y] = IF y = p THEN end ELSE L[y]
      <4>1. L \in Slot(Node) /\ p \in Node /\ end \in Ptr
        BY <1>2, <1>11, <3>1
      <4> QED BY <4>1, PokeIs
    <3> QED BY <2>2, <3>1, <3>2
  <2>3. CASE p # Nil /\ ~attrList /\ L[p] # n
    <3>1. c = L
      BY <1>8, <2>3
    <3> QED BY <1>2, <2>3, <3>1
  <2> QED BY <2>1, <2>2, <2>3
<1>18. \A y \in Node : d[y] = IF y \in M THEN (IF y = end THEN afterN ELSE After(ns)[y])
                              ELSE IF y = before THEN cur ELSE X[y]
  BY <1>4
<1>19. \A y \in Node : e[y] = IF y \in M THEN (IF y = cur THEN before ELSE Before(ns)[y])
                              ELSE IF y = afterN THEN end ELSE V[y]
  BY <1>4
<1>20. \A y \in Node : f[y] = IF y \in M THEN p ELSE U[y]
  OBVIOUS
<1> HIDE DEF a, b, c, d, e, f
<1>21. Relinked(h, placed, a, b, c, d, e, f)
  BY <1>1, <1>12, <1>13, <1>14, <1>15, <1>16, <1>17, RelinkMore
<1> HIDE DEF placed
<1>22. CASE n \in M
  <2>1. r = placed
    BY <1>6, <1>22
  <2>2. /\ Heap(Node, r) /\ r.props = a /\ r.first = b /\ r.last = c /\ r.next = d
        /\ r.prev = e /\ r.parent = f /\ r.owner = h.owner /\ r.content = h.content
        /\ r.escaped = h.escaped
    BY <1>21, <2>1 DEF Relinked
  <2> QED BY <1>15, <1>16, <1>17, <1>18, <1>19, <1>20, <1>22, <2>2
          DEF Spliced, X, V, U, F, L, A, p, afterN, before, cur, end, M
<1>23. CASE n \notin M
  <2> DEFINE f1 == Poke(f, n, Nil)
             e1 == Poke(e, n, Nil)
             d1 == Poke(d, n, Nil)
  <2>1. r = RelinkBack(placed, f1, e1, d1)
    BY <1>6, <1>21, <1>23 DEF Relinked
  <2>2. d1 \in Slot(Node) /\ \A y \in Node : d1[y] = IF y = n THEN Nil ELSE d[y]
    BY <1>11, <1>12, PokeIs
  <2>3. e1 \in Slot(Node) /\ \A y \in Node : e1[y] = IF y = n THEN Nil ELSE e[y]
    BY <1>11, <1>13, PokeIs
  <2>4. f1 \in Slot(Node) /\ \A y \in Node : f1[y] = IF y = n THEN Nil ELSE f[y]
    BY <1>11, <1>14, PokeIs
  <2> HIDE DEF d1, e1, f1
  <2>5. Heap(Node, placed)
    BY <1>21 DEF Relinked
  <2>6. Relinked(placed, r, placed.props, placed.first, placed.last, d1, e1, f1)
    <3>1. placed.props \in Slot(Node)
      BY <2>5, HeapFields
    <3> QED BY <2>1, <2>2, <2>3, <2>4, <2>5, <3>1, RelinkMore
  <2>7. /\ Heap(Node, r) /\ r.props = a /\ r.first = b /\ r.last = c /\ r.next = d1
        /\ r.prev = e1 /\ r.parent = f1 /\ r.owner = h.owner /\ r.content = h.content
        /\ r.escaped = h.escaped
    BY <1>21, <2>6 DEF Relinked
  <2>8. \A y \in Node : r.next[y] = IF y \in M THEN (IF y = end THEN afterN ELSE After(ns)[y])
                                    ELSE IF y = n THEN Nil ELSE IF y = before THEN cur ELSE X[y]
    BY <1>18, <1>23, <2>2, <2>7
  <2>9. \A y \in Node : r.prev[y] = IF y \in M THEN (IF y = cur THEN before ELSE Before(ns)[y])
                                    ELSE IF y = n THEN Nil ELSE IF y = afterN THEN end ELSE V[y]
    BY <1>19, <1>23, <2>3, <2>7
  <2>10. \A y \in Node : r.parent[y] = IF y \in M THEN p ELSE IF y = n THEN Nil ELSE U[y]
    BY <1>20, <1>23, <2>4, <2>7
  <2> QED BY <1>15, <1>16, <1>17, <2>7, <2>8, <2>9, <2>10
          DEF Spliced, X, V, U, F, L, A, p, afterN, before, cur, end, M
<1> QED BY <1>22, <1>23

\* The row ns, its members detached and free to go, is put where n was.
Fit(g, P, n, ns) ==
  /\ Distinct(ns) /\ (n \in P => Elems(ns) \subseteq Attrs)
  /\ \A x \in Elems(ns) : x # n => /\ Loose(g, x) /\ Kind[x] # "Document"
                                   /\ Apart(g, P, g.parent[n], x) /\ Adopted(g, x, g.owner[n])

\* Splice is an edit.
LEMMA SpliceEdit ==
  ASSUME NodesOK, NEW g, NEW P, Tree(g, P), NEW n \in Node, Kind[n] # "Document", NEW ns,
         Fit(g, P, n, ns), NEW attrList \in BOOLEAN, attrList <=> n \in P,
         NEW r, r = Splice(g, n, ns, attrList)
  PROVE  Edit(g, r, Elems(ns))
<1> DEFINE M == Elems(ns)
           R == UNION {S \in SUBSET Node : Closed(Node, g, P, S) /\ g.parent[n] \notin S}
<1>1. Linked(Node, Kind, g, P) /\ Distinct(ns)
  BY DEF Tree, Fit
<1>2. Spliced(Node, g, P, n, M, ns[1], Tail1(ns), After(ns), Before(ns), r)
  BY <1>1, SpliceIs
<1>3. Ordered(M, ns[1], Tail1(ns), After(ns), Before(ns)) /\ M \in SUBSET Node
  <2>1. \A x \in Elems(ns) : x \in Node
    BY <1>1, PlaceIs
  <2> QED BY <1>1, <2>1, RowIsOrdered DEF NodesOK
<1>4. \A y \in M : y # n => Loose(g, y) /\ Kind[y] # "Document"
  BY DEF Fit
<1>5. M \ {n} \subseteq R /\ g.parent[n] \notin R /\ R \in SUBSET Node
  <2>1. ASSUME NEW x \in M, x # n PROVE x \in R
    <3>1. Apart(g, P, g.parent[n], x)
      BY <2>1 DEF Fit
    <3> QED BY <3>1 DEF Apart
  <2> QED BY <2>1
<1>6. Closed(Node, g, P, R)
  BY DEF Closed
<1>7. n \in P => M \subseteq Attrs
  BY DEF Fit
<1> HIDE DEF M, R
<1>8. \E O \in SUBSET Node : Tree(r, O)
  <2>1. \E S \in SUBSET Node : M \ {n} \subseteq S /\ g.parent[n] \notin S /\ Closed(Node, g, P, S)
    BY <1>5, <1>6
  <2>2. Tree(r, Taking(P, n, M)) /\ Taking(P, n, M) \in SUBSET Node
    BY <1>2, <1>3, <1>4, <1>7, <2>1, SplicedTree
  <2> QED BY <2>2
<1>9. /\ r.owner = g.owner /\ r.escaped = g.escaped
      /\ \A y \in Node : r.parent[y] = IF y \in M THEN g.parent[n] ELSE IF y = n THEN Nil ELSE g.parent[y]
  BY <1>2 DEF Spliced
<1>10. ASSUME NEW y \in Node PROVE Settled(g, r, y)
  <2>1. CASE y \in M /\ y # n
    <3>1. g.owner[y] \in g.escaped \cup {Nil, g.owner[n]}
      BY <2>1 DEF Fit, Adopted, M
    <3>2. DestinationDocument(g, n) = g.owner[n]
      BY DEF DestinationDocument
    <3>3. r.parent[y] = g.parent[n]
      BY <1>9, <2>1
    <3> QED BY <1>9, <3>1, <3>2, <3>3 DEF Settled
  <2>2. CASE y \notin M \/ y = n
    <3>1. r.parent[y] \in {g.parent[y], Nil}
      BY <1>9, <2>2
    <3> QED BY <3>1 DEF Settled
  <2> QED BY <2>1, <2>2
<1> QED BY <1>8, <1>9, <1>10 DEF Edit, M

\* The documents W are marked.
Escaping(h, W) == [h EXCEPT !.escaped = @ \cup W]

\* A heap with more marks.
LEMMA EscapingIs ==
  ASSUME NEW h, Heap(Node, h), NEW W \in SUBSET Node
  PROVE  LET g == Escaping(h, W)
         IN  /\ Heap(Node, g) /\ SameLinks(h, g) /\ g.owner = h.owner /\ g.content = h.content
             /\ g.escaped = h.escaped \cup W /\ g = [h EXCEPT !.escaped = g.escaped]
<1> DEFINE E == h.escaped \cup W
           g == Escaping(h, W)
<1>1. E \in SUBSET Node
  BY HeapFields
<1>2. g = [h EXCEPT !.escaped = E]
  BY DEF Escaping
<1> HIDE DEF E, g
<1>3. Heap(Node, g) /\ SameLinks(h, g) /\ g.owner = h.owner /\ g.content = h.content /\ g.escaped = E
  BY <1>1, <1>2, EscapeIs
<1>4. g = [h EXCEPT !.escaped = g.escaped]
  BY <1>2, <1>3
<1> QED BY <1>3, <1>4 DEF E, g

\* Replace marks the owners of the operands that it has checked.
ReplaceMark(h, n, ns, C) ==
  [h EXCEPT !.escaped = @ \cup ({h.owner[ns[i]] : i \in C} \ {Nil, h.owner[n]})]

\* The marks of Replace are those of its operands' owners.
LEMMA ReplaceMarks ==
  ASSUME NEW h, Heap(Node, h), NEW n, NEW ns \in Seq(Node), NEW C \in SUBSET (DOMAIN ns),
         NEW g, g = ReplaceMark(h, n, ns, C)
  PROVE  /\ Heap(Node, g) /\ SameLinks(h, g) /\ g.owner = h.owner /\ g.content = h.content
         /\ h.escaped \subseteq g.escaped /\ g = [h EXCEPT !.escaped = g.escaped]
         /\ \A d \in g.escaped : d \in h.escaped \/ \E x \in Elems(ns) : d = h.owner[x]
         /\ \A i \in C : Adopted(g, ns[i], h.owner[n])
<1> DEFINE W == {h.owner[ns[i]] : i \in C} \ {Nil, h.owner[n]}
           E == h.escaped \cup W
<1>1. h.owner \in Slot(Node) /\ h.escaped \in SUBSET Node
  BY HeapFields
<1>2. ASSUME NEW i \in C PROVE ns[i] \in Node /\ h.owner[ns[i]] \in Ptr /\ ns[i] \in Elems(ns)
  BY <1>1 DEF Slot, Ptr, Elems
<1>3. W \in SUBSET Node
  BY <1>1, <1>2 DEF Ptr
<1>4. g = Escaping(h, W)
  BY DEF ReplaceMark, Escaping
<1>5. /\ \A d \in E : d \in h.escaped \/ \E x \in Elems(ns) : d = h.owner[x]
      /\ \A i \in C : h.owner[ns[i]] \in E \cup {Nil, h.owner[n]}
  BY <1>2
<1>6. /\ Heap(Node, g) /\ SameLinks(h, g) /\ g.owner = h.owner /\ g.content = h.content
      /\ g.escaped = h.escaped \cup W /\ g = [h EXCEPT !.escaped = g.escaped]
  <2> HIDE DEF W
  <2> QED BY <1>3, <1>4, EscapingIs
<1> QED BY <1>5, <1>6 DEF Adopted

\* Replace: nothing is refused once an operand is unlinked.
LEMMA ReplaceAnswer ==
  ASSUME NodesOK, NEW h, NEW Q, Tree(h, Q), NEW n \in Node, NEW ns \in Seq(Node),
         \A x \in Elems(ns) : Kind[x] # "Document"
  PROVE  Answer(h, ReplaceResult(h, n, ns), Elems(ns))
<1> DEFINE attrList == IsProperty(h, n)
           p == h.parent[n]
           bad == {i \in DOMAIN ns : ns[i] # n /\ WouldCreateCycle(h, p, ns[i])}
           checked == {i \in DOMAIN ns : ns[i] # n /\ \A j \in bad : i <= j}
           m == ReplaceMark(h, n, ns, checked)
           res == ReplaceResult(h, n, ns)
           wrong == \/ attrList /\ \E x \in Elems(ns) : x # n /\ x \notin Attrs
                    \/ \E i, j \in DOMAIN ns : i < j /\ ns[i] = ns[j]
           g == UnlinkAll(m, ns, n)
           r == Splice(g, n, ns, attrList)
<1>1. Q \in SUBSET Node /\ Heap(Node, h) /\ Linked(Node, Kind, h, Q)
  BY TreeNodes
<1>2. (attrList <=> n \in Q) /\ attrList \in BOOLEAN
  BY <1>1, PropertyIs DEF IsProperty
<1>3. p \in Ptr
  BY <1>1, Neighbours
<1>4. Answer(h, Fail(h, "ErrInvalidOperation"), Elems(ns))
  BY FailAnswer DEF Errors
<1>5. res = IF Kind[n] = "Document" \/ ns = << >> \/ wrong THEN Fail(h, "ErrInvalidOperation")
            ELSE IF bad # {} THEN Fail(m, "ErrCyclicNode") ELSE Done(r)
  BY DEF ReplaceResult, ReplaceMark
<1>6. checked \in SUBSET (DOMAIN ns) /\ bad \in SUBSET (DOMAIN ns)
  OBVIOUS
<1>7. bad = {} => /\ \A i \in DOMAIN ns : ns[i] # n => i \in checked
                  /\ \A i \in DOMAIN ns : ns[i] # n => ~WouldCreateCycle(h, p, ns[i])
  OBVIOUS
<1> HIDE DEF checked, bad
<1>8. /\ Heap(Node, m) /\ SameLinks(h, m) /\ m.owner = h.owner /\ m.content = h.content
      /\ h.escaped \subseteq m.escaped /\ m = [h EXCEPT !.escaped = m.escaped]
      /\ \A d \in m.escaped : d \in h.escaped \/ \E x \in Elems(ns) : d = h.owner[x]
      /\ \A i \in checked : Adopted(m, ns[i], h.owner[n])
  BY <1>1, <1>6, ReplaceMarks
<1> HIDE DEF m
<1>9. Answer(h, Fail(m, "ErrCyclicNode"), Elems(ns))
  <2>1. Edit(h, m, Elems(ns))
    BY <1>1, <1>8, SameEdit
  <2> QED BY <1>8, <2>1 DEF Answer, Fail, Errors
<1>10. ASSUME Kind[n] # "Document", ns # << >>, ~wrong, bad = {} PROVE Edit(h, r, Elems(ns))
  <2>1. Tree(m, Q) /\ Shrunk(h, Q, m, Q)
    <3>1. /\ Tree(m, Q) /\ \A q \in Node : Kids(Node, m, Q, q) = Kids(Node, h, Q, q)
          /\ \A q \in Node : Foreign(Node, Kind, m, q) <=> Foreign(Node, Kind, h, q)
      BY <1>8, SameTree
    <3> QED BY <1>8, <3>1 DEF Shrunk, Fewer, SameLinks, Loose
  <2>2. PICK P : Cleared(m, Q, ns, n, Len(ns), g, P)
    BY <2>1, UnlinkAllKeeps
  <2> HIDE DEF g
  <2>3. /\ Tree(g, P) /\ Shrunk(m, Q, g, P) /\ g.escaped = m.escaped
        /\ g.parent[n] = p /\ (n \in P <=> n \in Q)
        /\ \A i \in 1 .. Len(ns) : ns[i] # n => Loose(g, ns[i])
    BY <1>8, <2>2 DEF Cleared, SameLinks
  <2>4. Shrunk(h, Q, g, P) /\ g.owner = h.owner
    BY <2>1, <2>3, ShrunkAgain DEF Shrunk
  <2>5. DOMAIN ns = 1 .. Len(ns) /\ Len(ns) \in Nat /\ \A i \in 1 .. Len(ns) : ns[i] \in Node
    OBVIOUS
  <2>6. Distinct(ns)
    <3>1. Len(ns) >= 1
      BY <1>10
    <3>2. \A i, j \in 1 .. Len(ns) : ns[i] = ns[j] => i = j
      BY <1>10, <2>5
    <3> QED BY <3>1, <3>2 DEF Distinct
  <2>7. n \in P => Elems(ns) \subseteq Attrs
    <3>1. n \in Q => n \in Attrs
      BY <1>1 DEF Linked, Attributes, Attrs
    <3> QED BY <1>2, <1>10, <2>3, <3>1
  <2>8. ASSUME NEW x \in Elems(ns), x # n
        PROVE  /\ Loose(g, x) /\ Kind[x] # "Document"
               /\ Apart(g, P, g.parent[n], x) /\ Adopted(g, x, g.owner[n])
    <3>1. PICK i \in 1 .. Len(ns) : x = ns[i]
      BY <2>5 DEF Elems
    <3>2. i \in checked /\ ~WouldCreateCycle(h, p, x) /\ x \in Node
      BY <1>7, <1>10, <2>5, <2>8, <3>1
    <3>3. Apart(h, Q, p, x)
      BY <1>1, <1>3, <3>2, NoCycleIsApart
    <3>4. Apart(g, P, p, x)
      BY <2>4, <3>2, <3>3, StillApart
    <3>5. Adopted(g, x, g.owner[n])
      BY <1>8, <2>3, <2>4, <3>1, <3>2 DEF Adopted
    <3>6. Loose(g, x)
      BY <2>3, <2>8, <3>1
    <3> QED BY <2>3, <2>8, <3>4, <3>5, <3>6
  <2>9. Fit(g, P, n, ns)
    BY <2>6, <2>7, <2>8 DEF Fit
  <2>10. Edit(g, r, Elems(ns))
    BY <1>2, <1>10, <2>3, <2>9, SpliceEdit
  <2>11. /\ h.escaped \subseteq g.escaped
         /\ \A d \in g.escaped : d \in h.escaped \/ \E x \in Elems(ns) : d = h.owner[x]
    BY <1>8, <2>3
  <2> HIDE DEF r
  <2> QED BY <2>4, <2>10, <2>11, EditLater
<1> HIDE DEF r, wrong
<1>11. CASE Kind[n] = "Document" \/ ns = << >> \/ wrong
  BY <1>4, <1>5, <1>11
<1>12. CASE ~(Kind[n] = "Document" \/ ns = << >> \/ wrong) /\ bad # {}
  BY <1>5, <1>9, <1>12
<1>13. CASE ~(Kind[n] = "Document" \/ ns = << >> \/ wrong) /\ bad = {}
  <2>1. Edit(h, r, Elems(ns)) /\ res = Done(r)
    BY <1>5, <1>10, <1>13
  <2> QED BY <2>1 DEF Answer, Done, Errors
<1> QED BY <1>11, <1>12, <1>13

\* UnlinkNode and RemoveAttribute only take a node out; nobody gives it up.
LEMMA UnlinkAnswer ==
  ASSUME NodesOK, NEW h, NEW Q, Tree(h, Q), NEW x \in Node, NEW Ops
  PROVE  Answer(h, Done(Unlink(h, x)), Ops)
<1> DEFINE g == Unlink(h, x)
<1>1. /\ Tree(g, Q \ {x}) /\ Shrunk(h, Q, g, Q \ {x}) /\ g.escaped = h.escaped
  BY UnlinkKeeps
<1>2. Q \ {x} \in SUBSET Node
  BY <1>1, TreeNodes
<1> HIDE DEF g
<1>3. \A y \in Node : Settled(h, g, y)
  BY <1>1 DEF Shrunk, Settled
<1>4. g.owner = h.owner
  BY <1>1 DEF Shrunk
<1>5. Edit(h, g, Ops)
  BY <1>1, <1>2, <1>3, <1>4 DEF Edit
<1>6. Answer(h, Done(g), Ops)
  BY <1>5 DEF Answer, Done, Errors
<1> QED BY <1>6 DEF g

\* The bytes of appendText go to a text that is there.
LEMMA MergeAnswer ==
  ASSUME NodesOK, NEW h, NEW Q, Tree(h, Q), NEW n \in Node, NEW x \in Node, NEW Ops
  PROVE  Answer(h, Done(Merge(h, n, x)), Ops)
<1> DEFINE g == Merge(h, n, x)
<1>1. Q \in SUBSET Node /\ Heap(Node, h)
  BY TreeNodes
<1>2. Heap(Node, g) /\ SameLinks(h, g) /\ g.owner = h.owner /\ g.escaped = h.escaped
  BY <1>1, MergeIs
<1> HIDE DEF g
<1>3. Edit(h, g, Ops)
  BY <1>1, <1>2, SameEdit
<1>4. Answer(h, Done(g), Ops)
  BY <1>3 DEF Answer, Done, Errors
<1> QED BY <1>4 DEF g

\* The heap with other owners.
Owning(h, o) == [h EXCEPT !.owner = o]

\* Owners are no links.
LEMMA OwnersAre ==
  ASSUME NEW h, Heap(Node, h), NEW o \in Slot(Node), NEW g, g = Owning(h, o)
  PROVE  Heap(Node, g) /\ SameLinks(h, g) /\ g.owner = o /\ g.escaped = h.escaped
<1> DEFINE S == Slot(Node)
           C == [Node -> Seq(Node)]
           E == SUBSET Node
<1>1. h \in [parent : S, next : S, prev : S, first : S, last : S, props : S, owner : S,
             content : C, escaped : E]
  BY DEF Heap
<1> HIDE DEF S, C, E
<1>2. o \in S
  BY DEF S
<1>3. /\ g \in [parent : S, next : S, prev : S, first : S, last : S, props : S, owner : S,
                content : C, escaped : E]
      /\ SameLinks(h, g) /\ g.owner = o /\ g.escaped = h.escaped
  BY <1>1, <1>2 DEF SameLinks, Owning
<1> QED BY <1>3 DEF Heap, S, C, E

\* The element that SetDocumentElement replaces is a child of the document.
LEMMA RootIs ==
  ASSUME NodesOK, NEW h, NEW Q, Linked(Node, Kind, h, Q), NEW d \in Node, NEW children,
         children = Walk([c \in Node |-> IF h.parent[c] = d THEN h.next[c] ELSE Nil], h.first[d])
  PROVE  children \in Seq(Node)
<1> DEFINE step == [c \in Node |-> IF h.parent[c] = d THEN h.next[c] ELSE Nil]
<1>1. h.first \in Slot(Node) /\ h.next \in Slot(Node)
  BY HeapFields DEF Linked
<1>2. step \in Slot(Node) /\ h.first[d] \in Ptr
  BY <1>1 DEF Slot, Ptr
<1> HIDE DEF step
<1>3. Walked(Node, step, h.first[d], children)
  BY <1>2, WalkFacts DEF step
<1> QED BY <1>3 DEF Walked

\* SetDocumentElement adds the root, or replaces the first one.
SetDocumentElementResult(h, d, root) ==
  LET children == Walk([c \in Node |-> IF h.parent[c] = d THEN h.next[c] ELSE Nil], h.first[d])
      roots == {i \in DOMAIN children : Kind[children[i]] = "Element"}
      old == children[CHOOSE i \in roots : \A j \in roots : i <= j]
  IN  CASE Kind[root] # "Element" -> Fail(h, "ErrInvalidOperation")
        [] Kind[root] = "Element" /\ roots = {} -> AddChildResult(h, d, root)
        [] OTHER -> ReplaceResult(h, old, <<root>>)

\* SetDocumentElement is one of the edits.
LEMMA SetDocumentElementAnswer ==
  ASSUME NodesOK, NEW h, NEW Q, Tree(h, Q), NEW d \in Node, Kind[d] = "Document",
         NEW root \in Node, Kind[root] # "Document"
  PROVE  Answer(h, SetDocumentElementResult(h, d, root), {root})
<1> DEFINE children == Walk([c \in Node |-> IF h.parent[c] = d THEN h.next[c] ELSE Nil], h.first[d])
           roots == {i \in DOMAIN children : Kind[children[i]] = "Element"}
           i0 == CHOOSE i \in roots : \A j \in roots : i <= j
           old == children[i0]
           res == SetDocumentElementResult(h, d, root)
<1>1. children \in Seq(Node)
  BY RootIs, TreeNodes
<1>2. res = CASE Kind[root] # "Element" -> Fail(h, "ErrInvalidOperation")
              [] Kind[root] = "Element" /\ roots = {} -> AddChildResult(h, d, root)
              [] OTHER -> ReplaceResult(h, old, <<root>>)
  BY DEF SetDocumentElementResult
<1> HIDE DEF children
<1>3. roots \in SUBSET Nat /\ roots \subseteq 1 .. Len(children)
  BY <1>1
<1>4. roots # {} => old \in Node
  <2> SUFFICES ASSUME roots # {} PROVE old \in Node
    OBVIOUS
  <2>1. \E i \in roots : \A j \in roots : i <= j
    <3> HIDE DEF roots
    <3> QED BY <1>3, LeastNumber
  <2>2. i0 \in roots
    BY <2>1
  <2> QED BY <1>1, <1>3, <2>2
<1> HIDE DEF roots, i0, res
<1>5. CASE Kind[root] # "Element"
  <2>1. res = Fail(h, "ErrInvalidOperation")
    BY <1>2, <1>5
  <2> QED BY <2>1, FailAnswer DEF Errors, res
<1>6. CASE Kind[root] = "Element" /\ roots = {}
  <2>1. res = AddChildResult(h, d, root)
    BY <1>2, <1>6
  <2>2. ~Foreign(Node, Kind, h, d)
    BY DEF Foreign
  <2> QED BY <2>1, <2>2, AddChildAnswer DEF res
<1>7. CASE Kind[root] = "Element" /\ roots # {}
  <2>1. res = ReplaceResult(h, old, <<root>>)
    BY <1>2, <1>7
  <2>2. <<root>> \in Seq(Node) /\ Elems(<<root>>) = {root}
    BY DEF Elems
  <2>3. old \in Node
    BY <1>4, <1>7
  <2> HIDE DEF old
  <2> QED BY <2>1, <2>2, <2>3, ReplaceAnswer DEF res
<1> QED BY <1>5, <1>6, <1>7

-----------------------------------------------------------------------------
(***************************************************************************)
(* The invariant of the specification, and the documents.                  *)
(***************************************************************************)
\* Every node's owner is a document or none.
Owned(h) == \A x \in Node : h.owner[x] \in Docs \cup {Nil}

HeapInv(h) == (\E Q \in SUBSET Node : Tree(h, Q)) /\ Owned(h) /\ h.escaped \subseteq Docs

\* What lives in a slab is owned by the slab's document.
AtHome(h) ==
  \A x \in Node : Home[x] # Nil => h.owner[x] = IF Kind[x] = "Document" THEN Nil ELSE Home[x]

\* A node of a document that gave up nothing is below a node of that document.
OneDocument(h) ==
  \A x \in Node : h.parent[x] # Nil /\ DestinationDocument(h, x) \notin h.escaped \cup {Nil}
                    => DestinationDocument(h, h.parent[x]) = DestinationDocument(h, x)

\* What holds while no reference took a node behind the Entity it shows.
Orderly ==
  /\ world \in Worlds
  /\ HeapInv(dom) /\ err \in Errors /\ freed \subseteq Docs /\ recycled \subseteq freed
  /\ ~Reowns => AtHome(dom) /\ OneDocument(dom) /\ recycled \cap dom.escaped = {}

Inv == astray \in BOOLEAN /\ (~astray => Orderly)

\* What the assumption says of the world at hand.
WorldFacts ==
  /\ NodesOK
  /\ \A x \in Node : Home[x] \in Node \cup {Nil} /\ (Home[x] # Nil => Kind[Home[x]] = "Document")
  /\ \A x \in Node : Kind[x] = "Document" => Home[x] = x

\* These follow from the assumption.
LEMMA WorldIs ==
  ASSUME world \in Worlds
  PROVE  WorldFacts
<1>1. /\ Nil \notin world.node /\ IsFiniteSet(world.node)
      /\ world.home \in [world.node -> world.node \cup {Nil}]
      /\ \A n \in world.node : world.home[n] # Nil => world.kind[world.home[n]] = "Document"
      /\ \A n \in world.node : world.kind[n] = "Document" => world.home[n] = n
  BY DomAssumption
<1> QED BY <1>1 DEF WorldFacts, NodesOK, Node, Home, Kind

\* An edit keeps the heap's invariant, and documents apart.
LEMMA EditKeeps ==
  ASSUME NodesOK, NEW h, HeapInv(h), NEW r, NEW Ops \in SUBSET Node, Edit(h, r, Ops)
  PROVE  /\ HeapInv(r) /\ (AtHome(h) => AtHome(r))
         /\ OneDocument(h) => OneDocument(r)
<1>1. PICK P \in SUBSET Node : Tree(r, P)
  BY DEF Edit
<1>2. /\ r.owner = h.owner /\ h.escaped \subseteq r.escaped
      /\ \A d \in r.escaped : d \in h.escaped \/ \E x \in Ops : d = h.owner[x]
      /\ \A x \in Node : Settled(h, r, x)
  BY DEF Edit
<1>3. Heap(Node, r) /\ \A x \in Node : Kind[x] = "Document" => r.parent[x] = Nil
  BY <1>1 DEF Tree, Linked, Roots
<1>4. r.escaped \subseteq Node
  BY <1>3, HeapFields
<1>5. r.escaped \subseteq Docs
  BY <1>2, <1>4 DEF HeapInv, Owned, NodesOK
<1>6. HeapInv(r)
  BY <1>1, <1>2, <1>5 DEF HeapInv, Owned
<1>7. AtHome(h) => AtHome(r)
  BY <1>2 DEF AtHome
<1>8. ASSUME OneDocument(h), NEW x \in Node, r.parent[x] # Nil,
             DestinationDocument(r, x) \notin r.escaped \cup {Nil}
      PROVE  DestinationDocument(r, r.parent[x]) = DestinationDocument(r, x)
  <2>1. \A y : DestinationDocument(r, y) = DestinationDocument(h, y)
    BY <1>2 DEF DestinationDocument
  <2>2. Kind[x] # "Document" /\ DestinationDocument(h, x) = h.owner[x]
    BY <1>3, <1>8 DEF DestinationDocument
  <2>3. h.owner[x] \notin r.escaped \cup {Nil} /\ h.owner[x] \notin h.escaped \cup {Nil}
    BY <1>2, <1>8, <2>1, <2>2
  <2>4. CASE r.parent[x] = h.parent[x]
    BY <1>8, <2>1, <2>2, <2>3, <2>4 DEF OneDocument
  <2>5. CASE DestinationDocument(h, r.parent[x]) = h.owner[x]
    BY <2>1, <2>2, <2>5
  <2>6. ASSUME NEW y \in Node, h.parent[y] = r.parent[x], DestinationDocument(h, y) = h.owner[x]
        PROVE  DestinationDocument(h, r.parent[x]) = h.owner[x]
    <3>1. DestinationDocument(h, h.parent[y]) = DestinationDocument(h, y)
      BY <1>8, <2>3, <2>6 DEF OneDocument
    <3> QED BY <2>6, <3>1
  <2>7. Settled(h, r, x)
    BY <1>2
  <2> QED BY <1>8, <2>1, <2>2, <2>3, <2>4, <2>5, <2>6, <2>7 DEF Settled
<1> QED BY <1>6, <1>7, <1>8 DEF OneDocument

\* A node in use, whose document gave up nothing: the client has not freed that document.
LEMMA UsedIs ==
  ASSUME WorldFacts, HeapInv(dom), AtHome(dom), OneDocument(dom), NEW x \in Node, InUse(x),
         DestinationDocument(dom, x) \notin dom.escaped \cup {Nil}
  PROVE  DestinationDocument(dom, x) \notin freed
<1> DEFINE d == DestinationDocument(dom, x)
           S == {y \in Node : DestinationDocument(dom, y) = d}
           w == Walk(dom.parent, x)
           top == Tail1(w)
<1>1. NodesOK /\ Nil \notin Node
  BY DEF WorldFacts, NodesOK
<1>2. dom.parent \in Slot(Node) /\ dom.prev \in Slot(Node)
  <2>1. PICK Q \in SUBSET Node : Tree(dom, Q)
    BY DEF HeapInv
  <2> QED BY <2>1, TreeNodes, HeapFields
<1>3. Walked(Node, dom.parent, x, w) /\ Elems(w) \subseteq Node
  BY <1>1, <1>2, WalkFacts DEF Ptr
<1>4. x \in S /\ x \in Ptr
  BY DEF Ptr
<1>5. ASSUME NEW y \in S, dom.parent[y] # Nil PROVE dom.parent[y] \in S
  <2>1. dom.parent[y] \in Node
    BY <1>2, <1>5 DEF Slot
  <2>2. DestinationDocument(dom, dom.parent[y]) = DestinationDocument(dom, y)
    BY <1>5 DEF OneDocument
  <2> QED BY <2>1, <2>2
<1> HIDE DEF S, w
<1>6. Elems(w) \subseteq S
  BY <1>1, <1>2, <1>3, <1>4, <1>5, WalkStays
<1>7. top \in Elems(w)
  <2>1. w \in Seq(Node) /\ Len(w) >= 1
    BY <1>1, <1>3 DEF Walked
  <2> QED BY <2>1 DEF Tail1, Elems
<1>8. top \in Node /\ DestinationDocument(dom, top) = d
  BY <1>3, <1>6, <1>7 DEF S
<1> HIDE DEF top
<1>9. top \in Tops(dom, x)
  <2>1. top \in Elems(Walk(dom.prev, top))
    BY <1>1, <1>2, <1>8, WalkFacts DEF Ptr
  <2> QED BY <2>1 DEF Tops, top, w
<1>10. Holder(top) = d
  <2>1. CASE Kind[top] = "Document"
    BY <1>1, <1>8, <2>1 DEF Holder, WorldFacts, DestinationDocument
  <2>2. CASE Kind[top] # "Document"
    <3>1. dom.owner[top] = d
      BY <1>8, <2>2 DEF DestinationDocument
    <3>2. Home[top] # Nil => dom.owner[top] = Home[top]
      BY <1>8, <2>2 DEF AtHome
    <3> QED BY <3>1, <3>2 DEF Holder
  <2> QED BY <2>1, <2>2
<1> QED BY <1>9, <1>10 DEF InUse

\* What is left to show of a step that frees nothing.
LEMMA OrderlyLater ==
  ASSUME Orderly, NEW r, HeapInv(r), dom' = r, err' \in Errors, UNCHANGED <<world, freed, recycled>>,
         ~Reowns => AtHome(r) /\ OneDocument(r) /\ recycled \cap r.escaped = {}
  PROVE  Orderly'
<1>1. world' = world /\ freed' = freed /\ recycled' = recycled
  OBVIOUS
<1>2. /\ Node' = Node /\ Kind' = Kind /\ Home' = Home /\ Reowns' = Reowns /\ Docs' = Docs
  BY <1>1 DEF Node, Kind, Home, Reowns, Docs
<1>3. HeapInv(dom)'
  BY <1>2 DEF HeapInv, Owned, Tree
<1>4. (~Reowns => AtHome(dom) /\ OneDocument(dom) /\ recycled \cap dom.escaped = {})'
  BY <1>1, <1>2 DEF AtHome, OneDocument, DestinationDocument
<1>5. err' \in Errors /\ freed' \subseteq Docs' /\ recycled' \subseteq freed' /\ world' \in Worlds
  BY <1>1, <1>2 DEF Orderly
<1> QED BY <1>3, <1>4, <1>5 DEF Orderly

\* A call that is refused changes no more than the marks,
Refused == err' # "nil" => dom' = [dom EXCEPT !.escaped = dom'.escaped]

\* but for one that adds to a reference which shows an Entity: cur may be unlinked.
Dropped ==
  err' # "nil" => \E n \in Node, cur \in Operand :
                    /\ HoldsEntity(n) /\ AddChild(n, cur)
                    /\ dom' = [UnlinkIfLinked(dom, cur) EXCEPT !.escaped = dom'.escaped]

\* A method that edits, called with operands in use, keeps the invariant.
LEMMA EditStep ==
  ASSUME Orderly, NEW Ops \in SUBSET Node, \A x \in Ops : InUse(x) /\ Kind[x] # "Document",
         NEW res, Edit(dom, res.dom, Ops), res.err \in Errors, Returns(res)
  PROVE  Orderly'
<1>1. WorldFacts /\ NodesOK /\ HeapInv(dom)
  BY WorldIs DEF Orderly, WorldFacts
<1> DEFINE r == res.dom
<1>2. dom' = r /\ err' = res.err /\ UNCHANGED <<world, freed, recycled>>
  BY DEF Returns
<1>3. Edit(dom, r, Ops) /\ res.err \in Errors
  OBVIOUS
<1> HIDE DEF r
<1>4. HeapInv(r) /\ (AtHome(dom) => AtHome(r)) /\ (OneDocument(dom) => OneDocument(r))
  BY <1>1, <1>3, EditKeeps
<1>5. ASSUME ~Reowns PROVE recycled \cap r.escaped = {}
  <2>1. AtHome(dom) /\ OneDocument(dom) /\ recycled \cap dom.escaped = {} /\ recycled \subseteq freed
    BY <1>5 DEF Orderly
  <2> SUFFICES ASSUME NEW d \in r.escaped, d \in recycled PROVE FALSE
    OBVIOUS
  <2>2. d \in Node /\ d # Nil
    BY <1>1, <1>4 DEF HeapInv, Docs, NodesOK
  <2>3. d \notin dom.escaped
    BY <2>1
  <2>4. PICK x \in Ops : d = dom.owner[x]
    BY <1>3, <2>3 DEF Edit
  <2>5. x \in Node /\ InUse(x) /\ DestinationDocument(dom, x) = d
    BY <2>4 DEF DestinationDocument
  <2>6. d \notin freed
    BY <1>1, <2>1, <2>2, <2>3, <2>5, UsedIs
  <2> QED BY <2>1, <2>6
<1>6. ~Reowns => AtHome(r) /\ OneDocument(r) /\ recycled \cap r.escaped = {}
  BY <1>4, <1>5 DEF Orderly
<1>7. err' \in Errors
  BY <1>2, <1>3
<1> QED BY <1>2, <1>4, <1>6, <1>7, OrderlyLater

\* A method that answers keeps it, and a refusal leaves the tree alone.
LEMMA AnswerKeeps ==
  ASSUME Orderly, NEW Ops \in SUBSET Node, \A x \in Ops : InUse(x) /\ Kind[x] # "Document",
         NEW res, Answer(dom, res, Ops), Returns(res)
  PROVE  Orderly' /\ Refused
<1>1. Edit(dom, res.dom, Ops) /\ res.err \in Errors
      /\ (res.err # "nil" => res.dom = [dom EXCEPT !.escaped = res.dom.escaped])
  BY DEF Answer
<1>2. Refused
  BY <1>1 DEF Refused, Returns
<1> QED BY <1>1, <1>2, EditStep

\* The tree of the heap.
LEMMA OrderlyTree ==
  ASSUME Orderly
  PROVE  WorldFacts /\ NodesOK /\ \E Q \in SUBSET Node : Tree(dom, Q)
BY WorldIs DEF Orderly, HeapInv, WorldFacts

\* The references that show an Entity.
LEMMA HoldsIs ==
  ASSUME Orderly, NEW n \in Node
  PROVE  HoldsEntity(n) <=> Foreign(Node, Kind, dom, n)
<1>1. PICK Q \in SUBSET Node : Tree(dom, Q)
  BY OrderlyTree
<1>2. ChildEnds(Node, Kind, dom, Q) /\ dom.first \in Slot(Node)
  BY <1>1, TreeNodes, HeapFields DEF Tree, Linked
<1>3. Foreign(Node, Kind, dom, n) => HoldsEntity(n)
  BY <1>2 DEF Foreign, HoldsEntity, Slot
<1>4. HoldsEntity(n) => Foreign(Node, Kind, dom, n)
  BY <1>2 DEF HoldsEntity, ChildEnds, Own
<1> QED BY <1>3, <1>4

\* AddChild, one action of the specification.
LEMMA AddChildKeeps ==
  ASSUME Orderly, astray' => err' # "nil", NEW n \in Node, NEW cur \in Operand, AddChild(n, cur)
  PROVE  Orderly' /\ (Refused \/ Dropped)
<1> DEFINE res == AddChildResult(dom, n, cur)
<1>1. NodesOK /\ cur \in Node /\ Kind[cur] # "Document"
  BY OrderlyTree DEF Operand, Docs
<1>2. PICK Q \in SUBSET Node : Tree(dom, Q)
  BY OrderlyTree
<1>3. InUse(cur) /\ Returns(res) /\ StraysIfTaken(n, cur)
  BY DEF AddChild
<1>4. CASE ~HoldsEntity(n)
  <2>1. Answer(dom, res, {cur})
    BY <1>1, <1>2, <1>4, HoldsIs, AddChildAnswer
  <2> HIDE DEF res
  <2> QED BY <1>1, <1>3, <2>1, AnswerKeeps
<1>5. CASE HoldsEntity(n)
  <2>1. res.err = "nil" => res.dom.parent[cur] # n
    BY <1>3, <1>5 DEF StraysIfTaken, Returns
  <2>2. Passed(dom, res, cur)
    BY <1>1, <1>2, <1>5, <2>1, HoldsIs, AddChildPasses
  <2> HIDE DEF res
  <2>3. Orderly'
    BY <1>1, <1>3, <2>2, EditStep DEF Passed
  <2>4. dom' = res.dom /\ err' = res.err
    BY <1>3 DEF Returns
  <2> QED BY <1>5, <2>2, <2>3, <2>4 DEF Passed, Refused, Dropped
<1> QED BY <1>4, <1>5

\* AddSibling: of text, into the attribute chain, or into the list of children.
LEMMA AddSiblingKeeps ==
  ASSUME Orderly, NEW n \in Node, NEW cur \in Operand, AddSibling(n, cur)
  PROVE  Orderly' /\ Refused
<1>1. NodesOK /\ cur \in Node /\ Kind[cur] # "Document"
  BY OrderlyTree DEF Operand, Docs
<1>2. PICK Q \in SUBSET Node : Tree(dom, Q)
  BY OrderlyTree
<1>3. InUse(cur) /\ Returns(AddSiblingResult(dom, n, cur))
  BY DEF AddSibling
<1>4. Answer(dom, AddSiblingResult(dom, n, cur), {cur})
  BY <1>1, <1>2, AddSiblingAnswer
<1> QED BY <1>1, <1>3, <1>4, AnswerKeeps

\* Replace, of any number of operands.
LEMMA ReplaceKeeps ==
  ASSUME Orderly, NEW n \in Node, NEW k \in Nat, NEW ns \in [1 .. k -> Operand], Replace(n, ns)
  PROVE  Orderly' /\ Refused
<1>1. NodesOK
  BY OrderlyTree
<1>2. PICK Q \in SUBSET Node : Tree(dom, Q)
  BY OrderlyTree
<1>3. ns \in Seq(Node) /\ \A x \in Elems(ns) : x \in Node /\ Kind[x] # "Document"
  <2>1. \A i \in DOMAIN ns : ns[i] \in Node /\ Kind[ns[i]] # "Document"
    BY DEF Operand, Docs
  <2>2. ns \in [1 .. k -> Node]
    BY <2>1
  <2>3. ns \in Seq(Node)
    BY <2>2
  <2> QED BY <2>1, <2>3 DEF Elems
<1>4. (\A x \in Elems(ns) : InUse(x)) /\ Returns(ReplaceResult(dom, n, ns))
  BY DEF Replace
<1>5. Answer(dom, ReplaceResult(dom, n, ns), Elems(ns))
  BY <1>1, <1>2, <1>3, ReplaceAnswer
<1>6. Elems(ns) \in SUBSET Node
  BY <1>3
<1> DEFINE Ops == Elems(ns)
           res == ReplaceResult(dom, n, ns)
<1>7. Ops \in SUBSET Node /\ (\A x \in Ops : InUse(x) /\ Kind[x] # "Document") /\ Answer(dom, res, Ops) /\ Returns(res)
  BY <1>3, <1>4, <1>5, <1>6
<1> HIDE DEF Ops, res
<1> QED BY <1>7, AnswerKeeps

\* UnlinkNode.
LEMMA UnlinkNodeKeeps ==
  ASSUME Orderly, NEW n \in Operand, UnlinkNode(n)
  PROVE  Orderly' /\ Refused
<1>1. NodesOK /\ n \in Node
  BY OrderlyTree DEF Operand
<1>2. PICK Q \in SUBSET Node : Tree(dom, Q)
  BY OrderlyTree
<1>3. Answer(dom, Done(Unlink(dom, n)), {})
  BY <1>1, <1>2, UnlinkAnswer
<1>4. Returns(Done(Unlink(dom, n)))
  BY DEF UnlinkNode
<1> QED BY <1>3, <1>4, AnswerKeeps

\* RemoveAttribute unlinks the first match.
LEMMA RemoveAttributeKeeps ==
  ASSUME Orderly, NEW e \in Node, NEW a \in Attrs, RemoveAttribute(e, a)
  PROVE  Orderly' /\ Refused
<1>1. NodesOK /\ a \in Node
  BY OrderlyTree DEF Attrs
<1>2. PICK Q \in SUBSET Node : Tree(dom, Q)
  BY OrderlyTree
<1>3. Answer(dom, Done(Unlink(dom, a)), {})
  BY <1>1, <1>2, UnlinkAnswer
<1>4. Returns(Done(Unlink(dom, a)))
  BY DEF RemoveAttribute
<1> QED BY <1>3, <1>4, AnswerKeeps

\* AppendText merges or adds a child.
LEMMA AppendTextKeeps ==
  ASSUME Orderly, astray' => err' # "nil", NEW n \in Node, NEW x \in Operand, AppendText(n, x)
  PROVE  Orderly' /\ Refused
<1> DEFINE l == dom.last[n]
           res == CASE n \in CharData -> Done(Merge(dom, n, x))
                    [] n \notin CharData /\ l # Nil /\ Kind[l] = "Text" -> Done(Merge(dom, l, x))
                    [] OTHER -> AddChildResult(dom, n, x)
<1>1. NodesOK /\ x \in Node /\ Kind[x] # "Document"
  BY OrderlyTree DEF Operand, Docs
<1>2. PICK Q \in SUBSET Node : Tree(dom, Q)
  BY OrderlyTree
<1>3. InUse(x) /\ Returns(res) /\ StraysIfTaken(n, x) /\ Detached(x)
  BY DEF AppendText
<1>4. dom.last \in Slot(Node) /\ dom.first \in Slot(Node)
  BY <1>2, TreeNodes, HeapFields
<1>5. CASE n \in CharData
  <2>1. res = Done(Merge(dom, n, x))
    BY <1>5
  <2>2. Answer(dom, res, {x})
    BY <1>1, <1>2, <2>1, MergeAnswer
  <2> HIDE DEF res
  <2> QED BY <1>1, <1>3, <2>2, AnswerKeeps
<1>6. CASE n \notin CharData /\ l # Nil /\ Kind[l] = "Text"
  <2>1. res = Done(Merge(dom, l, x)) /\ l \in Node
    BY <1>4, <1>6 DEF Slot
  <2>2. Answer(dom, res, {x})
    BY <1>1, <1>2, <2>1, MergeAnswer
  <2> HIDE DEF res
  <2> QED BY <1>1, <1>3, <2>2, AnswerKeeps
<1>7. CASE n \notin CharData /\ ~(l # Nil /\ Kind[l] = "Text")
  <2>1. res = AddChildResult(dom, n, x)
    BY <1>7
  <2>2. CASE ~HoldsEntity(n)
    <3>1. Answer(dom, res, {x})
      BY <1>1, <1>2, <2>1, <2>2, HoldsIs, AddChildAnswer
    <3> HIDE DEF res
    <3> QED BY <1>1, <1>3, <3>1, AnswerKeeps
  <2>3. CASE HoldsEntity(n)
    <3>1. res.err = "nil" => res.dom.parent[x] # n
      BY <1>3, <2>3 DEF StraysIfTaken, Returns
    <3>2. Passed(dom, res, x)
      BY <1>1, <1>2, <2>1, <2>3, <3>1, HoldsIs, AddChildPasses
    <3>3. UnlinkIfLinked(dom, x) = dom
      BY <1>3 DEF Detached, UnlinkIfLinked
    <3> HIDE DEF res
    <3>4. Answer(dom, res, {x})
      BY <3>2, <3>3 DEF Passed, Answer
    <3> QED BY <1>1, <1>3, <3>4, AnswerKeeps
  <2> QED BY <2>2, <2>3
<1> QED BY <1>5, <1>6, <1>7

\* SetDocumentElement adds a child or replaces the old root.
LEMMA SetDocumentElementKeeps ==
  ASSUME Orderly, NEW d \in Docs, NEW root \in Operand, SetDocumentElement(d, root)
  PROVE  Orderly' /\ Refused
<1> DEFINE res == SetDocumentElementResult(dom, d, root)
<1>1. NodesOK /\ d \in Node /\ Kind[d] = "Document" /\ root \in Node /\ Kind[root] # "Document"
  BY OrderlyTree DEF Operand, Docs
<1>2. PICK Q \in SUBSET Node : Tree(dom, Q)
  BY OrderlyTree
<1>3. InUse(root) /\ Returns(res)
  BY DEF SetDocumentElement, SetDocumentElementResult
<1>4. Answer(dom, res, {root})
  BY <1>1, <1>2, SetDocumentElementAnswer
<1> HIDE DEF res
<1> QED BY <1>1, <1>3, <1>4, AnswerKeeps

\* SetAttribute gives the new attribute the owner of its element.
LEMMA SetAttributeKeeps ==
  ASSUME Orderly, NEW e \in Node, NEW a \in Attrs, SetAttribute(e, a)
  PROVE  Orderly' /\ Refused
<1> DEFINE O == dom.owner
           o == Poke(O, a, O[e])
           g == Owning(dom, o)
           r == AddProperty(g, e, a)
<1>1. WorldFacts /\ NodesOK /\ HeapInv(dom) /\ a \in Node /\ Kind[a] = "Attribute"
  BY WorldIs DEF Orderly, WorldFacts, Attrs
<1>2. PICK Q \in SUBSET Node : Tree(dom, Q)
  BY OrderlyTree
<1>3. /\ InUse(e) /\ Kind[e] = "Element" /\ Home[a] = Nil /\ Detached(a) /\ dom.first[a] = Nil
      /\ Returns(Done(r))
  BY DEF SetAttribute, Owning, Poke
<1>4. dom' = r /\ err' = "nil" /\ UNCHANGED <<world, freed, recycled>>
  BY <1>3 DEF Returns, Done
<1>5. Heap(Node, dom) /\ Linked(Node, Kind, dom, Q) /\ O \in Slot(Node) /\ dom.parent \in Slot(Node)
  BY <1>2, TreeNodes, HeapFields
<1>6. o \in Slot(Node) /\ \A y \in Node : o[y] = IF y = a THEN O[e] ELSE O[y]
  <2>1. O[e] \in Ptr
    BY <1>5 DEF Slot, Ptr
  <2> HIDE DEF O
  <2> QED BY <1>1, <1>5, <2>1, PokeIs
<1> HIDE DEF o, r
<1>7. Heap(Node, g) /\ SameLinks(dom, g) /\ g.owner = o /\ g.escaped = dom.escaped
  BY <1>5, <1>6, OwnersAre
<1> HIDE DEF g
<1>8. Tree(g, Q)
  BY <1>2, <1>7, SameTree
<1>9. Loose(g, a)
  BY <1>3, <1>7 DEF Loose, Detached, SameLinks
<1>10. Adopted(g, a, DestinationDocument(g, e))
  BY <1>1, <1>3, <1>6, <1>7 DEF Adopted, DestinationDocument
<1>11. Edit(g, r, {a})
  BY <1>1, <1>3, <1>8, <1>9, <1>10, AddPropertyEdit DEF r, Attrs
<1>12. HeapInv(g)
  <2>1. \A x \in Node : O[x] \in Docs \cup {Nil}
    BY <1>1 DEF HeapInv, Owned
  <2>2. \A x \in Node : o[x] \in Docs \cup {Nil}
    BY <1>6, <2>1
  <2> QED BY <1>1, <1>7, <1>8, <2>2 DEF HeapInv, Owned
<1>13. AtHome(dom) => AtHome(g)
  BY <1>3, <1>6, <1>7 DEF AtHome
<1>14. \A y \in Node : dom.parent[y] # a
  <2>1. \A y \in Node : dom.parent[y] = a => y \in Q
    BY <1>1, <1>3, <1>5, Childless
  <2>2. \A y \in Q : Kind[dom.parent[y]] = "Element"
    BY <1>5 DEF Linked, Attributes
  <2> QED BY <1>1, <2>1, <2>2
<1>15. OneDocument(dom) => OneDocument(g)
  <2> SUFFICES ASSUME OneDocument(dom), NEW x \in Node, g.parent[x] # Nil,
                      DestinationDocument(g, x) \notin g.escaped \cup {Nil}
               PROVE  DestinationDocument(g, g.parent[x]) = DestinationDocument(g, x)
    BY DEF OneDocument
  <2>1. g.parent[x] = dom.parent[x] /\ x # a /\ dom.parent[x] # a /\ dom.parent[x] \in Node
    BY <1>3, <1>5, <1>7, <1>14 DEF SameLinks, Detached, Slot
  <2>2. \A y \in Node : y # a => DestinationDocument(g, y) = DestinationDocument(dom, y)
    BY <1>6, <1>7 DEF DestinationDocument
  <2> QED BY <1>7, <2>1, <2>2 DEF OneDocument
<1>16. HeapInv(r) /\ (AtHome(g) => AtHome(r)) /\ (OneDocument(g) => OneDocument(r))
  BY <1>1, <1>11, <1>12, EditKeeps
<1>17. ASSUME ~Reowns PROVE recycled \cap r.escaped = {}
  <2>1. AtHome(dom) /\ OneDocument(dom) /\ recycled \cap dom.escaped = {} /\ recycled \subseteq freed
    BY <1>17 DEF Orderly
  <2> SUFFICES ASSUME NEW d \in r.escaped, d \in recycled PROVE FALSE
    OBVIOUS
  <2>2. d \in Node /\ d # Nil
    BY <1>1, <1>16 DEF HeapInv, Docs, NodesOK
  <2>3. d \notin dom.escaped
    BY <2>1
  <2>4. d = dom.owner[e]
    BY <1>1, <1>6, <1>7, <1>11, <2>3 DEF Edit
  <2>5. DestinationDocument(dom, e) = d
    BY <1>3, <2>4 DEF DestinationDocument
  <2>6. d \notin freed
    BY <1>1, <1>3, <2>1, <2>2, <2>3, <2>5, UsedIs
  <2> QED BY <2>1, <2>6
<1>18. ~Reowns => AtHome(r) /\ OneDocument(r) /\ recycled \cap r.escaped = {}
  BY <1>13, <1>15, <1>16, <1>17 DEF Orderly
<1>19. Orderly'
  BY <1>4, <1>16, <1>18, OrderlyLater DEF Errors
<1> QED BY <1>4, <1>19 DEF Refused

\* SetTreeDoc changes owners and no link.
LEMMA SetTreeDocKeeps ==
  ASSUME Orderly, NEW n \in Operand, NEW d \in Docs, SetTreeDoc(n, d)
  PROVE  Orderly' /\ Refused
<1> DEFINE T == Reowned(dom, n, d)
           O == dom.owner
           o == [y \in Node |-> IF y \in T THEN d ELSE O[y]]
           r == Owning(dom, o)
<1>1. NodesOK /\ HeapInv(dom)
  BY OrderlyTree DEF Orderly
<1>2. PICK Q \in SUBSET Node : Tree(dom, Q)
  BY OrderlyTree
<1>3. Reowns /\ Returns(Done(SetTreeDocResult(dom, n, d)))
  BY DEF SetTreeDoc
<1>4. SetTreeDocResult(dom, n, d) = r
  BY DEF SetTreeDocResult, Owning
<1> HIDE DEF T
<1>5. \A y \in Node : O[y] \in Docs \cup {Nil}
  BY <1>1 DEF HeapInv, Owned
<1>6. o \in Slot(Node) /\ \A y \in Node : o[y] \in Docs \cup {Nil}
  BY <1>5 DEF Slot, Docs
<1>7. Heap(Node, dom)
  BY <1>2, TreeNodes
<1> HIDE DEF o
<1>8. Heap(Node, r) /\ SameLinks(dom, r) /\ r.owner = o /\ r.escaped = dom.escaped
  BY <1>6, <1>7, OwnersAre
<1>9. dom' = r /\ err' = "nil" /\ UNCHANGED <<world, freed, recycled>>
  BY <1>3, <1>4 DEF Returns, Done
<1> HIDE DEF r
<1>10. Tree(r, Q)
  BY <1>2, <1>8, SameTree
<1>11. HeapInv(r)
  BY <1>1, <1>6, <1>8, <1>10 DEF HeapInv, Owned
<1>12. Orderly'
  BY <1>3, <1>9, <1>11, OrderlyLater DEF Errors
<1> QED BY <1>9, <1>12 DEF Refused

\* Free changes no node.
LEMMA FreeKeeps ==
  ASSUME Orderly, NEW d \in Docs, Free(d)
  PROVE  Orderly' /\ Refused
<1>1. /\ world' = world /\ dom' = dom /\ err' = "nil" /\ freed' = freed \cup {d}
      /\ recycled' = IF d \in dom.escaped THEN recycled ELSE recycled \cup {d}
  BY DEF Free
<1>2. Node' = Node /\ Kind' = Kind /\ Home' = Home /\ Reowns' = Reowns /\ Docs' = Docs
  BY <1>1 DEF Node, Kind, Home, Reowns, Docs
<1>3. HeapInv(dom)'
  BY <1>1, <1>2 DEF Orderly, HeapInv, Owned, Tree
<1>4. ~Reowns => /\ AtHome(dom)' /\ OneDocument(dom)'
                 /\ recycled' \cap dom'.escaped = {}
  BY <1>1, <1>2 DEF Orderly, AtHome, OneDocument, DestinationDocument
<1>5. err' \in Errors /\ freed' \subseteq Docs' /\ recycled' \subseteq freed' /\ world' \in Worlds
  BY <1>1, <1>2 DEF Orderly, Errors
<1>6. Orderly'
  BY <1>2, <1>3, <1>4, <1>5 DEF Orderly
<1> QED BY <1>1, <1>6 DEF Refused

-----------------------------------------------------------------------------
(***************************************************************************)
(* The first state: a document with a DTD and the entities it declares.    *)
(***************************************************************************)
\* The world's DTD, entities and references.
DTDFacts ==
  /\ Subset \in Node \cup {Nil}
  /\ Subset # Nil => Kind[Subset] = "DTD" /\ Home[Subset] \in Node /\ Kind[Home[Subset]] = "Document"
  /\ Declared # << >> => Distinct(Declared) /\ Subset # Nil
  /\ \A x \in Elems(Declared) : x \in Node /\ Kind[x] = "Entity" /\ Home[x] = Nil
  /\ \A x \in Node : Kind[x] = "EntityRef" => RefEntity[x] = Nil \/ RefEntity[x] \in Elems(Declared)

\* These, too, follow from the assumption.
LEMMA DTDIs ==
  ASSUME world \in Worlds
  PROVE  DTDFacts
<1>1. /\ Nil \notin world.node
      /\ \A n \in world.node : world.home[n] # Nil => world.kind[world.home[n]] = "Document"
      /\ world.home \in [world.node -> world.node \cup {Nil}]
      /\ world.declared \in Seq({n \in world.node : world.kind[n] = "Entity"})
      /\ \A i, j \in DOMAIN world.declared : world.declared[i] = world.declared[j] => i = j
      /\ \A i \in DOMAIN world.declared : world.home[world.declared[i]] = Nil
      /\ world.subset \in {n \in world.node : world.kind[n] = "DTD" /\ world.home[n] # Nil} \cup {Nil}
      /\ world.declared # << >> => world.subset # Nil
      /\ \A n \in world.node : world.kind[n] = "EntityRef" =>
           world.refEntity[n] = Nil \/ \E i \in DOMAIN world.declared : world.refEntity[n] = world.declared[i]
  BY DomAssumption
<1> DEFINE ds == world.declared
           E == {n \in world.node : world.kind[n] = "Entity"}
<1>2. ds \in Seq(E) /\ \A i, j \in DOMAIN ds : ds[i] = ds[j] => i = j
  BY <1>1
<1>3. \A i \in DOMAIN ds : ds[i] \in world.node /\ world.kind[ds[i]] = "Entity" /\ world.home[ds[i]] = Nil
  <2>1. \A i \in DOMAIN ds : ds[i] \in E
    <3> HIDE DEF E, ds
    <3> QED BY <1>2
  <2> QED BY <1>1, <2>1
<1>4. ds # << >> => Distinct(ds)
  <2> SUFFICES ASSUME ds # << >> PROVE Distinct(ds)
    OBVIOUS
  <2>1. Seq(E) \subseteq Seq(world.node)
    OBVIOUS
  <2>2. ds \in Seq(world.node)
    BY <1>2, <2>1
  <2> HIDE DEF ds, E
  <2>3. Len(ds) >= 1 /\ DOMAIN ds = 1 .. Len(ds)
    BY <2>2
  <2> QED BY <1>2, <2>2, <2>3 DEF Distinct, Node
<1>5. \A x \in Elems(ds) : x \in world.node /\ world.kind[x] = "Entity" /\ world.home[x] = Nil
  BY <1>3 DEF Elems
<1>6. world.subset # Nil => world.home[world.subset] \in world.node
  BY <1>1
<1> QED BY <1>1, <1>4, <1>5, <1>6 DEF DTDFacts, Node, Kind, Home, Declared, Subset, RefEntity, Elems

\* The pointers of the first heap.
Begun(h) ==
  /\ h.parent = [x \in Node |-> CASE x \in Elems(Declared) -> Subset
                                  [] x = Subset -> Home[Subset] [] OTHER -> Nil]
  /\ h.next = [x \in Node |-> IF x \in Elems(Declared) /\ x # Tail1(Declared)
                                THEN Declared[Position(x) + 1] ELSE Nil]
  /\ h.prev = [x \in Node |-> IF x \in Elems(Declared) /\ x # Declared[1]
                                THEN Declared[Position(x) - 1] ELSE Nil]
  /\ h.first = [x \in Node |-> CASE x = Subset /\ Declared # << >> -> Declared[1]
                                 [] x \in Docs /\ Subset # Nil /\ x = Home[Subset] -> Subset
                                 [] Kind[x] = "EntityRef" -> RefEntity[x] [] OTHER -> Nil]
  /\ h.last = [x \in Node |-> CASE x = Subset /\ Declared # << >> -> Tail1(Declared)
                                [] x \in Docs /\ Subset # Nil /\ x = Home[Subset] -> Subset
                                [] Kind[x] = "EntityRef" -> RefEntity[x] [] OTHER -> Nil]
  /\ h.props = [x \in Node |-> Nil]
  /\ h.owner = [x \in Node |-> CASE x \in Docs -> Nil
                                 [] x \in Elems(Declared) -> Home[Subset] [] OTHER -> Home[x]]
  /\ h.escaped = {}

\* The same, node by node: D are the declared entities, a and z the first and the last.
Started(h, D, a, z) ==
  /\ D \in SUBSET Node /\ (D # {} => Subset # Nil /\ a \in D /\ z \in D)
  /\ \A x \in D : Kind[x] = "Entity" /\ h.parent[x] = Subset /\ h.first[x] = Nil /\ h.last[x] = Nil
  /\ \A x \in D : (h.next[x] = Nil <=> x = z) /\ (h.prev[x] = Nil <=> x = a)
  /\ \A x \in D : h.next[x] \in D \cup {Nil} /\ h.prev[x] \in D \cup {Nil}
  /\ \A x, y \in D : h.next[x] = y <=> h.prev[y] = x
  /\ \A S \in SUBSET D : S # {} => (\E x \in S : h.next[x] \notin S) /\ (\E x \in S : h.prev[x] \notin S)
  /\ \A x \in Node \ D : h.next[x] = Nil /\ h.prev[x] = Nil
  /\ \A x \in Node : h.props[x] = Nil
  /\ \A x \in Node \ D : h.parent[x] = IF x = Subset THEN Home[Subset] ELSE Nil
  /\ \A x \in Node \ D : x = Subset => /\ D # {} => h.first[x] = a /\ h.last[x] = z
                                       /\ D = {} => h.first[x] = Nil /\ h.last[x] = Nil
  /\ \A x \in Node \ D : x # Subset /\ Kind[x] # "EntityRef" =>
       /\ h.first[x] = IF Subset # Nil /\ x = Home[Subset] THEN Subset ELSE Nil
       /\ h.last[x] = IF Subset # Nil /\ x = Home[Subset] THEN Subset ELSE Nil
  /\ \A x \in Node : Kind[x] = "EntityRef" => h.last[x] = h.first[x] /\ h.first[x] \in D \cup {Nil}

\* The first heap, node by node.
LEMMA StartedIs ==
  ASSUME WorldFacts, DTDFacts, NEW h, Begun(h)
  PROVE  Started(h, Elems(Declared), Declared[1], Tail1(Declared))
<1> DEFINE D == Elems(Declared)
           a == Declared[1]
           z == Tail1(Declared)
           nx == After(Declared)
           pv == Before(Declared)
<1>1. Nil \notin Node
  BY DEF WorldFacts, NodesOK
<1>2. /\ \A x \in D : x \in Node /\ Kind[x] = "Entity" /\ x # Subset /\ x \notin Docs
      /\ D # {} => Declared # << >> /\ Subset # Nil
      /\ Subset # Nil => Kind[Subset] = "DTD" /\ Home[Subset] \in Docs
  BY <1>1 DEF DTDFacts, Docs, Elems
<1>3. D # {} => Ordered(D, a, z, nx, pv)
  BY <1>1, <1>2, RowIsOrdered DEF DTDFacts
<1>4. Declared # << >> => D # {}
  <2>1. Declared # << >> => Declared[1] \in Elems(Declared)
    BY PlaceIs DEF DTDFacts
  <2> QED BY <2>1
<1>5. \A x \in D : /\ h.next[x] = IF x # z THEN Declared[Place(Declared, x) + 1] ELSE Nil
                   /\ h.prev[x] = IF x # a THEN Declared[Place(Declared, x) - 1] ELSE Nil
  BY <1>2 DEF Begun, Position, Place
<1>6. \A x \in D : h.next[x] = nx[x] /\ h.prev[x] = pv[x]
  BY <1>5 DEF After, Before
<1>7. /\ \A x \in Node \ D : h.next[x] = Nil /\ h.prev[x] = Nil
      /\ \A x \in Node : h.props[x] = Nil
      /\ \A x \in Node : h.parent[x] = IF x \in D THEN Subset ELSE IF x = Subset THEN Home[Subset] ELSE Nil
  BY <1>2 DEF Begun
<1> DEFINE F(x, y) == CASE x = Subset /\ Declared # << >> -> y
                        [] x \in Docs /\ Subset # Nil /\ x = Home[Subset] -> Subset
                        [] Kind[x] = "EntityRef" -> RefEntity[x] [] OTHER -> Nil
<1>8. \A x \in Node : h.first[x] = F(x, a) /\ h.last[x] = F(x, z)
  BY DEF Begun
<1> HIDE DEF D, a, z, nx, pv
<1>9. ASSUME NEW x \in Node, NEW y
      PROVE  /\ x \in D => F(x, y) = Nil
             /\ x = Subset => (D # {} => F(x, y) = y) /\ (D = {} => F(x, y) = Nil)
             /\ x \notin D /\ x # Subset /\ Kind[x] # "EntityRef"
                  => F(x, y) = IF Subset # Nil /\ x = Home[Subset] THEN Subset ELSE Nil
             /\ Kind[x] = "EntityRef" => F(x, y) = RefEntity[x]
  <2>1. Subset # Nil => Subset \notin Docs /\ Kind[Subset] # "EntityRef" /\ Kind[Home[Subset]] = "Document"
    BY <1>2 DEF Docs
  <2>2. x \in D => Kind[x] = "Entity" /\ x # Subset /\ x \notin Docs
    BY <1>2
  <2>3. x \in Docs <=> Kind[x] = "Document"
    BY DEF Docs
  <2>4. Declared # << >> <=> D # {}
    BY <1>2, <1>4 DEF D
  <2>5. x = Subset => Subset # Nil
    BY <1>1
  <2>6. CASE x \in D
    BY <2>2, <2>3, <2>6
  <2>7. CASE x = Subset
    BY <2>1, <2>2, <2>4, <2>5, <2>7
  <2>8. CASE x \notin D /\ x # Subset /\ Kind[x] # "EntityRef"
    BY <1>2, <2>3, <2>8
  <2>9. CASE Kind[x] = "EntityRef"
    BY <2>1, <2>2, <2>3, <2>5, <2>9
  <2> QED BY <2>6, <2>7, <2>8, <2>9
<1> HIDE DEF F
<1>10. \A x \in Node : Kind[x] = "EntityRef" => RefEntity[x] \in D \cup {Nil}
  BY DEF DTDFacts, D
<1>11. D # {} => /\ a \in D /\ z \in D
                 /\ \A x \in D : nx[x] \in D \cup {Nil} /\ pv[x] \in D \cup {Nil}
                 /\ \A x, y \in D : nx[x] = y <=> pv[y] = x
                 /\ \A x \in D : (nx[x] = Nil <=> x = z) /\ (pv[x] = Nil <=> x = a)
                 /\ \A S \in SUBSET D : S # {} => (\E x \in S : nx[x] \notin S) /\ (\E x \in S : pv[x] \notin S)
  BY <1>3 DEF Ordered
<1>12. Started(h, D, a, z)
  <2>1. D \in SUBSET Node /\ (D # {} => Subset # Nil /\ a \in D /\ z \in D)
    BY <1>2, <1>11
  <2>2. \A x \in D : Kind[x] = "Entity" /\ h.parent[x] = Subset /\ h.first[x] = Nil /\ h.last[x] = Nil
    BY <1>2, <1>7, <1>8, <1>9
  <2>3. \A x \in D : (h.next[x] = Nil <=> x = z) /\ (h.prev[x] = Nil <=> x = a)
    BY <1>6, <1>11
  <2>4. \A x \in D : h.next[x] \in D \cup {Nil} /\ h.prev[x] \in D \cup {Nil}
    BY <1>6, <1>11
  <2>5. \A x, y \in D : h.next[x] = y <=> h.prev[y] = x
    BY <1>6, <1>11
  <2>6. \A S \in SUBSET D : S # {} => (\E x \in S : h.next[x] \notin S) /\ (\E x \in S : h.prev[x] \notin S)
    <3> SUFFICES ASSUME NEW S \in SUBSET D, S # {}
                 PROVE  (\E x \in S : h.next[x] \notin S) /\ (\E x \in S : h.prev[x] \notin S)
      OBVIOUS
    <3>1. (\E x \in S : nx[x] \notin S) /\ (\E x \in S : pv[x] \notin S)
      BY <1>11
    <3> QED BY <1>6, <3>1
  <2>7. \A x \in Node \ D : h.parent[x] = IF x = Subset THEN Home[Subset] ELSE Nil
    BY <1>7
  <2>8. \A x \in Node \ D : x = Subset => /\ D # {} => h.first[x] = a /\ h.last[x] = z
                                          /\ D = {} => h.first[x] = Nil /\ h.last[x] = Nil
    BY <1>8, <1>9
  <2>9. \A x \in Node \ D : x # Subset /\ Kind[x] # "EntityRef" =>
          /\ h.first[x] = IF Subset # Nil /\ x = Home[Subset] THEN Subset ELSE Nil
          /\ h.last[x] = IF Subset # Nil /\ x = Home[Subset] THEN Subset ELSE Nil
    BY <1>8, <1>9
  <2>10. \A x \in Node : Kind[x] = "EntityRef" => h.last[x] = h.first[x] /\ h.first[x] \in D \cup {Nil}
    BY <1>8, <1>9, <1>10
  <2> QED BY <1>7, <2>1, <2>2, <2>3, <2>4, <2>5, <2>6, <2>7, <2>8, <2>9, <2>10 DEF Started
<1> QED BY <1>12 DEF D, a, z

\* The first heap is a tree, with no attribute in a list.
LEMMA StartedTree ==
  ASSUME WorldFacts, DTDFacts, NEW h, Heap(Node, h), NEW D, NEW a, NEW z, Started(h, D, a, z)
  PROVE  Tree(h, {})
<1>1. Nil \notin Node /\ NodesOK
  BY DEF WorldFacts, NodesOK
<1>2. Subset # Nil => /\ Subset \in Node /\ Kind[Subset] = "DTD" /\ Subset \notin D
                      /\ Home[Subset] \in Node /\ Kind[Home[Subset]] = "Document"
                      /\ Home[Subset] \notin D /\ Home[Subset] # Subset
  BY DEF DTDFacts, Started
<1>3. /\ \A x \in D : x \in Node /\ Kind[x] = "Entity" /\ h.parent[x] = Subset /\ h.first[x] = Nil /\ h.last[x] = Nil
      /\ D # {} => Subset # Nil /\ a \in D /\ z \in D
  BY DEF Started
<1>4. \A x \in Node : x \notin D => h.next[x] = Nil /\ h.prev[x] = Nil
  BY DEF Started
<1>5. \A x \in D : h.next[x] \in D \cup {Nil} /\ h.prev[x] \in D \cup {Nil}
  BY DEF Started
<1>6. \A x \in Node : x \notin D => h.parent[x] = IF x = Subset THEN Home[Subset] ELSE Nil
  BY DEF Started
<1>7. \A x \in Node : Kind[x] = "EntityRef" => h.last[x] = h.first[x] /\ h.first[x] \in D \cup {Nil}
  BY DEF Started
<1>8. Twins(Node, h)
  <2> SUFFICES ASSUME NEW x \in Node, NEW y \in Node
               PROVE  (h.next[x] = y <=> h.prev[y] = x) /\ (h.next[x] = y => h.parent[x] = h.parent[y])
    BY DEF Twins
  <2>1. CASE x \in D /\ y \in D
    BY <1>3, <2>1 DEF Started
  <2>2. CASE x \notin D
    BY <1>1, <1>4, <1>5, <2>2
  <2>3. CASE y \notin D
    BY <1>1, <1>4, <1>5, <2>3
  <2> QED BY <2>1, <2>2, <2>3
<1>9. Ending(Node, h.prev) /\ Ending(Node, h.next)
  <2> SUFFICES ASSUME NEW S \in SUBSET Node, S # {}
               PROVE  (\E x \in S : h.prev[x] \notin S) /\ (\E x \in S : h.next[x] \notin S)
    BY DEF Ending
  <2>1. CASE S \subseteq D
    <3>1. S \in SUBSET D
      BY <2>1
    <3> QED BY <3>1 DEF Started
  <2>2. CASE \E x \in S : x \notin D
    BY <1>1, <1>4, <2>2
  <2> QED BY <2>1, <2>2
<1>10. Attributes(Node, Kind, h, {})
  BY DEF Attributes
<1>11. Heads(Node, h, {})
  <2> SUFFICES ASSUME NEW x \in Node, h.parent[x] # Nil
               PROVE  /\ h.prev[x] = Nil => h.first[h.parent[x]] = x
                      /\ h.next[x] = Nil => h.last[h.parent[x]] = x
    BY DEF Heads
  <2>1. CASE x \in D
    <3>1. h.parent[x] = Subset /\ h.first[Subset] = a /\ h.last[Subset] = z
      BY <1>2, <1>3, <2>1 DEF Started
    <3>2. (h.next[x] = Nil <=> x = z) /\ (h.prev[x] = Nil <=> x = a)
      BY <2>1 DEF Started
    <3> QED BY <3>1, <3>2
  <2>2. CASE x \notin D
    <3>1. x = Subset /\ h.parent[x] = Home[Subset] /\ Subset # Nil
      BY <1>1, <1>6, <2>2
    <3>2. h.first[Home[Subset]] = Subset /\ h.last[Home[Subset]] = Subset
      BY <1>2, <3>1 DEF Started
    <3> QED BY <3>1, <3>2
  <2> QED BY <2>1, <2>2
<1>12. PropsHead(Node, h, {})
  BY DEF PropsHead, Started
<1>13. ChildEnds(Node, Kind, h, {})
  <2> SUFFICES ASSUME NEW p \in Node
               PROVE  (h.first[p] = Nil /\ h.last[p] = Nil) \/ Own(h, {}, p) \/ Foreign(Node, Kind, h, p)
    BY DEF ChildEnds
  <2>1. CASE p \in D
    BY <1>3, <2>1
  <2>2. CASE p = Subset /\ D = {}
    BY <1>1, <1>2, <2>2 DEF Started
  <2>3. CASE p = Subset /\ D # {}
    <3>1. h.first[p] = a /\ h.last[p] = z /\ a \in D /\ z \in D
      BY <1>2, <1>3, <2>3 DEF Started
    <3>2. h.prev[a] = Nil /\ h.next[z] = Nil
      BY <3>1 DEF Started
    <3> QED BY <1>1, <1>3, <2>3, <3>1, <3>2 DEF Own
  <2>4. CASE p \notin D /\ p # Subset /\ Kind[p] = "EntityRef"
    <3>1. \A x \in Node : h.parent[x] # p
      BY <1>1, <1>2, <1>3, <1>6, <2>4
    <3>2. h.last[p] # Nil => Kind[h.last[p]] = "Entity"
      BY <1>3, <1>7, <2>4
    <3>3. h.first[p] = h.last[p]
      BY <1>7, <2>4
    <3> QED BY <2>4, <3>1, <3>2, <3>3 DEF Foreign
  <2>5. CASE p \notin D /\ p # Subset /\ Kind[p] # "EntityRef"
    <3>1. /\ h.first[p] = IF Subset # Nil /\ p = Home[Subset] THEN Subset ELSE Nil
          /\ h.last[p] = IF Subset # Nil /\ p = Home[Subset] THEN Subset ELSE Nil
      BY <2>5 DEF Started
    <3>2. Subset # Nil => h.parent[Subset] = Home[Subset] /\ h.prev[Subset] = Nil /\ h.next[Subset] = Nil
      BY <1>2, <1>4, <1>6
    <3> QED BY <3>1, <3>2 DEF Own
  <2> QED BY <2>1, <2>2, <2>3, <2>4, <2>5
<1>14. Linked(Node, Kind, h, {})
  BY <1>8, <1>9, <1>10, <1>11, <1>12, <1>13 DEF Linked
<1>15. \A x \in Node : Kids(Node, h, {}, x) \subseteq
         IF x \in D THEN {} ELSE IF Kind[x] \in {"DTD", "EntityRef"} THEN D ELSE {Subset}
  <2> SUFFICES ASSUME NEW x \in Node, NEW c \in Node, h.parent[c] = x \/ c = h.first[x]
               PROVE  c \in IF x \in D THEN {} ELSE IF Kind[x] \in {"DTD", "EntityRef"} THEN D ELSE {Subset}
    BY DEF Kids
  <2>1. CASE h.parent[c] = x
    <3>1. CASE c \in D
      BY <1>1, <1>2, <1>3, <2>1, <3>1
    <3>2. CASE c \notin D
      <4>1. c = Subset /\ x = Home[Subset]
        BY <1>1, <1>6, <2>1, <3>2
      <4> QED BY <1>1, <1>2, <4>1
    <3> QED BY <3>1, <3>2
  <2>2. CASE c = h.first[x]
    <3>1. x \notin D
      BY <1>1, <1>3, <2>2
    <3>2. CASE x = Subset
      <4>1. D # {} /\ c = a
        BY <1>1, <2>2, <3>1, <3>2 DEF Started
      <4> QED BY <1>1, <1>2, <1>3, <3>1, <3>2, <4>1
    <3>3. CASE Kind[x] = "EntityRef"
      BY <1>1, <1>7, <2>2, <3>1, <3>3
    <3>4. CASE x # Subset /\ Kind[x] # "EntityRef"
      <4>1. c = Subset /\ x = Home[Subset] /\ Subset # Nil
        BY <1>1, <2>2, <3>1, <3>4 DEF Started
      <4> QED BY <1>2, <3>1, <4>1
    <3> QED BY <3>2, <3>3, <3>4
  <2> QED BY <2>1, <2>2
<1>16. Treelike(Node, h, {})
  <2> SUFFICES ASSUME NEW S \in SUBSET Node, S # {} PROVE \E x \in S : Kids(Node, h, {}, x) \cap S = {}
    BY DEF Treelike
  <2>1. CASE \E x \in S : x \in D
    BY <1>15, <2>1
  <2>2. CASE S \cap D = {} /\ \E x \in S : Kind[x] \in {"DTD", "EntityRef"}
    BY <1>15, <2>2
  <2>3. CASE S \cap D = {} /\ \A x \in S : Kind[x] \notin {"DTD", "EntityRef"}
    <3>1. Subset \notin S
      BY <1>1, <1>2, <2>3
    <3>2. PICK x \in S : TRUE
      OBVIOUS
    <3>3. Kids(Node, h, {}, x) \subseteq {Subset}
      BY <1>15, <2>3, <3>2
    <3> QED BY <3>1, <3>3
  <2> QED BY <2>1, <2>2, <2>3
<1>17. Roots(Node, Kind, h)
  <2> SUFFICES ASSUME NEW x \in Node, Kind[x] = "Document" PROVE h.parent[x] = Nil
    BY DEF Roots
  <2>1. x \notin D
    BY <1>3
  <2>2. x # Subset
    BY <1>1, <1>2
  <2> QED BY <1>6, <2>1, <2>2
<1> QED BY <1>14, <1>16, <1>17 DEF Tree

\* The first heap's fields are pointers to nodes.
LEMMA StartedSlots ==
  ASSUME WorldFacts, DTDFacts, NEW h, Begun(h), NEW D, NEW a, NEW z, Started(h, D, a, z)
  PROVE  /\ h.parent \in Slot(Node) /\ h.next \in Slot(Node) /\ h.prev \in Slot(Node)
         /\ h.first \in Slot(Node) /\ h.last \in Slot(Node) /\ h.props \in Slot(Node)
         /\ h.owner \in Slot(Node) /\ Owned(h) /\ AtHome(h) /\ OneDocument(h)
<1>1. Nil \notin Node /\ D \in SUBSET Node
  BY DEF WorldFacts, NodesOK, Started
<1>2. /\ Subset \in Node \cup {Nil}
      /\ Subset # Nil => Home[Subset] \in Docs /\ Subset \notin Docs
  BY DEF DTDFacts, Docs
<1>3. \A x \in Elems(Declared) : x \in Node /\ x \notin Docs /\ Home[x] = Nil /\ Subset # Nil /\ x # Subset
  BY <1>1 DEF DTDFacts, Docs, Elems
<1> DEFINE E == Elems(Declared)
<1>4. \A x \in Node : h.parent[x] = IF x \in E THEN Subset
                                    ELSE IF x = Subset THEN Home[Subset] ELSE Nil
  <2>1. h.parent = [x \in Node |-> CASE x \in E -> Subset [] x = Subset -> Home[Subset] [] OTHER -> Nil]
    BY DEF Begun
  <2>2. \A x \in E : x # Subset
    BY <1>3
  <2> HIDE DEF E
  <2> QED BY <2>1, <2>2
<1>5. \A x \in Node : h.owner[x] = IF x \in Docs THEN Nil
                                   ELSE IF x \in E THEN Home[Subset] ELSE Home[x]
  <2>1. h.owner = [x \in Node |-> CASE x \in Docs -> Nil [] x \in E -> Home[Subset] [] OTHER -> Home[x]]
    BY DEF Begun
  <2>2. \A x \in E : x \notin Docs
    BY <1>3
  <2> HIDE DEF E
  <2> QED BY <2>1, <2>2
<1>6. \A x \in Node : Home[x] \in Docs \cup {Nil}
  BY DEF WorldFacts, Docs
<1>7. Docs \subseteq Node
  BY DEF Docs
<1>8. Owned(h)
  BY <1>2, <1>3, <1>5, <1>6 DEF Owned
<1>9. AtHome(h)
  BY <1>3, <1>5 DEF AtHome, Docs
<1>10. OneDocument(h)
  <2> SUFFICES ASSUME NEW x \in Node, h.parent[x] # Nil, DestinationDocument(h, x) # Nil
               PROVE  DestinationDocument(h, h.parent[x]) = DestinationDocument(h, x)
    BY DEF OneDocument
  <2>1. Subset # Nil => DestinationDocument(h, Subset) = Home[Subset] /\ DestinationDocument(h, Home[Subset]) = Home[Subset]
    BY <1>1, <1>2, <1>3, <1>5 DEF DestinationDocument, Docs
  <2>2. CASE x \in Elems(Declared)
    <3>1. h.parent[x] = Subset /\ DestinationDocument(h, x) = Home[Subset] /\ Subset # Nil
      BY <1>3, <1>4, <1>5, <2>2 DEF DestinationDocument, Docs
    <3> QED BY <2>1, <3>1
  <2>3. CASE x \notin Elems(Declared)
    <3>1. x = Subset /\ h.parent[x] = Home[Subset] /\ Subset # Nil
      BY <1>1, <1>4, <2>3
    <3> QED BY <2>1, <3>1
  <2> QED BY <2>2, <2>3
<1>11. /\ \A x \in Node : h.next[x] \in Node \cup {Nil} /\ h.prev[x] \in Node \cup {Nil}
       /\ \A x \in Node : h.parent[x] \in Node \cup {Nil} /\ h.owner[x] \in Node \cup {Nil}
  <2>1. \A x \in D : h.next[x] \in D \cup {Nil} /\ h.prev[x] \in D \cup {Nil}
    BY DEF Started
  <2>2. \A x \in Node \ D : h.next[x] = Nil /\ h.prev[x] = Nil
    BY DEF Started
  <2> QED BY <1>1, <1>2, <1>4, <1>7, <1>8, <2>1, <2>2 DEF Owned
<1>12. \A x \in Node : h.first[x] \in Node \cup {Nil} /\ h.last[x] \in Node \cup {Nil}
  <2> SUFFICES ASSUME NEW x \in Node PROVE h.first[x] \in Node \cup {Nil} /\ h.last[x] \in Node \cup {Nil}
    OBVIOUS
  <2>1. CASE x \in D
    BY <1>1, <2>1 DEF Started
  <2>2. CASE x \notin D /\ x = Subset
    BY <1>1, <2>2 DEF Started
  <2>3. CASE x \notin D /\ x # Subset /\ Kind[x] # "EntityRef"
    BY <1>1, <1>2, <2>3 DEF Started
  <2>4. CASE Kind[x] = "EntityRef"
    BY <1>1, <2>4 DEF Started
  <2> QED BY <2>1, <2>2, <2>3, <2>4
<1>13. /\ h.parent = [x \in Node |-> h.parent[x]] /\ h.next = [x \in Node |-> h.next[x]]
       /\ h.prev = [x \in Node |-> h.prev[x]] /\ h.first = [x \in Node |-> h.first[x]]
       /\ h.last = [x \in Node |-> h.last[x]] /\ h.owner = [x \in Node |-> h.owner[x]]
       /\ h.props = [x \in Node |-> Nil]
  BY DEF Begun
<1> QED BY <1>8, <1>9, <1>10, <1>11, <1>12, <1>13 DEF Slot

\* The specification starts in the invariant.
LEMMA InitOrderly ==
  ASSUME Init
  PROVE  Orderly
<1> DEFINE text == [x \in Node |-> IF x \in CharData THEN <<x>> ELSE << >>]
           D == Elems(Declared)
           a == Declared[1]
           z == Tail1(Declared)
<1>1. world \in Worlds /\ err = "nil" /\ freed = {} /\ recycled = {}
  BY DEF Init
<1>2. WorldFacts /\ DTDFacts
  BY <1>1, WorldIs, DTDIs
<1>3. Begun(dom)
  BY DEF Init, Begun
<1>4. /\ dom.content = text
      /\ dom = [parent |-> dom.parent, next |-> dom.next, prev |-> dom.prev,
                first |-> dom.first, last |-> dom.last, props |-> dom.props,
                owner |-> dom.owner, content |-> dom.content, escaped |-> dom.escaped]
  BY DEF Init
<1>5. text \in [Node -> Seq(Node)]
  OBVIOUS
<1>6. Started(dom, D, a, z)
  BY <1>2, <1>3, StartedIs
<1> HIDE DEF D, a, z, text
<1>7. /\ dom.parent \in Slot(Node) /\ dom.next \in Slot(Node) /\ dom.prev \in Slot(Node)
      /\ dom.first \in Slot(Node) /\ dom.last \in Slot(Node) /\ dom.props \in Slot(Node)
      /\ dom.owner \in Slot(Node) /\ Owned(dom) /\ AtHome(dom) /\ OneDocument(dom)
  BY <1>2, <1>3, <1>6, StartedSlots
<1>8. dom.escaped = {}
  BY <1>3 DEF Begun
<1>9. Heap(Node, dom)
  BY <1>4, <1>5, <1>7, <1>8 DEF Heap
<1>10. Tree(dom, {})
  BY <1>2, <1>6, <1>9, StartedTree
<1>11. HeapInv(dom)
  BY <1>7, <1>8, <1>10 DEF HeapInv
<1> QED BY <1>1, <1>7, <1>8, <1>11 DEF Orderly, Errors

\* Every step keeps the invariant, and a refused one changes no more than the marks.
LEMMA NextOrderly ==
  ASSUME Orderly, astray' => err' # "nil", [Next]_vars
  PROVE  Orderly' /\ [Refused \/ Dropped]_vars
<1>1. ASSUME NEW n \in Node, NEW cur \in Operand, AddChild(n, cur) PROVE Orderly' /\ (Refused \/ Dropped)
  BY <1>1, AddChildKeeps
<1>2. ASSUME NEW n \in Node, NEW cur \in Operand, AddSibling(n, cur) PROVE Orderly' /\ (Refused \/ Dropped)
  BY <1>2, AddSiblingKeeps
<1>3. ASSUME NEW n \in Node, NEW ns \in UNION {[1 .. k -> Operand] : k \in 0 .. MaxReplace},
             Replace(n, ns)
      PROVE  Orderly' /\ (Refused \/ Dropped)
  <2>1. PICK k \in Nat : ns \in [1 .. k -> Operand]
    OBVIOUS
  <2> QED BY <1>3, <2>1, ReplaceKeeps
<1>4. ASSUME NEW n \in Operand, UnlinkNode(n) PROVE Orderly' /\ (Refused \/ Dropped)
  BY <1>4, UnlinkNodeKeeps
<1>5. ASSUME NEW e \in Node, NEW a \in Attrs, SetAttribute(e, a) PROVE Orderly' /\ (Refused \/ Dropped)
  BY <1>5, SetAttributeKeeps
<1>6. ASSUME NEW e \in Node, NEW a \in Attrs, RemoveAttribute(e, a) PROVE Orderly' /\ (Refused \/ Dropped)
  BY <1>6, RemoveAttributeKeeps
<1>7. ASSUME NEW n \in Node, NEW x \in Operand, AppendText(n, x) PROVE Orderly' /\ (Refused \/ Dropped)
  BY <1>7, AppendTextKeeps
<1>8. ASSUME NEW d \in Docs, NEW root \in Operand, SetDocumentElement(d, root) PROVE Orderly' /\ (Refused \/ Dropped)
  BY <1>8, SetDocumentElementKeeps
<1>9. ASSUME NEW n \in Operand, NEW d \in Docs, SetTreeDoc(n, d) PROVE Orderly' /\ (Refused \/ Dropped)
  BY <1>9, SetTreeDocKeeps
<1>10. ASSUME NEW d \in Docs, Free(d) PROVE Orderly' /\ (Refused \/ Dropped)
  BY <1>10, FreeKeeps
<1>11. ASSUME UNCHANGED vars PROVE Orderly'
  <2>1. world' = world /\ dom' = dom /\ err' = err /\ freed' = freed /\ recycled' = recycled
    BY <1>11 DEF vars
  <2>2. HeapInv(dom) /\ err' \in Errors /\ (~Reowns => AtHome(dom) /\ OneDocument(dom) /\ recycled \cap dom.escaped = {})
    BY <2>1 DEF Orderly
  <2> QED BY <2>1, <2>2, OrderlyLater
<1>12. Next => Orderly' /\ (Refused \/ Dropped)
  BY <1>1, <1>2, <1>3, <1>4, <1>5, <1>6, <1>7, <1>8, <1>9, <1>10 DEF Next
<1> QED BY <1>11, <1>12


\* A tree that went astray stays so.
LEMMA NextInv ==
  ASSUME Inv, [Next]_vars
  PROVE  Inv'
<1>1. astray' \in BOOLEAN /\ (astray => astray')
  <2>1. ASSUME NEW n \in Node, NEW x \in Operand, StraysIfTaken(n, x)
        PROVE  astray' \in BOOLEAN /\ (astray => astray')
    BY <2>1 DEF StraysIfTaken, Inv
  <2>2. ASSUME Next PROVE UNCHANGED astray \/ \E n \in Node, x \in Operand : StraysIfTaken(n, x)
    <3>1. \A n \in Node, x \in Operand : AddChild(n, x) \/ AppendText(n, x) => StraysIfTaken(n, x)
      BY DEF AddChild, AppendText
    <3>2. /\ \A n, x : AddSibling(n, x) => UNCHANGED astray
          /\ \A n, ns : Replace(n, ns) => UNCHANGED astray
          /\ \A n : UnlinkNode(n) => UNCHANGED astray
      BY DEF AddSibling, Replace, UnlinkNode
    <3>3. /\ \A e, a : SetAttribute(e, a) \/ RemoveAttribute(e, a) => UNCHANGED astray
          /\ \A d, x : SetDocumentElement(d, x) => UNCHANGED astray
      BY DEF SetAttribute, RemoveAttribute, SetDocumentElement
    <3>4. (\A n, d : SetTreeDoc(n, d) => UNCHANGED astray) /\ \A d : Free(d) => UNCHANGED astray
      BY DEF SetTreeDoc, Free
    <3> QED BY <2>2, <3>1, <3>2, <3>3, <3>4 DEF Next
  <2> QED BY <2>1, <2>2 DEF Inv, vars
<1>2. CASE ~astray'
  <2>1. Orderly'
    BY <1>1, <1>2, NextOrderly DEF Inv
  <2> QED BY <1>1, <2>1 DEF Inv
<1>3. CASE astray'
  BY <1>1, <1>3 DEF Inv
<1> QED BY <1>2, <1>3

\* Inv: until a call adds a node to a reference behind the Entity it shows, the heap of
\* linked nodes is a forest of rows, whatever was called, owners are documents, and a
\* document that gave up no node is in one piece.
THEOREM Invariance == Spec => []Inv
<1>1. Init => Inv
  BY InitOrderly DEF Init, Inv
<1>2. Inv /\ [Next]_vars => Inv'
  BY NextInv
<1> QED BY <1>1, <1>2, PTL DEF Spec

\* TypeOK, until the tree goes astray: the pointers lead to nodes, owners and escaped
\* documents are documents, and only freed documents have their slabs recycled.
THEOREM TypeCorrect == Spec => [](~astray => TypeOK)
<1>1. Inv => (~astray => TypeOK)
  <2> SUFFICES ASSUME Inv, ~astray PROVE TypeOK
    OBVIOUS
  <2> Orderly
    BY DEF Inv
  <2>1. PICK Q \in SUBSET Node : Tree(dom, Q)
    BY OrderlyTree
  <2>2. Heap(Node, dom)
    BY <2>1, TreeNodes
  <2>3. /\ dom.parent \in [Node -> Ptr] /\ dom.next \in [Node -> Ptr] /\ dom.prev \in [Node -> Ptr]
        /\ dom.first \in [Node -> Ptr] /\ dom.last \in [Node -> Ptr]
        /\ dom.props \in [Node -> Ptr] /\ dom.owner \in [Node -> Ptr]
    BY <2>2, HeapFields DEF Slot, Ptr
  <2>4. \A f \in {"parent", "next", "prev", "first", "last", "props", "owner"} :
          dom[f] \in [Node -> Ptr]
    BY <2>3
  <2> QED BY <2>4 DEF Inv, Orderly, HeapInv, Errors, TypeOK
<1> QED BY <1>1, Invariance, PTL

\* WellLinked, "keep the reciprocal back-pointers consistent" (node.go): next and prev are
\* inverse, every child is in its parent's list, and the parent points at the ends of its
\* lists, until EntityRef.AddChild or AppendText links a node behind the DTD's Entity.
THEOREM LinksAreConsistent == Spec => []WellLinked
<1>1. Inv => WellLinked
  <2> SUFFICES ASSUME Inv, ~astray PROVE WellLinked
    BY DEF WellLinked
  <2> Orderly
    BY DEF Inv
  <2>1. NodesOK /\ Nil \notin Node
    BY OrderlyTree DEF NodesOK
  <2>2. PICK Q \in SUBSET Node : Tree(dom, Q)
    BY OrderlyTree
  <2>3. /\ Linked(Node, Kind, dom, Q) /\ Heap(Node, dom) /\ Twins(Node, dom)
        /\ Attributes(Node, Kind, dom, Q) /\ Heads(Node, dom, Q)
        /\ PropsHead(Node, dom, Q) /\ ChildEnds(Node, Kind, dom, Q)
    BY <2>2 DEF Tree, Linked
  <2>4. /\ dom.parent \in Slot(Node) /\ dom.first \in Slot(Node) /\ dom.last \in Slot(Node)
    BY <2>3, HeapFields
  <2>5. \A x, y \in Node : /\ dom.next[x] = y <=> dom.prev[y] = x
                           /\ dom.next[x] = y => dom.parent[x] = dom.parent[y]
    BY <2>3 DEF Twins
  <2>6. ASSUME NEW x \in Node, dom.parent[x] # Nil
        PROVE  IF IsProperty(dom, x)
                 THEN x \notin Elems(Walk(dom.next, dom.first[dom.parent[x]]))
                 ELSE /\ x \in Elems(Walk(dom.next, dom.first[dom.parent[x]]))
                      /\ dom.next[x] = Nil => dom.last[dom.parent[x]] = x
    <3>1. dom.parent[x] \in Node
      BY <2>4, <2>6 DEF Slot
    <3>2. IsProperty(dom, x) <=> x \in Q
      BY <2>1, <2>3, PropertyIs
    <3>3. /\ x \notin Q => x \in Elems(Walk(dom.next, dom.first[dom.parent[x]]))
          /\ x \in Q => x \notin Elems(Walk(dom.next, dom.first[dom.parent[x]]))
      BY <2>1, <2>3, <3>1, ChildrenAre
    <3>4. dom.next[x] = Nil /\ x \notin Q => dom.last[dom.parent[x]] = x
      BY <2>3, <2>6 DEF Heads
    <3> QED BY <3>2, <3>3, <3>4
  <2>7. ASSUME NEW p \in Node
        PROVE  /\ dom.first[p] = Nil <=> dom.last[p] = Nil
               /\ dom.first[p] # Nil /\ ~HoldsEntity(p) =>
                    /\ dom.parent[dom.first[p]] = p /\ dom.prev[dom.first[p]] = Nil
                    /\ dom.parent[dom.last[p]] = p /\ dom.next[dom.last[p]] = Nil
               /\ dom.props[p] # Nil =>
                    dom.parent[dom.props[p]] = p /\ dom.prev[dom.props[p]] = Nil
    <3>1. (dom.first[p] = Nil /\ dom.last[p] = Nil) \/ Own(dom, Q, p) \/ Foreign(Node, Kind, dom, p)
      BY <2>3 DEF ChildEnds
    <3>2. dom.first[p] # Nil => dom.first[p] \in Node
      BY <2>4 DEF Slot
    <3>3. Foreign(Node, Kind, dom, p) => HoldsEntity(p) /\ dom.first[p] # Nil /\ dom.last[p] # Nil
      BY <3>2 DEF Foreign, HoldsEntity
    <3>4. dom.props[p] # Nil => dom.parent[dom.props[p]] = p /\ dom.prev[dom.props[p]] = Nil
      BY <2>3 DEF PropsHead
    <3> QED BY <3>1, <3>3, <3>4 DEF Own
  <2> QED BY <2>5, <2>6, <2>7 DEF WellLinked
<1> QED BY <1>1, Invariance, PTL

\* Acyclic, "reject cycles" (node.go): no edit makes a node an ancestor of itself, the
\* entities that references share included, but for the one that leads astray.
THEOREM TreesStayAcyclic == Spec => []Acyclic
<1>1. Inv => Acyclic
  <2> SUFFICES ASSUME Inv, ~astray, NEW x \in Node, NEW c \in OwnChildren(dom, x)
               PROVE  x \notin Reached(dom, c)
    BY DEF Acyclic
  <2> Orderly
    BY DEF Inv
  <2>1. NodesOK
    BY OrderlyTree
  <2>2. PICK Q \in SUBSET Node : Tree(dom, Q)
    BY OrderlyTree
  <2>3. Linked(Node, Kind, dom, Q) /\ Treelike(Node, dom, Q)
    BY <2>2 DEF Tree
  <2>4. c \in Kids(Node, dom, Q, x)
    BY <2>1, <2>3, OwnChildrenAre
  <2> QED BY <2>1, <2>3, <2>4, TreelikeIsAcyclic
<1> QED BY <1>1, Invariance, PTL

\* RejectedUntouched: a call that returns an error "leaves the tree untouched" (node.go), but
\* one that adds to a reference which shows an Entity may have taken its operand out of its place.
THEOREM ErrorsLeaveTheTree == Spec => RejectedUntouched
<1>1. Inv /\ [Next]_vars => [~astray /\ err' # "nil" => Refused \/ Dropped]_vars
  BY NextOrderly DEF Inv
<1> QED BY <1>1, Invariance, PTL DEF Spec, RejectedUntouched, Refused, Dropped

\* SlabSafe, of a client that does not call SetTreeDoc, until the tree goes astray: Free
\* recycles no chunk that holds a node of a tree still in use, since the document of such a
\* node escaped (document.go).
THEOREM RecycledSlabsAreUnused == Spec => [](~Reowns /\ ~astray => SlabSafe)
<1>1. Inv => (~Reowns /\ ~astray => SlabSafe)
  <2> SUFFICES ASSUME Inv, ~Reowns, ~astray, NEW x \in Node, InUse(x), Home[x] \in recycled
               PROVE  FALSE
    BY DEF SlabSafe
  <2> Orderly
    BY DEF Inv
  <2>1. /\ WorldFacts /\ HeapInv(dom) /\ AtHome(dom) /\ OneDocument(dom)
        /\ recycled \cap dom.escaped = {} /\ recycled \subseteq freed /\ freed \subseteq Docs
    BY OrderlyTree DEF Orderly
  <2>2. Home[x] # Nil
    BY <2>1 DEF WorldFacts, NodesOK, Docs
  <2>3. DestinationDocument(dom, x) = Home[x]
    BY <2>1, <2>2 DEF AtHome, DestinationDocument, WorldFacts
  <2>4. DestinationDocument(dom, x) \notin freed
    BY <2>1, <2>2, <2>3, UsedIs
  <2> QED BY <2>1, <2>3, <2>4
<1> QED BY <1>1, Invariance, PTL
=============================================================================
