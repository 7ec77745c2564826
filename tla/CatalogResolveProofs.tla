------------------------ MODULE CatalogResolveProofs ------------------------
(***************************************************************************)
(* Theorems about CatalogResolve for all catalogs, entries, requests and   *)
(* limits: the loads of a resolution are bounded, delegates come most      *)
(* specific first, and the cache of visited catalogs changes no answer.    *)
(***************************************************************************)
EXTENDS CatalogResolve, FiniteSetTheorems, SequenceTheorems, TLAPS

-----------------------------------------------------------------------------
(***************************************************************************)
(* Ranks in a finite set that the relation R orders strictly and totally:  *)
(* the selections of the model pick the element with a given rank.         *)
(***************************************************************************)
StrictOrder(I, R) ==
  /\ \A i \in I : <<i, i>> \notin R
  /\ \A i, j, k \in I : <<i, j>> \in R /\ <<j, k>> \in R => <<i, k>> \in R
  /\ \A i, j \in I : i = j \/ <<i, j>> \in R \/ <<j, i>> \in R

Smaller(I, R, i) == {j \in I : <<j, i>> \in R}
Rank(I, R, i) == Cardinality(Smaller(I, R, i))

(* A rank is less than the size of the set and grows along the order.       *)
LEMMA RankBounds ==
  ASSUME NEW I, IsFiniteSet(I), NEW R, StrictOrder(I, R)
  PROVE  /\ Cardinality(I) \in Nat
         /\ \A i \in I : Rank(I, R, i) \in 0 .. Cardinality(I) - 1
         /\ \A i, j \in I : <<i, j>> \in R <=> Rank(I, R, i) < Rank(I, R, j)
<1>1. \A T \in SUBSET I : IsFiniteSet(T) /\ Cardinality(T) \in Nat
  BY FS_Subset, FS_CardinalityType
<1>2. \A i, j \in I : <<i, j>> \in R => Rank(I, R, i) < Rank(I, R, j)
  <2>1. SUFFICES ASSUME NEW i \in I, NEW j \in I, <<i, j>> \in R
                 PROVE  Rank(I, R, i) < Rank(I, R, j)
    OBVIOUS
  <2>2. /\ Smaller(I, R, i) \in SUBSET I /\ Smaller(I, R, j) \in SUBSET I
        /\ Smaller(I, R, i) \subseteq Smaller(I, R, j)
        /\ i \in Smaller(I, R, j) /\ i \notin Smaller(I, R, i)
    BY <2>1 DEF Smaller, StrictOrder
  <2>3. /\ IsFiniteSet(Smaller(I, R, j))
        /\ Rank(I, R, i) \in Nat /\ Rank(I, R, j) \in Nat
    BY <1>1, <2>2 DEF Rank
  <2>4. /\ Cardinality(Smaller(I, R, i)) <= Cardinality(Smaller(I, R, j))
        /\ Cardinality(Smaller(I, R, i)) # Cardinality(Smaller(I, R, j))
    BY <2>2, <2>3, FS_Subset
  <2>5. QED
    BY <2>3, <2>4 DEF Rank
<1>3. \A i \in I : Rank(I, R, i) \in 0 .. Cardinality(I) - 1
  <2>1. SUFFICES ASSUME NEW i \in I PROVE Rank(I, R, i) \in 0 .. Cardinality(I) - 1
    OBVIOUS
  <2>2. Smaller(I, R, i) \in SUBSET I /\ i \notin Smaller(I, R, i)
    BY DEF Smaller, StrictOrder
  <2>3. /\ Cardinality(Smaller(I, R, i)) <= Cardinality(I)
        /\ Cardinality(I) # Cardinality(Smaller(I, R, i))
    BY <2>2, FS_Subset
  <2>4. Cardinality(Smaller(I, R, i)) \in Nat /\ Cardinality(I) \in Nat
    BY <1>1, <2>2
  <2>5. QED
    BY <2>3, <2>4 DEF Rank
<1>4. \A i, j \in I : Rank(I, R, i) < Rank(I, R, j) => <<i, j>> \in R
  <2>1. SUFFICES ASSUME NEW i \in I, NEW j \in I, Rank(I, R, i) < Rank(I, R, j)
                 PROVE  <<i, j>> \in R
    OBVIOUS
  <2>2. Rank(I, R, i) \in Int /\ Rank(I, R, j) \in Int /\ Cardinality(I) \in Nat
    BY <1>1, <1>3
  <2>3. i # j /\ <<j, i>> \notin R
    BY <1>2, <2>1, <2>2
  <2>4. QED
    BY <2>3 DEF StrictOrder
<1>5. QED
  BY <1>1, <1>2, <1>3, <1>4

(* Every rank below the size of the set is taken, by one element.           *)
LEMMA RankTaken ==
  ASSUME NEW I, IsFiniteSet(I), NEW R, StrictOrder(I, R)
  PROVE  \A k \in 1 .. Cardinality(I) : \E i \in I : Rank(I, R, i) = k - 1
<1> DEFINE n == Cardinality(I)
           f == [i \in I |-> Rank(I, R, i)]
<1>1. /\ n \in Nat
      /\ \A i \in I : Rank(I, R, i) \in 0 .. n - 1
      /\ \A i, j \in I : <<i, j>> \in R => Rank(I, R, i) < Rank(I, R, j)
  BY RankBounds
<1>2. f \in [I -> 0 .. n - 1]
  BY <1>1
<1>3. \A i, j \in I : f[i] = f[j] => i = j
  <2>1. SUFFICES ASSUME NEW i \in I, NEW j \in I, f[i] = f[j], i # j PROVE FALSE
    OBVIOUS
  <2>2. Rank(I, R, i) = Rank(I, R, j) /\ Rank(I, R, i) \in Int
    BY <1>1, <2>1
  <2>3. <<i, j>> \in R \/ <<j, i>> \in R
    BY <2>1 DEF StrictOrder
  <2>4. QED
    BY <1>1, <2>2, <2>3
<1>4. IsFiniteSet(0 .. n - 1) /\ Cardinality(0 .. n - 1) = n
  <2>1. 0 \in Int /\ n - 1 \in Int
    BY <1>1
  <2>2. IsFiniteSet(0 .. n - 1) /\ Cardinality(0 .. n - 1) = IF 0 > n - 1 THEN 0 ELSE (n - 1) - 0 + 1
    BY <2>1, FS_Interval
  <2>3. QED
    BY <1>1, <2>2
<1> HIDE DEF f
<1>5. f \in Injection(I, 0 .. n - 1)
  BY <1>2, <1>3 DEF Injection, IsInjective
<1>6. f \in Surjection(I, 0 .. n - 1)
  BY <1>4, <1>5, FS_Injection
<1>7. \A m \in 0 .. n - 1 : \E i \in I : f[i] = m
  BY <1>6 DEF Surjection
<1>8. \A k \in 1 .. n : k - 1 \in 0 .. n - 1
  BY <1>1
<1>9. QED
  BY <1>7, <1>8 DEF f

-----------------------------------------------------------------------------
(* The positions of a sequence, in document order.                          *)
LEMMA SelectElements ==
  ASSUME NEW S, NEW s \in Seq(S), NEW I \in SUBSET DOMAIN s
  PROVE  /\ Select(s, I) \in Seq(S)
         /\ \A k \in DOMAIN Select(s, I) : \E i \in I : Select(s, I)[k] = s[i]
<1> DEFINE R == {p \in I \X I : p[1] < p[2]}
           at(k) == CHOOSE i \in I : Cardinality({j \in I : j < i}) = k - 1
<1>1. I \in SUBSET (1 .. Len(s)) /\ Len(s) \in Nat
  BY LenProperties
<1>2. IsFiniteSet(I) /\ Cardinality(I) \in Nat
  <2>1. IsFiniteSet(1 .. Len(s))
    BY <1>1, FS_Interval
  <2>2. IsFiniteSet(I)
    BY <1>1, <2>1, FS_Subset
  <2>3. QED
    BY <2>2, FS_CardinalityType
<1>3. StrictOrder(I, R)
  BY <1>1 DEF StrictOrder
<1>4. \A i \in I : Rank(I, R, i) = Cardinality({j \in I : j < i})
  <2>1. \A i \in I : Smaller(I, R, i) = {j \in I : j < i}
    BY DEF Smaller
  <2>2. QED
    BY <2>1 DEF Rank
<1>5. \A k \in 1 .. Cardinality(I) : at(k) \in I
  <2>1. SUFFICES ASSUME NEW k \in 1 .. Cardinality(I) PROVE at(k) \in I
    OBVIOUS
  <2>2. \E i \in I : Cardinality({j \in I : j < i}) = k - 1
    BY <1>2, <1>3, <1>4, RankTaken
  <2>3. QED
    BY <2>2
<1>6. Select(s, I) = [k \in 1 .. Cardinality(I) |-> s[at(k)]]
  BY DEF Select
<1> HIDE DEF at
<1>7. \A i \in I : s[i] \in S
  BY <1>1, ElementOfSeq
<1>8. Select(s, I) \in [1 .. Cardinality(I) -> S]
  BY <1>5, <1>6, <1>7
<1>9. Select(s, I) \in Seq(S)
  BY <1>2, <1>8, SeqDef
<1>10. \A k \in DOMAIN Select(s, I) : at(k) \in I /\ Select(s, I)[k] = s[at(k)]
  BY <1>5, <1>6
<1>11. QED
  BY <1>9, <1>10

(* Positions in the order in which delegates and rewrites are preferred.    *)
Preferred(es, I) == {p \in I \X I : Before(es, p[1], p[2])}

(* That order is total on the positions of any list of entries.             *)
LEMMA PreferredOrder ==
  ASSUME NEW es \in Seq(CatalogEntry), NEW I \in SUBSET DOMAIN es
  PROVE  /\ IsFiniteSet(I) /\ Cardinality(I) \in Nat
         /\ StrictOrder(I, Preferred(es, I))
         /\ \A i \in I : Rank(I, Preferred(es, I), i)
                            = Cardinality({j \in I : Before(es, j, i)})
<1>1. I \in SUBSET (1 .. Len(es)) /\ Len(es) \in Nat
  BY LenProperties
<1>2. IsFiniteSet(I) /\ Cardinality(I) \in Nat
  <2>1. IsFiniteSet(1 .. Len(es))
    BY <1>1, FS_Interval
  <2>2. IsFiniteSet(I)
    BY <1>1, <2>1, FS_Subset
  <2>3. QED
    BY <2>2, FS_CardinalityType
<1>3. \A i \in I : i \in Nat /\ Len(es[i].name) \in Nat
  <2>1. \A i \in I : es[i] \in CatalogEntry
    BY <1>1, ElementOfSeq
  <2>2. \A i \in I : es[i].name \in Seq(Token)
    BY <2>1 DEF CatalogEntry
  <2>3. QED
    BY <1>1, <2>2, LenProperties
<1>4. StrictOrder(I, Preferred(es, I))
  <2>1. \A i, j \in I : <<i, j>> \in Preferred(es, I) <=> Before(es, i, j)
    BY DEF Preferred
  <2>2. \A i \in I : ~ Before(es, i, i)
    BY <1>3 DEF Before
  <2>3. \A i, j, k \in I : Before(es, i, j) /\ Before(es, j, k) => Before(es, i, k)
    BY <1>3 DEF Before
  <2>4. \A i, j \in I : i = j \/ Before(es, i, j) \/ Before(es, j, i)
    BY <1>3 DEF Before
  <2>5. QED
    BY <2>1, <2>2, <2>3, <2>4 DEF StrictOrder
<1>5. \A i \in I : Smaller(I, Preferred(es, I), i) = {j \in I : Before(es, j, i)}
  BY DEF Smaller, Preferred
<1>6. QED
  BY <1>2, <1>4, <1>5 DEF Rank

(* Among some entries, one is preferred to all the others.                  *)
LEMMA PreferredFirst ==
  ASSUME NEW es \in Seq(CatalogEntry), NEW I \in SUBSET DOMAIN es, I # {}
  PROVE  \E i \in I : \A j \in I \ {i} : Before(es, i, j) /\ ~ Before(es, j, i)
<1> DEFINE R == Preferred(es, I)
<1>1. IsFiniteSet(I) /\ Cardinality(I) \in Nat /\ StrictOrder(I, R)
  BY PreferredOrder
<1>2. 1 \in 1 .. Cardinality(I)
  BY <1>1, FS_EmptySet
<1>3. PICK i \in I : Rank(I, R, i) = 0
  BY <1>1, <1>2, RankTaken
<1>4. \A j \in I \ {i} : <<i, j>> \in R /\ <<j, i>> \notin R
  <2>1. SUFFICES ASSUME NEW j \in I \ {i} PROVE <<i, j>> \in R /\ <<j, i>> \notin R
    OBVIOUS
  <2>2. Rank(I, R, j) \in Nat
    BY <1>1, RankBounds
  <2>3. <<j, i>> \notin R
    BY <1>1, <1>3, <2>2, RankBounds
  <2>4. QED
    BY <1>1, <2>3 DEF StrictOrder
<1>5. QED
  BY <1>4 DEF Preferred

-----------------------------------------------------------------------------
(* The entries Delegates looks at, and those it keeps: of the entries that  *)
(* name one file, the preferred one.                                        *)
Matches(es, type, id) ==
  {i \in DOMAIN es : /\ es[i].type = type
                     /\ HasPrefix(id, es[i].name)
                     /\ type = "delegatePublic" => es[i].prefer = "public"}
Kept(es, type, id) ==
  {i \in Matches(es, type, id) :
     ~ \E j \in Matches(es, type, id) : es[j].url = es[i].url /\ Before(es, j, i)}

(* ds are the files of the entries I, in the order of preference.           *)
InOrder(ds, es, I) ==
  \E n \in Nat : \E at \in [1 .. n -> I] :
    /\ ds = [k \in 1 .. n |-> es[at[k]].url]
    /\ \A i, j \in 1 .. n : i < j => Before(es, at[i], at[j])
    /\ \A i \in I : \E k \in 1 .. n : at[k] = i

(* Delegates lists the kept entries in the order of preference.             *)
LEMMA DelegatesListKept ==
  ASSUME NEW es \in Seq(CatalogEntry), NEW type, NEW id
  PROVE  InOrder(Delegates(es, type, id), es, Kept(es, type, id))
<1> DEFINE I == Kept(es, type, id)
           R == Preferred(es, I)
           n == Cardinality(I)
           pick(k) == CHOOSE i \in I : Cardinality({j \in I : Before(es, j, i)}) = k - 1
           at == [k \in 1 .. n |-> pick(k)]
<1>1. I \in SUBSET DOMAIN es
  BY DEF Kept, Matches
<1>2. /\ IsFiniteSet(I) /\ n \in Nat /\ StrictOrder(I, R)
      /\ \A i \in I : Rank(I, R, i) = Cardinality({j \in I : Before(es, j, i)})
  BY <1>1, PreferredOrder
<1>3. /\ \A i \in I : Rank(I, R, i) \in 0 .. n - 1
      /\ \A i, j \in I : <<i, j>> \in R <=> Rank(I, R, i) < Rank(I, R, j)
  BY <1>2, RankBounds
<1>4. \A k \in 1 .. n : pick(k) \in I /\ Rank(I, R, pick(k)) = k - 1
  <2>1. SUFFICES ASSUME NEW k \in 1 .. n
                 PROVE  pick(k) \in I /\ Rank(I, R, pick(k)) = k - 1
    OBVIOUS
  <2>2. \E i \in I : Rank(I, R, i) = k - 1
    BY <1>2, RankTaken
  <2>3. \E i \in I : Cardinality({j \in I : Before(es, j, i)}) = k - 1
    BY <1>2, <2>2
  <2>4. /\ pick(k) \in I
        /\ Cardinality({j \in I : Before(es, j, pick(k))}) = k - 1
    BY <2>3
  <2>5. QED
    BY <1>2, <2>4
<1>5. Delegates(es, type, id) = [k \in 1 .. n |-> es[pick(k)].url]
  BY DEF Delegates, Kept, Matches
<1> HIDE DEF pick, R, I
<1>6. at \in [1 .. n -> I] /\ \A k \in 1 .. n : at[k] = pick(k)
  BY <1>4
<1> HIDE DEF at
<1>7. Delegates(es, type, id) = [k \in 1 .. n |-> es[at[k]].url]
  BY <1>5, <1>6
<1>8. \A i, j \in 1 .. n : i < j => Before(es, at[i], at[j])
  <2>1. SUFFICES ASSUME NEW i \in 1 .. n, NEW j \in 1 .. n, i < j
                 PROVE  Before(es, at[i], at[j])
    OBVIOUS
  <2>2. /\ at[i] \in I /\ at[j] \in I
        /\ Rank(I, R, at[i]) = i - 1 /\ Rank(I, R, at[j]) = j - 1
    BY <1>4, <1>6
  <2>3. <<at[i], at[j]>> \in R
    BY <1>2, <1>3, <2>1, <2>2
  <2>4. QED
    BY <2>3 DEF R, Preferred
<1>9. \A i \in I : \E k \in 1 .. n : at[k] = i
  <2>1. SUFFICES ASSUME NEW i \in I PROVE \E k \in 1 .. n : at[k] = i
    OBVIOUS
  <2> DEFINE k == Rank(I, R, i) + 1
  <2>2. k \in 1 .. n /\ Rank(I, R, i) \in Int
    BY <1>2, <1>3
  <2>3. at[k] \in I /\ Rank(I, R, at[k]) = Rank(I, R, i)
    BY <1>4, <1>6, <2>2
  <2>4. <<at[k], i>> \notin R /\ <<i, at[k]>> \notin R
    BY <1>3, <2>2, <2>3
  <2>5. at[k] = i
    BY <1>2, <2>3, <2>4 DEF StrictOrder
  <2>6. QED
    BY <2>2, <2>5
<1>10. QED
  BY <1>2, <1>6, <1>7, <1>8, <1>9 DEF I, InOrder

(* For every file that a matching entry names, one of its entries is kept.  *)
LEMMA EveryFileIsKept ==
  ASSUME NEW es \in Seq(CatalogEntry), NEW type, NEW id, NEW m \in Matches(es, type, id)
  PROVE  \E i \in Kept(es, type, id) : es[i].url = es[m].url
<1> DEFINE M == Matches(es, type, id)
           I == {i \in M : es[i].url = es[m].url}
<1>1. I \in SUBSET DOMAIN es /\ I # {}
  BY DEF Matches
<1>2. PICK i \in I : \A j \in I \ {i} : Before(es, i, j) /\ ~ Before(es, j, i)
  BY <1>1, PreferredFirst
<1>3. ~ Before(es, i, i)
  <2>1. i \in DOMAIN es
    BY <1>1
  <2>2. StrictOrder({i}, Preferred(es, {i}))
    BY <2>1, PreferredOrder
  <2>3. QED
    BY <2>2 DEF StrictOrder, Preferred
<1>4. i \in Kept(es, type, id)
  BY <1>2, <1>3 DEF Kept
<1>5. QED
  BY <1>4

(* The lengths of the start-strings by which entries of es send id to url.  *)
Lengths(es, type, id, url) ==
  {Len(es[i].name) : i \in {j \in DOMAIN es :
     es[j].type = type /\ es[j].url = url /\ HasPrefix(id, es[j].name)}}

(* Delegates names every file some entry matches, once, longest match first.*)
LEMMA DelegatesAreSorted ==
  ASSUME NEW es \in Seq(CatalogEntry), NEW type \in {"delegateSystem", "delegateURI"},
         NEW id, \A i \in DOMAIN es : es[i].type = type => es[i].url \in Catalogs
  PROVE  LET ds == Delegates(es, type, id)
         IN  /\ {ds[i] : i \in DOMAIN ds} = {url \in Catalogs : Lengths(es, type, id, url) # {}}
             /\ \A i, j \in DOMAIN ds : i < j =>
                  /\ ds[i] # ds[j]
                  /\ \A n \in Lengths(es, type, id, ds[j]) :
                       \E k \in Lengths(es, type, id, ds[i]) : k >= n
<1> DEFINE ds == Delegates(es, type, id)
           M == Matches(es, type, id)
           I == Kept(es, type, id)
           lengths(url) == Lengths(es, type, id, url)
<1>1. PICK n \in Nat : \E at \in [1 .. n -> I] :
           /\ ds = [k \in 1 .. n |-> es[at[k]].url]
           /\ \A i, j \in 1 .. n : i < j => Before(es, at[i], at[j])
           /\ \A i \in I : \E k \in 1 .. n : at[k] = i
  <2>1. InOrder(ds, es, I)
    BY DelegatesListKept
  <2>2. QED
    BY <2>1 DEF InOrder
<1>2. PICK at \in [1 .. n -> I] :
           /\ ds = [k \in 1 .. n |-> es[at[k]].url]
           /\ \A i, j \in 1 .. n : i < j => Before(es, at[i], at[j])
           /\ \A i \in I : \E k \in 1 .. n : at[k] = i
  BY <1>1
<1>3. \A url : lengths(url) = {Len(es[m].name) : m \in {i \in M : es[i].url = url}}
  BY DEF Lengths, Matches
<1>4. /\ I \subseteq M
      /\ \A m \in M : m \in DOMAIN es /\ es[m].type = type /\ es[m].url \in Catalogs
  BY DEF Kept, Matches
<1>5. \A m \in M : Len(es[m].name) \in Nat
  <2>1. \A m \in M : es[m] \in CatalogEntry
    BY <1>4, LenProperties, ElementOfSeq
  <2>2. \A m \in M : es[m].name \in Seq(Token)
    BY <2>1 DEF CatalogEntry
  <2>3. QED
    BY <2>2, LenProperties
<1>6. \A m \in M : \E i \in I : es[i].url = es[m].url
  BY EveryFileIsKept
<1> HIDE DEF M, I, ds, lengths
<1>7. DOMAIN ds = 1 .. n /\ \A k \in 1 .. n : at[k] \in I /\ at[k] \in M /\ ds[k] = es[at[k]].url
  BY <1>2, <1>4
<1>8. {ds[i] : i \in DOMAIN ds} = {url \in Catalogs : lengths(url) # {}}
  <2>1. ASSUME NEW k \in 1 .. n PROVE ds[k] \in Catalogs /\ lengths(ds[k]) # {}
    BY <1>3, <1>4, <1>7
  <2>2. ASSUME NEW url \in Catalogs, lengths(url) # {}
        PROVE  \E k \in 1 .. n : ds[k] = url
    <3>1. PICK m \in M : es[m].url = url
      BY <1>3, <2>2
    <3>2. PICK i \in I : es[i].url = url
      BY <1>6, <3>1
    <3>3. QED
      BY <1>2, <1>7, <3>2
  <2>3. QED
    BY <1>7, <2>1, <2>2
<1>9. ASSUME NEW i \in DOMAIN ds, NEW j \in DOMAIN ds, i < j
      PROVE  /\ ds[i] # ds[j]
             /\ \A l \in lengths(ds[j]) : \E k \in lengths(ds[i]) : k >= l
  <2>1. /\ Before(es, at[i], at[j]) /\ at[i] \in M /\ at[j] \in I /\ at[j] \in M
        /\ ds[i] = es[at[i]].url /\ ds[j] = es[at[j]].url
    BY <1>2, <1>7, <1>9
  <2>2. ds[i] # ds[j]
    BY <2>1 DEF I, M, Kept
  <2>3. Len(es[at[i]].name) >= Len(es[at[j]].name)
    BY <1>5, <2>1, SMTT(30) DEF Before
  <2>4. Len(es[at[i]].name) \in lengths(ds[i])
    BY <1>3, <2>1
  <2>5. ASSUME NEW l \in lengths(ds[j]) PROVE l \in Nat /\ Len(es[at[j]].name) >= l
    <3>1. PICK m \in M : es[m].url = ds[j] /\ l = Len(es[m].name)
      BY <1>3
    <3>2. ~ Before(es, m, at[j])
      BY <2>1, <3>1 DEF I, M, Kept
    <3>3. QED
      BY <1>5, <2>1, <3>1, <3>2 DEF Before
  <2>6. \A l \in lengths(ds[j]) : Len(es[at[i]].name) >= l
    BY <1>5, <2>1, <2>3, <2>5
  <2>7. QED
    BY <2>2, <2>4, <2>6
<1>10. QED
  BY <1>8, <1>9 DEF ds, lengths

-----------------------------------------------------------------------------
(* The entries of a catalog: what the parser of catalog files produces.     *)
Entries(es) ==
  /\ es \in Seq(CatalogEntry)
  /\ \A i \in DOMAIN es :
       es[i].type \in {"next"} \cup DelegateTypes => es[i].url \in Catalogs

(* What a lookup says: an answer, nothing, or a loop to run.                *)
Sensible(o) ==
  /\ o.kind \in {"none", "hit", "delegate", "next"}
  /\ o.uri \in Seq(Token)
  /\ o.kind \in {"delegate", "next"} => o \in Frame

(* The first of some positions.                                             *)
LEMMA FirstOf ==
  ASSUME NEW n \in Nat, NEW I \in SUBSET (1 .. n), I # {}
  PROVE  First(I) \in I /\ \A j \in I : First(I) <= j
<1> DEFINE R == {p \in I \X I : p[1] < p[2]}
<1>1. IsFiniteSet(I) /\ Cardinality(I) \in Nat
  <2>1. IsFiniteSet(1 .. n)
    BY FS_Interval
  <2>2. IsFiniteSet(I)
    BY <2>1, FS_Subset
  <2>3. QED
    BY <2>2, FS_CardinalityType
<1>2. StrictOrder(I, R) /\ \A i, j \in I : j < i => <<j, i>> \in R
  BY DEF StrictOrder
<1> HIDE DEF R
<1>3. 1 \in 1 .. Cardinality(I)
  BY <1>1, FS_EmptySet
<1>4. PICK i \in I : Rank(I, R, i) = 0
  <2>1. \E i \in I : Rank(I, R, i) = 1 - 1
    BY <1>1, <1>2, <1>3, RankTaken, Zenon
  <2>2. QED
    BY <2>1
<1>5. \A j \in I : i <= j
  <2>1. SUFFICES ASSUME NEW j \in I PROVE ~ (j < i)
    OBVIOUS
  <2>2. Rank(I, R, j) \in Nat
    BY <1>1, <1>2, RankBounds
  <2>3. <<j, i>> \notin R
    BY <1>1, <1>2, <1>4, <2>2, RankBounds
  <2>4. QED
    BY <1>2, <2>3
<1>6. QED
  BY <1>5 DEF First

(* A URI is answered with a sequence of tokens.                             *)
LEMMA HitType ==
  ASSUME NEW es \in Seq(CatalogEntry), NEW exact, NEW rewrite, NEW id \in Seq(Token)
  PROVE  Hit(es, exact, rewrite, id) \in Seq(Token)
<1> DEFINE same == {i \in DOMAIN es : es[i].type = exact /\ es[i].name = id}
           starts == {i \in DOMAIN es : /\ es[i].type = rewrite
                                        /\ HasPrefix(id, es[i].name) /\ es[i].name # << >>}
           best == CHOOSE i \in starts : \A j \in starts \ {i} : Before(es, i, j)
           r == es[best]
<1>1. DOMAIN es = 1 .. Len(es) /\ Len(es) \in Nat
  BY LenProperties
<1>2. \A i \in DOMAIN es : /\ es[i].url \in Token /\ es[i].name \in Seq(Token)
                            /\ Len(es[i].name) \in Nat
  <2>1. \A i \in DOMAIN es : es[i] \in CatalogEntry
    BY <1>1, ElementOfSeq
  <2>2. \A i \in DOMAIN es : es[i].url \in Token /\ es[i].name \in Seq(Token)
    BY <2>1 DEF CatalogEntry
  <2>3. QED
    BY <2>2, LenProperties
<1>3. ASSUME same # {} PROVE <<es[First(same)].url>> \in Seq(Token)
  <2>1. First(same) \in DOMAIN es
    BY <1>1, <1>3, FirstOf
  <2>2. es[First(same)].url \in Token
    BY <1>2, <2>1
  <2>3. QED
    BY <2>2
<1>4. ASSUME starts # {}
      PROVE  <<r.url>> \o SubSeq(id, Len(r.name) + 1, Len(id)) \in Seq(Token)
  <2>1. best \in starts
    BY <1>4, PreferredFirst
  <2>2. r.url \in Token /\ Len(r.name) \in Nat
    BY <1>2, <2>1
  <2>3. SubSeq(id, Len(r.name) + 1, Len(id)) \in Seq(Token) /\ <<r.url>> \in Seq(Token)
    BY <2>2
  <2>4. QED
    BY <2>3
<1>5. Hit(es, exact, rewrite, id) =
        CASE same # {} -> <<es[First(same)].url>>
          [] same = {} /\ starts # {} -> <<r.url>> \o SubSeq(id, Len(r.name) + 1, Len(id))
          [] OTHER -> << >>
  BY DEF Hit
<1> HIDE DEF same, starts, r
<1>6. << >> \in Seq(Token)
  OBVIOUS
<1>7. QED
  BY <1>3, <1>4, <1>5, <1>6

(* A delegate loop goes through catalogs.                                   *)
LEMMA DelegatesType ==
  ASSUME NEW es, Entries(es), NEW type \in DelegateTypes, NEW id
  PROVE  Delegates(es, type, id) \in Seq(Catalogs)
<1> DEFINE I == Kept(es, type, id)
           ds == Delegates(es, type, id)
<1>1. es \in Seq(CatalogEntry)
  BY DEF Entries
<1>2. InOrder(ds, es, I)
  BY <1>1, DelegatesListKept
<1>3. PICK n \in Nat : \E at \in [1 .. n -> I] : ds = [k \in 1 .. n |-> es[at[k]].url]
  BY <1>2 DEF InOrder
<1>4. \A i \in I : es[i].url \in Catalogs
  BY DEF Entries, Kept, Matches
<1> HIDE DEF I, ds
<1>5. ds \in [1 .. n -> Catalogs]
  BY <1>3, <1>4
<1>6. QED
  BY <1>5, SeqDef DEF ds

(* One pass over a catalog's entries.                                       *)
LEMMA PassType ==
  ASSUME NEW es, Entries(es), NEW exact, NEW rewrite, NEW delegate \in DelegateTypes,
         NEW id \in Seq(Token), NEW sub \in Query
  PROVE  Sensible(Pass(es, exact, rewrite, delegate, id, sub))
<1> DEFINE hit == Hit(es, exact, rewrite, id)
           targets == Delegates(es, delegate, id)
<1>1. hit \in Seq(Token) /\ targets \in Seq(Catalogs)
  BY HitType, DelegatesType DEF Entries
<1>2. Pass(es, exact, rewrite, delegate, id, sub) =
        CASE id = << >> -> NoMatch
          [] id # << >> /\ hit # << >> -> [NoMatch EXCEPT !.kind = "hit", !.uri = hit]
          [] id # << >> /\ hit = << >> /\ targets # << >> ->
               [kind |-> "delegate", uri |-> << >>, todo |-> targets, query |-> sub]
          [] OTHER -> NoMatch
  BY DEF Pass
<1> HIDE DEF hit, targets
<1>3. Sensible(NoMatch)
  BY DEF NoMatch, Sensible
<1>4. Sensible([NoMatch EXCEPT !.kind = "hit", !.uri = hit])
  BY <1>1 DEF NoMatch, Sensible
<1>5. Sensible([kind |-> "delegate", uri |-> << >>, todo |-> targets, query |-> sub])
  BY <1>1 DEF Sensible, Frame
<1>6. QED
  BY <1>2, <1>3, <1>4, <1>5

(* The loop over the nextCatalogs.                                          *)
LEMMA NextCatalogsType ==
  ASSUME NEW es, Entries(es), NEW q \in Query
  PROVE  Sensible(NextCatalogs(es, q))
<1> DEFINE I == {i \in DOMAIN es : es[i].type = "next"}
           chain == Select(es, I)
           urls == [i \in DOMAIN chain |-> chain[i].url]
<1>1. /\ chain \in Seq(CatalogEntry)
      /\ \A k \in DOMAIN chain : \E i \in I : chain[k] = es[i]
  <2>1. es \in Seq(CatalogEntry) /\ I \in SUBSET DOMAIN es
    BY DEF Entries
  <2> HIDE DEF I
  <2>2. QED
    BY <2>1, SelectElements
<1>2. \A i \in I : es[i].url \in Catalogs
  BY DEF Entries
<1>3. NextCatalogs(es, q) =
        IF chain = << >> \/ q.pub \o q.sys \o q.uri = << >> THEN NoMatch
        ELSE [kind |-> "next", uri |-> << >>, query |-> q, todo |-> urls]
  BY DEF NextCatalogs
<1> HIDE DEF chain, I
<1>4. urls \in [1 .. Len(chain) -> Catalogs] /\ Len(chain) \in Nat
  BY <1>1, <1>2, LenProperties
<1>5. urls \in Seq(Catalogs)
  BY <1>4, SeqDef
<1> HIDE DEF urls
<1>6. Sensible(NoMatch)
  BY DEF NoMatch, Sensible
<1>7. Sensible([kind |-> "next", uri |-> << >>, query |-> q, todo |-> urls])
  BY <1>5 DEF Sensible, Frame
<1>8. QED
  BY <1>3, <1>6, <1>7

(* A lookup in any catalog says something sensible.                         *)
LEMMA LookupType ==
  ASSUME NEW es, Entries(es), NEW q \in Query
  PROVE  Sensible(Lookup(es, q))
<1> DEFINE byURI == Pass(es, "uri", "rewriteURI", "delegateURI", q.uri, q)
           bySystem == Pass(es, "system", "rewriteSystem", "delegateSystem", q.sys,
                            [q EXCEPT !.pub = << >>])
           byPublic == Pass(es, "public", "none", "delegatePublic", q.pub,
                            [q EXCEPT !.sys = << >>])
<1>1. /\ q.uri \in Seq(Token) /\ q.sys \in Seq(Token) /\ q.pub \in Seq(Token)
      /\ [q EXCEPT !.pub = << >>] \in Query /\ [q EXCEPT !.sys = << >>] \in Query
  <2>1. << >> \in Seq(Token)
    OBVIOUS
  <2>2. q.uri \in Seq(Token) /\ q.sys \in Seq(Token) /\ q.pub \in Seq(Token)
    BY DEF Query
  <2>3. [q EXCEPT !.pub = << >>] \in Query
    BY <2>1 DEF Query
  <2>4. [q EXCEPT !.sys = << >>] \in Query
    BY <2>1 DEF Query
  <2>5. QED
    BY <2>2, <2>3, <2>4
<1>2. {"delegateURI", "delegateSystem", "delegatePublic"} \subseteq DelegateTypes
  BY DEF DelegateTypes
<1>3. Sensible(byURI) /\ Sensible(bySystem) /\ Sensible(byPublic)
  BY <1>1, <1>2, PassType
<1>4. Lookup(es, q) =
        CASE byURI # NoMatch -> byURI
          [] byURI = NoMatch /\ bySystem # NoMatch -> bySystem
          [] byURI = NoMatch /\ bySystem = NoMatch /\ byPublic # NoMatch -> byPublic
          [] OTHER -> NextCatalogs(es, q)
  BY DEF Lookup
<1> HIDE DEF byURI, bySystem, byPublic
<1>5. QED
  BY <1>3, <1>4, NextCatalogsType

-----------------------------------------------------------------------------
(* Identifiers stay sequences of tokens.                                    *)
LEMMA NormalizeType ==
  ASSUME NEW id \in Seq(Token) PROVE NormalizePublicID(id) \in Seq(Token)
<1> DEFINE solid == {i \in DOMAIN id : id[i] \notin Space}
           spaced == [i \in DOMAIN id |-> IF i \in solid THEN id[i] ELSE " "]
           gaps == {i \in DOMAIN id \ solid : i + 1 \in solid /\ \E j \in solid : j < i}
<1>1. DOMAIN id = 1 .. Len(id) /\ Len(id) \in Nat /\ \A i \in DOMAIN id : id[i] \in Token
  BY LenProperties, ElementOfSeq
<1>2. spaced \in [1 .. Len(id) -> Token]
  BY <1>1, TokenAssumption
<1>3. spaced \in Seq(Token) /\ DOMAIN spaced = DOMAIN id
  BY <1>1, <1>2, SeqDef
<1>4. solid \cup gaps \in SUBSET DOMAIN spaced
  BY <1>3
<1>5. NormalizePublicID(id) = Select(spaced, solid \cup gaps)
  BY DEF NormalizePublicID
<1> HIDE DEF spaced, solid, gaps
<1>6. QED
  BY <1>3, <1>4, <1>5, SelectElements

(* Unwrapping a URN yields an identifier again.                             *)
LEMMA UnwrapType ==
  ASSUME NEW id \in Seq(Token) PROVE UnwrapURN(id) \in Seq(Token)
<1>1. Len(id) \in Nat /\ \A i \in 1 .. Len(id) : id[i] \in Token
  BY LenProperties, ElementOfSeq
<1>2. \A t \in Token : Decoded(t) \in Token
  BY TokenAssumption
<1> DEFINE d == [i \in 1 .. Len(id) - 1 |-> Decoded(id[i + 1])]
<1>3. CASE id # << >>
  <2>1. Len(id) - 1 \in Nat
    BY <1>1, <1>3, EmptySeq
  <2>2. d \in [1 .. Len(id) - 1 -> Token]
    BY <1>1, <1>2, <2>1
  <2> HIDE DEF d
  <2>3. d \in Seq(Token)
    BY <2>1, <2>2, SeqDef
  <2>4. QED
    BY <2>3, EmptySeq DEF UnwrapURN, d
<1>4. CASE id = << >>
  BY <1>4, EmptySeq DEF UnwrapURN
<1>5. QED
  BY <1>3, <1>4

-----------------------------------------------------------------------------
(***************************************************************************)
(* The inductive invariant: types, and the budgets charge every load.      *)
(***************************************************************************)
BudgetInv ==
  /\ loads = delegates + nextCatalogs
  /\ Len(stack) <= MaxDepth + 1

IInv == TypeOK /\ BudgetInv

(* The catalogs of an input have the entries that lookups expect.           *)
LEMMA InputEntries ==
  ASSUME input \in Inputs, NEW c \in Catalogs
  PROVE  Entries(input.graph[c])
  BY ResolveAssumption DEF Entries

(* The innermost loop and the ones around it.                               *)
LEMMA TopType ==
  ASSUME TypeOK, stack # << >>
  PROVE  /\ Top \in Frame /\ Below \in Seq(Frame)
         /\ Len(stack) \in Nat /\ Len(Below) = Len(stack) - 1
         /\ Top.kind \in {"delegate", "next"} /\ Top.query \in Query
         /\ [Top EXCEPT !.todo = << >>] \in Frame
<1>1. stack \in Seq(Frame) /\ Len(stack) \in Nat \ {0}
  BY EmptySeq DEF TypeOK
<1>2. Top \in Frame
  BY <1>1, ElementOfSeq DEF Top
<1>3. Below \in Seq(Frame) /\ Len(Below) = Len(stack) - 1
  <2>1. \A i \in 1 .. Len(stack) - 1 : stack[i] \in Frame
    BY <1>1, ElementOfSeq
  <2>2. 1 \in Int /\ Len(stack) - 1 \in Int
    BY <1>1
  <2>3. /\ Below \in Seq(Frame)
        /\ Len(Below) = IF 1 <= Len(stack) - 1 THEN (Len(stack) - 1) - 1 + 1 ELSE 0
    BY <2>1, <2>2, SubSeqProperties DEF Below
  <2>4. \A m \in Nat \ {0} : (IF 1 <= m - 1 THEN (m - 1) - 1 + 1 ELSE 0) = m - 1
    OBVIOUS
  <2>5. QED
    BY <1>1, <2>3, <2>4, Zenon
<1>4. << >> \in Seq(Catalogs)
  OBVIOUS
<1>5. QED
  BY <1>1, <1>2, <1>3, <1>4 DEF Frame

(* The entry the innermost loop is at.                                      *)
LEMMA TargetType ==
  ASSUME TypeOK, stack # << >>, Top.todo # << >>
  PROVE  /\ Target \in Catalogs /\ Advanced \in Frame
         /\ Key \in Catalogs \X Seq(Token) \X Seq(Token)
         /\ Sensible(Answer)
<1>1. Top \in Frame /\ Top.query \in Query
  BY TopType
<1>2. Top.todo \in Seq(Catalogs)
  BY <1>1 DEF Frame
<1>3. Target \in Catalogs /\ Tail(Top.todo) \in Seq(Catalogs)
  BY <1>2, HeadTailProperties DEF Target
<1>4. Advanced \in Frame
  BY <1>1, <1>3 DEF Advanced, Frame
<1>5. Key \in Catalogs \X Seq(Token) \X Seq(Token)
  BY <1>1, <1>3, EmptySeq DEF Key, Query
<1>6. Sensible(Answer)
  <2>1. Entries(input.graph[Target])
    BY <1>3, InputEntries DEF TypeOK
  <2>2. QED
    BY <1>1, <2>1, LookupType DEF Answer
<1>7. QED
  BY <1>3, <1>4, <1>5, <1>6

(* Charging the budget for a load.                                          *)
LEMMA ConsultStep ==
  ASSUME IInv, Consult
  PROVE  /\ stack # << >> /\ Top.todo # << >> /\ phase = "search"
         /\ input' = input /\ query' = query
         /\ delegates' \in 0 .. MaxDelegates /\ nextCatalogs' \in 0 .. MaxNextCatalogs
         /\ loads' \in Nat /\ loads' = delegates' + nextCatalogs'
<1>1. stack # << >> /\ Top.todo # << >> /\ phase = "search" /\ input' = input /\ query' = query
  BY DEF Consult
<1>2. Top.kind \in {"delegate", "next"}
  BY <1>1, TopType DEF IInv
<1>3. /\ delegates \in 0 .. MaxDelegates /\ nextCatalogs \in 0 .. MaxNextCatalogs
      /\ loads \in Nat /\ loads = delegates + nextCatalogs
  BY DEF IInv, TypeOK, BudgetInv
<1>4. CASE Top.kind = "delegate"
  BY <1>1, <1>3, <1>4, ResolveAssumption DEF Consult, MayLoad
<1>5. CASE Top.kind = "next"
  BY <1>1, <1>3, <1>5, ResolveAssumption DEF Consult, MayLoad
<1>6. QED
  BY <1>2, <1>4, <1>5

(* Going on with another frame in the place of the innermost one.           *)
LEMMA ReplaceTop ==
  ASSUME IInv, stack # << >>, NEW f \in Frame
  PROVE  /\ Append(Below, f) \in Seq(Frame) /\ Append(Below, f) # << >>
         /\ Len(Append(Below, f)) <= MaxDepth + 1
<1>1. /\ Below \in Seq(Frame) /\ Len(stack) \in Nat /\ Len(Below) = Len(stack) - 1
      /\ Len(stack) <= MaxDepth + 1
  BY TopType DEF IInv, BudgetInv
<1>2. /\ Append(Below, f) \in Seq(Frame) /\ Append(Below, f) # << >>
      /\ Len(Append(Below, f)) = Len(Below) + 1
  BY <1>1
<1>3. QED
  BY <1>1, <1>2

(* Every step keeps the types, charges its loads and respects the depth.    *)
LEMMA InvStep == IInv /\ [Next]_vars => IInv'
<1> SUFFICES ASSUME IInv, [Next]_vars PROVE IInv'
  OBVIOUS
<1> USE DEF state, history
<1>0. /\ query \in Query /\ query.pub \in Seq(Token) /\ query.sys \in Seq(Token)
      /\ query.uri \in Seq(Token) /\ << >> \in Seq(Token)
      /\ NormalizePublicID(query.pub) \in Seq(Token)
      /\ UnwrapURN(query.uri) \in Seq(Token) /\ UnwrapURN(query.sys) \in Seq(Token)
      /\ UnwrapURN(NormalizePublicID(query.pub)) \in Seq(Token)
  BY NormalizeType, UnwrapType, EmptySeq DEF IInv, TypeOK, Query
<1>1. ASSUME NEW q \in Query, Retry(q) PROVE IInv'
  BY <1>1 DEF Retry, IInv, TypeOK, BudgetInv
<1>2. CASE UnwrapURI
  <2>1. [pub |-> UnwrapURN(query.uri), sys |-> << >>, uri |-> << >>] \in Query
    BY <1>0 DEF Query
  <2>2. QED
    BY <1>1, <1>2, <2>1 DEF UnwrapURI
<1>3. CASE UnwrapPublic
  <2>1. [query EXCEPT !.pub = UnwrapURN(NormalizePublicID(query.pub))] \in Query
    BY <1>0 DEF Query
  <2>2. QED
    BY <1>1, <1>3, <2>1 DEF UnwrapPublic
<1>4. CASE UnwrapSystem
  <2> DEFINE p == NormalizePublicID(query.pub)
             s == UnwrapURN(query.sys)
  <2>1. /\ [query EXCEPT !.pub = s, !.sys = << >>] \in Query
        /\ [query EXCEPT !.pub = p, !.sys = << >>] \in Query
        /\ [query EXCEPT !.pub = p, !.sys = s] \in Query
    BY <1>0 DEF Query
  <2>2. PICK q \in Query : Retry(q)
    BY <1>4, <2>1 DEF UnwrapSystem
  <2>3. QED
    BY <1>1, <2>2
<1>5. CASE Start
  <2> DEFINE q == [query EXCEPT !.pub = NormalizePublicID(query.pub)]
             o == Lookup(input.graph[Root], q)
  <2>1. q \in Query
    BY <1>0 DEF Query
  <2>2. Sensible(o)
    BY <2>1, InputEntries, LookupType, ResolveAssumption DEF IInv, TypeOK
  <2>3. /\ query' = q
        /\ phase' = IF o.kind \in {"hit", "none"} THEN "done" ELSE "search"
        /\ result' = [result EXCEPT !.uri = o.uri]
        /\ stack' = IF o.kind \in {"hit", "none"} THEN << >> ELSE <<o>>
        /\ UNCHANGED <<input, state, history>>
    BY <1>5 DEF Start
  <2> HIDE DEF o, q
  <2>4. result' \in [uri : Seq(Token), broke : BOOLEAN]
    BY <2>2, <2>3 DEF Sensible, IInv, TypeOK
  <2>5. /\ phase' \in {"top", "search", "done"}
        /\ phase' = "search" <=> stack' # << >>
        /\ stack' \in Seq(Frame) /\ Len(stack') <= MaxDepth + 1
    <3>1. CASE o.kind \in {"hit", "none"}
      BY <2>3, <3>1, ResolveAssumption
    <3>2. CASE o.kind \notin {"hit", "none"}
      <4>1. o \in Frame
        BY <2>2, <3>2 DEF Sensible
      <4>2. stack' = <<o>> /\ phase' = "search"
        BY <2>3, <3>2
      <4>3. QED
        BY <4>1, <4>2, ResolveAssumption
    <3>3. QED
      BY <3>1, <3>2
  <2>6. QED
    BY <2>1, <2>3, <2>4, <2>5 DEF IInv, TypeOK, BudgetInv
<1>6. ASSUME Consult, NEW f \in Frame, stack' = Append(Below, f), UNCHANGED <<phase, result>>,
             visited' \subseteq visited \cup {Key}, truncated' \in BOOLEAN
      PROVE  IInv'
  <2>1. /\ stack' \in Seq(Frame) /\ stack' # << >> /\ Len(stack') <= MaxDepth + 1
    BY <1>6, ConsultStep, ReplaceTop
  <2>2. visited' \subseteq Catalogs \X Seq(Token) \X Seq(Token)
    BY <1>6, ConsultStep, TargetType DEF IInv, TypeOK
  <2>3. QED
    BY <1>6, <2>1, <2>2, ConsultStep DEF IInv, TypeOK, BudgetInv
<1>7. ASSUME Consult PROVE Advanced \in Frame /\ [Top EXCEPT !.todo = << >>] \in Frame
  BY <1>7, ConsultStep, TopType, TargetType DEF IInv
<1>8. CASE SkipMissing
  BY <1>6, <1>7, <1>8 DEF SkipMissing, IInv, TypeOK
<1>9. CASE SkipVisited
  BY <1>6, <1>7, <1>9 DEF SkipVisited, IInv, TypeOK
<1>10. CASE TooDeep
  BY <1>6, <1>7, <1>10 DEF TooDeep, IInv, TypeOK
<1>11. CASE Found
  <2>1. /\ Consult /\ visited' = visited \cup {Key} /\ truncated' = truncated
        /\ result' = [result EXCEPT !.uri = Answer.uri]
        /\ phase' = "done" /\ stack' = << >>
    BY <1>11 DEF Found, Search
  <2>2. Key \in Catalogs \X Seq(Token) \X Seq(Token) /\ Answer.uri \in Seq(Token)
    BY <2>1, ConsultStep, TargetType DEF IInv, Sensible
  <2>3. result' \in [uri : Seq(Token), broke : BOOLEAN]
    BY <2>1, <2>2 DEF IInv, TypeOK
  <2>4. stack' \in Seq(Frame) /\ Len(stack') <= MaxDepth + 1
    BY <2>1, ResolveAssumption
  <2>5. QED
    BY <2>1, <2>2, <2>3, <2>4, ConsultStep DEF IInv, TypeOK, BudgetInv
<1>12. CASE NotFound
  BY <1>6, <1>7, <1>12 DEF NotFound, Search, IInv, TypeOK
<1>13. CASE Descend
  <2>1. /\ Consult /\ Searches /\ Answer.kind \in {"delegate", "next"}
        /\ visited' = visited \cup {Key} /\ truncated' = truncated
        /\ stack' = Below \o <<Advanced, Answer>> /\ UNCHANGED <<phase, result>>
    BY <1>13 DEF Descend, Search
  <2>2. /\ Advanced \in Frame /\ Answer \in Frame
        /\ Key \in Catalogs \X Seq(Token) \X Seq(Token)
    BY <2>1, ConsultStep, TargetType DEF IInv, Sensible
  <2>3. /\ Below \in Seq(Frame) /\ Len(stack) \in Nat /\ Len(Below) = Len(stack) - 1
        /\ Len(stack) <= MaxDepth
    BY <2>1, ConsultStep, TopType DEF IInv, Searches
  <2>4. /\ stack' \in Seq(Frame) /\ Len(stack') = Len(Below) + 2
    BY <2>1, <2>2, <2>3
  <2>5. stack' # << >> /\ Len(stack') <= MaxDepth + 1
    BY <2>3, <2>4, EmptySeq, ResolveAssumption
  <2>6. QED
    BY <2>1, <2>2, <2>4, <2>5, ConsultStep DEF IInv, TypeOK, BudgetInv
<1>14. CASE Exhaust
  <2>1. [Top EXCEPT !.todo = << >>] \in Frame
    BY <1>14, TopType DEF Exhaust, IInv
  <2>2. stack' \in Seq(Frame) /\ stack' # << >> /\ Len(stack') <= MaxDepth + 1
    BY <1>14, <2>1, ReplaceTop DEF Exhaust
  <2>3. QED
    BY <1>14, <2>2 DEF Exhaust, IInv, TypeOK, BudgetInv
<1>15. CASE Return
  <2>1. /\ Below \in Seq(Frame) /\ Len(stack) \in Nat /\ Len(Below) = Len(stack) - 1
        /\ Len(stack) <= MaxDepth + 1
    BY <1>15, TopType DEF Return, IInv, BudgetInv
  <2>2. result' \in [uri : Seq(Token), broke : BOOLEAN]
    BY <1>15 DEF Return, IInv, TypeOK
  <2>3. QED
    BY <1>15, <2>1, <2>2, ResolveAssumption DEF Return, IInv, TypeOK, BudgetInv
<1>16. CASE UNCHANGED vars
  BY <1>16 DEF vars, IInv, TypeOK, BudgetInv
<1>17. QED
  BY <1>2, <1>3, <1>4, <1>5, <1>8, <1>9, <1>10, <1>11, <1>12, <1>13, <1>14,
     <1>15, <1>16 DEF Next

(* A resolution begins within its limits.                                   *)
LEMMA InitIInv == Init => IInv
<1> SUFFICES ASSUME Init PROVE IInv
  OBVIOUS
<1>1. input \in Inputs /\ query \in Query
  BY ResolveAssumption DEF Init
<1>2. stack = << >> /\ stack \in Seq(Frame) /\ Len(stack) = 0
  BY DEF Init
<1>3. result \in [uri : Seq(Token), broke : BOOLEAN]
  BY EmptySeq DEF Init
<1>4. /\ phase \in {"top", "search", "done"} /\ (phase = "search" <=> stack # << >>)
      /\ visited \subseteq Catalogs \X Seq(Token) \X Seq(Token)
      /\ loads \in Nat /\ truncated \in BOOLEAN
  BY DEF Init
<1>5. /\ delegates \in 0 .. MaxDelegates /\ nextCatalogs \in 0 .. MaxNextCatalogs
      /\ loads = delegates + nextCatalogs /\ Len(stack) <= MaxDepth + 1
  BY <1>2, ResolveAssumption DEF Init
<1>6. QED
  BY <1>1, <1>2, <1>3, <1>4, <1>5 DEF IInv, TypeOK, BudgetInv

(* The invariant holds in every state of a resolution.                      *)
THEOREM Invariance == Spec => []IInv
  BY InitIInv, InvStep, PTL DEF Spec

(* Type correctness: in particular every loop goes through existing catalog *)
(* files, and every lookup answers, delegates, chains or gives up.          *)
THEOREM TypeCorrect == Spec => []TypeOK
<1>1. IInv => TypeOK
  BY DEF IInv
<1>2. QED
  BY Invariance, <1>1, PTL

(* However catalogs refer to each other, the counters that a resolution     *)
(* shares (resolve.go, CAT-001 and CAT-005) bound its loads and its depth.  *)
THEOREM ResolutionIsBounded == Spec => []LoadsAreBounded
<1>1. IInv => LoadsAreBounded
  <2>1. SUFFICES ASSUME IInv PROVE LoadsAreBounded
    OBVIOUS
  <2>2. /\ delegates \in 0 .. MaxDelegates /\ nextCatalogs \in 0 .. MaxNextCatalogs
        /\ loads = delegates + nextCatalogs /\ Len(stack) <= MaxDepth + 1
    BY <2>1 DEF IInv, TypeOK, BudgetInv
  <2>3. QED
    BY <2>2, ResolveAssumption DEF LoadsAreBounded
<1>2. QED
  BY Invariance, <1>1, PTL

(* Delegates come most specific first and each file once, for every list of *)
(* entries and every identifier.                                            *)
THEOREM DelegatesMostSpecificFirst == Spec => []MostSpecificFirst
<1>1. IInv => MostSpecificFirst
  <2>1. SUFFICES ASSUME IInv,
                        NEW c \in Catalogs,
                        NEW pair \in {<<"delegateSystem", query.sys>>,
                                      <<"delegateURI", query.uri>>}
                 PROVE  LET es == input.graph[c]
                            ds == Delegates(es, pair[1], pair[2])
                        IN  /\ {ds[i] : i \in DOMAIN ds}
                                 = {url \in Catalogs : Lengths(es, pair[1], pair[2], url) # {}}
                            /\ \A i, j \in DOMAIN ds : i < j =>
                                 /\ ds[i] # ds[j]
                                 /\ \A n \in Lengths(es, pair[1], pair[2], ds[j]) :
                                      \E k \in Lengths(es, pair[1], pair[2], ds[i]) : k >= n
    BY DEF MostSpecificFirst, Lengths
  <2>2. Entries(input.graph[c])
    BY <2>1, InputEntries DEF IInv, TypeOK
  <2>3. pair[1] \in {"delegateSystem", "delegateURI"}
    BY <2>1
  <2>4. input.graph[c] \in Seq(CatalogEntry)
        /\ \A i \in DOMAIN input.graph[c] :
             input.graph[c][i].type = pair[1] => input.graph[c][i].url \in Catalogs
    BY <2>2, <2>3 DEF Entries, DelegateTypes
  <2>5. QED
    BY <2>3, <2>4, DelegatesAreSorted
<1>2. QED
  BY Invariance, <1>1, PTL

-----------------------------------------------------------------------------
(***************************************************************************)
(* SearchIsFaithful: the cache of visited catalogs changes no answer.      *)
(***************************************************************************)
(* Induction up to N over a set.                                            *)
LEMMA StepByStep ==
  ASSUME NEW N \in Nat, NEW T, 0 \in T, \A k \in 0 .. N - 1 : k \in T => k + 1 \in T
  PROVE  \A k \in 0 .. N : k \in T
<1> DEFINE I == {k \in 0 .. N : k \notin T}
<1> SUFFICES ASSUME I # {} PROVE FALSE
  OBVIOUS
<1>1. I \in SUBSET (1 .. N)
  OBVIOUS
<1>2. First(I) \in I /\ \A j \in I : First(I) <= j
  BY <1>1, FirstOf
<1>3. First(I) - 1 \in 0 .. N - 1 /\ First(I) - 1 \notin I
  BY <1>2
<1>4. QED
  BY <1>2, <1>3

(* A loop without an answer comes to none.                                  *)
LEMMA NoAnswer ==
  ASSUME NEW a, \A i \in DOMAIN a : a[i] = << >>
  PROVE  FirstAnswer(a) = << >>
  BY DEF FirstAnswer

(* What the rest of a loop comes to.                                        *)
LEMMA AnswerOrRest ==
  ASSUME NEW n \in Nat \ {0}, NEW a, NEW b, DOMAIN a = 1 .. n, DOMAIN b = 1 .. n - 1,
         \A i \in 1 .. n - 1 : b[i] = a[i + 1]
  PROVE  FirstAnswer(a) = IF a[1] # << >> THEN a[1] ELSE FirstAnswer(b)
<1> DEFINE H == {i \in DOMAIN a : a[i] # << >>}
           J == {i \in DOMAIN b : b[i] # << >>}
<1>1. /\ FirstAnswer(a) = IF H = {} THEN << >> ELSE a[First(H)]
      /\ FirstAnswer(b) = IF J = {} THEN << >> ELSE b[First(J)]
  BY DEF FirstAnswer
<1>2. H \in SUBSET (1 .. n) /\ J \in SUBSET (1 .. n - 1) /\ n - 1 \in Nat
  OBVIOUS
<1>3. \A i \in 1 .. n : i \in H <=> a[i] # << >>
  OBVIOUS
<1>4. \A i \in 1 .. n - 1 : i \in J <=> i + 1 \in H
  OBVIOUS
<1> HIDE DEF H, J
<1>5. H # {} => First(H) \in H /\ \A j \in H : First(H) <= j
  BY <1>2, FirstOf
<1>6. J # {} => First(J) \in J /\ \A j \in J : First(J) <= j
  BY <1>2, FirstOf
<1>7. CASE a[1] # << >>
  <2>1. 1 \in H
    BY <1>3, <1>7
  <2>2. First(H) \in 1 .. n /\ First(H) <= 1
    BY <1>2, <1>5, <2>1
  <2>3. First(H) = 1
    BY <2>2
  <2>4. H # {}
    BY <2>1
  <2>5. QED
    BY <1>1, <1>7, <2>3, <2>4
<1>8. CASE a[1] = << >> /\ J = {}
  <2>1. H = {}
    <3>1. SUFFICES ASSUME NEW i \in H PROVE FALSE
      OBVIOUS
    <3>2. i \in 1 .. n /\ i # 1
      BY <1>2, <1>3, <1>8
    <3>3. i - 1 \in 1 .. n - 1 /\ (i - 1) + 1 = i
      BY <3>2
    <3>4. i - 1 \in J
      BY <1>4, <3>3
    <3>5. QED
      BY <1>8, <3>4
  <2>2. QED
    BY <1>1, <1>8, <2>1
<1>9. CASE a[1] = << >> /\ J # {}
  <2>1. First(J) \in 1 .. n - 1 /\ First(J) + 1 \in H
    BY <1>2, <1>4, <1>6, <1>9
  <2>2. First(H) \in 1 .. n /\ First(H) # 1 /\ First(H) <= First(J) + 1
    BY <1>2, <1>3, <1>5, <1>9, <2>1
  <2>3. First(H) - 1 \in 1 .. n - 1 /\ (First(H) - 1) + 1 = First(H) /\ First(H) \in H
    BY <1>5, <2>1, <2>2
  <2>4. First(H) - 1 \in J
    BY <1>4, <2>3
  <2>5. First(J) <= First(H) - 1
    BY <1>6, <1>9, <2>4
  <2>6. First(H) = First(J) + 1
    BY <2>1, <2>2, <2>5
  <2>7. H # {}
    BY <2>3
  <2>8. QED
    BY <1>1, <1>9, <2>1, <2>6, <2>7
<1>10. QED
  BY <1>7, <1>8, <1>9

-----------------------------------------------------------------------------
(* The search along paths, for an input in and identifiers q.               *)
Node(q) == Catalogs \X {q, [q EXCEPT !.pub = << >>], [q EXCEPT !.sys = << >>]}
Size(q) == Cardinality(Node(q))
Look(in, node) == Lookup(in.graph[node[1]], node[2])

(* What g answers for catalog c, after a path with room for k more.         *)
Try(in, g, k, path, c, q) ==
  IF k = 0 \/ c \in in.missing \/ <<c, q>> \in path THEN << >>
  ELSE g[k - 1][path \cup {<<c, q>>}][<<c, q>>]
Tries(in, g, k, path, todo, q) == [i \in DOMAIN todo |-> Try(in, g, k, path, todo[i], q)]
Said(in, g, k, path, node) ==
  LET o == Look(in, node)
  IN  IF o.kind = "hit" THEN o.uri ELSE FirstAnswer(Tries(in, g, k, path, o.todo, o.query))

Best(in, q, g, n) ==
  g = [k \in 0 .. n |-> [path \in SUBSET Node(q) |-> [node \in Node(q) |->
         Said(in, g, k, path, node)]]]

(* The search is what it says at every node.                                *)
LEMMA BestSays ==
  ASSUME NEW in, NEW q, NEW g, NEW n, Best(in, q, g, n),
         NEW k \in 0 .. n, NEW path \in SUBSET Node(q), NEW node \in Node(q)
  PROVE  g[k][path][node] = Said(in, g, k, path, node)
<1>1. g[k] = [r \in SUBSET Node(q) |-> [v \in Node(q) |-> Said(in, g, k, r, v)]]
  BY DEF Best
<1> HIDE DEF Best
<1>2. QED
  BY <1>1

(* What the search says depends on shorter searches only.                   *)
LEMMA SaidBefore ==
  ASSUME NEW in, NEW g, NEW f, NEW k, k # 0 => f[k - 1] = g[k - 1], NEW path, NEW node
  PROVE  Said(in, f, k, path, node) = Said(in, g, k, path, node)
<1>1. \A c, q : Try(in, f, k, path, c, q) = Try(in, g, k, path, c, q)
  BY DEF Try
<1>2. \A todo, q : Tries(in, f, k, path, todo, q) = Tries(in, g, k, path, todo, q)
  BY <1>1 DEF Tries
<1>3. QED
  BY <1>2 DEF Said

(* There is such a search.                                                  *)
LEMMA BestExists ==
  ASSUME NEW in, NEW q, NEW N \in Nat
  PROVE  \E g : Best(in, q, g, N)
<1> DEFINE T == {n \in 0 .. N : \E g : Best(in, q, g, n)}
           table(g, k) == [path \in SUBSET Node(q) |-> [node \in Node(q) |->
                             Said(in, g, k, path, node)]]
<1>0. \A g, n : Best(in, q, g, n) <=> g = [k \in 0 .. n |-> table(g, k)]
  BY DEF Best
<1>1. \A g, f, k : (k # 0 => f[k - 1] = g[k - 1]) => table(f, k) = table(g, k)
  BY SaidBefore
<1> HIDE DEF table
<1>2. 0 \in T
  <2> DEFINE f == [k \in 0 .. 0 |-> table(<< >>, 0)]
  <2>1. table(f, 0) = table(<< >>, 0)
    BY <1>1
  <2>2. f = [k \in 0 .. 0 |-> table(f, k)]
    BY <2>1
  <2>3. QED
    BY <1>0, <2>2
<1>3. ASSUME NEW n \in 0 .. N - 1, n \in T PROVE n + 1 \in T
  <2>1. PICK g : Best(in, q, g, n)
    BY <1>3
  <2>2. DOMAIN g = 0 .. n /\ \A k \in 0 .. n : g[k] = table(g, k)
    BY <1>0, <2>1
  <2> DEFINE f == [k \in 0 .. n + 1 |-> IF k = n + 1 THEN table(g, n + 1) ELSE g[k]]
  <2>3. /\ n \in Nat /\ f[n + 1] = table(g, n + 1)
        /\ \A k \in 0 .. n : f[k] = g[k]
        /\ f = [k \in 0 .. n + 1 |-> f[k]]
    OBVIOUS
  <2> HIDE DEF f
  <2>4. ASSUME NEW k \in 0 .. n + 1 PROVE f[k] = table(f, k)
    <3>1. k # 0 => k - 1 \in 0 .. n
      BY <2>3
    <3>2. table(f, k) = table(g, k)
      BY <1>1, <2>3, <3>1
    <3>3. CASE k = n + 1
      BY <2>3, <3>2, <3>3
    <3>4. CASE k # n + 1
      <4>1. k \in 0 .. n
        BY <2>3, <3>4
      <4>2. QED
        BY <2>2, <2>3, <3>2, <4>1
    <3>5. QED
      BY <3>3, <3>4
  <2>5. f = [k \in 0 .. n + 1 |-> table(f, k)]
    BY <2>3, <2>4
  <2>6. n + 1 \in 0 .. N
    BY <2>3
  <2>7. QED
    BY <1>0, <2>5, <2>6
<1> HIDE DEF T
<1>4. N \in T
  <2>1. \A n \in 0 .. N : n \in T
    BY <1>2, <1>3, StepByStep
  <2>2. QED
    BY <2>1
<1>5. QED
  BY <1>4 DEF T

(* The model's reference answers what a lookup says, so that it keeps its   *)
(* answers by what catalogs say: the same search, by node.                  *)
Outcomes(in, q) == {Look(in, node) : node \in Node(q)}
Heard(in, b, k, path, o) ==
  IF o.kind = "hit" THEN o.uri
  ELSE FirstAnswer([i \in DOMAIN o.todo |->
         LET to == <<o.todo[i], o.query>>
         IN  IF k = 0 \/ o.todo[i] \in in.missing \/ to \in path THEN << >>
             ELSE b[k - 1][path \cup {to}][Look(in, to)]])
Reference(in, q, b, n) ==
  b = [k \in 0 .. n |-> [path \in SUBSET Node(q) |-> [o \in Outcomes(in, q) |->
         Heard(in, b, k, path, o)]]]
ByNode(in, q, b, n) ==
  [k \in 0 .. n |-> [path \in SUBSET Node(q) |-> [node \in Node(q) |->
     b[k][path][Look(in, node)]]]]

(* The uncached answer is what the search says of the root.                 *)
Chosen(in, q) == CHOOSE b : Reference(in, q, b, Size(q))
Unlimited(in, q) == ByNode(in, q, Chosen(in, q), Size(q))
Answering(in, q) == Unlimited(in, q)[Size(q)][{}][<<Root, q>>]

-----------------------------------------------------------------------------
(***************************************************************************)
(* Lookups: identifiers only lose a part, and answers are not empty.       *)
(***************************************************************************)
(* A request for a URI has no other identifiers.                            *)
Asks(q) == q \in Query /\ (q.uri # << >> => q.pub = << >> /\ q.sys = << >>)

(* What a pass says: a URI, or a loop over other catalogs.                  *)
LEMMA PassSays ==
  ASSUME NEW es, NEW exact, NEW rewrite, NEW delegate, NEW id, NEW sub
  PROVE  LET o == Pass(es, exact, rewrite, delegate, id, sub)
         IN  /\ o.kind = "hit" => o.uri # << >>
             /\ o.kind = "none" => o.uri = << >> /\ o.todo = << >>
             /\ o.kind \in {"delegate", "next"} => o.uri = << >> /\ o.query = sub /\ id # << >>
<1> DEFINE hit == Hit(es, exact, rewrite, id)
           targets == Delegates(es, delegate, id)
           none == << >>
<1>1. Pass(es, exact, rewrite, delegate, id, sub) =
        CASE id = none -> NoMatch
          [] id # none /\ hit # none -> [NoMatch EXCEPT !.kind = "hit", !.uri = hit]
          [] id # none /\ hit = none /\ targets # none ->
               [kind |-> "delegate", uri |-> none, todo |-> targets, query |-> sub]
          [] OTHER -> NoMatch
  BY DEF Pass
<1>2. NoMatch = [kind |-> "none", uri |-> none, todo |-> none, query |-> none]
  BY DEF NoMatch
<1> HIDE DEF hit, targets, none
<1>3. QED
  BY <1>1, <1>2 DEF none

(* What the nextCatalog entries say.                                        *)
LEMMA NextSays ==
  ASSUME NEW es, NEW q
  PROVE  LET o == NextCatalogs(es, q)
         IN  /\ o.kind # "hit"
             /\ o.kind = "none" => o.uri = << >> /\ o.todo = << >>
             /\ o.kind \in {"delegate", "next"} => o.uri = << >> /\ o.query = q
  BY DEF NextCatalogs, NoMatch

(* What a lookup of q says: a loop is over the same identifiers, or without *)
(* the public one if there is a system one, or the other way round.         *)
LEMMA LookupSays ==
  ASSUME NEW es, NEW q
  PROVE  LET o == Lookup(es, q)
         IN  /\ o.kind = "hit" => o.uri # << >>
             /\ o.kind = "none" => o.uri = << >> /\ o.todo = << >>
             /\ o.kind \in {"delegate", "next"} =>
                  /\ o.uri = << >>
                  /\ \/ o.query = q
                     \/ o.query = [q EXCEPT !.pub = << >>] /\ q.sys # << >>
                     \/ o.query = [q EXCEPT !.sys = << >>] /\ q.pub # << >>
<1> DEFINE byURI == Pass(es, "uri", "rewriteURI", "delegateURI", q.uri, q)
           bySystem == Pass(es, "system", "rewriteSystem", "delegateSystem", q.sys,
                            [q EXCEPT !.pub = << >>])
           byPublic == Pass(es, "public", "none", "delegatePublic", q.pub,
                            [q EXCEPT !.sys = << >>])
           byNext == NextCatalogs(es, q)
           Fine(o) == /\ o.kind = "hit" => o.uri # << >>
                      /\ o.kind = "none" => o.uri = << >> /\ o.todo = << >>
                      /\ o.kind \in {"delegate", "next"} =>
                           /\ o.uri = << >>
                           /\ \/ o.query = q
                              \/ o.query = [q EXCEPT !.pub = << >>] /\ q.sys # << >>
                              \/ o.query = [q EXCEPT !.sys = << >>] /\ q.pub # << >>
<1>1. Fine(byURI)
  BY PassSays
<1>2. Fine(bySystem)
  BY PassSays
<1>3. Fine(byPublic)
  BY PassSays
<1>4. Fine(byNext)
  BY NextSays
<1>5. Lookup(es, q) \in {byURI, bySystem, byPublic, byNext}
  BY DEF Lookup
<1> HIDE DEF byURI, bySystem, byPublic, byNext
<1>6. Fine(Lookup(es, q))
  BY <1>1, <1>2, <1>3, <1>4, <1>5
<1>7. QED
  BY <1>6

(* The nodes of the search for q, and where they lead.                      *)
LEMMA NodeType ==
  ASSUME NEW q, Asks(q), input \in Inputs, NEW node \in Node(q)
  PROVE  LET o == Look(input, node)
         IN  /\ o.kind \in {"none", "hit", "delegate", "next"}
             /\ o.kind = "hit" => o.uri # << >>
             /\ o.kind = "none" => o.uri = << >> /\ o.todo = << >>
             /\ o.kind \in {"delegate", "next"} =>
                  /\ o.uri = << >> /\ o \in Frame
                  /\ \A c \in Catalogs : <<c, o.query>> \in Node(q)
<1> DEFINE r == node[2]
           o == Look(input, node)
           o1 == [q EXCEPT !.pub = << >>]
           o2 == [q EXCEPT !.sys = << >>]
<1>1. node[1] \in Catalogs /\ r \in {q, o1, o2} /\ Node(q) = Catalogs \X {q, o1, o2}
  BY DEF Node
<1>2. q \in Query /\ o1 \in Query /\ o2 \in Query
  BY EmptySeq DEF Asks, Query
<1>3. Sensible(o)
  BY <1>1, <1>2, InputEntries, LookupType DEF Look
<1>4. /\ o.kind = "hit" => o.uri # << >>
      /\ o.kind = "none" => o.uri = << >> /\ o.todo = << >>
      /\ o.kind \in {"delegate", "next"} =>
           /\ o.uri = << >>
           /\ \/ o.query = r
              \/ o.query = [r EXCEPT !.pub = << >>] /\ r.sys # << >>
              \/ o.query = [r EXCEPT !.sys = << >>] /\ r.pub # << >>
  BY LookupSays DEF Look
<1>5. [r EXCEPT !.pub = << >>] \in {o1, o2} \/ r.sys = << >>
  BY <1>1, <1>2 DEF Query
<1>6. [r EXCEPT !.sys = << >>] \in {o1, o2} \/ r.pub = << >>
  BY <1>1, <1>2 DEF Query
<1> HIDE DEF r, o, o1, o2
<1>7. o.kind \in {"delegate", "next"} => o.query \in {q, o1, o2}
  BY <1>1, <1>4, <1>5, <1>6
<1>8. QED
  BY <1>1, <1>3, <1>4, <1>7 DEF Sensible, o

(* The key under which a node is remembered tells it from all others.       *)
KeyOf(node) ==
  IF node[2].uri # << >> THEN <<node[1], node[2].uri, << >> >>
  ELSE <<node[1], node[2].pub, node[2].sys>>

(* Different nodes of one search have different keys.                       *)
LEMMA KeysDiffer ==
  ASSUME NEW q, Asks(q), NEW u \in Node(q), NEW v \in Node(q), KeyOf(u) = KeyOf(v)
  PROVE  u = v
<1> DEFINE o1 == [q EXCEPT !.pub = << >>]
           o2 == [q EXCEPT !.sys = << >>]
<1>1. /\ u = <<u[1], u[2]>> /\ v = <<v[1], v[2]>>
      /\ u[2] \in {q, o1, o2} /\ v[2] \in {q, o1, o2}
  BY DEF Node
<1>2. /\ q \in Query
      /\ o1 = [pub |-> << >>, sys |-> q.sys, uri |-> q.uri]
      /\ o2 = [pub |-> q.pub, sys |-> << >>, uri |-> q.uri]
      /\ q = [pub |-> q.pub, sys |-> q.sys, uri |-> q.uri]
  BY DEF Asks, Query
<1> HIDE DEF o1, o2
<1>3. CASE q.uri # << >>
  <2>1. q.pub = << >> /\ q.sys = << >>
    BY <1>3 DEF Asks
  <2>2. o1 = q /\ o2 = q
    BY <1>2, <2>1
  <2>3. u[1] = v[1]
    BY <1>1, <1>3, <2>2 DEF KeyOf
  <2>4. QED
    BY <1>1, <2>2, <2>3
<1>4. CASE q.uri = << >>
  <2>1. u[2].uri = << >> /\ v[2].uri = << >>
    BY <1>1, <1>2, <1>4
  <2>2. u[1] = v[1] /\ u[2].pub = v[2].pub /\ u[2].sys = v[2].sys
    BY <2>1 DEF KeyOf
  <2>3. /\ u[2] = [pub |-> u[2].pub, sys |-> u[2].sys, uri |-> q.uri]
        /\ v[2] = [pub |-> v[2].pub, sys |-> v[2].sys, uri |-> q.uri]
    BY <1>1, <1>2
  <2>4. QED
    BY <1>1, <2>2, <2>3
<1>5. QED
  BY <1>3, <1>4

(* A path without repetitions is no longer than there are nodes.            *)
LEMMA PathFits ==
  ASSUME NEW N, IsFiniteSet(N), NEW n \in Nat, NEW f, \A i \in 1 .. n : f[i] \in N,
         \A i, j \in 1 .. n : f[i] = f[j] => i = j
  PROVE  n <= Cardinality(N)
<1> DEFINE e == [i \in 1 .. n |-> f[i]]
<1>1. e \in Injection(1 .. n, N)
  BY DEF Injection, IsInjective
<1>2. IsFiniteSet(1 .. n) /\ Cardinality(1 .. n) = n
  BY FS_Interval
<1>3. Cardinality(1 .. n) <= Cardinality(N)
  BY <1>1, FS_Injection
<1>4. QED
  BY <1>2, <1>3

(* There are finitely many nodes.                                           *)
LEMMA NodesFinite ==
  ASSUME NEW q PROVE IsFiniteSet(Node(q)) /\ Size(q) \in Nat
<1> DEFINE o1 == [q EXCEPT !.pub = << >>]
           o2 == [q EXCEPT !.sys = << >>]
<1>1. Node(q) = Catalogs \X {q, o1, o2}
  BY DEF Node
<1> HIDE DEF o1, o2
<1>2. {q, o1, o2} = {q} \cup ({o1} \cup {o2})
  OBVIOUS
<1>3. IsFiniteSet({q, o1, o2})
  <2>1. IsFiniteSet({q}) /\ IsFiniteSet({o1}) /\ IsFiniteSet({o2})
    BY FS_Singleton
  <2>2. IsFiniteSet({o1} \cup {o2})
    BY <2>1, FS_Union
  <2>3. IsFiniteSet({q} \cup ({o1} \cup {o2}))
    BY <2>1, <2>2, FS_Union
  <2>4. QED
    BY <1>2, <2>3
<1>4. IsFiniteSet(Node(q))
  BY <1>1, <1>3, ResolveAssumption, FS_Product
<1>5. QED
  BY <1>4, FS_CardinalityType DEF Size

-----------------------------------------------------------------------------
(***************************************************************************)
(* The calls of resolve on the stack and the catalogs that are done with.  *)
(***************************************************************************)
(* The nodes the first n calls have come to; the first is the root's.       *)
Path(p, n) == {p[i] : i \in 2 .. n}

(* All that node leads to is missing, in the cache vis, or still in rest.   *)
Covered(in, node, vis, rest) ==
  LET o == Look(in, node)
  IN  \A i \in DOMAIN o.todo :
        \/ o.todo[i] \in in.missing
        \/ KeyOf(<<o.todo[i], o.query>>) \in vis
        \/ \E l \in DOMAIN rest : rest[l] = o.todo[i]

Either(x, y) == IF x # << >> THEN x ELSE y

(* f is the loop of the call that came to node; with the loops around it,   *)
(* which come to y, it comes to x.                                          *)
Running(in, g, f, node, path, k, vis, x, y) ==
  /\ Look(in, node).kind \in {"delegate", "next"}
  /\ f.kind = Look(in, node).kind /\ f.query = Look(in, node).query
  /\ Covered(in, node, vis, f.todo)
  /\ x = Either(FirstAnswer(Tries(in, g, k, path, f.todo, f.query)), y)

(* A catalog the search has returned from has no answer.                    *)
Finished(in, q, vis, path) ==
  \A v \in Node(q) : KeyOf(v) \in vis /\ v \notin path =>
    Look(in, v).kind # "hit" /\ Covered(in, v, vis, << >>)

(* p[i] is where the i-th call is, and the first i calls come to w[i].      *)
Searching(in, q, g, st, vis, p, w) ==
  /\ Best(in, q, g, Size(q))
  /\ \A j \in 1 .. Len(st) : p[j] \in Node(q)
  /\ p[1] = <<Root, q>>
  /\ \A i, j \in 2 .. Len(st) : p[i] = p[j] => i = j
  /\ \A j \in 2 .. Len(st) : KeyOf(p[j]) \in vis
  /\ \A j \in 1 .. Len(st) :
       Running(in, g, st[j], p[j], Path(p, j), Size(q) - (j - 1), vis, w[j], w[j - 1])
  /\ Finished(in, q, vis, Path(p, Len(st)))
  /\ w[0] = << >> /\ w[Len(st)] = g[Size(q)][{}][<<Root, q>>]

(* The path leaves room: for n calls, and for one more if v is not on it.   *)
LEMMA Room ==
  ASSUME NEW q, NEW n \in Nat \ {0}, NEW p, \A j \in 1 .. n : p[j] \in Node(q),
         \A i, j \in 2 .. n : p[i] = p[j] => i = j
  PROVE  /\ Size(q) \in Nat /\ Size(q) - (n - 1) \in 0 .. Size(q)
         /\ \A v \in Node(q) : v \notin Path(p, n) => Size(q) - (n - 1) # 0
         /\ Path(p, n) \in SUBSET Node(q)
<1>1. IsFiniteSet(Node(q)) /\ Size(q) \in Nat
  BY NodesFinite
<1>2. n - 1 <= Size(q)
  <2> DEFINE f == [i \in 1 .. n - 1 |-> p[i + 1]]
  <2>1. \A i \in 1 .. n - 1 : i + 1 \in 2 .. n /\ f[i] = p[i + 1] /\ f[i] \in Node(q)
    OBVIOUS
  <2> HIDE DEF f
  <2>2. \A i, j \in 1 .. n - 1 : f[i] = f[j] => i = j
    <3>1. SUFFICES ASSUME NEW i \in 1 .. n - 1, NEW j \in 1 .. n - 1, f[i] = f[j] PROVE i = j
      OBVIOUS
    <3>2. p[i + 1] = p[j + 1] /\ i + 1 \in 2 .. n /\ j + 1 \in 2 .. n
      BY <2>1, <3>1
    <3>3. i + 1 = j + 1
      BY <3>2
    <3>4. QED
      BY <3>3
  <2>3. n - 1 \in Nat
    OBVIOUS
  <2>4. n - 1 <= Cardinality(Node(q))
    BY <1>1, <2>1, <2>2, <2>3, PathFits
  <2>5. QED
    BY <2>4 DEF Size
<1>3. ASSUME NEW v \in Node(q), v \notin Path(p, n) PROVE n <= Size(q)
  <2> DEFINE f == [i \in 1 .. n |-> IF i = 1 THEN v ELSE p[i]]
  <2>1. \A i \in 1 .. n : f[i] \in Node(q)
    OBVIOUS
  <2>2. \A i \in 2 .. n : f[i] = p[i] /\ p[i] # v
    BY <1>3 DEF Path
  <2>3. f[1] = v
    OBVIOUS
  <2> HIDE DEF f
  <2>4. \A i, j \in 1 .. n : f[i] = f[j] => i = j
    <3>1. SUFFICES ASSUME NEW i \in 1 .. n, NEW j \in 1 .. n, f[i] = f[j] PROVE i = j
      OBVIOUS
    <3>2. (i = 1 \/ i \in 2 .. n) /\ (j = 1 \/ j \in 2 .. n)
      OBVIOUS
    <3>3. QED
      BY <2>2, <2>3, <3>1, <3>2
  <2>5. n <= Cardinality(Node(q))
    BY <1>1, <2>1, <2>4, PathFits
  <2>6. QED
    BY <2>5 DEF Size
<1>4. Path(p, n) \in SUBSET Node(q)
  BY DEF Path
<1>5. QED
  BY <1>1, <1>2, <1>3, <1>4

(* From a catalog that is done with, the search along paths that avoid the  *)
(* ones it is in finds nothing either.                                      *)
LEMMA FinishedSaysNothing ==
  ASSUME NEW q, Asks(q), input \in Inputs, NEW g, Best(input, q, g, Size(q)),
         NEW vis, NEW path \in SUBSET Node(q), Finished(input, q, vis, path)
  PROVE  \A k \in 0 .. Size(q) : \A r \in SUBSET Node(q) : path \subseteq r =>
           \A v \in Node(q) : KeyOf(v) \in vis /\ v \notin path => g[k][r][v] = << >>
<1> DEFINE Mute(k) == \A r \in SUBSET Node(q) : path \subseteq r =>
             \A v \in Node(q) : KeyOf(v) \in vis /\ v \notin path => g[k][r][v] = << >>
           T == {k \in 0 .. Size(q) : Mute(k)}
<1>1. Size(q) \in Nat
  BY NodesFinite
<1>2. ASSUME NEW k \in 0 .. Size(q), k # 0 => Mute(k - 1) PROVE Mute(k)
  <2>1. SUFFICES ASSUME NEW r \in SUBSET Node(q), path \subseteq r, NEW v \in Node(q),
                        KeyOf(v) \in vis, v \notin path
                 PROVE  g[k][r][v] = << >>
    OBVIOUS
  <2> DEFINE o == Look(input, v)
  <2>2. /\ o.kind \in {"none", "delegate", "next"}
        /\ Covered(input, v, vis, << >>)
        /\ o.kind = "none" => o.todo = << >>
        /\ o.kind \in {"delegate", "next"} =>
             o \in Frame /\ \A c \in Catalogs : <<c, o.query>> \in Node(q)
    BY <2>1, NodeType DEF Finished
  <2>3. g[k][r][v] = FirstAnswer(Tries(input, g, k, r, o.todo, o.query))
    BY <2>2, BestSays DEF Said
  <2>4. ASSUME NEW i \in DOMAIN o.todo
        PROVE  Try(input, g, k, r, o.todo[i], o.query) = << >>
    <3> DEFINE c == o.todo[i]
               to == <<c, o.query>>
    <3>1. o.kind \in {"delegate", "next"}
      BY <2>2
    <3>2. c \in Catalogs /\ to \in Node(q)
      <4>1. o.todo \in Seq(Catalogs)
        BY <2>2, <3>1 DEF Frame
      <4>2. QED
        BY <2>2, <3>1, <4>1, ElementOfSeq
    <3>3. c \in input.missing \/ KeyOf(to) \in vis
      BY <2>2 DEF Covered
    <3> HIDE DEF o, c, to
    <3>4. CASE k = 0 \/ c \in input.missing \/ to \in r
      BY <3>4 DEF Try, c, to
    <3>5. CASE ~ (k = 0 \/ c \in input.missing \/ to \in r)
      <4>1. Mute(k - 1)
        BY <1>2, <3>5
      <4>2. r \cup {to} \in SUBSET Node(q) /\ path \subseteq r \cup {to} /\ to \notin path
        BY <2>1, <3>2, <3>5
      <4>3. g[k - 1][r \cup {to}][to] = << >>
        BY <3>2, <3>3, <3>5, <4>1, <4>2
      <4>4. QED
        BY <3>5, <4>3 DEF Try, c, to
    <3>6. QED
      BY <3>4, <3>5 DEF c
  <2> HIDE DEF o
  <2>5. \A i \in DOMAIN Tries(input, g, k, r, o.todo, o.query) :
          Tries(input, g, k, r, o.todo, o.query)[i] = << >>
    BY <2>4 DEF Tries
  <2>6. QED
    BY <2>3, <2>5, NoAnswer
<1> HIDE DEF Mute
<1>3. 0 \in T
  BY <1>1, <1>2
<1>4. \A k \in 0 .. Size(q) - 1 : k \in T => k + 1 \in T
  <2>1. SUFFICES ASSUME NEW k \in 0 .. Size(q) - 1, Mute(k) PROVE k + 1 \in T
    OBVIOUS
  <2>2. k + 1 \in 0 .. Size(q) /\ (k + 1) - 1 = k
    BY <1>1
  <2>3. QED
    BY <1>2, <2>1, <2>2
<1> HIDE DEF T
<1>5. \A k \in 0 .. Size(q) : k \in T
  BY <1>1, <1>3, <1>4, StepByStep
<1>6. QED
  BY <1>5 DEF T, Mute

(* A loop comes to what its first catalog answers, or to the rest.          *)
LEMMA LoopSays ==
  ASSUME NEW in, NEW g, NEW k, NEW path, NEW q, NEW todo \in Seq(Catalogs), todo # << >>
  PROVE  FirstAnswer(Tries(in, g, k, path, todo, q))
           = Either(Try(in, g, k, path, Head(todo), q),
                    FirstAnswer(Tries(in, g, k, path, Tail(todo), q)))
<1> DEFINE n == Len(todo)
           a == Tries(in, g, k, path, todo, q)
           b == Tries(in, g, k, path, Tail(todo), q)
<1>1. /\ n \in Nat \ {0} /\ DOMAIN todo = 1 .. n /\ Head(todo) = todo[1]
      /\ Tail(todo) \in Seq(Catalogs) /\ Len(Tail(todo)) = n - 1
      /\ DOMAIN Tail(todo) = 1 .. n - 1
      /\ \A i \in 1 .. n - 1 : Tail(todo)[i] = todo[i + 1]
  BY HeadTailProperties, EmptySeq
<1>2. /\ DOMAIN a = 1 .. n /\ a[1] = Try(in, g, k, path, Head(todo), q)
      /\ \A i \in 1 .. n : a[i] = Try(in, g, k, path, todo[i], q)
  BY <1>1 DEF Tries
<1>3. DOMAIN b = 1 .. n - 1 /\ \A i \in 1 .. n - 1 : b[i] = Try(in, g, k, path, todo[i + 1], q)
  BY <1>1 DEF Tries
<1> HIDE DEF n, a, b
<1>4. \A i \in 1 .. n - 1 : b[i] = a[i + 1]
  BY <1>1, <1>2, <1>3
<1>5. /\ n \in Nat \ {0} /\ DOMAIN a = 1 .. n /\ DOMAIN b = 1 .. n - 1
      /\ \A i \in 1 .. n - 1 : b[i] = a[i + 1]
  BY <1>1, <1>2, <1>3, <1>4
<1> HIDE DEF a, b
<1>6. FirstAnswer(a) = IF a[1] # << >> THEN a[1] ELSE FirstAnswer(b)
  BY ONLY <1>5, AnswerOrRest
<1>7. QED
  BY <1>2, <1>6 DEF Either, a, b

(* An empty loop comes to nothing.                                          *)
LEMMA EmptyLoop ==
  ASSUME NEW in, NEW g, NEW k, NEW path, NEW q
  PROVE  FirstAnswer(Tries(in, g, k, path, << >>, q)) = << >>
  BY NoAnswer DEF Tries

(* What the innermost loop is about to try, and how it goes on without it.  *)
Trying(st, n, f, c) ==
  /\ Len(st) = n /\ st[n].todo # << >> /\ c = Head(st[n].todo)
  /\ f.kind = st[n].kind /\ f.query = st[n].query /\ f.todo = Tail(st[n].todo)

(* More in the cache covers no less.                                        *)
LEMMA CoveredGrows ==
  ASSUME NEW in, NEW node, NEW vis, NEW more, vis \subseteq more, NEW rest,
         Covered(in, node, vis, rest)
  PROVE  Covered(in, node, more, rest)
  BY DEF Covered

(* What was left of a loop is its first catalog and the rest.               *)
LEMMA CoveredNext ==
  ASSUME NEW in, NEW node, NEW vis, NEW todo \in Seq(Catalogs), todo # << >>,
         Covered(in, node, vis, todo),
         Head(todo) \in in.missing \/ KeyOf(<<Head(todo), Look(in, node).query>>) \in vis
  PROVE  Covered(in, node, vis, Tail(todo))
<1> DEFINE o == Look(in, node)
<1>1. ASSUME NEW i \in DOMAIN o.todo, NEW l \in DOMAIN todo, todo[l] = o.todo[i], l # 1
      PROVE  \E m \in DOMAIN Tail(todo) : Tail(todo)[m] = o.todo[i]
  <2>1. /\ Len(todo) \in Nat /\ DOMAIN todo = 1 .. Len(todo)
        /\ DOMAIN Tail(todo) = 1 .. Len(todo) - 1
        /\ \A m \in 1 .. Len(todo) - 1 : Tail(todo)[m] = todo[m + 1]
    BY HeadTailProperties, LenProperties
  <2>2. l - 1 \in 1 .. Len(todo) - 1 /\ (l - 1) + 1 = l
    BY <1>1, <2>1
  <2>3. Tail(todo)[l - 1] = o.todo[i]
    BY <1>1, <2>1, <2>2
  <2>4. QED
    BY <2>1, <2>2, <2>3
<1>2. Head(todo) = todo[1]
  BY HeadTailProperties
<1>3. ASSUME NEW i \in DOMAIN o.todo
      PROVE  \/ o.todo[i] \in in.missing
             \/ KeyOf(<<o.todo[i], o.query>>) \in vis
             \/ \E m \in DOMAIN Tail(todo) : Tail(todo)[m] = o.todo[i]
  <2>1. \/ o.todo[i] \in in.missing
        \/ KeyOf(<<o.todo[i], o.query>>) \in vis
        \/ \E l \in DOMAIN todo : todo[l] = o.todo[i]
    BY DEF Covered
  <2>2. CASE \E l \in DOMAIN todo : todo[l] = o.todo[i]
    <3>1. PICK l \in DOMAIN todo : todo[l] = o.todo[i]
      BY <2>2
    <3>2. CASE l = 1
      BY <1>2, <3>1, <3>2
    <3>3. CASE l # 1
      BY <1>1, <3>1, <3>3
    <3>4. QED
      BY <3>2, <3>3
  <2>3. QED
    BY <2>1, <2>2
<1>4. QED
  BY <1>3 DEF Covered

(* A search that is about to try the catalog c, which is the node to.       *)
AtNode(q, g, st, vis, p, w, n, f, c, to) ==
  /\ Asks(q) /\ st \in Seq(Frame) /\ n \in Nat \ {0}
  /\ Searching(input, q, g, st, vis, p, w)
  /\ Trying(st, n, f, c) /\ to = <<c, st[n].query>> /\ to \in Node(q)

(* It goes on with the stack s2 and the cache more.                         *)
Passing(q, g, st, vis, p, w, n, f, c, to, s2, more) ==
  /\ AtNode(q, g, st, vis, p, w, n, f, c, to)
  /\ vis \subseteq more /\ more \subseteq vis \cup {KeyOf(to)}
  /\ more = vis \/ Look(input, to).kind = "none"
  /\ c \in input.missing \/ KeyOf(to) \in more
  /\ Try(input, g, Size(q) - (n - 1), Path(p, n), c, st[n].query) = << >>
  /\ Len(s2) = n /\ s2[n] = f /\ \A j \in 1 .. n - 1 : s2[j] = st[j]

(* The innermost loop passes over a catalog without an answer.              *)
LEMMA PassOver ==
  ASSUME input \in Inputs, NEW q, NEW g, NEW st, NEW vis, NEW p, NEW w, NEW n, NEW f, NEW c,
         NEW to, NEW s2, NEW more, Passing(q, g, st, vis, p, w, n, f, c, to, s2, more)
  PROVE  Searching(input, q, g, s2, more, p, w)
<1>0. /\ Asks(q) /\ st \in Seq(Frame) /\ n \in Nat \ {0}
      /\ Searching(input, q, g, st, vis, p, w)
      /\ Trying(st, n, f, c) /\ to = <<c, st[n].query>> /\ to \in Node(q)
      /\ vis \subseteq more /\ more \subseteq vis \cup {KeyOf(to)}
      /\ more = vis \/ Look(input, to).kind = "none"
      /\ c \in input.missing \/ KeyOf(to) \in more
      /\ Try(input, g, Size(q) - (n - 1), Path(p, n), c, st[n].query) = << >>
      /\ Len(s2) = n /\ s2[n] = f /\ \A j \in 1 .. n - 1 : s2[j] = st[j]
  BY DEF Passing, AtNode
<1> USE <1>0
<1> DEFINE k(j) == Size(q) - (j - 1)
<1>1. /\ Best(input, q, g, Size(q)) /\ Len(st) = n
      /\ \A j \in 1 .. n : p[j] \in Node(q)
      /\ p[1] = <<Root, q>>
      /\ \A i, j \in 2 .. n : p[i] = p[j] => i = j
      /\ \A j \in 2 .. n : KeyOf(p[j]) \in vis
      /\ \A j \in 1 .. n :
           Running(input, g, st[j], p[j], Path(p, j), k(j), vis, w[j], w[j - 1])
      /\ Finished(input, q, vis, Path(p, n))
      /\ w[0] = << >> /\ w[n] = g[Size(q)][{}][<<Root, q>>]
  BY DEF Searching, Trying
<1>2. st[n] \in Frame /\ st[n].todo \in Seq(Catalogs) /\ st[n].todo # << >>
  <2>1. st[n] \in Frame
    BY <1>1, ElementOfSeq
  <2>2. QED
    BY <2>1 DEF Frame, Trying
<1>3. ASSUME NEW j \in 1 .. n - 1
      PROVE  Running(input, g, s2[j], p[j], Path(p, j), k(j), more, w[j], w[j - 1])
  <2>1. j \in 1 .. n /\ s2[j] = st[j]
    OBVIOUS
  <2>2. Running(input, g, st[j], p[j], Path(p, j), k(j), vis, w[j], w[j - 1])
    BY <1>1, <2>1
  <2>3. QED
    BY <2>1, <2>2, CoveredGrows DEF Running
<1>4. Running(input, g, s2[n], p[n], Path(p, n), k(n), more, w[n], w[n - 1])
  <2>1. Running(input, g, st[n], p[n], Path(p, n), k(n), vis, w[n], w[n - 1])
    BY <1>1
  <2>2. /\ f.kind = st[n].kind /\ f.query = st[n].query /\ f.todo = Tail(st[n].todo)
        /\ c = Head(st[n].todo)
    BY DEF Trying
  <2>3. Covered(input, p[n], more, f.todo)
    <3>1. Covered(input, p[n], more, st[n].todo) /\ st[n].query = Look(input, p[n]).query
      BY <2>1, CoveredGrows DEF Running
    <3>2. c \in input.missing \/ KeyOf(<<c, Look(input, p[n]).query>>) \in more
      BY <3>1
    <3> DEFINE todo == st[n].todo
    <3>3. /\ todo \in Seq(Catalogs) /\ todo # << >> /\ Covered(input, p[n], more, todo)
          /\ Head(todo) \in input.missing \/ KeyOf(<<Head(todo), Look(input, p[n]).query>>) \in more
          /\ f.todo = Tail(todo)
      BY <1>2, <2>2, <3>1, <3>2
    <3> HIDE DEF todo
    <3>4. Covered(input, p[n], more, Tail(todo))
      BY <3>3, CoveredNext, Zenon
    <3>5. QED
      BY <3>3, <3>4
  <2>4. FirstAnswer(Tries(input, g, k(n), Path(p, n), st[n].todo, st[n].query))
          = FirstAnswer(Tries(input, g, k(n), Path(p, n), f.todo, f.query))
    <3>1. Either(<< >>, FirstAnswer(Tries(input, g, k(n), Path(p, n), f.todo, f.query)))
            = FirstAnswer(Tries(input, g, k(n), Path(p, n), f.todo, f.query))
      BY DEF Either
    <3>2. Try(input, g, k(n), Path(p, n), Head(st[n].todo), st[n].query) = << >>
      BY <2>2
    <3> HIDE DEF k
    <3>3. QED
      BY <1>2, <2>2, <3>1, <3>2, LoopSays
  <2> HIDE DEF k
  <2>5. QED
    BY <2>1, <2>2, <2>3, <2>4 DEF Running
<1>5. Finished(input, q, more, Path(p, n))
  <2>1. SUFFICES ASSUME NEW v \in Node(q), KeyOf(v) \in more, v \notin Path(p, n)
                 PROVE  Look(input, v).kind # "hit" /\ Covered(input, v, more, << >>)
    BY DEF Finished
  <2>2. CASE KeyOf(v) \in vis
    BY <1>1, <2>1, <2>2, CoveredGrows DEF Finished
  <2>3. CASE KeyOf(v) \notin vis
    <3>1. v = to
      BY <2>1, <2>3, KeysDiffer
    <3>2. Look(input, v).kind = "none"
      BY <2>1, <2>3, <3>1
    <3>3. Look(input, v).todo = << >>
      BY <3>2, NodeType
    <3>4. QED
      BY <3>2, <3>3 DEF Covered
  <2>4. QED
    BY <2>2, <2>3
<1> HIDE DEF k
<1>6. ASSUME NEW j \in 1 .. n
      PROVE  Running(input, g, s2[j], p[j], Path(p, j), k(j), more, w[j], w[j - 1])
  <2>1. j = n \/ j \in 1 .. n - 1
    OBVIOUS
  <2>2. QED
    BY <1>3, <1>4, <2>1
<1>7. QED
  BY <1>1, <1>5, <1>6 DEF Searching, k

(* A catalog that is not in the cache is searched after the path.           *)
LEMMA TryFresh ==
  ASSUME NEW q, NEW g, NEW st, NEW vis, NEW p, NEW w, NEW n, NEW f, NEW c, NEW to,
         AtNode(q, g, st, vis, p, w, n, f, c, to),
         c \notin input.missing, KeyOf(to) \notin vis
  PROVE  /\ to \notin Path(p, n)
         /\ Size(q) - n \in 0 .. Size(q) /\ Path(p, n) \cup {to} \in SUBSET Node(q)
         /\ Try(input, g, Size(q) - (n - 1), Path(p, n), c, st[n].query)
              = Said(input, g, Size(q) - n, Path(p, n) \cup {to}, to)
<1> DEFINE r == st[n].query
<1>0. /\ Searching(input, q, g, st, vis, p, w) /\ n \in Nat \ {0} /\ Len(st) = n
      /\ to = <<c, r>> /\ to \in Node(q)
  BY DEF AtNode, Trying
<1> USE <1>0
<1> HIDE DEF r
<1>1. /\ Best(input, q, g, Size(q))
      /\ \A j \in 1 .. n : p[j] \in Node(q)
      /\ \A i, j \in 2 .. n : p[i] = p[j] => i = j
      /\ \A j \in 2 .. n : KeyOf(p[j]) \in vis
  BY DEF Searching
<1>2. to \notin Path(p, n)
  BY <1>1 DEF Path
<1>3. /\ Size(q) \in Nat /\ Size(q) - (n - 1) \in 0 .. Size(q)
      /\ Size(q) - (n - 1) # 0 /\ Path(p, n) \in SUBSET Node(q)
  BY <1>1, <1>2, Room
<1> DEFINE R == Path(p, n) \cup {to}
<1>4. /\ Size(q) - n \in 0 .. Size(q) /\ (Size(q) - (n - 1)) - 1 = Size(q) - n
      /\ R \in SUBSET Node(q)
  BY <1>3
<1>5. Try(input, g, Size(q) - (n - 1), Path(p, n), c, r) = g[Size(q) - n][R][to]
  BY <1>2, <1>3, <1>4 DEF Try
<1> HIDE DEF R
<1>6. g[Size(q) - n][R][to] = Said(input, g, Size(q) - n, R, to)
  BY <1>1, <1>4, BestSays
<1>7. QED
  BY <1>2, <1>4, <1>5, <1>6 DEF R, r

(* The calls come to what the innermost loop tries next, or to the rest.    *)
LEMMA TopSays ==
  ASSUME NEW q, NEW g, NEW st \in Seq(Frame), NEW vis, NEW p, NEW w,
         Searching(input, q, g, st, vis, p, w),
         NEW n \in Nat \ {0}, NEW f, NEW c, Trying(st, n, f, c)
  PROVE  w[n] = Either(Either(Try(input, g, Size(q) - (n - 1), Path(p, n), c, st[n].query),
                              FirstAnswer(Tries(input, g, Size(q) - (n - 1), Path(p, n),
                                                f.todo, f.query))),
                       w[n - 1])
<1> DEFINE k == Size(q) - (n - 1)
           todo == st[n].todo
<1>1. Running(input, g, st[n], p[n], Path(p, n), k, vis, w[n], w[n - 1])
  BY DEF Searching, Trying
<1>2. /\ todo \in Seq(Catalogs) /\ todo # << >> /\ c = Head(todo)
      /\ f.query = st[n].query /\ f.todo = Tail(todo)
  <2>1. st[n] \in Frame
    BY ElementOfSeq DEF Trying
  <2>2. QED
    BY <2>1 DEF Frame, Trying
<1>3. w[n] = Either(FirstAnswer(Tries(input, g, k, Path(p, n), todo, st[n].query)), w[n - 1])
  BY <1>1 DEF Running
<1> HIDE DEF k, todo
<1>4. FirstAnswer(Tries(input, g, k, Path(p, n), todo, st[n].query))
        = Either(Try(input, g, k, Path(p, n), Head(todo), st[n].query),
                 FirstAnswer(Tries(input, g, k, Path(p, n), Tail(todo), st[n].query)))
  BY <1>2, LoopSays
<1>5. QED
  BY <1>2, <1>3, <1>4 DEF k

(* An answer of the catalog that is tried next is the answer of all calls.  *)
LEMMA HitSays ==
  ASSUME input \in Inputs, NEW q, NEW g, NEW st, NEW vis, NEW p, NEW w, NEW n, NEW f, NEW c,
         NEW to, AtNode(q, g, st, vis, p, w, n, f, c, to),
         c \notin input.missing, KeyOf(to) \notin vis, Look(input, to).kind = "hit"
  PROVE  w[n] = Look(input, to).uri
<1>0. /\ Asks(q) /\ st \in Seq(Frame) /\ n \in Nat \ {0}
      /\ Searching(input, q, g, st, vis, p, w)
      /\ Trying(st, n, f, c) /\ to = <<c, st[n].query>> /\ to \in Node(q)
  BY DEF AtNode
<1> USE <1>0
<1> DEFINE t == Try(input, g, Size(q) - (n - 1), Path(p, n), c, st[n].query)
<1>1. t = Said(input, g, Size(q) - n, Path(p, n) \cup {to}, to)
  BY TryFresh
<1>2. t = Look(input, to).uri
  BY <1>1 DEF Said
<1>3. Look(input, to).uri # << >>
  BY NodeType
<1> HIDE DEF t
<1>4. w[n] = Either(Either(t, FirstAnswer(Tries(input, g, Size(q) - (n - 1), Path(p, n),
                                                f.todo, f.query))), w[n - 1])
  BY TopSays DEF t
<1>5. QED
  BY <1>2, <1>3, <1>4 DEF Either

(* The search goes on in the catalog c.                                     *)
Descending(q, g, st, vis, p, w, n, f, c, to, s2, more) ==
  /\ AtNode(q, g, st, vis, p, w, n, f, c, to)
  /\ c \notin input.missing /\ KeyOf(to) \notin vis
  /\ Look(input, to).kind \in {"delegate", "next"}
  /\ more = vis \cup {KeyOf(to)}
  /\ Len(s2) = n + 1 /\ s2[n] = f /\ s2[n + 1] = Look(input, to)
  /\ \A j \in 1 .. n - 1 : s2[j] = st[j]

(* The innermost loop calls resolve on a catalog that loops itself.         *)
LEMMA CallDeeper ==
  ASSUME input \in Inputs, NEW q, NEW g, NEW st, NEW vis, NEW p, NEW w, NEW n, NEW f, NEW c,
         NEW to, NEW s2, NEW more, Descending(q, g, st, vis, p, w, n, f, c, to, s2, more)
  PROVE  \E p2, w2 : Searching(input, q, g, s2, more, p2, w2)
<1>0. /\ Asks(q) /\ st \in Seq(Frame) /\ n \in Nat \ {0}
      /\ AtNode(q, g, st, vis, p, w, n, f, c, to)
      /\ Searching(input, q, g, st, vis, p, w)
      /\ Trying(st, n, f, c) /\ to = <<c, st[n].query>> /\ to \in Node(q)
      /\ c \notin input.missing /\ KeyOf(to) \notin vis
      /\ Look(input, to).kind \in {"delegate", "next"}
      /\ more = vis \cup {KeyOf(to)}
      /\ Len(s2) = n + 1 /\ s2[n] = f /\ s2[n + 1] = Look(input, to)
      /\ \A j \in 1 .. n - 1 : s2[j] = st[j]
  BY DEF Descending, AtNode
<1> USE <1>0
<1> DEFINE k(j) == Size(q) - (j - 1)
           o == Look(input, to)
           x == Either(FirstAnswer(Tries(input, g, k(n), Path(p, n), f.todo, f.query)), w[n - 1])
           p2 == [j \in 1 .. n + 1 |-> IF j = n + 1 THEN to ELSE p[j]]
           w2 == [j \in 0 .. n + 1 |-> IF j = n + 1 THEN w[n] ELSE IF j = n THEN x ELSE w[j]]
<1>1. /\ Best(input, q, g, Size(q)) /\ Len(st) = n
      /\ \A j \in 1 .. n : p[j] \in Node(q)
      /\ p[1] = <<Root, q>>
      /\ \A i, j \in 2 .. n : p[i] = p[j] => i = j
      /\ \A j \in 2 .. n : KeyOf(p[j]) \in vis
      /\ \A j \in 1 .. n :
           Running(input, g, st[j], p[j], Path(p, j), k(j), vis, w[j], w[j - 1])
      /\ Finished(input, q, vis, Path(p, n))
      /\ w[0] = << >> /\ w[n] = g[Size(q)][{}][<<Root, q>>]
  BY DEF Searching, Trying
<1>2. /\ p2[n + 1] = to /\ \A j \in 1 .. n : p2[j] = p[j]
      /\ w2[n + 1] = w[n] /\ w2[n] = x /\ \A j \in 0 .. n - 1 : w2[j] = w[j]
  <2> HIDE DEF x
  <2>1. QED
    OBVIOUS
<1> HIDE DEF p2, w2, x
<1>3. \A j \in 1 .. n : Path(p2, j) = Path(p, j)
  <2>1. SUFFICES ASSUME NEW j \in 1 .. n PROVE Path(p2, j) = Path(p, j)
    OBVIOUS
  <2>2. \A i \in 2 .. j : i \in 1 .. n
    OBVIOUS
  <2>3. \A i \in 2 .. j : p2[i] = p[i]
    BY <1>2, <2>2
  <2>4. QED
    BY <2>3 DEF Path
<1>4. Path(p2, n + 1) = Path(p, n) \cup {to}
  <2>1. 2 .. n + 1 = (2 .. n) \cup {n + 1}
    OBVIOUS
  <2>2. \A i \in 2 .. n : i \in 1 .. n
    OBVIOUS
  <2>3. p2[n + 1] = to /\ \A i \in 2 .. n : p2[i] = p[i]
    BY <1>2, <2>2
  <2>4. \A y : y \in Path(p, n) <=> \E i \in 2 .. n : y = p2[i]
    BY <2>3 DEF Path
  <2>5. \A y : y \in Path(p2, n + 1) <=> \E i \in (2 .. n) \cup {n + 1} : y = p2[i]
    BY <2>1 DEF Path
  <2>6. QED
    BY <2>3, <2>4, <2>5
<1>5. to \notin Path(p, n)
  BY <1>1 DEF Path
<1>6. \A i, j \in 2 .. n + 1 : p2[i] = p2[j] => i = j
  <2>1. SUFFICES ASSUME NEW i \in 2 .. n + 1, NEW j \in 2 .. n + 1, p2[i] = p2[j] PROVE i = j
    OBVIOUS
  <2>2. \A m \in 2 .. n : p[m] # to
    BY <1>5 DEF Path
  <2>3. (i = n + 1 \/ i \in (2 .. n) \cap (1 .. n)) /\ (j = n + 1 \/ j \in (2 .. n) \cap (1 .. n))
    OBVIOUS
  <2>4. \A m \in (2 .. n) \cap (1 .. n) : p2[m] = p[m] /\ p2[m] # to
    BY <1>2, <2>2
  <2>5. CASE i = n + 1
    BY <1>2, <2>1, <2>3, <2>4, <2>5
  <2>6. CASE j = n + 1
    BY <1>2, <2>1, <2>3, <2>4, <2>6
  <2>7. CASE i \in (2 .. n) \cap (1 .. n) /\ j \in (2 .. n) \cap (1 .. n)
    <3>1. i \in 2 .. n /\ j \in 2 .. n /\ p[i] = p[j]
      BY <2>1, <2>4, <2>7
    <3>2. QED
      BY <1>1, <3>1
  <2>8. QED
    BY <2>3, <2>5, <2>6, <2>7
<1>7. ASSUME NEW j \in 2 .. n + 1 PROVE KeyOf(p2[j]) \in more
  <2>1. j = n + 1 \/ j \in (2 .. n) \cap (1 .. n)
    OBVIOUS
  <2>2. QED
    BY <1>1, <1>2, <2>1
<1>8. ASSUME NEW j \in 1 .. n + 1 PROVE p2[j] \in Node(q)
  <2>1. j = n + 1 \/ j \in 1 .. n
    OBVIOUS
  <2>2. QED
    BY <1>1, <1>2, <2>1
<1>9. ASSUME NEW j \in 1 .. n - 1
      PROVE  Running(input, g, s2[j], p2[j], Path(p2, j), k(j), more, w2[j], w2[j - 1])
  <2>1. /\ j \in 1 .. n /\ s2[j] = st[j] /\ j \in 0 .. n - 1 /\ j - 1 \in 0 .. n - 1
    OBVIOUS
  <2>2. Running(input, g, st[j], p[j], Path(p, j), k(j), vis, w[j], w[j - 1])
    BY <1>1, <2>1
  <2>3. Running(input, g, s2[j], p2[j], Path(p2, j), k(j), vis, w2[j], w2[j - 1])
    BY <1>2, <1>3, <2>1, <2>2
  <2>4. QED
    BY <2>3, CoveredGrows DEF Running
<1>10. Running(input, g, s2[n], p2[n], Path(p2, n), k(n), more, w2[n], w2[n - 1])
  <2>1. Running(input, g, st[n], p[n], Path(p, n), k(n), vis, w[n], w[n - 1])
    BY <1>1
  <2> DEFINE todo == st[n].todo
  <2>2. /\ f.kind = st[n].kind /\ f.query = st[n].query /\ f.todo = Tail(todo)
        /\ c = Head(todo) /\ todo # << >> /\ todo \in Seq(Catalogs)
    <3>1. st[n] \in Frame
      BY <1>1, ElementOfSeq
    <3>2. QED
      BY <3>1 DEF Frame, Trying
  <2>3. /\ Covered(input, p[n], more, todo)
        /\ Head(todo) \in input.missing \/ KeyOf(<<Head(todo), Look(input, p[n]).query>>) \in more
    BY <2>1, <2>2, CoveredGrows DEF Running
  <2> HIDE DEF todo
  <2>4. Covered(input, p[n], more, Tail(todo))
    BY <2>2, <2>3, CoveredNext, Zenon
  <2>5. w2[n] = Either(FirstAnswer(Tries(input, g, k(n), Path(p, n), f.todo, f.query)), w2[n - 1])
    <3>1. n - 1 \in 0 .. n - 1
      OBVIOUS
    <3>2. QED
      BY <1>2, <3>1 DEF x
  <2>6. n \in 1 .. n
    OBVIOUS
  <2> HIDE DEF k
  <2>7. Look(input, p[n]).kind \in {"delegate", "next"}
        /\ f.kind = Look(input, p[n]).kind /\ f.query = Look(input, p[n]).query
    BY <2>1, <2>2 DEF Running
  <2>8. p2[n] = p[n] /\ Path(p2, n) = Path(p, n)
    BY <1>2, <1>3, <2>6
  <2>9. QED
    BY <2>2, <2>4, <2>5, <2>7, <2>8 DEF Running
<1>11. Running(input, g, s2[n + 1], p2[n + 1], Path(p2, n + 1), k(n + 1), more, w2[n + 1], w2[n])
  <2> DEFINE t == Try(input, g, Size(q) - (n - 1), Path(p, n), c, st[n].query)
  <2>1. t = Said(input, g, Size(q) - n, Path(p, n) \cup {to}, to)
    <3>1. /\ AtNode(q, g, st, vis, p, w, n, f, c, to)
          /\ c \notin input.missing /\ KeyOf(to) \notin vis
      OBVIOUS
    <3>2. QED
      BY ONLY <3>1, TryFresh
  <2>2. k(n + 1) = Size(q) - n
    <3>1. Size(q) \in Nat
      BY NodesFinite
    <3>2. QED
      BY <3>1
  <2>3. t = FirstAnswer(Tries(input, g, k(n + 1), Path(p2, n + 1), o.todo, o.query))
    BY <1>4, <2>1, <2>2 DEF Said
  <2>4. w[n] = Either(Either(t, FirstAnswer(Tries(input, g, k(n), Path(p, n), f.todo, f.query))),
                      w[n - 1])
    BY TopSays
  <2> HIDE DEF t, k
  <2>5. w[n] = Either(t, x)
    BY <2>4 DEF Either, x
  <2>6. Covered(input, to, more, o.todo)
    BY DEF Covered
  <2>7. QED
    BY <1>2, <2>3, <2>5, <2>6 DEF Running
<1>12. ASSUME NEW j \in 1 .. n + 1
       PROVE  Running(input, g, s2[j], p2[j], Path(p2, j), k(j), more, w2[j], w2[j - 1])
  <2>1. j \in 1 .. n - 1 \/ j = n \/ j = n + 1
    OBVIOUS
  <2>2. (n + 1) - 1 = n
    OBVIOUS
  <2> HIDE DEF k
  <2>3. QED
    BY <1>9, <1>10, <1>11, <2>1, <2>2
<1>13. Finished(input, q, more, Path(p2, n + 1))
  <2>1. SUFFICES ASSUME NEW v \in Node(q), KeyOf(v) \in more, v \notin Path(p, n) \cup {to}
                 PROVE  Look(input, v).kind # "hit" /\ Covered(input, v, more, << >>)
    BY <1>4 DEF Finished
  <2>2. KeyOf(v) \in vis
    BY <2>1, KeysDiffer
  <2>3. QED
    BY <1>1, <2>1, <2>2, CoveredGrows DEF Finished
<1>14. p2[1] = <<Root, q>> /\ w2[0] = << >> /\ w2[n + 1] = g[Size(q)][{}][<<Root, q>>]
  <2>1. 1 \in 1 .. n /\ 0 \in 0 .. n - 1
    OBVIOUS
  <2>2. QED
    BY <1>1, <1>2, <2>1
<1>15. Searching(input, q, g, s2, more, p2, w2)
  BY <1>1, <1>6, <1>7, <1>8, <1>12, <1>13, <1>14 DEF Searching
<1>16. QED
  BY <1>15

(* The innermost loop is at its end, the stack is s2 without it.            *)
Returning(q, g, st, vis, p, w, n, s2) ==
  /\ Searching(input, q, g, st, vis, p, w)
  /\ n \in Nat \ {0} /\ Len(st) = n /\ st[n].todo = << >>
  /\ Len(s2) = n - 1 /\ \A j \in 1 .. n - 1 : s2[j] = st[j]

(* A loop that is at its end returns to the one around it.                  *)
LEMMA CallReturns ==
  ASSUME NEW q, NEW g, NEW st, NEW vis, NEW p, NEW w, NEW n, NEW s2,
         Returning(q, g, st, vis, p, w, n, s2)
  PROVE  /\ w[n] = w[n - 1]
         /\ n # 1 => Searching(input, q, g, s2, vis, p, w)
<1>0. /\ Searching(input, q, g, st, vis, p, w)
      /\ n \in Nat \ {0} /\ Len(st) = n /\ st[n].todo = << >>
      /\ Len(s2) = n - 1 /\ \A j \in 1 .. n - 1 : s2[j] = st[j]
  BY DEF Returning
<1> USE <1>0
<1> DEFINE k(j) == Size(q) - (j - 1)
<1>1. /\ Best(input, q, g, Size(q)) /\ Len(st) = n
      /\ \A j \in 1 .. n : p[j] \in Node(q)
      /\ p[1] = <<Root, q>>
      /\ \A i, j \in 2 .. n : p[i] = p[j] => i = j
      /\ \A j \in 2 .. n : KeyOf(p[j]) \in vis
      /\ \A j \in 1 .. n :
           Running(input, g, st[j], p[j], Path(p, j), k(j), vis, w[j], w[j - 1])
      /\ Finished(input, q, vis, Path(p, n))
      /\ w[0] = << >> /\ w[n] = g[Size(q)][{}][<<Root, q>>]
  BY DEF Searching
<1>2. Running(input, g, st[n], p[n], Path(p, n), k(n), vis, w[n], w[n - 1])
  BY <1>1
<1> HIDE DEF k
<1>3. w[n] = w[n - 1]
  BY <1>2, EmptyLoop DEF Running, Either
<1>4. ASSUME n # 1 PROVE Finished(input, q, vis, Path(p, n - 1))
  <2>1. SUFFICES ASSUME NEW v \in Node(q), KeyOf(v) \in vis, v \notin Path(p, n - 1)
                 PROVE  Look(input, v).kind # "hit" /\ Covered(input, v, vis, << >>)
    BY DEF Finished
  <2>2. CASE v = p[n]
    BY <1>2, <2>2 DEF Running
  <2>3. CASE v # p[n]
    <3>1. \A i \in 2 .. n : i = n \/ i \in 2 .. n - 1
      OBVIOUS
    <3>2. v \notin Path(p, n)
      BY <2>1, <2>3, <3>1 DEF Path
    <3>3. QED
      BY <1>1, <2>1, <3>2 DEF Finished
  <2>4. QED
    BY <2>2, <2>3
<1>5. /\ \A j \in 1 .. n - 1 : j \in 1 .. n
      /\ \A j \in 2 .. n - 1 : j \in 2 .. n
  OBVIOUS
<1>6. ASSUME n # 1 PROVE Searching(input, q, g, s2, vis, p, w)
  <2>1. /\ \A j \in 1 .. n - 1 : p[j] \in Node(q)
        /\ \A i, j \in 2 .. n - 1 : p[i] = p[j] => i = j
        /\ \A j \in 2 .. n - 1 : KeyOf(p[j]) \in vis
        /\ \A j \in 1 .. n - 1 :
             Running(input, g, s2[j], p[j], Path(p, j), k(j), vis, w[j], w[j - 1])
    BY <1>1, <1>5
  <2>2. w[n - 1] = g[Size(q)][{}][<<Root, q>>]
    BY <1>1, <1>3
  <2>3. QED
    BY <1>1, <1>4, <1>6, <2>1, <2>2 DEF Searching, k
<1>7. QED
  BY <1>3, <1>6

(* The first loop is over what the root says.                               *)
LEMMA SearchBegins ==
  ASSUME NEW q, Asks(q), input \in Inputs, NEW g, Best(input, q, g, Size(q)),
         Look(input, <<Root, q>>).kind \in {"delegate", "next"}
  PROVE  \E p, w : Searching(input, q, g, <<Look(input, <<Root, q>>)>>, {}, p, w)
<1> DEFINE root == <<Root, q>>
           o == Look(input, root)
           goal == g[Size(q)][{}][root]
           p == [j \in 1 .. 1 |-> root]
           w == [j \in 0 .. 1 |-> IF j = 0 THEN << >> ELSE goal]
<1>1. root \in Node(q) /\ Size(q) \in 0 .. Size(q) /\ {} \in SUBSET Node(q)
  <2>1. Size(q) \in Nat
    BY NodesFinite
  <2>2. root \in Node(q)
    BY ResolveAssumption DEF Node
  <2>3. QED
    BY <2>1, <2>2
<1>2. goal = FirstAnswer(Tries(input, g, Size(q), {}, o.todo, o.query))
  BY <1>1, BestSays DEF Said
<1>3. goal = Either(FirstAnswer(Tries(input, g, Size(q), {}, o.todo, o.query)), << >>)
  BY <1>2 DEF Either
<1>4. p[1] = root /\ w[0] = << >> /\ w[1] = goal
  <2> HIDE DEF goal, root
  <2>1. QED
    OBVIOUS
<1>5. Path(p, 1) = {}
  BY DEF Path
<1>6. Size(q) - (1 - 1) = Size(q) /\ 1 - 1 = 0
  BY NodesFinite
<1>7. Covered(input, root, {}, o.todo)
  BY DEF Covered
<1> HIDE DEF p, w, goal
<1>8. Running(input, g, o, p[1], Path(p, 1), Size(q) - (1 - 1), {}, w[1], w[1 - 1])
  <2>1. Running(input, g, o, root, {}, Size(q), {}, goal, << >>)
    BY <1>3, <1>7 DEF Running
  <2> HIDE DEF o, root
  <2>2. QED
    BY <1>4, <1>5, <1>6, <2>1
<1>9. Finished(input, q, {}, Path(p, 1))
  BY DEF Finished
<1>10. Searching(input, q, g, <<o>>, {}, p, w)
  <2> HIDE DEF o
  <2>1. Len(<<o>>) = 1 /\ <<o>>[1] = o /\ \A j \in 1 .. 1 : j = 1 /\ \A i \in 2 .. 1 : FALSE
    OBVIOUS
  <2> DEFINE st == <<o>>
  <2>2. /\ \A j \in 1 .. Len(st) : p[j] \in Node(q)
        /\ p[1] = <<Root, q>>
        /\ \A i, j \in 2 .. Len(st) : p[i] = p[j] => i = j
        /\ \A j \in 2 .. Len(st) : KeyOf(p[j]) \in {}
    BY <1>1, <1>4, <2>1
  <2>3. ASSUME NEW j \in 1 .. Len(st)
        PROVE  Running(input, g, st[j], p[j], Path(p, j), Size(q) - (j - 1), {}, w[j], w[j - 1])
    <3>1. j = 1 /\ st[j] = o
      BY <2>1
    <3>2. QED
      BY <1>8, <3>1
  <2>4. Finished(input, q, {}, Path(p, Len(st))) /\ w[Len(st)] = g[Size(q)][{}][<<Root, q>>]
    BY <1>4, <1>9, <2>1 DEF goal
  <2> HIDE DEF st
  <2>5. Searching(input, q, g, st, {}, p, w)
    BY <1>4, <2>2, <2>3, <2>4 DEF Searching
  <2>6. QED
    BY <2>5 DEF st
<1>11. QED
  BY <1>10

-----------------------------------------------------------------------------
(***************************************************************************)
(* The inductive invariant of a search that no limit has cut.              *)
(***************************************************************************)
Faithful(in, q, r) ==
  r = [uri |-> Answering(in, q),
       broke |-> Answering(in, q) = << >> /\ Look(in, <<Root, q>>).kind = "delegate"]

FaithInv ==
  /\ query.uri # << >> => query.pub = << >> /\ query.sys = << >>
  /\ phase # "done" => result = [uri |-> << >>, broke |-> FALSE]
  /\ phase = "top" => visited = {}
  /\ phase = "search" /\ ~ truncated =>
       \E p, w : Searching(input, query, Unlimited(input, query), stack, visited, p, w)
  /\ phase = "done" /\ ~ truncated => Faithful(input, query, result)

(* The searches g, by node, and b, by what catalogs say, agree.             *)
Agree(in, q, n, g, b) ==
  \A k \in 0 .. n : \A path \in SUBSET Node(q) : \A node \in Node(q) :
    g[k][path][node] = b[k][path][Look(in, node)]

(* They say the same at a node if they agree.                               *)
LEMMA SameSearch ==
  ASSUME NEW q, Asks(q), input \in Inputs, NEW n \in Nat, NEW g, NEW b, Agree(input, q, n, g, b),
         NEW k \in 0 .. n, NEW path \in SUBSET Node(q), NEW node \in Node(q)
  PROVE  Heard(input, b, k, path, Look(input, node)) = Said(input, g, k, path, node)
<1> DEFINE o == Look(input, node)
           u == [i \in DOMAIN o.todo |->
                   LET to == <<o.todo[i], o.query>>
                   IN  IF k = 0 \/ o.todo[i] \in input.missing \/ to \in path THEN << >>
                       ELSE b[k - 1][path \cup {to}][Look(input, to)]]
<1>1. /\ o.kind \in {"none", "hit", "delegate", "next"}
      /\ o.kind = "none" => o.todo = << >>
      /\ o.kind \in {"delegate", "next"} => o \in Frame /\ \A c \in Catalogs : <<c, o.query>> \in Node(q)
  BY NodeType
<1>2. ASSUME o.kind # "hit", NEW i \in DOMAIN o.todo
      PROVE  u[i] = Try(input, g, k, path, o.todo[i], o.query)
  <2> DEFINE c == o.todo[i]
             to == <<c, o.query>>
  <2>1. o.kind \in {"delegate", "next"}
    <3>1. o.todo # << >>
      BY <1>2, EmptySeq
    <3>2. QED
      BY <1>1, <1>2, <3>1
  <2>2. c \in Catalogs
    <3>1. o.todo \in Seq(Catalogs)
      BY <1>1, <2>1 DEF Frame
    <3> HIDE DEF o
    <3>2. i \in 1 .. Len(o.todo)
      BY <1>2, <3>1
    <3>3. QED
      BY <3>1, <3>2, ElementOfSeq
  <2>3. to \in Node(q) /\ path \cup {to} \in SUBSET Node(q)
    BY <1>1, <2>1, <2>2
  <2>4. u[i] = IF k = 0 \/ c \in input.missing \/ to \in path THEN << >>
               ELSE b[k - 1][path \cup {to}][Look(input, to)]
    BY <1>2
  <2> HIDE DEF u
  <2>5. k # 0 => g[k - 1][path \cup {to}][to] = b[k - 1][path \cup {to}][Look(input, to)]
    <3> HIDE DEF to
    <3>1. k # 0 => k - 1 \in 0 .. n
      OBVIOUS
    <3>2. QED
      BY <2>3, <3>1 DEF Agree
  <2>6. QED
    BY <2>4, <2>5 DEF Try
<1>3. o.kind # "hit" => u = Tries(input, g, k, path, o.todo, o.query)
  <2> DEFINE v == [i \in DOMAIN o.todo |-> Try(input, g, k, path, o.todo[i], o.query)]
  <2>1. u = [i \in DOMAIN o.todo |-> u[i]]
    OBVIOUS
  <2> HIDE DEF u
  <2>2. o.kind # "hit" => u = v
    BY <1>2, <2>1
  <2>3. QED
    BY <2>2 DEF Tries
<1>4. Heard(input, b, k, path, o) = IF o.kind = "hit" THEN o.uri ELSE FirstAnswer(u)
  BY DEF Heard
<1>5. Said(input, g, k, path, node) =
        IF o.kind = "hit" THEN o.uri ELSE FirstAnswer(Tries(input, g, k, path, o.todo, o.query))
  BY DEF Said
<1> HIDE DEF u, o
<1>6. QED
  BY <1>3, <1>4, <1>5 DEF o

(* What the reference says, from what catalogs say.                         *)
LEMMA ReferenceExists ==
  ASSUME NEW q, Asks(q), input \in Inputs
  PROVE  \E b : Reference(input, q, b, Size(q))
<1> DEFINE n == Size(q)
<1>1. n \in Nat
  BY NodesFinite
<1>2. PICK g : Best(input, q, g, n)
  BY <1>1, BestExists
<1> DEFINE says(k, path, o) ==
             IF o.kind = "hit" THEN o.uri
             ELSE FirstAnswer(Tries(input, g, k, path, o.todo, o.query))
           b == [k \in 0 .. n |-> [path \in SUBSET Node(q) |-> [o \in Outcomes(input, q) |->
                   says(k, path, o)]]]
<1> HIDE DEF n
<1>3. \A k \in 0 .. n : \A path \in SUBSET Node(q) : \A o \in Outcomes(input, q) :
        b[k][path][o] = says(k, path, o)
  OBVIOUS
<1>4. \A k \in 0 .. n : \A path \in SUBSET Node(q) : \A node \in Node(q) :
        /\ Said(input, g, k, path, node) = says(k, path, Look(input, node))
        /\ Look(input, node) \in Outcomes(input, q)
  BY DEF Said, Outcomes
<1> HIDE DEF b, says
<1>5. Agree(input, q, n, g, b)
  <2>1. \A k \in 0 .. n : \A path \in SUBSET Node(q) : \A node \in Node(q) :
          g[k][path][node] = Said(input, g, k, path, node)
    BY <1>2, BestSays
  <2>2. QED
    BY <1>3, <1>4, <2>1 DEF Agree
<1>6. ASSUME NEW k \in 0 .. n, NEW path \in SUBSET Node(q), NEW o \in Outcomes(input, q)
      PROVE  says(k, path, o) = Heard(input, b, k, path, o)
  <2>1. PICK node \in Node(q) : o = Look(input, node)
    BY DEF Outcomes
  <2>2. Heard(input, b, k, path, Look(input, node)) = Said(input, g, k, path, node)
    BY <1>1, <1>5, SameSearch
  <2>3. QED
    BY <1>4, <2>1, <2>2
<1>7. b = [k \in 0 .. n |-> [path \in SUBSET Node(q) |-> [o \in Outcomes(input, q) |->
             says(k, path, o)]]]
  BY DEF b
<1>8. b = [k \in 0 .. n |-> [path \in SUBSET Node(q) |-> [o \in Outcomes(input, q) |->
             Heard(input, b, k, path, o)]]]
  BY <1>6, <1>7
<1>9. QED
  BY <1>8 DEF Reference, n

(* The search without a cache exists.                                       *)
LEMMA UnlimitedIs ==
  ASSUME NEW q, Asks(q), input \in Inputs
  PROVE  Best(input, q, Unlimited(input, q), Size(q))
<1> DEFINE n == Size(q)
           b == Chosen(input, q)
           g == Unlimited(input, q)
<1>1. n \in Nat
  BY NodesFinite
<1>2. Reference(input, q, b, n)
  BY ReferenceExists DEF Chosen
<1> HIDE DEF n, b
<1>3. g = [k \in 0 .. n |-> [path \in SUBSET Node(q) |-> [node \in Node(q) |->
             b[k][path][Look(input, node)]]]]
  BY DEF Unlimited, ByNode, n, b
<1> HIDE DEF g
<1>4. Agree(input, q, n, g, b)
  BY <1>3 DEF Agree
<1>5. ASSUME NEW k \in 0 .. n, NEW path \in SUBSET Node(q), NEW node \in Node(q)
      PROVE  b[k][path][Look(input, node)] = Said(input, g, k, path, node)
  <2>1. Look(input, node) \in Outcomes(input, q)
    BY DEF Outcomes
  <2>2. b[k] = [r \in SUBSET Node(q) |-> [o \in Outcomes(input, q) |-> Heard(input, b, k, r, o)]]
    BY <1>2 DEF Reference
  <2>3. b[k][path][Look(input, node)] = Heard(input, b, k, path, Look(input, node))
    BY <2>1, <2>2
  <2>4. Heard(input, b, k, path, Look(input, node)) = Said(input, g, k, path, node)
    BY <1>1, <1>4, SameSearch
  <2>5. QED
    BY <2>3, <2>4
<1>6. g = [k \in 0 .. n |-> [path \in SUBSET Node(q) |-> [node \in Node(q) |->
             Said(input, g, k, path, node)]]]
  BY <1>3, <1>5
<1>7. QED
  BY <1>6 DEF Best, n, g

(* The model's reference is this search.                                    *)
LEMMA UncachedIs ==
  Uncached = Chosen(input, query)[Size(query)][{}][Look(input, <<Root, query>>)]
  BY DEF Uncached, Chosen, Reference, Outcomes, Heard, Look, Node, Size

(* Its answer, by node.                                                     *)
LEMMA AnswerIs == Uncached = Answering(input, query)
<1> DEFINE n == Size(query)
<1>1. n \in 0 .. n /\ {} \in SUBSET Node(query) /\ <<Root, query>> \in Node(query)
  <2>1. n \in Nat
    BY NodesFinite
  <2>2. <<Root, query>> \in Node(query)
    BY ResolveAssumption DEF Node
  <2>3. QED
    BY <2>1, <2>2
<1> HIDE DEF n
<1>2. Answering(input, query) = Chosen(input, query)[n][{}][Look(input, <<Root, query>>)]
  BY <1>1 DEF Answering, Unlimited, ByNode, n
<1>3. QED
  BY <1>2, UncachedIs DEF n

(* The stack s has the loops f and o in the place of the innermost one.     *)
Grown(n, f, o, s) ==
  /\ Len(s) = n + 1 /\ s[n] = f /\ s[n + 1] = o
  /\ \A j \in 1 .. n - 1 : s[j] = stack[j]

(* The innermost loop, and what comes in its place.                         *)
LEMMA StackFacts ==
  ASSUME TypeOK, stack # << >>, NEW n, n = Len(stack)
  PROVE  /\ n \in Nat \ {0} /\ stack \in Seq(Frame) /\ Top = stack[n]
         /\ \A f : /\ Len(Append(Below, f)) = n /\ Append(Below, f)[n] = f
                    /\ \A j \in 1 .. n - 1 : Append(Below, f)[j] = stack[j]
         /\ \A f, o : Grown(n, f, o, Below \o <<f, o>>)
         /\ Len(Below) = n - 1 /\ \A j \in 1 .. n - 1 : Below[j] = stack[j]
<1>1. /\ stack \in Seq(Frame) /\ n \in Nat \ {0} /\ Top = stack[n]
      /\ Below \in Seq(Frame) /\ Len(Below) = n - 1
  BY TopType, EmptySeq DEF TypeOK, Top
<1>2. \A j \in 1 .. n - 1 : Below[j] = stack[j]
  <2>1. Below = SubSeq(stack, 1, n - 1)
    BY DEF Below
  <2>2. QED
    BY <1>1, <2>1
<1> DEFINE s == Below
<1>3. s \in Seq(Frame) /\ Len(s) = n - 1 /\ DOMAIN s = 1 .. n - 1
  BY <1>1, LenProperties
<1> HIDE DEF s
<1>4. ASSUME NEW f
      PROVE  /\ Len(Append(s, f)) = n /\ Append(s, f)[n] = f
             /\ \A j \in 1 .. n - 1 : Append(s, f)[j] = s[j]
  <2>1. s \in Seq(Frame \cup {f})
    BY <1>1, <1>3
  <2>2. QED
    BY <1>1, <1>3, <2>1, AppendProperties
<1>5. ASSUME NEW f, NEW o
      PROVE  /\ Len(s \o <<f, o>>) = n + 1
             /\ (s \o <<f, o>>)[n] = f /\ (s \o <<f, o>>)[n + 1] = o
             /\ \A j \in 1 .. n - 1 : (s \o <<f, o>>)[j] = s[j]
  <2>1. s \in Seq(Frame \cup {f, o}) /\ <<f, o>> \in Seq(Frame \cup {f, o})
    BY <1>1, <1>3
  <2>2. Len(<<f, o>>) = 2 /\ <<f, o>>[1] = f /\ <<f, o>>[2] = o
    OBVIOUS
  <2> DEFINE e == <<f, o>>
  <2> HIDE DEF e
  <2>3. /\ Len(s \o e) = Len(s) + Len(e)
        /\ \A i \in 1 .. Len(s) + Len(e) :
             (s \o e)[i] = IF i <= Len(s) THEN s[i] ELSE e[i - Len(s)]
    BY <2>1, ConcatProperties DEF e
  <2>4. Len(e) = 2 /\ e[1] = f /\ e[2] = o
    BY <2>2 DEF e
  <2>5. /\ Len(s) = n - 1 /\ Len(s \o e) = n + 1
        /\ \A i \in 1 .. n + 1 : (s \o e)[i] = IF i <= n - 1 THEN s[i] ELSE e[i - (n - 1)]
    BY <1>1, <1>3, <2>3, <2>4
  <2>6. (s \o e)[n] = f /\ (s \o e)[n + 1] = o
    <3>1. /\ n \in 1 .. n + 1 /\ ~ (n <= n - 1) /\ n - (n - 1) = 1
          /\ n + 1 \in 1 .. n + 1 /\ ~ (n + 1 <= n - 1) /\ n + 1 - (n - 1) = 2
      BY <1>1
    <3>2. QED
      BY <2>4, <2>5, <3>1
  <2>7. \A j \in 1 .. n - 1 : (s \o e)[j] = s[j]
    BY <1>1, <2>5
  <2>8. QED
    BY <2>5, <2>6, <2>7 DEF e
<1>6. ASSUME NEW f, NEW o PROVE Grown(n, f, o, Below \o <<f, o>>)
  <2> DEFINE e == s \o <<f, o>>
  <2>1. /\ Len(e) = n + 1 /\ e[n] = f /\ e[n + 1] = o
        /\ \A j \in 1 .. n - 1 : e[j] = s[j]
    BY <1>5
  <2>2. s = Below
    BY DEF s
  <2>3. e = Below \o <<f, o>>
    BY <2>2
  <2> HIDE DEF e
  <2>4. QED
    BY <1>2, <2>1, <2>2, <2>3 DEF Grown
<1>7. \A f, o : Grown(n, f, o, Below \o <<f, o>>)
  BY <1>6
<1>8. QED
  BY <1>1, <1>2, <1>4, <1>7 DEF s

(* The same for one more loop.                                              *)
LEMMA StackGrows ==
  ASSUME TypeOK, stack # << >>, NEW n, n = Len(stack)
  PROVE  /\ n \in Nat \ {0} /\ stack \in Seq(Frame)
         /\ Len(Below \o <<Advanced, Answer>>) = n + 1
         /\ (Below \o <<Advanced, Answer>>)[n] = Advanced
         /\ (Below \o <<Advanced, Answer>>)[n + 1] = Answer
         /\ \A j \in 1 .. n - 1 : (Below \o <<Advanced, Answer>>)[j] = stack[j]
<1>1. n \in Nat \ {0} /\ stack \in Seq(Frame)
  BY StackFacts
<1>2. \A f, o : Grown(n, f, o, Below \o <<f, o>>)
  BY StackFacts
<1>3. Grown(n, Advanced, Answer, Below \o <<Advanced, Answer>>)
  BY <1>2, Zenon
<1>4. QED
  BY <1>1, <1>3 DEF Grown

(* One iteration of the innermost loop.                                     *)
LEMMA Iteration ==
  ASSUME IInv, FaithInv, Consult, ~ truncated, NEW n, n = Len(stack),
         NEW to, to = <<Target, stack[n].query>>
  PROVE  /\ Asks(query) /\ input \in Inputs /\ Trying(stack, n, Advanced, Target)
         /\ to \in Node(query) /\ Key = KeyOf(to) /\ Answer = Look(input, to)
<1>1. phase = "search" /\ stack # << >> /\ Top.todo # << >>
  BY DEF Consult
<1>2. Asks(query) /\ input \in Inputs
  BY DEF IInv, TypeOK, FaithInv, Asks
<1>3. n \in Nat \ {0} /\ stack \in Seq(Frame) /\ Top = stack[n]
  BY <1>1, StackFacts DEF IInv
<1>4. Target \in Catalogs /\ Top \in Frame
  BY <1>1, TargetType, TopType DEF IInv
<1>5. Trying(stack, n, Advanced, Target)
  BY <1>1, <1>3, <1>4 DEF Trying, Advanced, Target, Frame
<1>6. PICK p, w : Searching(input, query, Unlimited(input, query), stack, visited, p, w)
  BY <1>1 DEF FaithInv
<1>7. p[n] \in Node(query) /\ Look(input, p[n]).kind \in {"delegate", "next"}
      /\ stack[n].query = Look(input, p[n]).query
  BY <1>3, <1>6 DEF Searching, Running
<1>8. to \in Node(query)
  BY <1>2, <1>4, <1>7, NodeType
<1>9. to[1] = Target /\ to[2] = Top.query
  BY <1>3
<1>10. Key = KeyOf(to) /\ Answer = Look(input, to)
  BY <1>9 DEF Key, KeyOf, Answer, Look
<1>11. QED
  BY <1>2, <1>5, <1>8, <1>10

(* The empty identifier is normal.                                          *)
LEMMA NormalEmpty == NormalizePublicID(<< >>) = << >>
<1> DEFINE e == << >>
           spaced == [i \in DOMAIN e |-> IF i \in {j \in DOMAIN e : e[j] \notin Space}
                                        THEN e[i] ELSE " "]
<1>1. DOMAIN e = {}
  OBVIOUS
<1>2. NormalizePublicID(e) = Select(spaced, {})
  BY <1>1 DEF NormalizePublicID
<1>3. Cardinality({}) = 0
  BY FS_EmptySet
<1> HIDE DEF spaced
<1>4. Select(spaced, {}) = << >>
  BY <1>3 DEF Select
<1>5. QED
  BY <1>2, <1>4

(* The outermost call answers, or its loop begins.                          *)
LEMMA FaithStart ==
  ASSUME IInv, FaithInv, Start PROVE FaithInv'
<1> DEFINE q == [query EXCEPT !.pub = NormalizePublicID(query.pub)]
           o == Lookup(input.graph[Root], q)
           root == <<Root, q>>
<1>1. /\ query' = q /\ phase = "top"
      /\ phase' = IF o.kind \in {"hit", "none"} THEN "done" ELSE "search"
      /\ result' = [result EXCEPT !.uri = o.uri]
      /\ stack' = IF o.kind \in {"hit", "none"} THEN << >> ELSE <<o>>
      /\ input' = input /\ visited' = visited /\ truncated' = truncated
  BY DEF Start, state, history
<1>2. Asks(q) /\ input \in Inputs
  <2>1. query \in Query /\ input \in Inputs
    BY DEF IInv, TypeOK
  <2>2. q \in Query /\ q.uri = query.uri /\ q.sys = query.sys
        /\ q.pub = NormalizePublicID(query.pub)
    BY <2>1, NormalizeType DEF Query
  <2>3. query.uri # << >> => q.pub = << >> /\ q.sys = << >>
    BY <2>2, NormalEmpty DEF FaithInv
  <2>4. QED
    BY <2>1, <2>2, <2>3 DEF Asks
<1>3. /\ o = Look(input, root) /\ root \in Node(q)
  BY ResolveAssumption DEF Look, Node
<1> HIDE DEF q, o, root
<1>4. /\ o.kind \in {"none", "hit", "delegate", "next"}
      /\ o.kind = "none" => o.uri = << >> /\ o.todo = << >>
      /\ o.kind \in {"delegate", "next"} => o.uri = << >>
  BY <1>2, <1>3, NodeType
<1>5. result = [uri |-> << >>, broke |-> FALSE] /\ visited = {}
  BY <1>1 DEF FaithInv
<1>6. result' = [uri |-> o.uri, broke |-> FALSE]
  BY <1>1, <1>5
<1>7. Best(input, q, Unlimited(input, q), Size(q))
  BY <1>1, <1>2, UnlimitedIs DEF FaithInv
<1>8. CASE o.kind \in {"hit", "none"}
  <2>1. Size(q) \in 0 .. Size(q) /\ {} \in SUBSET Node(q)
    <3>1. Size(q) \in Nat
      BY NodesFinite
    <3>2. QED
      BY <3>1
  <2>2. Answering(input, q) = Said(input, Unlimited(input, q), Size(q), {}, root)
    BY <1>3, <1>7, <2>1, BestSays DEF Answering, root
  <2>3. Said(input, Unlimited(input, q), Size(q), {}, root) = o.uri
    BY <1>3, <1>4, <1>8, EmptyLoop DEF Said
  <2>4. Answering(input, q) = o.uri /\ Look(input, <<Root, q>>).kind # "delegate"
    BY <1>3, <1>8, <2>2, <2>3 DEF root
  <2>5. Faithful(input, q, result')
    BY <1>6, <2>4 DEF Faithful
  <2>6. phase' = "done"
    BY <1>1, <1>8
  <2>7. QED
    BY <1>1, <1>2, <2>5, <2>6 DEF FaithInv, Asks
<1>9. CASE o.kind \in {"delegate", "next"}
  <2>1. PICK p, w : Searching(input, q, Unlimited(input, q), <<o>>, {}, p, w)
    BY <1>2, <1>3, <1>7, <1>9, SearchBegins DEF root
  <2>2. phase' = "search" /\ stack' = <<o>> /\ visited' = {} /\ result' = result
    BY <1>1, <1>4, <1>5, <1>6, <1>9
  <2>3. QED
    BY <1>1, <1>2, <1>5, <2>1, <2>2 DEF FaithInv, Asks
<1>10. QED
  BY <1>4, <1>8, <1>9

(* Passing over a catalog: it is missing, in the cache, or says nothing.    *)
LEMMA FaithPass ==
  ASSUME IInv, FaithInv, SkipMissing \/ SkipVisited \/ NotFound PROVE FaithInv'
<1> DEFINE n == Len(stack)
           to == <<Target, stack[n].query>>
           k == Size(query) - (n - 1)
<1>1. /\ Consult /\ phase = "search" /\ stack # << >>
      /\ stack' = Append(Below, Advanced)
      /\ phase' = phase /\ result' = result /\ truncated' = truncated
      /\ input' = input /\ query' = query
      /\ \/ Target \in input.missing /\ visited' = visited
         \/ Key \in visited /\ visited' = visited
         \/ /\ Target \notin input.missing /\ Key \notin visited
            /\ visited' = visited \cup {Key} /\ Answer.kind = "none"
  BY DEF SkipMissing, SkipVisited, NotFound, Search, Searches, Fresh, Consult
<1>2. ASSUME ~ truncated
      PROVE  \E p, w : Searching(input, query, Unlimited(input, query), stack', visited', p, w)
  <2>1. PICK p, w : Searching(input, query, Unlimited(input, query), stack, visited, p, w)
    BY <1>1, <1>2 DEF FaithInv
  <2>2. /\ n \in Nat \ {0} /\ n = Len(stack) /\ stack \in Seq(Frame)
        /\ Len(stack') = n /\ stack'[n] = Advanced
        /\ \A j \in 1 .. n - 1 : stack'[j] = stack[j]
    <3>1. n = Len(stack)
      OBVIOUS
    <3> HIDE DEF n
    <3>2. /\ n \in Nat \ {0} /\ stack \in Seq(Frame)
          /\ Len(Append(Below, Advanced)) = n /\ Append(Below, Advanced)[n] = Advanced
          /\ \A j \in 1 .. n - 1 : Append(Below, Advanced)[j] = stack[j]
      BY <1>1, <3>1, StackFacts DEF IInv
    <3>3. QED
      BY <1>1, <3>1, <3>2
  <2> HIDE DEF n, to
  <2>3. /\ Asks(query) /\ input \in Inputs /\ Trying(stack, n, Advanced, Target)
        /\ to \in Node(query) /\ Key = KeyOf(to) /\ Answer = Look(input, to)
    BY <1>1, <1>2, <2>2, Iteration DEF to
  <2> DEFINE g == Unlimited(input, query)
  <2>4. /\ Best(input, query, g, Size(query)) /\ Finished(input, query, visited, Path(p, n))
        /\ \A j \in 1 .. n : p[j] \in Node(query)
        /\ \A i, j \in 2 .. n : p[i] = p[j] => i = j
    BY <2>1, <2>2 DEF Searching
  <2> HIDE DEF g
  <2>5. /\ Size(query) \in Nat /\ k \in 0 .. Size(query) /\ Path(p, n) \in SUBSET Node(query)
    <3>1. /\ Size(query) \in Nat /\ Size(query) - (n - 1) \in 0 .. Size(query)
          /\ Path(p, n) \in SUBSET Node(query)
      BY <2>2, <2>4, Room, Zenon
    <3>2. QED
      BY <3>1
  <2> HIDE DEF k
  <2>6. Try(input, g, k, Path(p, n), Target, stack[n].query) = << >>
    <3>1. CASE k = 0 \/ Target \in input.missing \/ to \in Path(p, n)
      BY <3>1 DEF Try, to
    <3>2. CASE ~ (k = 0 \/ Target \in input.missing \/ to \in Path(p, n))
      <4> DEFINE R == Path(p, n) \cup {to}
      <4>1. /\ k - 1 \in 0 .. Size(query) /\ R \in SUBSET Node(query) /\ Path(p, n) \subseteq R
        BY <2>3, <2>5, <3>2
      <4>2. Try(input, g, k, Path(p, n), Target, stack[n].query) = g[k - 1][R][to]
        BY <3>2 DEF Try, to
      <4> HIDE DEF R
      <4>3. CASE KeyOf(to) \in visited
        BY <2>3, <2>4, <2>5, <3>2, <4>1, <4>2, <4>3, FinishedSaysNothing
      <4>4. CASE Look(input, to).kind = "none"
        <5>1. g[k - 1][R][to] = Said(input, g, k - 1, R, to)
          BY <2>3, <2>4, <4>1, BestSays
        <5>2. Look(input, to).todo = << >>
          BY <2>3, <4>4, NodeType
        <5>3. QED
          BY <4>2, <4>4, <5>1, <5>2, EmptyLoop DEF Said
      <4>5. QED
        BY <1>1, <2>3, <3>2, <4>3, <4>4
    <3>3. QED
      BY <3>1, <3>2
  <2>7. /\ visited \subseteq visited' /\ visited' \subseteq visited \cup {KeyOf(to)}
        /\ visited' = visited \/ Look(input, to).kind = "none"
        /\ Target \in input.missing \/ KeyOf(to) \in visited'
    BY <1>1, <2>3
  <2>8. Try(input, g, Size(query) - (n - 1), Path(p, n), Target, stack[n].query) = << >>
    BY <2>6 DEF k
  <2>9. Searching(input, query, g, stack, visited, p, w) /\ to = <<Target, stack[n].query>>
    BY <2>1 DEF g, to
  <2> DEFINE s2 == stack'
             more == visited'
  <2>10. /\ Len(s2) = n /\ s2[n] = Advanced /\ \A j \in 1 .. n - 1 : s2[j] = stack[j]
         /\ visited \subseteq more /\ more \subseteq visited \cup {KeyOf(to)}
         /\ more = visited \/ Look(input, to).kind = "none"
         /\ Target \in input.missing \/ KeyOf(to) \in more
    BY <2>2, <2>7
  <2> HIDE DEF s2, more
  <2>11. Searching(input, query, g, s2, more, p, w)
    <3>1. Passing(query, g, stack, visited, p, w, n, Advanced, Target, to, s2, more)
      BY <2>2, <2>3, <2>8, <2>9, <2>10 DEF Passing, AtNode
    <3>2. QED
      BY <2>3, <3>1, PassOver
  <2>12. QED
    BY <2>11 DEF g, s2, more
<1>3. QED
  BY <1>1, <1>2 DEF FaithInv

(* A catalog that answers, or that loops itself, is asked.                  *)
LEMMA FaithAsk ==
  ASSUME IInv, FaithInv, Found \/ Descend PROVE FaithInv'
<1> DEFINE n == Len(stack)
           to == <<Target, stack[n].query>>
           g == Unlimited(input, query)
<1>1. /\ Consult /\ phase = "search" /\ stack # << >>
      /\ Target \notin input.missing /\ Key \notin visited
      /\ input' = input /\ query' = query /\ truncated' = truncated
      /\ visited' = visited \cup {Key}
      /\ \/ /\ Answer.kind = "hit" /\ phase' = "done"
            /\ result' = [result EXCEPT !.uri = Answer.uri]
         \/ /\ Answer.kind \in {"delegate", "next"} /\ phase' = phase /\ result' = result
            /\ stack' = Below \o <<Advanced, Answer>>
  BY DEF Found, Descend, Search, Searches, Fresh, Consult
<1>2. n = Len(stack)
  OBVIOUS
<1> HIDE DEF n
<1>3. /\ n \in Nat \ {0} /\ stack \in Seq(Frame)
      /\ Len(Below \o <<Advanced, Answer>>) = n + 1
      /\ (Below \o <<Advanced, Answer>>)[n] = Advanced
      /\ (Below \o <<Advanced, Answer>>)[n + 1] = Answer
      /\ \A j \in 1 .. n - 1 : (Below \o <<Advanced, Answer>>)[j] = stack[j]
  BY <1>1, <1>2, StackGrows DEF IInv
<1>4. result = [uri |-> << >>, broke |-> FALSE]
  BY <1>1 DEF FaithInv
<1>5. ASSUME ~ truncated
      PROVE  /\ Asks(query) /\ input \in Inputs /\ Trying(stack, n, Advanced, Target)
             /\ to \in Node(query) /\ Key = KeyOf(to) /\ Answer = Look(input, to)
             /\ to = <<Target, stack[n].query>>
             /\ \E p, w : Searching(input, query, g, stack, visited, p, w)
  BY <1>1, <1>2, <1>5, Iteration DEF FaithInv
<1> HIDE DEF to, g
<1>6. ASSUME ~ truncated, Answer.kind = "hit", result' = [result EXCEPT !.uri = Answer.uri]
      PROVE  Faithful(input, query, result')
  <2>1. PICK p, w : Searching(input, query, g, stack, visited, p, w)
    BY <1>5, <1>6
  <2>2. AtNode(query, g, stack, visited, p, w, n, Advanced, Target, to)
    BY <1>3, <1>5, <1>6, <2>1 DEF AtNode
  <2>3. w[n] = Answer.uri
    BY <1>1, <1>5, <1>6, <2>2, HitSays
  <2>4. w[n] = Answering(input, query)
    BY <1>2, <2>1 DEF Searching, Answering, g
  <2>5. Answer.uri # << >>
    BY <1>5, <1>6, NodeType
  <2>6. QED
    BY <1>4, <1>6, <2>3, <2>4, <2>5 DEF Faithful
<1>7. ASSUME ~ truncated, Answer.kind \in {"delegate", "next"},
             stack' = Below \o <<Advanced, Answer>>
      PROVE  \E p, w : Searching(input, query, g, stack', visited', p, w)
  <2>1. PICK p, w : Searching(input, query, g, stack, visited, p, w)
    BY <1>5, <1>7
  <2>2. AtNode(query, g, stack, visited, p, w, n, Advanced, Target, to)
    BY <1>3, <1>5, <1>7, <2>1 DEF AtNode
  <2> DEFINE s2 == stack'
             more == visited'
  <2>3. /\ Target \notin input.missing /\ KeyOf(to) \notin visited
        /\ Look(input, to).kind \in {"delegate", "next"}
        /\ more = visited \cup {KeyOf(to)}
        /\ Len(s2) = n + 1 /\ s2[n] = Advanced /\ s2[n + 1] = Look(input, to)
        /\ \A j \in 1 .. n - 1 : s2[j] = stack[j]
    BY <1>1, <1>3, <1>5, <1>7
  <2> HIDE DEF s2, more
  <2>4. Descending(query, g, stack, visited, p, w, n, Advanced, Target, to, s2, more)
    BY <2>2, <2>3 DEF Descending
  <2>5. \E p2, w2 : Searching(input, query, g, s2, more, p2, w2)
    BY <1>5, <1>7, <2>4, CallDeeper
  <2>6. QED
    BY <2>5 DEF s2, more
<1>8. CASE Answer.kind = "hit"
  BY <1>1, <1>6, <1>8 DEF FaithInv
<1>9. CASE Answer.kind \in {"delegate", "next"}
  BY <1>1, <1>4, <1>7, <1>9 DEF FaithInv, g
<1>10. QED
  BY <1>1, <1>8, <1>9

(* A loop ends without an answer.                                           *)
LEMMA FaithReturn ==
  ASSUME IInv, FaithInv, Return PROVE FaithInv'
<1> DEFINE n == Len(stack)
           g == Unlimited(input, query)
<1>1. /\ phase = "search" /\ stack # << >> /\ Top.todo = << >>
      /\ stack' = Below
      /\ phase' = IF Below = << >> THEN "done" ELSE "search"
      /\ result' = IF Below = << >> THEN [result EXCEPT !.broke = (Top.kind = "delegate")]
                   ELSE result
      /\ input' = input /\ query' = query /\ visited' = visited /\ truncated' = truncated
  BY DEF Return, state, history
<1>2. n = Len(stack)
  OBVIOUS
<1> HIDE DEF n, g
<1>3. /\ n \in Nat \ {0} /\ stack \in Seq(Frame) /\ Top = stack[n]
      /\ Len(Below) = n - 1 /\ \A j \in 1 .. n - 1 : Below[j] = stack[j]
  BY <1>1, <1>2, StackFacts DEF IInv
<1>4. result = [uri |-> << >>, broke |-> FALSE]
  BY <1>1 DEF FaithInv
<1>5. Below = << >> <=> n = 1
  BY <1>1, <1>2, <1>3, TopType, EmptySeq DEF IInv
<1>6. ASSUME ~ truncated
      PROVE  \E p, w : /\ Searching(input, query, g, stack, visited, p, w)
                       /\ w[n] = w[n - 1]
                       /\ n # 1 => Searching(input, query, g, Below, visited, p, w)
  <2>1. PICK p, w : Searching(input, query, g, stack, visited, p, w)
    BY <1>1, <1>6 DEF FaithInv, g
  <2>2. w[n] = w[n - 1] /\ (n # 1 => Searching(input, query, g, Below, visited, p, w))
    <3>1. Returning(query, g, stack, visited, p, w, n, Below)
      BY <1>1, <1>2, <1>3, <2>1 DEF Returning
    <3>2. QED
      BY <3>1, CallReturns
  <2>3. QED
    BY <2>1, <2>2
<1>7. CASE n # 1
  BY <1>1, <1>4, <1>5, <1>6, <1>7 DEF FaithInv, g
<1>8. CASE n = 1
  <2>1. phase' = "done" /\ result' = [uri |-> << >>, broke |-> (Top.kind = "delegate")]
    BY <1>1, <1>4, <1>5, <1>8
  <2>2. ASSUME ~ truncated PROVE Faithful(input, query, result')
    <3>1. PICK p, w : Searching(input, query, g, stack, visited, p, w) /\ w[n] = w[n - 1]
      BY <1>6, <2>2
    <3>2. /\ w[0] = << >> /\ w[1] = Answering(input, query)
          /\ Running(input, g, stack[1], p[1], Path(p, 1), Size(query) - (1 - 1), visited,
                     w[1], w[1 - 1])
          /\ p[1] = <<Root, query>>
      BY <1>2, <1>8, <3>1 DEF Searching, Answering, g
    <3>3. Answering(input, query) = << >>
      BY <1>8, <3>1, <3>2
    <3>4. Top.kind = Look(input, <<Root, query>>).kind
      BY <1>3, <1>8, <3>2 DEF Running
    <3>5. QED
      BY <2>1, <3>3, <3>4 DEF Faithful
  <2>3. QED
    BY <1>1, <2>1, <2>2 DEF FaithInv
<1>9. QED
  BY <1>7, <1>8

(* Every step of a resolution keeps the invariant.                          *)
LEMMA FaithStep == IInv /\ FaithInv /\ [Next]_vars => FaithInv'
<1> SUFFICES ASSUME IInv, FaithInv, [Next]_vars PROVE FaithInv'
  OBVIOUS
<1>1. CASE UnwrapURI \/ UnwrapPublic \/ UnwrapSystem
  <2>1. /\ phase = "top" /\ phase' = phase /\ result' = result /\ visited' = visited
        /\ query'.uri = << >>
    <3>1. query \in Query
      BY DEF IInv, TypeOK
    <3>2. \A q : Retry(q) => /\ query' = q /\ phase' = phase /\ result' = result
                            /\ visited' = visited
      BY DEF Retry, state
    <3>3. CASE UnwrapURI
      BY <3>2, <3>3 DEF UnwrapURI
    <3>4. CASE UnwrapPublic
      BY <3>1, <3>2, <3>4 DEF UnwrapPublic, Query
    <3>5. CASE UnwrapSystem
      <4> DEFINE u == NormalizePublicID(query.pub)
                 s == UnwrapURN(query.sys)
      <4>1. PICK q \in {[query EXCEPT !.pub = s, !.sys = << >>],
                         [query EXCEPT !.pub = u, !.sys = << >>],
                         [query EXCEPT !.pub = u, !.sys = s]} : Retry(q)
        BY <3>5 DEF UnwrapSystem
      <4>2. q.uri = query.uri
        BY <3>1, <4>1 DEF Query
      <4>3. phase = "top" /\ query.uri = << >>
        BY <3>5 DEF UnwrapSystem
      <4>4. QED
        BY <3>2, <4>1, <4>2, <4>3
    <3>6. QED
      BY <1>1, <3>3, <3>4, <3>5
  <2>2. QED
    BY <2>1 DEF FaithInv
<1>2. CASE TooDeep \/ Exhaust
  <2>1. /\ phase = "search" /\ phase' = phase /\ result' = result /\ query' = query
        /\ truncated' = TRUE
    BY <1>2 DEF TooDeep, Exhaust, Consult
  <2>2. QED
    BY <2>1 DEF FaithInv
<1>3. CASE UNCHANGED vars
  BY <1>3 DEF vars, state, history, FaithInv
<1>4. QED
  BY <1>1, <1>2, <1>3, FaithStart, FaithPass, FaithAsk, FaithReturn DEF Next

(* The cache of visited catalogs changes no answer, for all catalogs and    *)
(* requests: a resolution that no limit cuts (resolve.go, the keys of       *)
(* resolveState.visited) ends with what a search without it finds.          *)
THEOREM CacheIsFaithful == Spec => []SearchIsFaithful
<1>1. Init => FaithInv
  <2> SUFFICES ASSUME Init PROVE FaithInv
    OBVIOUS
  <2>1. /\ phase = "top" /\ visited = {} /\ result = [uri |-> << >>, broke |-> FALSE]
        /\ query = input.request /\ input \in Inputs
    BY DEF Init
  <2>2. query.uri # << >> => query.pub = << >> /\ query.sys = << >>
    BY <2>1, ResolveAssumption
  <2>3. QED
    BY <2>1, <2>2 DEF FaithInv
<1>2. IInv /\ FaithInv => SearchIsFaithful
  <2> SUFFICES ASSUME FaithInv, phase = "done", ~ truncated
               PROVE  LET uri == Uncached
                      IN  result = [uri |-> uri,
                                    broke |-> /\ uri = << >>
                                              /\ Lookup(input.graph[Root], query).kind
                                                   = "delegate"]
    BY DEF SearchIsFaithful
  <2>1. Faithful(input, query, result)
    BY DEF FaithInv
  <2> DEFINE a == Answering(input, query)
  <2>2. Uncached = a
    BY AnswerIs
  <2>3. Look(input, <<Root, query>>) = Lookup(input.graph[Root], query)
    BY DEF Look
  <2> HIDE DEF a
  <2>4. QED
    BY <2>1, <2>2, <2>3 DEF Faithful, a
<1>3. QED
  BY <1>1, <1>2, FaithStep, Invariance, PTL DEF Spec
=============================================================================
