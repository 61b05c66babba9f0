-------------------------- MODULE NameSpace_proofs --------------------------
(***************************************************************************)
(* The naming server's index of paths and the cache in front of it.        *)
(***************************************************************************)
EXTENDS NameSpace, FiniteSetTheorems, SequenceTheorems, WellFoundedInduction, TLAPS

-----------------------------------------------------------------------------
(* Recursive functions.                                                     *)

\* A set of numbers that has a member has a smallest one.
LEMMA Smallest ==
    ASSUME NEW S \in SUBSET Nat, S # {}
    PROVE  \E m \in S : \A k \in S : m <= k
  <1>1. PICK m \in S : \A y \in S : <<y, m>> \notin OpToRel(<, Nat)
    BY NatLessThanWellFounded, WFMin
  <1>2. \A y \in S : ~ (y < m)
    BY <1>1 DEF OpToRel
  <1>. QED BY <1>2

\* f begins with b and goes on as F says.
Moves(N, T) == [(1 .. N) \X T -> T]
Follows(f, N, T, b, F) ==
    f \in [0 .. N -> T] /\ f[0] = b /\ \A k \in 1 .. N : f[k] = F[<<k, f[k - 1]>>]

\* A function on 0 .. N may be defined from its value one before.
LEMMA Recursion ==
    ASSUME NEW N \in Nat, NEW T, NEW b \in T, NEW F \in Moves(N, T)
    PROVE  \E f : Follows(f, N, T, b, F)
  <1> DEFINE Good(m) == \E f \in [0 .. m -> T] :
                           \A k \in 0 .. m : f[k] = IF k = 0 THEN b ELSE F[<<k, f[k - 1]>>]
             Bad == {m \in 0 .. N : ~Good(m)}
  <1>1. Bad = {}
    <2>1. SUFFICES ASSUME Bad # {} PROVE FALSE
      OBVIOUS
    <2>0. Bad \in SUBSET Nat
      OBVIOUS
    <2>2. PICK m \in Bad : \A j \in Bad : m <= j
      <3> HIDE DEF Bad
      <3>. QED BY <2>0, <2>1, Smallest
    <2>3. m # 0
      <3>1. SUFFICES Good(0)
        BY <2>2
      <3> DEFINE f == [k \in 0 .. 0 |-> b]
      <3>2. f \in [0 .. 0 -> T] /\ \A k \in 0 .. 0 : k = 0 /\ f[k] = b
        OBVIOUS
      <3>3. \A k \in 0 .. 0 : f[k] = IF k = 0 THEN b ELSE F[<<k, f[k - 1]>>]
        BY <3>2
      <3>. QED BY <3>2, <3>3
    <2>4. m \in 1 .. N /\ m - 1 \in 0 .. N /\ m - 1 \notin Bad
      <3>1. m \in 0 .. N /\ m \in Nat
        BY <2>2
      <3>2. m \in 1 .. N /\ m - 1 \in 0 .. N
        BY <3>1, <2>3
      <3>3. ~ (m <= m - 1)
        BY <3>1
      <3>. QED BY <3>2, <3>3, <2>2
    <2>5. PICK f \in [0 .. (m - 1) -> T] :
              \A k \in 0 .. (m - 1) : f[k] = IF k = 0 THEN b ELSE F[<<k, f[k - 1]>>]
      BY <2>4
    <2> DEFINE v == F[<<m, f[m - 1]>>]
               g == [k \in 0 .. m |-> IF k = m THEN v ELSE f[k]]
    <2>6. v \in T
      BY <2>4, <2>5 DEF Moves
    <2>7. g \in [0 .. m -> T]
      BY <2>4, <2>5, <2>6
    <2>8. \A k \in 0 .. m : g[k] = IF k = 0 THEN b ELSE F[<<k, g[k - 1]>>]
      <3>1. SUFFICES ASSUME NEW k \in 0 .. m
                     PROVE g[k] = IF k = 0 THEN b ELSE F[<<k, g[k - 1]>>]
        OBVIOUS
      <3>2. CASE k = m
        <4>1. g[k] = v /\ k # 0 /\ k - 1 \in 0 .. m /\ k - 1 # m
          BY <3>2, <2>4
        <4>2. g[k - 1] = f[m - 1]
          BY <4>1, <3>2
        <4>. QED BY <4>1, <4>2, <3>2
      <3>3. CASE k # m /\ k # 0
        <4>1. k \in 0 .. (m - 1) /\ k - 1 \in 0 .. m /\ k - 1 # m
          BY <3>3, <2>4
        <4>2. g[k] = f[k] /\ g[k - 1] = f[k - 1]
          BY <4>1, <3>3
        <4>. QED BY <4>1, <4>2, <3>3, <2>5
      <3>4. CASE k # m /\ k = 0
        <4>1. 0 \in 0 .. (m - 1)
          BY <2>4
        <4>. QED BY <3>4, <4>1, <2>5
      <3>. QED BY <3>2, <3>3, <3>4
    <2>9. Good(m)
      BY <2>7, <2>8
    <2>. QED BY <2>9, <2>2
  <1>2. Good(N)
    BY <1>1
  <1>3. PICK f \in [0 .. N -> T] :
            \A k \in 0 .. N : f[k] = IF k = 0 THEN b ELSE F[<<k, f[k - 1]>>]
    BY <1>2
  <1>4. 0 \in 0 .. N /\ \A k \in 1 .. N : k \in 0 .. N /\ k # 0
    OBVIOUS
  <1>. QED BY <1>3, <1>4 DEF Follows

\* Whatever follows F from b stays in T.
LEMMA Followed ==
    ASSUME NEW N \in Nat, NEW T, NEW b \in T, NEW F \in Moves(N, T), NEW g, g[0] = b,
           \A k \in 1 .. N : g[k - 1] \in T => g[k] = F[<<k, g[k - 1]>>]
    PROVE  \A k \in 0 .. N : g[k] \in T
  <1> DEFINE Bad == {k \in 0 .. N : g[k] \notin T}
  <1>1. SUFFICES ASSUME Bad # {} PROVE FALSE
    OBVIOUS
  <1>2. PICK m \in Bad : \A j \in Bad : m <= j
    <2>1. Bad \in SUBSET Nat
      OBVIOUS
    <2>. QED BY <2>1, <1>1, Smallest
  <1>3. m \in 1 .. N /\ m - 1 \in 0 .. N /\ ~ (m <= m - 1)
    OBVIOUS
  <1>4. g[m - 1] \in T
    BY <1>3, <1>2
  <1>5. g[m] = F[<<m, g[m - 1]>>]
    BY <1>3, <1>4
  <1>6. F[<<m, g[m - 1]>>] \in T
    BY <1>3, <1>4 DEF Moves
  <1>. QED BY <1>2, <1>5, <1>6

-----------------------------------------------------------------------------
(* The cache.                                                               *)

Link == Ids \cup {Nil}
Entry == [key : Names \cup {Root}, lh : Seq(Servers), prev : Link, next : Link, freed : BOOLEAN]
CacheSet == [head : Link, tail : Link, size : Int, map : [Buckets -> Link],
             node : [Ids -> Entry], broken : BOOLEAN]

\* A search goes from the head of a bucket from node to node.
LEMMA ChainIs ==
    ASSUME NEW c \in CacheSet, NEW h \in Buckets
    PROVE  /\ Chain(c, h) \in [0 .. NNodes -> Link]
           /\ Chain(c, h)[0] = c.map[h]
           /\ \A k \in 1 .. NNodes :
                Chain(c, h)[k] = IF Chain(c, h)[k - 1] = Nil THEN Nil
                                 ELSE c.node[Chain(c, h)[k - 1]].next
  <1> DEFINE next(n) == IF n = Nil THEN Nil ELSE c.node[n].next
             F == [x \in (1 .. NNodes) \X Link |-> next(x[2])]
             b == c.map[h]
             P(f) == f = [k \in 0 .. NNodes |-> IF k = 0 THEN b ELSE next(f[k - 1])]
  <1>1. b \in Link /\ (\A n \in Link : next(n) \in Link)
    BY DEF CacheSet, Link, Entry
  <1>2. F \in Moves(NNodes, Link)
    BY <1>1 DEF Moves
  <1>3. NNodes \in Nat
    BY CacheAssumption
  <1>4. PICK f : Follows(f, NNodes, Link, b, F)
    <2>1. b \in Link
      BY <1>1
    <2> HIDE DEF F, b
    <2>. QED BY <2>1, <1>2, <1>3, Recursion
  <1>5. P(f)
    <2>1. \A k \in 1 .. NNodes : k - 1 \in 0 .. NNodes
      BY <1>3
    <2>2. \A k \in 1 .. NNodes : f[k] = next(f[k - 1])
      BY <2>1, <1>4 DEF Follows
    <2>3. \A k \in 0 .. NNodes : k = 0 \/ k \in 1 .. NNodes
      BY <1>3
    <2> HIDE DEF next, b
    <2>4. \A k \in 0 .. NNodes : f[k] = IF k = 0 THEN b ELSE next(f[k - 1])
      BY <2>2, <2>3, <1>4 DEF Follows
    <2>. QED BY <2>4, <1>4 DEF Follows
  <1>6. P(Chain(c, h))
    <2>1. Chain(c, h) = CHOOSE g : P(g)
      BY ZenonT(120) DEF Chain
    <2>. QED BY <2>1, <1>5
  <1> DEFINE g == Chain(c, h)
  <1>7. g = [k \in 0 .. NNodes |-> IF k = 0 THEN b ELSE next(g[k - 1])]
    BY <1>6
  <1> HIDE DEF g, next, b
  <1>8. g[0] = b /\ \A k \in 1 .. NNodes : g[k] = next(g[k - 1])
    <2>1. 0 \in 0 .. NNodes /\ \A k \in 1 .. NNodes : k \in 0 .. NNodes /\ k # 0
      BY <1>3
    <2>. QED BY <2>1, <1>7
  <1>9. \A k \in 0 .. NNodes : g[k] \in Link
    <2>1. \A k \in 1 .. NNodes : g[k - 1] \in Link => g[k] = F[<<k, g[k - 1]>>]
      BY <1>8
    <2> HIDE DEF F
    <2>. QED BY <2>1, <1>1, <1>2, <1>3, <1>8, Followed
  <1>10. g \in [0 .. NNodes -> Link]
    BY <1>9, <1>7
  <1>. QED BY <1>8, <1>10 DEF g, b, next

LEMMA Links == Nil \in Link /\ Ids \subseteq Link /\ \A n \in Link : n # Nil => n \in Ids
BY DEF Link

\* A search finds nothing, or a node with the key.
LEMMA FindIs ==
    ASSUME NEW c \in CacheSet, NEW key, Hash(key) \in Buckets
    PROVE  /\ Find(c, key) \in Link
           /\ Find(c, key) # Nil => Find(c, key) \in Ids /\ c.node[Find(c, key)].key = key
  <1> DEFINE f == Chain(c, Hash(key))
             hits == {k \in 0 .. NNodes : f[k] # Nil /\ c.node[f[k]].key = key}
             first == CHOOSE k \in hits : \A j \in hits : k <= j
  <1>1. Find(c, key) = IF hits = {} THEN Nil ELSE f[first]
    BY DEF Find, Hits
  <1>2. f \in [0 .. NNodes -> Link]
    BY ChainIs
  <1>3. CASE hits = {}
    BY <1>1, <1>3, Links
  <1>4. CASE hits # {}
    <2>1. hits \in SUBSET Nat
      BY CacheAssumption
    <2>2. \E k \in hits : \A j \in hits : k <= j
      <3> HIDE DEF hits
      <3>. QED BY <2>1, <1>4, Smallest
    <2>3. first \in hits
      <3> HIDE DEF hits
      <3>. QED BY <2>2
    <2>4. f[first] # Nil /\ c.node[f[first]].key = key /\ f[first] \in Link
      <3> HIDE DEF f, first
      <3>. QED BY <2>3, <1>2
    <2>. QED BY <2>4, <1>1, <1>4, Links
  <1>. QED BY <1>3, <1>4

\* An operation that changes links only.
SameLists(c, d) == \A i \in Ids : d.node[i].key = c.node[i].key /\ d.node[i].lh = c.node[i].lh
Relinked(c, d) == d \in CacheSet /\ SameLists(c, d)

LEMMA RelinkedTwice ==
    ASSUME NEW c, NEW d, NEW e, Relinked(c, d), Relinked(d, e)
    PROVE  Relinked(c, e)
BY DEF Relinked, SameLists

LEMMA RelinkedNot ==
    ASSUME NEW c \in CacheSet
    PROVE  Relinked(c, c)
BY DEF Relinked, SameLists

\* The single assignments.
LEMMA Assignments ==
    ASSUME NEW c \in CacheSet, NEW n, NEW x \in Link, NEW h
    PROVE  /\ Relinked(c, [c EXCEPT !.node[n].next = x])
           /\ Relinked(c, [c EXCEPT !.node[n].prev = x])
           /\ Relinked(c, [c EXCEPT !.head = x])
           /\ Relinked(c, [c EXCEPT !.tail = x])
           /\ Relinked(c, [c EXCEPT !.map[h] = x])
           /\ \A z \in Int : Relinked(c, [c EXCEPT !.size = z])
           /\ \A z \in BOOLEAN : Relinked(c, [c EXCEPT !.broken = z])
           /\ \A z \in BOOLEAN : Relinked(c, [c EXCEPT !.node[n].freed = z])
  <1>1. Relinked(c, [c EXCEPT !.node[n].next = x])
    BY DEF Relinked, SameLists, CacheSet, Entry
  <1>2. Relinked(c, [c EXCEPT !.node[n].prev = x])
    BY DEF Relinked, SameLists, CacheSet, Entry
  <1>3. Relinked(c, [c EXCEPT !.head = x])
    BY DEF Relinked, SameLists, CacheSet
  <1>4. Relinked(c, [c EXCEPT !.tail = x])
    BY DEF Relinked, SameLists, CacheSet
  <1>5. Relinked(c, [c EXCEPT !.map[h] = x])
    BY DEF Relinked, SameLists, CacheSet
  <1>6. \A z \in Int : Relinked(c, [c EXCEPT !.size = z])
    BY DEF Relinked, SameLists, CacheSet
  <1>7. \A z \in BOOLEAN : Relinked(c, [c EXCEPT !.broken = z])
    BY DEF Relinked, SameLists, CacheSet
  <1>8. \A z \in BOOLEAN : Relinked(c, [c EXCEPT !.node[n].freed = z])
    BY ZenonT(60) DEF Relinked, SameLists, CacheSet, Entry
  <1>. QED BY <1>1, <1>2, <1>3, <1>4, <1>5, <1>6, <1>7, <1>8

LEMMA TouchRelinks ==
    ASSUME NEW c \in CacheSet, NEW ns
    PROVE  Relinked(c, Touch(c, ns))
  <1> DEFINE z == c.broken \/ \E n \in ns \ {Nil} : c.node[n].freed
  <1>1. z \in BOOLEAN
    OBVIOUS
  <1>2. Touch(c, ns) = [c EXCEPT !.broken = z]
    BY DEF Touch
  <1> HIDE DEF z
  <1>. QED BY <1>1, <1>2, Links, Assignments

\* The links of a node.
LEMMA LinksOf ==
    ASSUME NEW c \in CacheSet, NEW n \in Ids
    PROVE  /\ c.node[n].prev \in Link /\ c.node[n].next \in Link
           /\ c.head \in Link /\ c.tail \in Link /\ c.size \in Int
           /\ c.node[n].key \in Names \cup {Root} /\ c.node[n].lh \in Seq(Servers)
BY DEF CacheSet, Entry

LEMMA AddRelinks ==
    ASSUME NEW c \in CacheSet, NEW n \in Ids
    PROVE  Relinked(c, addToCache(c, n))
  <1> DEFINE t == c.tail
             h == IF c.head = Nil THEN n ELSE c.head
             m == [c.node[n] EXCEPT !.prev = t, !.next = Nil]
             linked == [c EXCEPT !.node = [@ EXCEPT ![n].prev = t, ![n].next = Nil],
                                 !.tail = n,
                                 !.head = IF @ = Nil THEN n ELSE @]
             after == [linked EXCEPT !.node[t].next = n]
  <1>1. t \in Link /\ n \in Link /\ h \in Link /\ Nil \in Link
    BY LinksOf, Links
  <1>2. m \in Entry /\ m.key = c.node[n].key /\ m.lh = c.node[n].lh
    BY <1>1 DEF CacheSet, Entry
  <1>3. linked = [c EXCEPT !.node = [c.node EXCEPT ![n] = m], !.tail = n, !.head = h]
    OBVIOUS
  <1>4. Relinked(c, linked) /\ linked \in CacheSet
    <2> HIDE DEF m, h, t, linked
    <2>. QED BY <1>1, <1>2, <1>3 DEF Relinked, SameLists, CacheSet
  <1> HIDE DEF linked, t
  <1>5. Relinked(linked, after) /\ after \in CacheSet
    BY <1>1, <1>4, Assignments DEF Relinked
  <1>6. Relinked(after, Touch(after, {t}))
    <2> HIDE DEF after
    <2>. QED BY <1>5, TouchRelinks
  <1>7. addToCache(c, n) = IF t = Nil THEN linked ELSE Touch(after, {t})
    BY DEF addToCache, linked, t
  <1>. QED BY <1>4, <1>5, <1>6, <1>7, RelinkedTwice

LEMMA RemoveRelinks ==
    ASSUME NEW c \in CacheSet, NEW n \in Ids
    PROVE  Relinked(c, removeFromCache(c, n))
  <1> DEFINE p == c.node[n].prev
             a == IF p # Nil THEN [c EXCEPT !.node[p].next = c.node[n].next]
                             ELSE [c EXCEPT !.head = c.node[n].next]
             q == a.node[n].next
             b == IF q # Nil THEN [a EXCEPT !.node[q].prev = a.node[n].prev]
                             ELSE [a EXCEPT !.tail = a.node[n].prev]
  <1>1. Relinked(c, a)
    BY LinksOf, Assignments
  <1>2. Relinked(a, b) /\ b \in CacheSet
    <2>1. a \in CacheSet
      BY <1>1 DEF Relinked
    <2> HIDE DEF a
    <2>. QED BY <2>1, LinksOf, Assignments DEF Relinked
  <1>3. Relinked(b, Touch(b, {n, p, q}))
    <2> HIDE DEF b
    <2>. QED BY <1>2, TouchRelinks
  <1>4. removeFromCache(c, n) = Touch(b, {n, p, q})
    BY DEF removeFromCache
  <1>. QED BY <1>1, <1>2, <1>3, <1>4, RelinkedTwice

LEMMA UnmapRelinks ==
    ASSUME NEW c \in CacheSet, NEW n \in Ids, NEW h
    PROVE  Relinked(c, RemoveFromHashMap(c, n, h))
  <1> DEFINE p == c.node[n].prev
             a == IF p # Nil THEN [c EXCEPT !.node[p].next = c.node[n].next]
                             ELSE [c EXCEPT !.map[h] = c.node[n].next]
             q == a.node[n].next
             b == IF q # Nil THEN [a EXCEPT !.node[q].prev = a.node[n].prev] ELSE a
  <1>1. Relinked(c, a)
    BY LinksOf, Assignments
  <1>2. Relinked(a, b) /\ b \in CacheSet
    <2>1. a \in CacheSet
      BY <1>1 DEF Relinked
    <2> HIDE DEF a
    <2>. QED BY <2>1, LinksOf, Assignments, RelinkedNot DEF Relinked
  <1>3. Relinked(b, Touch(b, {n, p, q}))
    <2> HIDE DEF b
    <2>. QED BY <1>2, TouchRelinks
  <1>4. RemoveFromHashMap(c, n, h) = Touch(b, {n, p, q})
    BY DEF RemoveFromHashMap
  <1>. QED BY <1>1, <1>2, <1>3, <1>4, RelinkedTwice

LEMMA MoveRelinks ==
    ASSUME NEW c \in CacheSet, NEW n \in Ids
    PROVE  Relinked(c, MoveToTail(c, n))
  <1> DEFINE d == removeFromCache(c, n)
  <1>1. Relinked(c, d) /\ d \in CacheSet
    BY RemoveRelinks DEF Relinked
  <1>2. Relinked(d, addToCache(d, n))
    <2> HIDE DEF d
    <2>. QED BY <1>1, AddRelinks
  <1>3. MoveToTail(c, n) = IF n = c.tail THEN c ELSE addToCache(d, n)
    BY DEF MoveToTail
  <1>. QED BY <1>1, <1>2, <1>3, RelinkedTwice, RelinkedNot

LEMMA EvictRelinks ==
    ASSUME NEW c \in CacheSet
    PROVE  Relinked(c, evictLRUNode(c))
  <1>1. CASE c.head = Nil
    BY <1>1, Assignments, Links DEF evictLRUNode
  <1>2. CASE c.head # Nil
    <2> DEFINE n == c.head
               q == c.node[n].next
               a0 == [c EXCEPT !.head = q]
               a == [a0 EXCEPT !.map[Hash(c.node[n].key)] = Nil]
               b == IF q # Nil THEN [a EXCEPT !.node[q].prev = Nil] ELSE a
               d == Touch(b, {n, q})
    <2>1. n \in Ids /\ q \in Link /\ Nil \in Link
      <3>1. n \in Ids
        BY <1>2, Links DEF CacheSet
      <3>. QED BY <3>1, LinksOf, Links
    <2>2. Relinked(c, a0) /\ a0 \in CacheSet
      BY <2>1, Assignments DEF Relinked
    <2>3. Relinked(a0, a) /\ a \in CacheSet
      <3> HIDE DEF a0
      <3>. QED BY <2>1, <2>2, Assignments DEF Relinked
    <2>4. Relinked(a, b) /\ b \in CacheSet
      <3> HIDE DEF a
      <3>. QED BY <2>1, <2>3, Assignments, RelinkedNot DEF Relinked
    <2>5. Relinked(b, d) /\ d \in CacheSet
      <3> HIDE DEF b
      <3>. QED BY <2>4, TouchRelinks DEF Relinked
    <2>6. Relinked(d, [d EXCEPT !.node[n].freed = TRUE])
      <3> HIDE DEF d
      <3>. QED BY <2>1, <2>5, Assignments
    <2>7. a = [c EXCEPT !.head = q, !.map[Hash(c.node[n].key)] = Nil]
      BY DEF CacheSet
    <2>8. evictLRUNode(c) = [d EXCEPT !.node[n].freed = TRUE]
      <3> DEFINE a2 == [c EXCEPT !.head = q, !.map[Hash(c.node[n].key)] = Nil]
      <3>1. evictLRUNode(c) =
              [Touch(IF q # Nil THEN [a2 EXCEPT !.node[q].prev = Nil] ELSE a2, {n, q})
                 EXCEPT !.node[n].freed = TRUE]
        BY <1>2 DEF evictLRUNode
      <3>2. a2 = a
        BY <2>7
      <3> HIDE DEF a2, a
      <3>. QED BY <3>1, <3>2
    <2>. QED BY <2>2, <2>3, <2>4, <2>5, <2>6, <2>8, RelinkedTwice
  <1>. QED BY <1>1, <1>2

LEMMA GetRelinks ==
    ASSUME NEW c \in CacheSet, NEW key, Hash(key) \in Buckets
    PROVE  Relinked(c, get(c, key))
  <1> DEFINE n == Find(c, key)
             d == Touch(c, Visited(c, key))
  <1>1. Relinked(c, d) /\ d \in CacheSet
    BY TouchRelinks DEF Relinked
  <1>2. n # Nil => Relinked(d, MoveToTail(d, n))
    <2> HIDE DEF d
    <2>. QED BY <1>1, FindIs, MoveRelinks
  <1>3. get(c, key) = IF n = Nil THEN d ELSE MoveToTail(d, n)
    BY DEF get
  <1>. QED BY <1>1, <1>2, <1>3, RelinkedTwice

LEMMA DropRelinks ==
    ASSUME NEW c \in CacheSet, NEW key, Hash(key) \in Buckets
    PROVE  Relinked(c, removeForDelete(c, key))
  <1> DEFINE n == Find(c, key)
             d == Touch(c, Visited(c, key))
             e == removeFromCache(d, n)
             g == RemoveFromHashMap(e, n, Hash(key))
  <1>1. Relinked(c, d) /\ d \in CacheSet
    BY TouchRelinks DEF Relinked
  <1>2. ASSUME n # Nil PROVE Relinked(d, e) /\ e \in CacheSet
    <2> HIDE DEF d
    <2>. QED BY <1>1, <1>2, FindIs, RemoveRelinks DEF Relinked
  <1>3. ASSUME n # Nil PROVE Relinked(e, g) /\ g \in CacheSet
    <2>1. e \in CacheSet /\ n \in Ids
      BY <1>2, <1>3, FindIs
    <2> HIDE DEF e
    <2>. QED BY <2>1, UnmapRelinks DEF Relinked
  <1>4. ASSUME n # Nil PROVE Relinked(g, [g EXCEPT !.size = @ - 1])
    <2>1. g \in CacheSet
      BY <1>3, <1>4
    <2> HIDE DEF g
    <2>2. g.size - 1 \in Int
      BY <2>1 DEF CacheSet
    <2>. QED BY <2>1, <2>2, Links, Assignments
  <1>5. removeForDelete(c, key) = IF n = Nil THEN d ELSE [g EXCEPT !.size = @ - 1]
    BY DEF removeForDelete
  <1>. QED BY <1>1, <1>2, <1>3, <1>4, <1>5, RelinkedTwice

-----------------------------------------------------------------------------
(* What the lists may say: every list names storage servers of "had".       *)

HadOf(h, q) == IF q \in Names THEN h[q] ELSE {}
Listed(c, h) == \A i \in Ids : ToSet(c.node[i].lh) \subseteq HadOf(h, c.node[i].key)

LEMMA RelinkedListed ==
    ASSUME NEW c, NEW d, NEW h, Relinked(c, d), Listed(c, h)
    PROVE  Listed(d, h)
BY DEF Relinked, SameLists, Listed

\* A list is replaced.
LEMMA Relisted ==
    ASSUME NEW c \in CacheSet, NEW n \in Ids, NEW lh \in Seq(Servers), NEW h,
           Listed(c, h), ToSet(lh) \subseteq HadOf(h, c.node[n].key)
    PROVE  LET d == [c EXCEPT !.node[n].lh = lh]
           IN  /\ d \in CacheSet /\ Listed(d, h)
               /\ \A i \in Ids : d.node[i].key = c.node[i].key
  <1> DEFINE d == [c EXCEPT !.node[n].lh = lh]
  <1>1. d \in CacheSet
    BY DEF CacheSet, Entry
  <1>2. \A i \in Ids : /\ d.node[i].key = c.node[i].key
                       /\ d.node[i].lh = IF i = n THEN lh ELSE c.node[i].lh
    BY DEF CacheSet, Entry
  <1> HIDE DEF d
  <1>3. Listed(d, h)
    BY <1>2 DEF Listed
  <1>. QED BY <1>1, <1>2, <1>3 DEF d

\* A node that has a key keeps it.
Keyed(c, d) == \A i \in Ids : c.node[i].key # Root => d.node[i].key = c.node[i].key

LEMMA KeyedTwice ==
    ASSUME NEW c, NEW d, NEW e, Keyed(c, d), Keyed(d, e)
    PROVE  Keyed(c, e)
BY DEF Keyed

LEMMA RelinkedKeyed ==
    ASSUME NEW c, NEW d, Relinked(c, d)
    PROVE  Keyed(c, d)
BY DEF Relinked, SameLists, Keyed

LEMMA PutLists ==
    ASSUME NEW c \in CacheSet, NEW key \in Names, Hash(key) \in Buckets,
           NEW lh \in Seq(Servers), NEW h, Listed(c, h), ToSet(lh) \subseteq HadOf(h, key),
           Find(c, key) = Nil => HasRoom(c)
    PROVE  /\ put(c, key, lh) \in CacheSet
           /\ Listed(put(c, key, lh), h)
           /\ Keyed(c, put(c, key, lh))
  <1> DEFINE n == Find(c, key)
             d == Touch(c, Visited(c, key))
             i == Fresh(c)
             e == [Unused EXCEPT !.key = key, !.lh = lh]
             new == [d EXCEPT !.node[i] = e]
             last == CHOOSE v \in Visited(c, key) \ {Nil} : c.node[v].next = Nil
             chained == IF c.map[Hash(key)] = Nil THEN [new EXCEPT !.map[Hash(key)] = i]
                        ELSE [new EXCEPT !.node[last].next = i]
             full == c.size >= Capacity
             room == IF full THEN evictLRUNode(chained) ELSE chained
             added == addToCache(room, i)
             old == [d EXCEPT !.node[n].lh = lh]
  <1>1. Relinked(c, d) /\ d \in CacheSet /\ Listed(d, h) /\ d.node = c.node
    <2>1. d.node = c.node
      BY DEF Touch, CacheSet
    <2>. QED BY <2>1, TouchRelinks, RelinkedListed DEF Relinked
  <1> HIDE DEF d
  <1>2. CASE n # Nil
    <2>1. n \in Ids /\ c.node[n].key = key
      BY <1>2, FindIs
    <2>2. old \in CacheSet /\ Listed(old, h) /\ \A j \in Ids : old.node[j].key = c.node[j].key
      BY <1>1, <2>1, Relisted
    <2> HIDE DEF old, n
    <2>3. Relinked(old, MoveToTail(old, n))
      BY <2>1, <2>2, MoveRelinks
    <2>4. put(c, key, lh) = MoveToTail(old, n)
      BY <1>2 DEF put, old, n, d
    <2>. QED BY <2>2, <2>3, <2>4, RelinkedListed DEF Relinked, SameLists, Keyed
  <1>3. CASE n = Nil
    <2>1. i \in Ids /\ c.node[i] = Unused
      BY <1>3 DEF HasRoom, Fresh
    <2> HIDE DEF i
    <2>2. e \in Entry /\ e.key = key /\ e.lh = lh
      BY DEF Entry, Unused, Link
    <2> HIDE DEF e
    <2>3. new \in CacheSet /\ \A j \in Ids : new.node[j] = IF j = i THEN e ELSE c.node[j]
      <3>1. \A j \in Ids : new.node[j] = IF j = i THEN e ELSE c.node[j]
        BY <1>1 DEF CacheSet
      <3>2. new \in CacheSet
        BY <1>1, <2>1, <2>2 DEF CacheSet
      <3>. QED BY <3>1, <3>2
    <2> HIDE DEF new
    <2>4. Listed(new, h) /\ Keyed(c, new)
      <3>1. c.node[i].key = Root
        BY <2>1 DEF Unused, Root
      <3>. QED BY <3>1, <2>2, <2>3 DEF Listed, Keyed
    <2>5. Relinked(new, chained) /\ chained \in CacheSet
      BY <2>1, <2>3, Links, Assignments DEF Relinked
    <2> HIDE DEF chained
    <2>6. Relinked(chained, room) /\ room \in CacheSet
      BY <2>5, EvictRelinks, RelinkedNot DEF Relinked
    <2> HIDE DEF room
    <2>7. Relinked(room, added) /\ added \in CacheSet /\ added.size \in Int
      BY <2>1, <2>6, AddRelinks DEF Relinked, CacheSet
    <2> HIDE DEF added
    <2>8. Relinked(added, [added EXCEPT !.size = IF full THEN @ ELSE @ + 1])
      <3> DEFINE z == IF full THEN added.size ELSE added.size + 1
      <3>1. z \in Int
        BY <2>7
      <3>2. [added EXCEPT !.size = IF full THEN @ ELSE @ + 1] = [added EXCEPT !.size = z]
        OBVIOUS
      <3> HIDE DEF z
      <3>. QED BY <2>7, <3>1, <3>2, Links, Assignments
    <2>9. put(c, key, lh) = [added EXCEPT !.size = IF full THEN @ ELSE @ + 1]
      BY <1>3 DEF put, added, room, chained, new, e, i, d
    <2>10. Relinked(new, put(c, key, lh))
      BY <2>5, <2>6, <2>7, <2>8, <2>9, RelinkedTwice
    <2>. QED BY <2>10, <2>4, <2>3, RelinkedListed DEF Relinked, SameLists, Keyed
  <1>. QED BY <1>2, <1>3

\* What a thread holds is not reused.
LEMMA ReachedHeld ==
    ASSUME NEW c \in CacheSet, NEW held \in SUBSET Link
    PROVE  held \ {Nil} \subseteq Reachable(c, held)
  <1> DEFINE roots == {c.head, c.tail} \cup {c.map[h] : h \in Buckets} \cup held
             links(S) == S \cup {c.node[n].prev : n \in S} \cup {c.node[n].next : n \in S}
             T == SUBSET Ids
             F == [x \in (1 .. NNodes) \X T |-> links(x[2]) \ {Nil}]
             b == roots \ {Nil}
             P(f) == f = [k \in 0 .. NNodes |-> (IF k = 0 THEN roots ELSE links(f[k - 1])) \ {Nil}]
  <1>1. roots \in SUBSET Link /\ \A S \in T : links(S) \in SUBSET Link
    BY Links DEF CacheSet, Entry
  <1>2. b \in T /\ \A S \in T : links(S) \ {Nil} \in T
    BY <1>1, Links
  <1> HIDE DEF links, roots
  <1>3. F \in Moves(NNodes, T)
    BY <1>2 DEF Moves
  <1>4. NNodes \in Nat
    BY CacheAssumption
  <1>5. PICK f : Follows(f, NNodes, T, b, F)
    <2>1. b \in T
      BY <1>2
    <2> HIDE DEF F, b, T
    <2>. QED BY <2>1, <1>3, <1>4, Recursion
  <1>6. P(f)
    <2>1. \A k \in 1 .. NNodes : k - 1 \in 0 .. NNodes
      BY <1>4
    <2>2. \A k \in 1 .. NNodes : f[k] = links(f[k - 1]) \ {Nil}
      BY <2>1, <1>5 DEF Follows
    <2>3. \A k \in 0 .. NNodes : k = 0 \/ k \in 1 .. NNodes
      BY <1>4
    <2>4. \A k \in 0 .. NNodes : f[k] = (IF k = 0 THEN roots ELSE links(f[k - 1])) \ {Nil}
      BY <2>2, <2>3, <1>5 DEF Follows
    <2>. QED BY <2>4, <1>5 DEF Follows
  <1> DEFINE g == CHOOSE f_1 : P(f_1)
  <1>7. P(g)
    BY <1>6
  <1>8. Reachable(c, held) = g[NNodes]
    BY DEF Reachable, links, roots
  <1> HIDE DEF g
  <1>9. g[0] = b /\ \A k \in 1 .. NNodes : g[k] = links(g[k - 1]) \ {Nil}
    <2>1. 0 \in 0 .. NNodes /\ \A k \in 1 .. NNodes : k \in 0 .. NNodes /\ k # 0
      BY <1>4
    <2>. QED BY <2>1, <1>7
  <1>10. held \ {Nil} \subseteq b /\ \A S : S \subseteq links(S)
    BY DEF links, roots
  <1> DEFINE Bad == {k \in 0 .. NNodes : ~ (held \ {Nil} \subseteq g[k])}
  <1>11. Bad = {}
    <2>1. SUFFICES ASSUME Bad # {} PROVE FALSE
      OBVIOUS
    <2>2. PICK m \in Bad : \A j \in Bad : m <= j
      <3>1. Bad \in SUBSET Nat
        OBVIOUS
      <3>. QED BY <3>1, <2>1, Smallest
    <2>3. m # 0
      BY <1>9, <1>10
    <2>4. m \in 1 .. NNodes /\ m - 1 \in 0 .. NNodes /\ ~ (m <= m - 1)
      BY <2>3, <1>4
    <2>5. held \ {Nil} \subseteq g[m - 1]
      BY <2>4, <2>2
    <2>. QED BY <2>2, <2>4, <2>5, <1>9, <1>10
  <1>. QED BY <1>4, <1>8, <1>11

LEMMA CollectLists ==
    ASSUME NEW c \in CacheSet, NEW held \in SUBSET Link, NEW h, Listed(c, h)
    PROVE  /\ Collect(c, held) \in CacheSet
           /\ Listed(Collect(c, held), h)
           /\ \A i \in Ids \cap held : Collect(c, held).node[i].key = c.node[i].key
  <1> DEFINE reached == Reachable(c, held)
             d == Collect(c, held)
  <1>1. Unused \in Entry /\ Unused.lh = <<>>
    BY DEF Unused, Entry, Link, Root
  <1>2. \A i \in Ids : d.node[i] = IF i \in reached THEN c.node[i] ELSE Unused
    BY DEF Collect, CacheSet
  <1>3. d \in CacheSet
    BY <1>1 DEF Collect, CacheSet
  <1>4. \A i \in Ids \cap held : i \in reached
    BY ReachedHeld DEF Ids, Nil
  <1>5. Listed(d, h)
    <2>1. ToSet(<<>>) = {}
      BY DEF ToSet
    <2> HIDE DEF d, reached
    <2>. QED BY <2>1, <1>1, <1>2 DEF Listed
  <1>. QED BY <1>2, <1>3, <1>4, <1>5

LEMMA InitCache ==
    ASSUME NEW h PROVE initLRUCache \in CacheSet /\ Listed(initLRUCache, h)
  <1>1. Unused \in Entry /\ Unused.lh = <<>> /\ ToSet(<<>>) = {}
    BY DEF Unused, Entry, Link, ToSet, Root
  <1>2. initLRUCache \in CacheSet
    BY <1>1, Links DEF initLRUCache, CacheSet
  <1>. QED BY <1>1, <1>2 DEF initLRUCache, Listed

-----------------------------------------------------------------------------
(* Paths and their prefixes.                                                *)

LEMMA PrefixIs ==
    ASSUME NEW s \in Seq(Nat), NEW t \in Seq(Nat)
    PROVE  IsPrefix(s, t) <=> Len(s) <= Len(t) /\ \A i \in 1 .. Len(s) : s[i] = t[i]
  <1>1. SubSeq(s, 1, Len(s)) = s
    OBVIOUS
  <1>2. ASSUME Len(s) <= Len(t)
        PROVE  /\ SubSeq(t, 1, Len(s)) \in Seq(Nat)
               /\ Len(SubSeq(t, 1, Len(s))) = Len(s)
               /\ \A i \in 1 .. Len(s) : SubSeq(t, 1, Len(s))[i] = t[i]
    BY <1>2
  <1>3. ASSUME NEW u \in Seq(Nat), Len(u) = Len(s)
        PROVE  s = u <=> \A i \in 1 .. Len(s) : s[i] = u[i]
    BY <1>3, SeqEqual
  <1>. QED BY <1>1, <1>2, <1>3 DEF IsPrefix

LEMMA Cut ==
    ASSUME NEW t \in Seq(Nat), NEW l \in 0 .. Len(t)
    PROVE  /\ SubSeq(t, 1, l) \in Seq(Nat) /\ Len(SubSeq(t, 1, l)) = l
           /\ \A i \in 1 .. l : SubSeq(t, 1, l)[i] = t[i]
OBVIOUS

LEMMA PrefixesAre ==
    ASSUME NEW t \in Seq(Nat)
    PROVE  /\ \A n : n \in Prefixes(t) <=> n \in Seq(Nat) /\ IsPrefix(n, t)
           /\ Root \in Prefixes(t) /\ t \in Prefixes(t)
  <1>1. ASSUME NEW l \in 0 .. Len(t)
        PROVE  /\ SubSeq(t, 1, l) \in Seq(Nat) /\ Len(SubSeq(t, 1, l)) = l
               /\ \A i \in 1 .. l : SubSeq(t, 1, l)[i] = t[i]
    BY Cut
  <1>2. ASSUME NEW l \in 0 .. Len(t) PROVE IsPrefix(SubSeq(t, 1, l), t)
    <2> DEFINE u == SubSeq(t, 1, l)
    <2>1. u \in Seq(Nat) /\ Len(u) <= Len(t) /\ \A i \in 1 .. Len(u) : u[i] = t[i]
      BY <1>1
    <2> HIDE DEF u
    <2>2. IsPrefix(u, t)
      BY <2>1, PrefixIs
    <2>. QED BY <2>2 DEF u
  <1>3. ASSUME NEW n \in Seq(Nat), IsPrefix(n, t) PROVE n \in Prefixes(t)
    <2>1. Len(n) \in 0 .. Len(t) /\ n = SubSeq(t, 1, Len(n))
      BY <1>3 DEF IsPrefix
    <2>. QED BY <2>1 DEF Prefixes
  <1>4. \A n : n \in Prefixes(t) <=> n \in Seq(Nat) /\ IsPrefix(n, t)
    BY <1>1, <1>2, <1>3 DEF Prefixes
  <1>5. Root \in Seq(Nat) /\ IsPrefix(Root, t) /\ IsPrefix(t, t)
    <2>1. Root \in Seq(Nat) /\ Len(Root) = 0 /\ Len(t) \in Nat
      BY DEF Root
    <2>2. Len(Root) <= Len(t) /\ \A i \in 1 .. Len(Root) : Root[i] = t[i]
      BY <2>1
    <2>3. IsPrefix(Root, t)
      BY <2>1, <2>2, PrefixIs
    <2>4. IsPrefix(t, t)
      BY PrefixIs
    <2>. QED BY <2>1, <2>3, <2>4
  <1>. QED BY <1>4, <1>5

LEMMA PrefixOrder ==
    ASSUME NEW r \in Seq(Nat), NEW s \in Seq(Nat), NEW t \in Seq(Nat)
    PROVE  /\ IsPrefix(s, s)
           /\ IsPrefix(r, s) /\ IsPrefix(s, t) => IsPrefix(r, t)
           /\ IsPrefix(s, t) /\ IsPrefix(t, s) => s = t
           /\ IsPrefix(r, t) /\ IsPrefix(s, t) /\ Len(r) <= Len(s) => IsPrefix(r, s)
           /\ IsPrefix(s, t) /\ Len(s) = Len(t) => s = t
  <1>1. IsPrefix(s, s)
    BY PrefixIs
  <1>2. ASSUME IsPrefix(r, s), IsPrefix(s, t) PROVE IsPrefix(r, t)
    BY <1>2, PrefixIs
  <1>3. ASSUME IsPrefix(s, t), Len(s) = Len(t) PROVE s = t
    BY <1>3, PrefixIs, SeqEqual
  <1>4. ASSUME IsPrefix(s, t), IsPrefix(t, s) PROVE s = t
    <2>1. Len(s) = Len(t)
      BY <1>4 DEF IsPrefix
    <2>. QED BY <2>1, <1>3, <1>4
  <1>5. ASSUME IsPrefix(r, t), IsPrefix(s, t), Len(r) <= Len(s) PROVE IsPrefix(r, s)
    BY <1>5, PrefixIs
  <1>. QED BY <1>1, <1>2, <1>3, <1>4, <1>5

\* The nodes a trie may have.
Nodes == {Root} \cup UNION {Prefixes(p) : p \in Paths}

LEMMA PathsAre ==
    /\ \A p \in Paths : p \in Seq(Nat) /\ p \in Texts /\ p \in Nodes /\ p \in Tokens(p)
    /\ Nodes \subseteq Seq(Nat) /\ Root \in Nodes
    /\ Paths # {} => \A n \in Nodes : Hash(n) \in Buckets
  <1>1. \A p \in Paths : p \in Prefixes(p)
    <2>1. SUFFICES ASSUME NEW p \in Paths PROVE p \in Prefixes(p)
      OBVIOUS
    <2>2. p \in Tokens(p)
      BY NameSpaceAssumption
    <2>. QED BY <2>2 DEF Tokens
  <1>2. \A p \in Paths : Prefixes(p) \subseteq Texts
    BY DEF Texts
  <1>3. \A p \in Paths : p \in Seq(Nat) /\ p \in Texts /\ p \in Nodes /\ p \in Tokens(p)
    BY <1>1, <1>2, NameSpaceAssumption DEF Nodes
  <1>4. \A p \in Paths : \A n \in Prefixes(p) : n \in Seq(Nat) /\ Hash(n) \in Buckets
    BY <1>2, NameSpaceAssumption
  <1>5. \A p \in Paths : Root \in Prefixes(p)
    BY <1>3, PrefixesAre
  <1>6. Root \in Seq(Nat)
    BY DEF Root
  <1>. QED BY <1>3, <1>4, <1>5, <1>6 DEF Nodes

LEMMA NamesAre ==
    /\ Names \subseteq Nodes /\ Root \notin Names
    /\ \A p \in Paths : Tokens(p) \subseteq Names /\ p \in Names
    /\ \A n \in Nodes : Prefixes(n) \subseteq Nodes
  <1>1. \A p \in Paths : Tokens(p) \subseteq Prefixes(p) /\ Root \notin Tokens(p)
    BY DEF Tokens
  <1>2. \A p \in Paths : Prefixes(p) \subseteq Nodes
    BY DEF Nodes
  <1>3. ASSUME NEW p \in Paths, NEW n \in Prefixes(p), NEW m \in Prefixes(n) PROVE m \in Prefixes(p)
    <2>1. p \in Seq(Nat)
      BY PathsAre
    <2>2. n \in Seq(Nat) /\ IsPrefix(n, p)
      BY <2>1, PrefixesAre
    <2>3. m \in Seq(Nat) /\ IsPrefix(m, n)
      BY <2>2, PrefixesAre
    <2>. QED BY <2>1, <2>2, <2>3, PrefixOrder, PrefixesAre
  <1>4. Prefixes(Root) \subseteq {Root}
    <2>1. SUFFICES ASSUME NEW m \in Prefixes(Root) PROVE m = Root
      OBVIOUS
    <2>2. Root \in Seq(Nat) /\ m \in Seq(Nat) /\ IsPrefix(m, Root)
      <3>1. Root \in Seq(Nat)
        BY DEF Root
      <3>. QED BY <3>1, PrefixesAre
    <2>3. Len(m) = 0
      BY <2>2 DEF IsPrefix, Root
    <2>. QED BY <2>2, <2>3 DEF Root
  <1>5. \A n \in Nodes : Prefixes(n) \subseteq Nodes
    BY <1>2, <1>3, <1>4 DEF Nodes
  <1>. QED BY <1>1, <1>2, <1>5, PathsAre DEF Names

\* The image of a finite set is finite.
LEMMA FiniteImage ==
    ASSUME NEW S, IsFiniteSet(S), NEW T, NEW f \in [S -> T]
    PROVE  IsFiniteSet({f[x] : x \in S})
  <1> DEFINE U == {f[x] : x \in S}
  <1>1. f \in Surjection(S, U)
    BY DEF Surjection
  <1> HIDE DEF U
  <1>2. IsFiniteSet(U)
    BY <1>1, FS_Surjection
  <1>. QED BY <1>2 DEF U

LEMMA FiniteNodes == IsFiniteSet(Nodes) /\ IsFiniteSet(Names)
  <1>1. ASSUME NEW p \in Paths PROVE IsFiniteSet(Prefixes(p))
    <2> DEFINE f == [l \in 0 .. Len(p) |-> SubSeq(p, 1, l)]
    <2>1. f \in [0 .. Len(p) -> {SubSeq(p, 1, l) : l \in 0 .. Len(p)}]
      OBVIOUS
    <2>2. IsFiniteSet(0 .. Len(p))
      BY PathsAre, FS_Interval
    <2>3. Prefixes(p) = {f[l] : l \in 0 .. Len(p)}
      BY DEF Prefixes
    <2> HIDE DEF f
    <2>. QED BY <2>1, <2>2, <2>3, FiniteImage
  <1> DEFINE f == [p \in Paths |-> Prefixes(p)]
             S == {f[p] : p \in Paths}
  <1>2. f \in [Paths -> {Prefixes(p) : p \in Paths}]
    OBVIOUS
  <1>3. IsFiniteSet(S)
    <2> HIDE DEF f
    <2>. QED BY <1>2, FiniteImage, NameSpaceAssumption
  <1>4. \A T \in S : IsFiniteSet(T)
    BY <1>1
  <1>5. Nodes = {Root} \cup UNION S
    BY DEF Nodes
  <1> HIDE DEF S
  <1>6. IsFiniteSet(UNION S)
    BY <1>3, <1>4, FS_UNION
  <1>7. IsFiniteSet(Nodes)
    BY <1>5, <1>6, FS_Union, FS_Singleton
  <1>. QED BY <1>7, NamesAre, FS_Subset

-----------------------------------------------------------------------------
(* The trie: its type, and whose servers it names.                          *)

Contents == [count : Int, end : BOOLEAN, ports : Seq(Servers)]
TrieSet == {t \in UNION {[D -> Contents] : D \in SUBSET Nodes} :
              \A n \in DOMAIN t : n # Root => t[n].count > 0}
Ported(t, h) == \A n \in DOMAIN t : ToSet(t[n].ports) \subseteq HadOf(h, n)

LEMMA TrieIs ==
    ASSUME NEW t
    PROVE  t \in TrieSet <=>
             /\ DOMAIN t \subseteq Nodes /\ t = [n \in DOMAIN t |-> t[n]]
             /\ \A n \in DOMAIN t : t[n] \in Contents /\ (n # Root => t[n].count > 0)
  <1>1. ASSUME t \in TrieSet
        PROVE  /\ DOMAIN t \subseteq Nodes /\ t = [n \in DOMAIN t |-> t[n]]
               /\ \A n \in DOMAIN t : t[n] \in Contents /\ (n # Root => t[n].count > 0)
    <2>1. PICK D \in SUBSET Nodes : t \in [D -> Contents]
      BY <1>1 DEF TrieSet
    <2>2. \A n \in DOMAIN t : n # Root => t[n].count > 0
      BY <1>1 DEF TrieSet
    <2>. QED BY <2>1, <2>2
  <1>2. ASSUME DOMAIN t \subseteq Nodes, t = [n \in DOMAIN t |-> t[n]],
               \A n \in DOMAIN t : t[n] \in Contents /\ (n # Root => t[n].count > 0)
        PROVE  t \in TrieSet
    <2>1. t \in [DOMAIN t -> Contents]
      BY <1>2
    <2>2. t \in UNION {[D -> Contents] : D \in SUBSET Nodes}
      BY <1>2, <2>1
    <2>. QED BY <1>2, <2>2 DEF TrieSet
  <1>. QED BY <1>1, <1>2

LEMMA EmptyTrieIs == ASSUME NEW h PROVE EmptyTrie \in TrieSet /\ Ported(EmptyTrie, h)
  <1>1. NewNode \in Contents /\ NewNode.ports = <<>> /\ ToSet(<<>>) = {}
    BY DEF NewNode, Contents, ToSet
  <1>2. DOMAIN EmptyTrie = {Root} /\ EmptyTrie[Root] = NewNode
    BY DEF EmptyTrie
  <1>3. EmptyTrie \in TrieSet
    BY <1>1, <1>2, TrieIs, PathsAre DEF EmptyTrie
  <1>. QED BY <1>1, <1>2, <1>3 DEF Ported

\* A number of names.
LEMMA SomeNames ==
    ASSUME NEW V \in SUBSET Names
    PROVE  IsFiniteSet(V) /\ Cardinality(V) \in Nat /\ (Cardinality(V) = 0 <=> V = {})
BY FiniteNodes, FS_Subset, FS_CardinalityType, FS_EmptySet

\* What is at a node before an insertion, and what is there afterwards.
OldAt(t, n) == IF n \in DOMAIN t THEN t[n] ELSE NewNode
More(vals, n) == {val \in vals : IsPrefix(n, val)}

Inserts(t, vals, s, u) ==
    /\ u \in TrieSet
    /\ DOMAIN u = DOMAIN t \cup UNION {Prefixes(val) : val \in vals}
    /\ \A n \in DOMAIN u :
         /\ OldAt(t, n) \in Contents
         /\ u[n].count = OldAt(t, n).count + Cardinality(More(vals, n))
         /\ u[n].end <=> OldAt(t, n).end \/ n \in vals
         /\ ToSet(u[n].ports) = ToSet(OldAt(t, n).ports) \cup IF n \in vals THEN {s} ELSE {}

LEMMA InsertIs ==
    ASSUME NEW t \in TrieSet, NEW vals \in SUBSET Names, NEW s \in Servers
    PROVE  Inserts(t, vals, s, InsertTries3(t, vals, s))
  <1> DEFINE u == InsertTries3(t, vals, s)
             old(n) == IF n \in DOMAIN t THEN t[n] ELSE NewNode
             more(n) == {val \in vals : IsPrefix(n, val)}
             D == DOMAIN t \cup UNION {Prefixes(val) : val \in vals}
             ports(n) == IF n \in vals /\ s \notin ToSet(old(n).ports)
                         THEN <<s>> \o old(n).ports ELSE old(n).ports
  <1>1. NewNode \in Contents /\ NewNode.count = 0
    BY DEF NewNode, Contents
  <1>2. DOMAIN t \subseteq Nodes /\ \A n \in DOMAIN t : t[n] \in Contents /\ (n # Root => t[n].count > 0)
    BY TrieIs
  <1>3. D \subseteq Nodes
    BY <1>2, NamesAre
  <1>4. \A n : old(n) \in Contents
    BY <1>1, <1>2
  <1>5. \A n : Cardinality(more(n)) \in Nat /\ (Cardinality(more(n)) = 0 <=> more(n) = {})
    <2>1. \A n : more(n) \in SUBSET Names
      OBVIOUS
    <2> HIDE DEF more
    <2>. QED BY <2>1, SomeNames
  <1>6. \A n \in D : n # Root => old(n).count + Cardinality(more(n)) > 0
    <2>1. SUFFICES ASSUME NEW n \in D, n # Root PROVE old(n).count + Cardinality(more(n)) > 0
      OBVIOUS
    <2>2. CASE n \in DOMAIN t
      <3>1. old(n).count > 0 /\ old(n).count \in Int
        BY <1>2, <2>1, <2>2 DEF Contents
      <3> HIDE DEF old, more
      <3>. QED BY <3>1, <1>5
    <2>3. CASE n \notin DOMAIN t
      <3>1. PICK val \in vals : n \in Prefixes(val)
        BY <2>3
      <3>2. val \in Seq(Nat)
        BY NamesAre, PathsAre
      <3>3. val \in more(n)
        BY <3>1, <3>2, PrefixesAre
      <3>4. old(n).count = 0
        BY <1>1, <2>3
      <3> HIDE DEF old, more
      <3>. QED BY <3>3, <3>4, <1>5
    <2>. QED BY <2>2, <2>3
  <1>7. \A n : ports(n) \in Seq(Servers) /\
               ToSet(ports(n)) = ToSet(old(n).ports) \cup IF n \in vals THEN {s} ELSE {}
    <2>1. SUFFICES ASSUME NEW n
                   PROVE  ports(n) \in Seq(Servers) /\
                          ToSet(ports(n)) = ToSet(old(n).ports) \cup IF n \in vals THEN {s} ELSE {}
      OBVIOUS
    <2>2. old(n).ports \in Seq(Servers)
      BY <1>4 DEF Contents
    <2>3. ASSUME NEW q \in Seq(Servers)
          PROVE  <<s>> \o q \in Seq(Servers) /\ ToSet(<<s>> \o q) = {s} \cup ToSet(q)
      <3>1. <<s>> \in Seq(Servers) /\ Len(<<s>>) = 1 /\ <<s>>[1] = s
        OBVIOUS
      <3>2. <<s>> \o q \in Seq(Servers)
        BY <3>1
      <3>3. DOMAIN (<<s>> \o q) = 1 .. 1 + Len(q) /\ DOMAIN q = 1 .. Len(q)
        BY <3>1
      <3>4. (<<s>> \o q)[1] = s /\ \A i \in 1 .. Len(q) : (<<s>> \o q)[i + 1] = q[i]
        BY <3>1
      <3>5. \A i \in 1 .. 1 + Len(q) : i # 1 => i - 1 \in 1 .. Len(q) /\ i = (i - 1) + 1
        OBVIOUS
      <3>6. 1 \in 1 .. 1 + Len(q) /\ \A i \in 1 .. Len(q) : i + 1 \in 1 .. 1 + Len(q)
        OBVIOUS
      <3>7. ToSet(<<s>> \o q) \subseteq {s} \cup ToSet(q)
        BY <3>3, <3>4, <3>5 DEF ToSet
      <3>8. {s} \cup ToSet(q) \subseteq ToSet(<<s>> \o q)
        <4> DEFINE r == <<s>> \o q
        <4>1. s \in ToSet(r)
          BY <3>3, <3>4, <3>6 DEF ToSet
        <4>2. ASSUME NEW i \in 1 .. Len(q) PROVE q[i] \in ToSet(r)
          <5>1. i + 1 \in DOMAIN r /\ r[i + 1] = q[i]
            BY <3>3, <3>4, <3>6
          <5> HIDE DEF r
          <5>. QED BY <5>1 DEF ToSet
        <4> HIDE DEF r
        <4>3. ToSet(q) \subseteq ToSet(r)
          BY <4>2, <3>3 DEF ToSet
        <4>. QED BY <4>1, <4>3 DEF r
      <3>. QED BY <3>2, <3>7, <3>8
    <2> HIDE DEF old
    <2>. QED BY <2>2, <2>3
  <1> HIDE DEF more, ports
  <1>8. u = [n \in D |-> [count |-> old(n).count + Cardinality(more(n)),
                          end |-> old(n).end \/ n \in vals, ports |-> ports(n)]]
    BY DEF InsertTries3, more, ports
  <1> HIDE DEF u, old
  <1>9. \A n \in D : /\ u[n] \in Contents
                     /\ u[n].count = old(n).count + Cardinality(more(n))
                     /\ u[n].end <=> old(n).end \/ n \in vals
                     /\ u[n].ports = ports(n)
    <2>1. SUFFICES ASSUME NEW n \in D
                   PROVE  /\ u[n] \in Contents
                          /\ u[n].count = old(n).count + Cardinality(more(n))
                          /\ u[n].end <=> old(n).end \/ n \in vals
                          /\ u[n].ports = ports(n)
      OBVIOUS
    <2>2. u[n] = [count |-> old(n).count + Cardinality(more(n)),
                  end |-> old(n).end \/ n \in vals, ports |-> ports(n)]
      BY <1>8
    <2>3. old(n).count + Cardinality(more(n)) \in Int
      BY <1>4, <1>5 DEF Contents
    <2>4. (old(n).end \/ n \in vals) \in BOOLEAN
      OBVIOUS
    <2>5. u[n] \in Contents
      BY <2>2, <2>3, <2>4, <1>7 DEF Contents
    <2>6. u[n].end <=> old(n).end \/ n \in vals
      <3> DEFINE e == old(n).end \/ n \in vals
      <3>1. u[n].end = e
        <4>1. u[n] = [count |-> old(n).count + Cardinality(more(n)), end |-> e, ports |-> ports(n)]
          BY <2>2
        <4> HIDE DEF e
        <4>. QED BY <4>1
      <3>. QED BY <3>1
    <2>7. u[n].count = old(n).count + Cardinality(more(n)) /\ u[n].ports = ports(n)
      BY <2>2
    <2>. QED BY <2>5, <2>6, <2>7
  <1>10. DOMAIN u = D
    BY <1>8
  <1>11. u \in TrieSet
    <2>1. \A n \in D : n # Root => u[n].count > 0
      BY <1>6, <1>9
    <2>2. u = [n \in DOMAIN u |-> u[n]]
      BY <1>8
    <2>. QED BY <1>3, <1>9, <1>10, <2>1, <2>2, TrieIs
  <1>12. \A n : old(n) = OldAt(t, n) /\ more(n) = More(vals, n)
    BY DEF old, more, OldAt, More
  <1>13. Inserts(t, vals, s, u)
    BY <1>4, <1>7, <1>9, <1>10, <1>11, <1>12 DEF Inserts
  <1>. QED BY <1>13 DEF u

LEMMA InsertPorts ==
    ASSUME NEW t \in TrieSet, NEW vals \in SUBSET Names, NEW s \in Servers, NEW h,
           Ported(t, h), \A q \in vals : s \in h[q]
    PROVE  Ported(InsertTries3(t, vals, s), h)
  <1> DEFINE u == InsertTries3(t, vals, s)
  <1>0. Inserts(t, vals, s, u)
    BY InsertIs
  <1>1. \A n \in DOMAIN u : ToSet(u[n].ports) = ToSet(OldAt(t, n).ports) \cup IF n \in vals THEN {s} ELSE {}
    <2> HIDE DEF u
    <2>. QED BY <1>0 DEF Inserts
  <1>2. \A n : ToSet(OldAt(t, n).ports) \subseteq HadOf(h, n)
    <2>1. ToSet(NewNode.ports) = {}
      BY DEF NewNode, ToSet
    <2>. QED BY <2>1 DEF Ported, OldAt
  <1>3. \A n \in vals : s \in HadOf(h, n)
    BY DEF HadOf
  <1> HIDE DEF u
  <1>4. Ported(u, h)
    BY <1>1, <1>2, <1>3 DEF Ported
  <1>. QED BY <1>4 DEF u

Cleared(t, u) ==
    /\ u \in TrieSet /\ DOMAIN u = DOMAIN t
    /\ \A n \in DOMAIN t : /\ u[n].count = t[n].count /\ u[n].ports = t[n].ports
                           /\ u[n].end => t[n].end
    /\ \A h : Ported(t, h) => Ported(u, h)

LEMMA ClearIs ==
    ASSUME NEW t \in TrieSet, NEW val
    PROVE  Cleared(t, ClearEnd(t, val))
  <1> DEFINE u == ClearEnd(t, val)
  <1>1. /\ DOMAIN t \subseteq Nodes /\ t = [n \in DOMAIN t |-> t[n]]
        /\ \A n \in DOMAIN t : t[n] \in Contents /\ (n # Root => t[n].count > 0)
    BY TrieIs
  <1>2. DOMAIN u = DOMAIN t /\ u = [n \in DOMAIN u |-> u[n]]
    BY DEF ClearEnd
  <1>3. \A n \in DOMAIN t : u[n] = IF n = val THEN [t[n] EXCEPT !.end = FALSE] ELSE t[n]
    BY DEF ClearEnd
  <1> HIDE DEF u
  <1>4. \A n \in DOMAIN t : /\ u[n] \in Contents
                            /\ u[n].count = t[n].count /\ u[n].ports = t[n].ports
                            /\ u[n].end = IF n = val THEN FALSE ELSE t[n].end
    BY <1>1, <1>3 DEF Contents
  <1>5. u \in TrieSet
    BY <1>1, <1>2, <1>4, TrieIs
  <1>6. \A h : Ported(t, h) => Ported(u, h)
    BY <1>2, <1>4 DEF Ported
  <1>7. \A n \in DOMAIN t : u[n].end => t[n].end
    BY <1>4
  <1>8. Cleared(t, u)
    BY <1>2, <1>4, <1>5, <1>6, <1>7 DEF Cleared
  <1>. QED BY <1>8 DEF u

\* What DeleteNode leaves at a node, and which nodes it unlinks.
LessAt(t, val, n) == t[n].count - IF IsPrefix(n, val) THEN 1 ELSE 0
Gone(t, val) == {n \in Prefixes(val) \ {Root} : n \in DOMAIN t /\ LessAt(t, val, n) = 0}

Deleted(t, val, u) ==
    /\ u \in TrieSet /\ DOMAIN u \subseteq DOMAIN t
    /\ Walkable(t, val) => DOMAIN u = {m \in DOMAIN t : ~ \E g \in Gone(t, val) : IsPrefix(g, m)}
    /\ \A n \in DOMAIN u : /\ u[n].count = LessAt(t, val, n)
                           /\ u[n].ports = t[n].ports
                           /\ u[n].end => t[n].end /\ n # val

LEMMA DeleteIs ==
    ASSUME NEW t \in TrieSet, NEW val \in Seq(Nat)
    PROVE  Deleted(t, val, DeleteNode(t, val))
  <1> DEFINE u == DeleteNode(t, val)
             less == [n \in DOMAIN t |->
                        [t[n] EXCEPT !.count = IF IsPrefix(n, val) THEN @ - 1 ELSE @,
                                     !.end = @ /\ n # val]]
             gone == {n \in Prefixes(val) \ {Root} : less[n].count = 0}
             D == {m \in DOMAIN t : ~ \E g \in gone : IsPrefix(g, m)}
  <1>1. /\ DOMAIN t \subseteq Nodes
        /\ \A n \in DOMAIN t : t[n] \in Contents /\ (n # Root => t[n].count > 0)
    BY TrieIs
  <1>2. u = [n \in D |-> less[n]]
    BY DEF DeleteNode
  <1>3. \A n \in DOMAIN t : /\ less[n] \in Contents /\ less[n].count = LessAt(t, val, n)
                            /\ less[n].ports = t[n].ports
                            /\ less[n].end => t[n].end /\ n # val
    <2>1. SUFFICES ASSUME NEW n \in DOMAIN t
                   PROVE  /\ less[n] \in Contents /\ less[n].count = LessAt(t, val, n)
                          /\ less[n].ports = t[n].ports
                          /\ less[n].end => t[n].end /\ n # val
      OBVIOUS
    <2> DEFINE e == t[n].end /\ n # val
    <2>2. e \in BOOLEAN
      OBVIOUS
    <2>3. less[n] = [t[n] EXCEPT !.count = LessAt(t, val, n), !.end = e]
      <3>1. t[n].count \in Int
        BY <1>1 DEF Contents
      <3>2. LessAt(t, val, n) = IF IsPrefix(n, val) THEN t[n].count - 1 ELSE t[n].count
        BY <3>1 DEF LessAt
      <3>. QED BY <3>2
    <2>4. t[n] \in Contents /\ LessAt(t, val, n) \in Int
      BY <1>1 DEF LessAt, Contents
    <2> HIDE DEF less, e
    <2>5. /\ less[n] \in Contents /\ less[n].count = LessAt(t, val, n)
          /\ less[n].ports = t[n].ports /\ less[n].end = e
      BY <2>2, <2>3, <2>4 DEF Contents
    <2>. QED BY <2>5 DEF e
  <1> HIDE DEF less
  <1>4. DOMAIN u = D /\ u = [n \in DOMAIN u |-> u[n]] /\ \A n \in D : u[n] = less[n] /\ n \in DOMAIN t
    BY <1>2
  <1>5. \A n \in D : n # Root => u[n].count > 0
    <2>1. SUFFICES ASSUME NEW n \in D, n # Root PROVE u[n].count > 0
      OBVIOUS
    <2>2. u[n].count = LessAt(t, val, n) /\ t[n].count \in Int /\ t[n].count > 0
      BY <1>1, <1>3, <1>4, <2>1 DEF Contents
    <2>3. n \in Seq(Nat)
      BY <1>1, <1>4, PathsAre
    <2>4. CASE IsPrefix(n, val)
      <3>1. n \in Prefixes(val) /\ IsPrefix(n, n)
        BY <2>3, <2>4, PrefixesAre, PrefixOrder
      <3>2. n \notin gone
        BY <3>1
      <3>3. LessAt(t, val, n) # 0 /\ LessAt(t, val, n) = t[n].count - 1
        BY <3>1, <3>2, <2>1, <1>3, <2>4 DEF LessAt
      <3>. QED BY <2>2, <3>3
    <2>5. CASE ~IsPrefix(n, val)
      BY <2>2, <2>5 DEF LessAt
    <2>. QED BY <2>4, <2>5
  <1>6. Walkable(t, val) => gone = Gone(t, val)
    BY <1>3 DEF Walkable, Gone
  <1> HIDE DEF u, gone
  <1>7. D \subseteq DOMAIN t
    OBVIOUS
  <1>8. Walkable(t, val) => D = {m \in DOMAIN t : ~ \E g \in Gone(t, val) : IsPrefix(g, m)}
    BY <1>6
  <1> HIDE DEF D
  <1>9. u \in TrieSet
    BY <1>1, <1>3, <1>4, <1>5, <1>7, TrieIs
  <1>10. Deleted(t, val, u)
    BY <1>3, <1>4, <1>7, <1>8, <1>9 DEF Deleted
  <1>. QED BY <1>10 DEF u

LEMMA DeletePorts ==
    ASSUME NEW t \in TrieSet, NEW val \in Seq(Nat), NEW h, Ported(t, h)
    PROVE  DeleteNode(t, val) \in TrieSet /\ Ported(DeleteNode(t, val), h)
  <1> DEFINE u == DeleteNode(t, val)
  <1>1. Deleted(t, val, u)
    BY DeleteIs
  <1> HIDE DEF u
  <1>2. u \in TrieSet /\ Ported(u, h)
    BY <1>1 DEF Deleted, Ported
  <1>. QED BY <1>2 DEF u

-----------------------------------------------------------------------------
(* The next entry under a path.                                             *)

\* A finite set of sequences that has a member has a longest one, and a shortest.
LEMMA Longest ==
    ASSUME NEW S \in SUBSET Seq(Nat), IsFiniteSet(S), S # {}
    PROVE  \E n \in S : \A m \in S : Len(m) <= Len(n)
  <1> DEFINE longer(n) == {m \in S : Len(m) > Len(n)}
             C == {Cardinality(longer(n)) : n \in S}
  <1>1. \A n \in S : IsFiniteSet(longer(n)) /\ Cardinality(longer(n)) \in Nat
    <2>1. \A n : longer(n) \in SUBSET S
      OBVIOUS
    <2> HIDE DEF longer
    <2>. QED BY <2>1, FS_Subset, FS_CardinalityType
  <1>2. PICK n \in S : \A m \in S : Cardinality(longer(n)) <= Cardinality(longer(m))
    <2> HIDE DEF longer
    <2>1. C \in SUBSET Nat /\ C # {}
      BY <1>1
    <2>2. PICK k \in C : \A j \in C : k <= j
      <3> HIDE DEF C
      <3>. QED BY <2>1, Smallest
    <2>. QED BY <2>2
  <1>3. ASSUME NEW m \in S, ~(Len(m) <= Len(n)) PROVE FALSE
    <2>1. m \in longer(n) /\ m \notin longer(m) /\ longer(m) \in SUBSET longer(n)
      BY <1>3
    <2> HIDE DEF longer
    <2>2. /\ Cardinality(longer(m)) <= Cardinality(longer(n))
          /\ Cardinality(longer(n)) = Cardinality(longer(m)) => longer(n) = longer(m)
      BY <2>1, <1>1, FS_Subset
    <2>3. Cardinality(longer(n)) = Cardinality(longer(m))
      BY <2>2, <1>1, <1>2
    <2>. QED BY <2>1, <2>2, <2>3
  <1>. QED BY <1>3

LEMMA Shortest ==
    ASSUME NEW S \in SUBSET Seq(Nat), S # {}
    PROVE  \E n \in S : \A m \in S : Len(n) <= Len(m)
  <1> DEFINE C == {Len(n) : n \in S}
  <1>1. C \in SUBSET Nat /\ C # {}
    <2>1. \A n \in S : Len(n) \in Nat
      OBVIOUS
    <2>. QED BY <2>1
  <1>2. PICK k \in C : \A j \in C : k <= j
    <2> HIDE DEF C
    <2>. QED BY <1>1, Smallest
  <1>. QED BY <1>2

\* The leftmost of the children of a node on the leftmost way down.
LEMMA LeftmostChild ==
    ASSUME NEW t \in TrieSet, NEW val \in Seq(Nat), NEW n \in DOMAIN t, Leftmost(t, val, n),
           Children(t, n) # {}
    PROVE  \E m \in Children(t, n) : Leftmost(t, val, m)
  <1> DEFINE C == Children(t, n)
             L == {m[Len(n) + 1] : m \in C}
  <1>1. n \in Seq(Nat) /\ DOMAIN t \subseteq Seq(Nat)
    BY TrieIs, PathsAre
  <1>2. \A m \in C : m \in Seq(Nat) /\ Len(m) = Len(n) + 1 /\ IsPrefix(n, m) /\ m[Len(n) + 1] \in Nat
    BY <1>1 DEF Children
  <1>3. PICK m \in C : \A k \in C : m[Len(n) + 1] <= k[Len(n) + 1]
    <2> HIDE DEF C
    <2>1. L \in SUBSET Nat /\ L # {}
      BY <1>2 DEF C
    <2>2. PICK k \in L : \A j \in L : k <= j
      <3> HIDE DEF L
      <3>. QED BY <2>1, Smallest
    <2>. QED BY <2>2
  <1>4. m \in Seq(Nat) /\ Len(m) = Len(n) + 1 /\ IsPrefix(n, m) /\ IsPrefix(val, n)
    BY <1>2 DEF Leftmost
  <1>5. IsPrefix(val, m)
    BY <1>1, <1>4, PrefixOrder
  <1>6. ASSUME NEW k \in Len(val) + 1 .. Len(m), NEW x \in Children(t, SubSeq(m, 1, k - 1))
        PROVE  m[k] <= x[k]
    <2>1. CASE k = Len(n) + 1
      <3>1. SubSeq(m, 1, k - 1) = n
        BY <2>1, <1>1, <1>4 DEF IsPrefix
      <3>. QED BY <3>1, <2>1, <1>3, <1>6
    <2>2. CASE k # Len(n) + 1
      <3>1. k \in Len(val) + 1 .. Len(n) /\ k \in 1 .. Len(n) /\ k - 1 \in 0 .. Len(n)
        BY <2>2, <1>1, <1>4
      <3>2. \A i \in 1 .. Len(n) : n[i] = m[i]
        BY <1>1, <1>4, PrefixIs
      <3>3. SubSeq(m, 1, k - 1) = SubSeq(n, 1, k - 1)
        <4> DEFINE u == SubSeq(m, 1, k - 1)
                   v == SubSeq(n, 1, k - 1)
        <4>0. k - 1 \in 0 .. Len(m)
          BY <3>1, <1>1, <1>4
        <4>1. u \in Seq(Nat) /\ v \in Seq(Nat) /\ Len(u) = k - 1 /\ Len(v) = k - 1
          BY <4>0, <3>1, <1>1, <1>4, Cut
        <4>2. \A i \in 1 .. k - 1 : u[i] = m[i] /\ v[i] = n[i]
          BY <4>0, <3>1, <1>1, <1>4, Cut
        <4>3. \A i \in 1 .. Len(u) : u[i] = v[i]
          BY <3>1, <3>2, <4>1, <4>2, <1>1
        <4> HIDE DEF u, v
        <4>4. u = v
          BY <4>1, <4>3, SeqEqual
        <4>. QED BY <4>4 DEF u, v
      <3>4. n[k] <= x[k]
        BY <3>1, <3>3, <1>6 DEF Leftmost
      <3>. QED BY <3>1, <3>2, <3>4
    <2>. QED BY <2>1, <2>2
  <1>. QED BY <1>3, <1>5, <1>6 DEF Leftmost

\* rec stops somewhere below val: at a leaf, or at an end other than val.
LEMMA NextEntryIs ==
    ASSUME NEW t \in TrieSet, NEW val \in Seq(Nat)
    PROVE  /\ val \notin DOMAIN t => NextEntry(t, val) = Root
           /\ val \in DOMAIN t =>
                /\ NextEntry(t, val) \in DOMAIN t /\ IsPrefix(val, NextEntry(t, val))
                /\ \/ Children(t, NextEntry(t, val)) = {}
                   \/ t[NextEntry(t, val)].end /\ NextEntry(t, val) # val
  <1> DEFINE S == {n \in DOMAIN t : Leftmost(t, val, n)}
             stops == {n \in DOMAIN t : /\ Leftmost(t, val, n)
                                        /\ Children(t, n) = {} \/ (t[n].end /\ n # val)}
             e == CHOOSE n \in stops : \A m \in stops : Len(n) <= Len(m)
  <1>1. NextEntry(t, val) = IF val \notin DOMAIN t THEN Root ELSE e
    BY DEF NextEntry
  <1>2. DOMAIN t \subseteq Seq(Nat) /\ IsFiniteSet(DOMAIN t)
    BY TrieIs, PathsAre, FiniteNodes, FS_Subset
  <1>3. ASSUME val \in DOMAIN t PROVE stops # {}
    <2>1. val \in S
      <3>1. IsPrefix(val, val)
        BY PrefixOrder
      <3>2. Len(val) + 1 .. Len(val) = {}
        OBVIOUS
      <3>. QED BY <3>1, <3>2, <1>3 DEF Leftmost
    <2>2. S \in SUBSET Seq(Nat) /\ IsFiniteSet(S) /\ S # {}
      <3>1. S \in SUBSET DOMAIN t
        OBVIOUS
      <3> HIDE DEF S
      <3>. QED BY <2>1, <3>1, <1>2, FS_Subset
    <2>3. PICK n \in S : \A m \in S : Len(m) <= Len(n)
      <3> HIDE DEF S
      <3>. QED BY <2>2, Longest
    <2>4. CASE Children(t, n) # {}
      <3>1. PICK m \in Children(t, n) : Leftmost(t, val, m)
        BY <2>3, <2>4, LeftmostChild
      <3>2. m \in S /\ Len(m) = Len(n) + 1 /\ Len(n) \in Nat
        BY <3>1, <2>3, <1>2 DEF Children
      <3>. QED BY <3>2, <2>3
    <2>. QED BY <2>3, <2>4
  <1>4. ASSUME val \in DOMAIN t PROVE e \in stops
    <2>1. stops \in SUBSET Seq(Nat) /\ stops # {}
      BY <1>2, <1>3, <1>4
    <2> HIDE DEF stops
    <2>2. \E n \in stops : \A m \in stops : Len(n) <= Len(m)
      BY <2>1, Shortest
    <2>. QED BY <2>2
  <1> HIDE DEF e
  <1>. QED BY <1>1, <1>4 DEF Leftmost

-----------------------------------------------------------------------------
(* deletedir's loops.                                                       *)

PrunedSet(h) == {x \in [trie : TrieSet, gone : Seq(Nodes)] : Ported(x.trie, h)}
Rest(t, path) == LET below == Append(path, Slash)
                 IN  IF below \in DOMAIN t THEN t[below].count ELSE 0
Prune(x, below) == LET e == NextEntry(x.trie, below)
                   IN  [trie |-> DeleteNode(x.trie, e), gone |-> Append(x.gone, e)]

LEMMA NextIsNode ==
    ASSUME NEW t \in TrieSet, NEW val \in Seq(Nat)
    PROVE  NextEntry(t, val) \in Nodes /\ NextEntry(t, val) \in Seq(Nat)
  <1>1. DOMAIN t \subseteq Nodes
    BY TrieIs
  <1>. QED BY <1>1, NextEntryIs, PathsAre

LEMMA PruneIs ==
    ASSUME NEW h, NEW x \in PrunedSet(h), NEW below \in Seq(Nat)
    PROVE  Prune(x, below) \in PrunedSet(h)
  <1> DEFINE e == NextEntry(x.trie, below)
             u == DeleteNode(x.trie, e)
  <1>1. x.trie \in TrieSet /\ x.gone \in Seq(Nodes) /\ Ported(x.trie, h)
    BY DEF PrunedSet
  <1>2. e \in Nodes /\ e \in Seq(Nat)
    BY <1>1, NextIsNode
  <1> HIDE DEF e
  <1>3. u \in TrieSet /\ Ported(u, h)
    BY <1>1, <1>2, DeletePorts
  <1> HIDE DEF u
  <1>4. Append(x.gone, e) \in Seq(Nodes)
    BY <1>1, <1>2
  <1>5. Prune(x, below) = [trie |-> u, gone |-> Append(x.gone, e)]
    BY DEF Prune, u, e
  <1>. QED BY <1>3, <1>4, <1>5 DEF PrunedSet

LEMMA BelowIs ==
    ASSUME NEW t \in TrieSet, NEW path \in Seq(Nat)
    PROVE  Append(path, Slash) \in Seq(Nat) /\ Append(path, Slash) # Root /\ Rest(t, path) \in Nat
  <1> DEFINE below == Append(path, Slash)
  <1>1. below \in Seq(Nat) /\ Len(below) = Len(path) + 1 /\ Len(path) \in Nat
    BY DEF Slash
  <1>2. below # Root
    BY <1>1 DEF Root
  <1> HIDE DEF below
  <1>3. below \in DOMAIN t => t[below].count \in Nat
    BY <1>2, TrieIs DEF Contents
  <1>. QED BY <1>1, <1>2, <1>3 DEF Rest, below

\* The loop, as a function of the number of entries deleted.
LEMMA PrunedIs ==
    ASSUME NEW t \in TrieSet, NEW path \in Seq(Nat), NEW h, Ported(t, h)
    PROVE  \E f : /\ f[0] = [trie |-> t, gone |-> <<>>]
                  /\ \A k \in 1 .. Rest(t, path) : f[k] = Prune(f[k - 1], Append(path, Slash))
                  /\ \A k \in 0 .. Rest(t, path) : f[k] \in PrunedSet(h)
                  /\ Pruned(t, path) = f[Rest(t, path)]
  <1> DEFINE below == Append(path, Slash)
             n == Rest(t, path)
             T == PrunedSet(h)
             b == [trie |-> t, gone |-> <<>>]
             F == [x \in (1 .. n) \X T |-> Prune(x[2], below)]
             P(f) == f = [k \in 0 .. n |-> IF k = 0 THEN b ELSE Prune(f[k - 1], below)]
             g == CHOOSE f : P(f)
  <1>1. below \in Seq(Nat) /\ n \in Nat
    BY BelowIs
  <1>2. Pruned(t, path) = g[n]
    BY DEF Pruned, Rest, Prune
  <1> HIDE DEF n, below
  <1>3. b \in T
    BY DEF PrunedSet
  <1> HIDE DEF b
  <1>4. F \in Moves(n, T)
    BY <1>1, PruneIs DEF Moves
  <1>5. PICK f : Follows(f, n, T, b, F)
    <2> HIDE DEF F, T
    <2>. QED BY <1>1, <1>3, <1>4, Recursion
  <1>6. P(f)
    <2>1. \A k \in 1 .. n : k - 1 \in 0 .. n
      BY <1>1
    <2> HIDE DEF T
    <2>2. \A k \in 1 .. n : f[k] = Prune(f[k - 1], below)
      BY <2>1, <1>5 DEF Follows
    <2>3. \A k \in 0 .. n : k = 0 \/ k \in 1 .. n
      BY <1>1
    <2>4. \A k \in 0 .. n : f[k] = IF k = 0 THEN b ELSE Prune(f[k - 1], below)
      BY <2>2, <2>3, <1>5 DEF Follows
    <2>. QED BY <2>4, <1>5 DEF Follows
  <1>7. P(g)
    BY <1>6
  <1> HIDE DEF g
  <1>8. g[0] = b /\ \A k \in 1 .. n : g[k] = Prune(g[k - 1], below)
    <2>1. 0 \in 0 .. n /\ \A k \in 1 .. n : k \in 0 .. n /\ k # 0
      BY <1>1
    <2>. QED BY <2>1, <1>7
  <1>9. \A k \in 0 .. n : g[k] \in T
    <2>1. \A k \in 1 .. n : g[k - 1] \in T => g[k] = F[<<k, g[k - 1]>>]
      BY <1>8
    <2> HIDE DEF F, T
    <2>. QED BY <2>1, <1>1, <1>3, <1>4, <1>8, Followed
  <1>. QED BY <1>2, <1>8, <1>9 DEF b, n, below

LEMMA PrunedIn ==
    ASSUME NEW t \in TrieSet, NEW path \in Seq(Nat), NEW h, Ported(t, h)
    PROVE  Pruned(t, path) \in PrunedSet(h)
  <1> DEFINE N == Rest(t, path)
  <1>1. \E f : Pruned(t, path) = f[N] /\ \A k \in 0 .. N : f[k] \in PrunedSet(h)
    BY PrunedIs, ZenonT(60)
  <1>2. N \in 0 .. N
    BY BelowIs
  <1>. QED BY <1>1, <1>2

LEMMA DroppedIs ==
    ASSUME NEW c \in CacheSet, NEW keys \in Seq(Nodes), Paths # {}
    PROVE  \A k \in 0 .. Len(keys) : Relinked(c, Dropped(c, keys)[k])
  <1> DEFINE n == Len(keys)
             T == {d \in CacheSet : Relinked(c, d)}
             F == [x \in (1 .. n) \X T |-> removeForDelete(x[2], keys[x[1]])]
             P(f) == f = [k \in 0 .. n |-> IF k = 0 THEN c ELSE removeForDelete(f[k - 1], keys[k])]
             g == CHOOSE f : P(f)
  <1>1. n \in Nat /\ \A k \in 1 .. n : Hash(keys[k]) \in Buckets
    BY PathsAre
  <1>2. Dropped(c, keys) = g
    BY DEF Dropped
  <1> HIDE DEF n
  <1>3. c \in T
    BY RelinkedNot
  <1>4. F \in Moves(n, T)
    <2>1. ASSUME NEW k \in 1 .. n, NEW d \in T PROVE removeForDelete(d, keys[k]) \in T
      <3>1. Relinked(d, removeForDelete(d, keys[k]))
        BY <1>1, DropRelinks
      <3>. QED BY <3>1, RelinkedTwice DEF Relinked
    <2> HIDE DEF T
    <2>. QED BY <2>1 DEF Moves
  <1>5. PICK f : Follows(f, n, T, c, F)
    <2> HIDE DEF F, T
    <2>. QED BY <1>1, <1>3, <1>4, Recursion
  <1>6. P(f)
    <2>1. \A k \in 1 .. n : k - 1 \in 0 .. n
      BY <1>1
    <2> HIDE DEF T
    <2>2. \A k \in 1 .. n : f[k] = removeForDelete(f[k - 1], keys[k])
      BY <2>1, <1>5 DEF Follows
    <2>3. \A k \in 0 .. n : k = 0 \/ k \in 1 .. n
      BY <1>1
    <2>4. \A k \in 0 .. n : f[k] = IF k = 0 THEN c ELSE removeForDelete(f[k - 1], keys[k])
      BY <2>2, <2>3, <1>5 DEF Follows
    <2>. QED BY <2>4, <1>5 DEF Follows
  <1>7. P(g)
    BY <1>6
  <1> HIDE DEF g
  <1>8. g[0] = c /\ \A k \in 1 .. n : g[k] = removeForDelete(g[k - 1], keys[k])
    <2>1. 0 \in 0 .. n /\ \A k \in 1 .. n : k \in 0 .. n /\ k # 0
      BY <1>1
    <2>. QED BY <2>1, <1>7
  <1>9. \A k \in 0 .. n : g[k] \in T
    <2>1. \A k \in 1 .. n : g[k - 1] \in T => g[k] = F[<<k, g[k - 1]>>]
      BY <1>8
    <2> HIDE DEF F, T
    <2>. QED BY <2>1, <1>1, <1>3, <1>4, <1>8, Followed
  <1>. QED BY <1>2, <1>9 DEF n

-----------------------------------------------------------------------------
(* The invariant of lists: every list, in the trie, in the cache, or in a   *)
(* handler's hands, names storage servers that created the path.            *)

\* A handler's record.
ClSet ==
    {r \in [pc : {"idle", "ask", "told", "prune", "put", "hung"}, op : AllOps \cup {""},
            path : Paths \cup {Root}, sent : Nodes, todo : Seq(Servers), src : Link] :
        /\ r.pc \in {"ask", "told"} => r.todo # <<>> /\ r.op \in Creates \cup Deletes
        /\ r.pc = "prune" => r.op = "deletedir"
        /\ r.pc = "put" => r.op \in Creates
        /\ r.op # "" => r.path \in Paths
        /\ r.op \in Creates => Len(r.todo) = 1}

Typed ==
    /\ trie \in TrieSet /\ cache \in CacheSet
    /\ disk \in [Servers -> [Names -> {"none", "file", "dir"}]]
    /\ available \subseteq Servers
    /\ holder \in [Servers -> Clients \cup {Nobody, Lost}]
    /\ cl \in [Clients -> ClSet]
    /\ up \in BOOLEAN
    /\ owed \in [Paths -> Servers \cup {NoServer}]
    /\ had \in [Names -> SUBSET Servers]

\* A create that is about to be cached was made.
PutsWhatWas ==
    \A c \in Clients : cl[c].pc = "put" => \A q \in Tokens(cl[c].path) : ToSet(cl[c].todo) \subseteq had[q]
\* The node that a create found in the cache still has the path's key.
HoldsItsNode ==
    \A c \in Clients : cl[c].op \in Creates /\ cl[c].src # Nil =>
        cache.node[cl[c].src].key = cl[c].path
\* What is on a disk was created there.
Made == \A s \in Servers : \A q \in Names : disk[s][q] # "none" => s \in had[q]

Lists == Ported(trie, had) /\ Listed(cache, had) /\ PutsWhatWas /\ HoldsItsNode /\ Made
LInv == Typed /\ (up => Lists)

LEMMA IdleIs == Idle \in ClSet /\ [Idle EXCEPT !.pc = "hung"] \in ClSet
  <1>1. Root \in Nodes /\ <<>> \in Seq(Servers) /\ Nil \in Link
    BY PathsAre, Links
  <1>. QED BY <1>1 DEF Idle, ClSet, Creates

LEMMA InitLInv == Init => LInv
  <1>1. SUFFICES ASSUME Init PROVE LInv
    OBVIOUS
  <1>2. trie \in TrieSet /\ Ported(trie, had) /\ cache \in CacheSet /\ Listed(cache, had)
    BY <1>1, EmptyTrieIs, InitCache DEF Init
  <1>3. \A c \in Clients : cl[c] = Idle
    BY <1>1 DEF Init
  <1>4. cl \in [Clients -> ClSet]
    BY <1>1, IdleIs DEF Init
  <1>5. Typed
    BY <1>1, <1>2, <1>4 DEF Init, Typed
  <1>6. PutsWhatWas /\ HoldsItsNode
    <2>1. Idle.pc = "idle" /\ Idle.op \notin Creates
      BY DEF Idle, Creates
    <2>. QED BY <2>1, <1>3 DEF PutsWhatWas, HoldsItsNode
  <1>7. Made
    BY <1>1 DEF Init, Made
  <1>. QED BY <1>2, <1>5, <1>6, <1>7 DEF LInv, Lists

\* What the nodes of a handler look like.
LEMMA HandlerIs ==
    ASSUME Typed, NEW c \in Clients
    PROVE  /\ cl[c] \in ClSet
           /\ cl[c].src \in Link /\ cl[c].todo \in Seq(Servers) /\ cl[c].path \in Paths \cup {Root}
           /\ cl[c].op # "" => cl[c].path \in Paths
           /\ cl[c].pc \in {"ask", "told"} =>
                /\ cl[c].todo # <<>> /\ cl[c].todo[1] \in Servers
                /\ cl[c].op \in Creates \cup Deletes
           /\ cl[c].pc = "prune" => cl[c].op = "deletedir"
           /\ cl[c].pc = "put" => cl[c].op \in Creates
           /\ cl[c].op \in Creates => Len(cl[c].todo) = 1
  <1>1. cl[c] \in ClSet
    BY DEF Typed
  <1>2. cl[c].todo \in Seq(Servers) /\ (cl[c].todo # <<>> => cl[c].todo[1] \in Servers)
    <2>1. cl[c].todo \in Seq(Servers)
      BY <1>1 DEF ClSet
    <2>2. ASSUME NEW q \in Seq(Servers), q # <<>> PROVE q[1] \in Servers
      BY <2>2
    <2>. QED BY <2>1, <2>2
  <1>. QED BY <1>1, <1>2 DEF ClSet

LEMMA HeldIs ==
    ASSUME Typed, NEW c \in Clients
    PROVE  /\ Held(c) \in SUBSET Link
           /\ \A o \in Clients : o # c => cl[o].src \in Held(c)
BY HandlerIs DEF Held

\* The cache after an operation, if the naming server is still there.
LEMMA KeepCacheIs ==
    ASSUME Typed, NEW k \in CacheSet, NEW held \in SUBSET Link, NEW h, Listed(k, h),
           KeepCache(k, held)
    PROVE  /\ cache' \in CacheSet /\ up' \in BOOLEAN /\ Listed(cache', h)
           /\ up' => \A i \in Ids \cap held : cache'.node[i].key = k.node[i].key
  <1>1. k.broken \in BOOLEAN /\ up \in BOOLEAN
    BY DEF CacheSet, Typed
  <1>2. up' = (up /\ ~k.broken) /\ cache' = IF k.broken THEN initLRUCache ELSE Collect(k, held)
    BY DEF KeepCache
  <1>3. up' \in BOOLEAN
    BY <1>2
  <1>4. cache' \in CacheSet /\ Listed(cache', h)
    BY <1>2, CollectLists, InitCache
  <1>5. ASSUME up' PROVE \A i \in Ids \cap held : cache'.node[i].key = k.node[i].key
    BY <1>2, <1>5, CollectLists
  <1>. QED BY <1>3, <1>4, <1>5

\* The steps of a handler c that leave r as its record.

\* It goes through the cache, which is k then; X are the nodes that it goes on with.
LEMMA CacheStep ==
    ASSUME LInv, up, NEW c \in Clients, NEW r \in ClSet, NEW k \in CacheSet, NEW X \in SUBSET Link,
           cl' = [cl EXCEPT ![c] = r], KeepCache(k, Held(c) \cup X),
           Listed(k, had), Keyed(cache, k), r.pc # "put",
           r.op \in Creates /\ r.src # Nil => r.src \in X /\ k.node[r.src].key = r.path,
           UNCHANGED <<disk, available, had>>, trie' \in TrieSet, Ported(trie', had),
           holder' \in [Servers -> Clients \cup {Nobody, Lost}],
           owed' \in [Paths -> Servers \cup {NoServer}]
    PROVE  LInv'
  <1>1. Typed /\ Lists
    BY DEF LInv
  <1>2. /\ Held(c) \cup X \in SUBSET Link
        /\ \A o \in Clients : o # c => cl[o].src \in Held(c)
    BY <1>1, HeldIs
  <1>3. /\ cache' \in CacheSet /\ up' \in BOOLEAN /\ Listed(cache', had)
        /\ up' => \A i \in Ids \cap (Held(c) \cup X) : cache'.node[i].key = k.node[i].key
    BY <1>1, <1>2, KeepCacheIs
  <1>4. /\ cl' \in [Clients -> ClSet]
        /\ \A o \in Clients : cl'[o] = IF o = c THEN r ELSE cl[o]
    BY <1>1 DEF Typed
  <1>5. Typed'
    BY <1>1, <1>3, <1>4 DEF Typed
  <1>6. PutsWhatWas' /\ Made'
    <2>1. PutsWhatWas /\ Made
      BY <1>1 DEF Lists
    <2>. QED BY <2>1, <1>4 DEF PutsWhatWas, Made
  <1>7. ASSUME up' PROVE HoldsItsNode'
    <2>1. SUFFICES ASSUME NEW o \in Clients, cl'[o].op \in Creates, cl'[o].src # Nil
                   PROVE  cache'.node[cl'[o].src].key = cl'[o].path
      BY DEF HoldsItsNode
    <2>2. CASE o = c
      <3>1. cl'[o] = r /\ r.src \in X /\ k.node[r.src].key = r.path
        BY <2>1, <2>2, <1>4
      <3>2. r.src \in Ids
        BY <3>1, <2>1, Links
      <3>. QED BY <3>1, <3>2, <1>3, <1>7
    <2>3. CASE o # c
      <3>1. cl'[o] = cl[o] /\ cl[o].src \in Held(c) /\ cl[o].src \in Link
        BY <2>3, <1>1, <1>2, <1>4, HandlerIs
      <3>2. cl[o].src \in Ids
        BY <3>1, <2>1, Links
      <3>3. cache.node[cl[o].src].key = cl[o].path
        BY <3>1, <2>1, <1>1 DEF Lists, HoldsItsNode
      <3>4. cl[o].path # Root
        <4>1. cl[o].op # ""
          BY <3>1, <2>1 DEF Creates
        <4>. QED BY <4>1, <1>1, HandlerIs, NamesAre
      <3>5. k.node[cl[o].src].key = cl[o].path
        BY <3>2, <3>3, <3>4 DEF Keyed
      <3>. QED BY <3>1, <3>2, <3>5, <1>3, <1>7
    <2>. QED BY <2>2, <2>3
  <1>8. up' => Lists'
    BY <1>3, <1>6, <1>7 DEF Lists
  <1>. QED BY <1>5, <1>8 DEF LInv

\* It leaves the cache alone, or the naming server crashes.
LEMMA PlainStep ==
    ASSUME LInv, up, NEW c \in Clients, NEW r \in ClSet,
           cl' = [cl EXCEPT ![c] = r], r.pc # "put",
           r.op \in Creates /\ r.src # Nil => cache.node[r.src].key = r.path,
           UNCHANGED <<cache, available, had>>, up' \in BOOLEAN,
           trie' \in TrieSet, Ported(trie', had),
           disk' \in [Servers -> [Names -> {"none", "file", "dir"}]], Made',
           holder' \in [Servers -> Clients \cup {Nobody, Lost}],
           owed' \in [Paths -> Servers \cup {NoServer}]
    PROVE  LInv'
  <1>1. Typed /\ Lists
    BY DEF LInv
  <1>2. /\ cl' \in [Clients -> ClSet]
        /\ \A o \in Clients : cl'[o] = IF o = c THEN r ELSE cl[o]
    BY <1>1 DEF Typed
  <1>3. Typed'
    BY <1>1, <1>2 DEF Typed
  <1>4. PutsWhatWas'
    BY <1>1, <1>2 DEF PutsWhatWas, Lists
  <1>5. HoldsItsNode'
    <2>1. HoldsItsNode
      BY <1>1 DEF Lists
    <2>. QED BY <2>1, <1>2 DEF HoldsItsNode
  <1>6. Lists'
    BY <1>1, <1>4, <1>5 DEF Lists
  <1>. QED BY <1>3, <1>6 DEF LInv

\* It ends, or never does.
LEMMA HangStep ==
    ASSUME LInv, up, NEW c \in Clients, Hang(c), UNCHANGED <<disk, available, had, trie>>,
           holder' \in [Servers -> Clients \cup {Nobody, Lost}],
           owed' \in [Paths -> Servers \cup {NoServer}]
    PROVE  LInv'
  <1> DEFINE r == [Idle EXCEPT !.pc = "hung"]
  <1>1. r \in ClSet /\ r.pc # "put" /\ r.op \notin Creates
    BY IdleIs DEF Idle, Creates
  <1>2. /\ trie \in TrieSet /\ Ported(trie, had) /\ Made /\ up \in BOOLEAN
        /\ disk \in [Servers -> [Names -> {"none", "file", "dir"}]]
    BY DEF LInv, Typed, Lists
  <1>3. Made'
    BY <1>2 DEF Made
  <1>4. cl' = [cl EXCEPT ![c] = r] /\ UNCHANGED <<cache, up>>
    BY DEF Hang
  <1> HIDE DEF r
  <1>. QED BY <1>1, <1>2, <1>3, <1>4, PlainStep

LEMMA EndStep ==
    ASSUME LInv, up, NEW c \in Clients, End(c), NEW k \in CacheSet, KeepCache(k, Held(c)),
           Listed(k, had), Keyed(cache, k), UNCHANGED <<disk, available, had>>,
           trie' \in TrieSet, Ported(trie', had),
           holder' \in [Servers -> Clients \cup {Nobody, Lost}],
           owed' \in [Paths -> Servers \cup {NoServer}]
    PROVE  LInv'
  <1>1. Idle \in ClSet /\ Idle.pc # "put" /\ Idle.op \notin Creates
    BY IdleIs DEF Idle, Creates
  <1>2. cl' = [cl EXCEPT ![c] = Idle]
    BY DEF End
  <1> DEFINE X == {}
  <1>3. KeepCache(k, Held(c) \cup X) /\ X \in SUBSET Link
    <2>1. Held(c) \cup X = Held(c)
      OBVIOUS
    <2>. QED BY <2>1
  <1> HIDE DEF X
  <1>. QED BY <1>1, <1>2, <1>3, CacheStep

\* What a lookup yields.
LEMMA ReverseIs ==
    ASSUME NEW s \in Seq(Servers)
    PROVE  Reverse(s) \in Seq(Servers) /\ ToSet(Reverse(s)) \subseteq ToSet(s)
  <1>1. Reverse(s) = [i \in 1 .. Len(s) |-> s[(Len(s) - i) + 1]] /\ Len(s) \in Nat
    BY DEF Reverse
  <1>2. \A i \in 1 .. Len(s) : (Len(s) - i) + 1 \in 1 .. Len(s)
    OBVIOUS
  <1>3. \A i \in 1 .. Len(s) : s[i] \in Servers
    OBVIOUS
  <1>4. Reverse(s) \in Seq(Servers)
    BY <1>1, <1>2, <1>3
  <1>5. DOMAIN s = 1 .. Len(s) /\ DOMAIN Reverse(s) = 1 .. Len(s)
    BY <1>1
  <1>6. \A i \in 1 .. Len(s) : \E j \in 1 .. Len(s) : Reverse(s)[i] = s[j]
    BY <1>1, <1>2
  <1>. QED BY <1>4, <1>5, <1>6 DEF ToSet

LEMMA SearchIs ==
    ASSUME Typed, Lists, NEW p
    PROVE  /\ SearchWords(trie, p) \in Seq(Servers)
           /\ ToSet(SearchWords(trie, p)) \subseteq HadOf(had, p)
  <1>1. CASE p \in DOMAIN trie
    <2>1. trie[p].ports \in Seq(Servers)
      BY <1>1, TrieIs DEF Typed, Contents
    <2>2. ToSet(trie[p].ports) \subseteq HadOf(had, p)
      BY <1>1 DEF Lists, Ported
    <2>. QED BY <1>1, <2>1, <2>2, ReverseIs DEF SearchWords
  <1>2. CASE p \notin DOMAIN trie
    BY <1>2 DEF SearchWords, ToSet
  <1>. QED BY <1>1, <1>2

LEMMA ListIs ==
    ASSUME Typed, Lists, NEW p, Hash(p) \in Buckets
    PROVE  /\ List(p) \in Seq(Servers) /\ ToSet(List(p)) \subseteq HadOf(had, p)
           /\ List(p) # <<>> => p \in Names /\ List(p)[1] \in Servers
  <1>1. cache \in CacheSet /\ Listed(cache, had)
    BY DEF Typed, Lists
  <1>2. List(p) \in Seq(Servers) /\ ToSet(List(p)) \subseteq HadOf(had, p)
    <2>1. CASE Cached(p)
      <3>1. Find(cache, p) \in Ids /\ cache.node[Find(cache, p)].key = p
        BY <1>1, <2>1, FindIs DEF Cached
      <3>2. List(p) = cache.node[Find(cache, p)].lh
        BY <2>1 DEF List
      <3>. QED BY <3>1, <3>2, <1>1, LinksOf DEF Listed
    <2>2. CASE ~Cached(p)
      BY <2>2, SearchIs DEF List
    <2>. QED BY <2>1, <2>2
  <1> DEFINE l == List(p)
  <1>3. ASSUME l # <<>> PROVE l[1] \in Servers /\ l[1] \in ToSet(l)
    <2>1. l \in Seq(Servers)
      BY <1>2
    <2> HIDE DEF l
    <2>2. 1 \in DOMAIN l
      BY <1>3, <2>1
    <2>. QED BY <2>1, <2>2 DEF ToSet
  <1>4. l # <<>> => p \in Names
    BY <1>2, <1>3 DEF HadOf
  <1>. QED BY <1>2, <1>3, <1>4

\* What Begin says.
LEMMA BeginIs ==
    ASSUME LInv, NEW c \in Clients, NEW op, NEW p, Begin(c, op, p)
    PROVE  /\ Typed /\ Lists /\ up /\ cache \in CacheSet /\ Listed(cache, had)
           /\ owed' \in [Paths -> Servers \cup {NoServer}]
           /\ UNCHANGED <<trie, disk, available, holder, had>>
           /\ trie' \in TrieSet /\ Ported(trie', had) /\ Made'
           /\ holder' \in [Servers -> Clients \cup {Nobody, Lost}]
           /\ disk' \in [Servers -> [Names -> {"none", "file", "dir"}]]
  <1>1. Typed /\ Lists /\ up
    BY DEF LInv, Begin
  <1>2. UNCHANGED <<trie, disk, available, holder, had>>
    BY DEF Begin
  <1>3. owed' \in [Paths -> Servers \cup {NoServer}]
    BY <1>1 DEF Begin, Typed
  <1>4. Made'
    BY <1>1, <1>2 DEF Lists, Made
  <1>. QED BY <1>1, <1>2, <1>3, <1>4 DEF Typed, Lists

\* An operation that only moves links leaves the lists right.
LEMMA RelinkedOk ==
    ASSUME LInv, up, NEW k, Relinked(cache, k)
    PROVE  k \in CacheSet /\ Listed(k, had) /\ Keyed(cache, k)
  <1>1. Listed(cache, had)
    BY DEF LInv, Lists
  <1>. QED BY <1>1, RelinkedListed, RelinkedKeyed DEF Relinked

LEMMA HashOk ==
    /\ \A p \in Paths : Hash(p) \in Buckets /\ \A n \in Nodes : Hash(n) \in Buckets
    /\ \A pq \in Copies : Hash(pq[1]) \in Buckets /\ Hash(pq[2]) \in Buckets
  <1>1. \A p \in Paths : Hash(p) \in Buckets /\ \A n \in Nodes : Hash(n) \in Buckets
    BY PathsAre
  <1>2. ASSUME NEW pq \in Copies PROVE Hash(pq[1]) \in Buckets /\ Hash(pq[2]) \in Buckets
    <2>1. pq[1] \in Seq(Nat) /\ pq[2] \in Seq(Nat)
      BY NameSpaceAssumption
    <2>2. pq[1] \in Texts /\ pq[2] \in Texts
      BY <2>1, PrefixesAre DEF Texts
    <2>. QED BY <2>2, NameSpaceAssumption
  <1>. QED BY <1>1, <1>2

LEMMA BeginCreateKeeps ==
    ASSUME LInv, NEW c \in Clients, NEW op \in Creates, NEW p \in Paths, BeginCreate(c, op, p)
    PROVE  LInv'
  <1> DEFINE k == get(cache, p)
             src == Find(k, p)
  <1>1. Begin(c, op, p)
    BY DEF BeginCreate
  <1>2. CASE Hang(c)
    BY <1>1, <1>2, BeginIs, HangStep
  <1>3. Relinked(cache, k)
    BY <1>1, BeginIs, HashOk, GetRelinks
  <1>4. k \in CacheSet /\ Listed(k, had) /\ Keyed(cache, k)
    BY <1>1, <1>3, BeginIs, RelinkedOk
  <1>5. src \in Link /\ (src # Nil => k.node[src].key = p)
    BY <1>4, HashOk, FindIs
  <1>6. CASE End(c) /\ KeepCache(k, Held(c))
    BY <1>1, <1>4, <1>6, BeginIs, EndStep
  <1>7. ASSUME NEW s \in available, Goes(c, "ask", op, p, <<s>>, src), KeepCache(k, Held(c) \cup {src})
        PROVE  LInv'
    <2> DEFINE r == [Idle EXCEPT !.pc = "ask", !.op = op, !.path = p, !.todo = <<s>>, !.src = src]
    <2>1. s \in Servers
      BY <1>1, BeginIs DEF Typed
    <2>2. <<s>> \in Seq(Servers) /\ Len(<<s>>) = 1 /\ <<s>> # <<>>
      BY <2>1
    <2>3. r \in ClSet
      BY <2>2, <1>5, IdleIs DEF ClSet, AllOps
    <2>4. r.pc = "ask" /\ r.op = op /\ r.src = src /\ r.path = p
      BY DEF Idle
    <2>5. cl' = [cl EXCEPT ![c] = r]
      BY <1>7 DEF Goes
    <2> DEFINE X == {src}
    <2>6. X \in SUBSET Link /\ src \in X /\ KeepCache(k, Held(c) \cup X)
      BY <1>5, <1>7
    <2> HIDE DEF r, X, src, k
    <2>. QED BY <1>1, <1>4, <1>5, <2>3, <2>4, <2>5, <2>6, BeginIs, CacheStep
  <1>8. \/ Hang(c)
        \/ End(c) /\ KeepCache(k, Held(c))
        \/ \E s \in available : Goes(c, "ask", op, p, <<s>>, src) /\ KeepCache(k, Held(c) \cup {src})
    BY DEF BeginCreate
  <1>. QED BY <1>2, <1>6, <1>7, <1>8

LEMMA BeginDeletefileKeeps ==
    ASSUME LInv, NEW c \in Clients, NEW p \in Paths, BeginDeletefile(c, p)
    PROVE  LInv'
  <1> DEFINE once == removeForDelete(cache, p)
             twice == removeForDelete(once, p)
  <1>1. Begin(c, "deletefile", p)
    BY DEF BeginDeletefile
  <1>2. CASE Hang(c)
    BY <1>1, <1>2, BeginIs, HangStep
  <1>3. Relinked(cache, once) /\ once \in CacheSet
    BY <1>1, BeginIs, HashOk, DropRelinks DEF Relinked
  <1>4. Relinked(cache, twice)
    <2> HIDE DEF once
    <2>1. Relinked(once, twice)
      BY <1>3, HashOk, DropRelinks
    <2>. QED BY <2>1, <1>3, RelinkedTwice
  <1>5. /\ once \in CacheSet /\ Listed(once, had) /\ Keyed(cache, once)
        /\ twice \in CacheSet /\ Listed(twice, had) /\ Keyed(cache, twice)
    <2> HIDE DEF twice, once
    <2>. QED BY <1>1, <1>3, <1>4, BeginIs, RelinkedOk
  <1>6. CASE End(c) /\ KeepCache(once, Held(c))
    BY <1>1, <1>5, <1>6, BeginIs, EndStep
  <1>7. ASSUME List(p) # <<>>, Goes(c, "ask", "deletefile", p, <<List(p)[1]>>, Nil),
               KeepCache(twice, Held(c))
        PROVE  LInv'
    <2> DEFINE s == List(p)[1]
               r == [Idle EXCEPT !.pc = "ask", !.op = "deletefile", !.path = p, !.todo = <<s>>,
                                 !.src = Nil]
    <2>1. s \in Servers
      BY <1>1, <1>7, BeginIs, HashOk, ListIs
    <2>2. cl' = [cl EXCEPT ![c] = r]
      BY <1>7 DEF Goes
    <2> HIDE DEF s
    <2>3. <<s>> \in Seq(Servers) /\ Len(<<s>>) = 1 /\ <<s>> # <<>>
      BY <2>1
    <2>4. r \in ClSet
      BY <2>3, Links, IdleIs DEF ClSet, AllOps, Creates, Deletes
    <2>5. r.pc = "ask" /\ r.op \notin Creates
      BY DEF Idle, Creates
    <2> DEFINE X == {}
    <2>6. X \in SUBSET Link /\ KeepCache(twice, Held(c) \cup X)
      <3>1. Held(c) \cup X = Held(c)
        OBVIOUS
      <3>. QED BY <3>1, <1>7
    <2> HIDE DEF r, X, twice
    <2>. QED BY <1>1, <1>5, <2>2, <2>4, <2>5, <2>6, BeginIs, CacheStep
  <1>8. \/ Hang(c)
        \/ End(c) /\ KeepCache(once, Held(c))
        \/ /\ List(p) # <<>> /\ Goes(c, "ask", "deletefile", p, <<List(p)[1]>>, Nil)
           /\ KeepCache(twice, Held(c))
    BY DEF BeginDeletefile
  <1>. QED BY <1>2, <1>6, <1>7, <1>8

LEMMA BeginDeletedirKeeps ==
    ASSUME LInv, NEW c \in Clients, NEW p \in Paths, BeginDeletedir(c, p)
    PROVE  LInv'
  <1> DEFINE todo == SearchWords(trie, p)
             r == IF todo = <<>> THEN Idle
                  ELSE [Idle EXCEPT !.pc = "ask", !.op = "deletedir", !.path = p, !.todo = todo,
                                    !.src = Nil]
  <1>1. Begin(c, "deletedir", p) /\ UNCHANGED <<cache, up>>
    BY DEF BeginDeletedir
  <1>2. cl' = [cl EXCEPT ![c] = r]
    BY DEF BeginDeletedir, End, Goes
  <1>3. todo \in Seq(Servers)
    BY <1>1, BeginIs, SearchIs
  <1> HIDE DEF todo
  <1>4. r \in ClSet
    BY <1>3, Links, IdleIs DEF ClSet, AllOps, Creates, Deletes
  <1>5. r.pc # "put" /\ r.op \notin Creates
    BY DEF Idle, Creates
  <1>6. up' \in BOOLEAN
    BY <1>1, BeginIs DEF Typed
  <1> HIDE DEF r
  <1>. QED BY <1>1, <1>2, <1>4, <1>5, <1>6, BeginIs, PlainStep

LEMMA BeginAccessKeeps ==
    ASSUME LInv, NEW c \in Clients, NEW op, NEW p \in Paths, BeginAccess(c, op, p)
    PROVE  LInv'
  <1> DEFINE k == get(cache, p)
             l == List(p)
  <1>1. Begin(c, op, p)
    BY DEF BeginAccess
  <1>2. CASE Hang(c)
    BY <1>1, <1>2, BeginIs, HangStep
  <1>3. Relinked(cache, k)
    BY <1>1, BeginIs, HashOk, GetRelinks
  <1>4. k \in CacheSet /\ Listed(k, had) /\ Keyed(cache, k)
    BY <1>1, <1>3, BeginIs, RelinkedOk
  <1>5. CASE End(c) /\ KeepCache(k, Held(c))
    BY <1>1, <1>4, <1>5, BeginIs, EndStep
  <1>6. CASE End(c) /\ HasRoom(k) /\ KeepCache(put(k, p, l), Held(c))
    <2> DEFINE d == put(k, p, l)
    <2>1. /\ l \in Seq(Servers) /\ ToSet(l) \subseteq HadOf(had, p)
          /\ p \in Names /\ Hash(p) \in Buckets
      BY <1>1, BeginIs, HashOk, ListIs, NamesAre
    <2>2. d \in CacheSet /\ Listed(d, had) /\ Keyed(cache, d)
      <3> HIDE DEF k, l
      <3>1. d \in CacheSet /\ Listed(d, had) /\ Keyed(k, d)
        BY <2>1, <1>4, <1>6, PutLists
      <3>. QED BY <3>1, <1>4, KeyedTwice
    <2>3. KeepCache(d, Held(c)) /\ End(c)
      BY <1>6
    <2> HIDE DEF d
    <2>. QED BY <1>1, <2>2, <2>3, BeginIs, EndStep
  <1>7. \/ Hang(c)
        \/ End(c) /\ KeepCache(k, Held(c))
        \/ End(c) /\ HasRoom(k) /\ KeepCache(put(k, p, l), Held(c))
    BY DEF BeginAccess
  <1>. QED BY <1>2, <1>5, <1>6, <1>7

LEMMA BeginCopyfileKeeps ==
    ASSUME LInv, NEW c \in Clients, NEW pq \in Copies, BeginCopyfile(c, pq[1], pq[2])
    PROVE  LInv'
  <1> DEFINE p == pq[1]
             q == pq[2]
             k == get(cache, p)
             k2 == get(k, q)
             k3 == put(k2, p, List(p))
             k4 == put(k3, q, List(q))
  <1>1. Begin(c, "copyfile", p)
    BY DEF BeginCopyfile
  <1>2. CASE Hang(c)
    BY <1>1, <1>2, BeginIs, HangStep
  <1>3. \/ Hang(c)
        \/ End(c) /\ KeepCache(k2, Held(c))
        \/ End(c) /\ up' = FALSE /\ UNCHANGED cache
        \/ /\ End(c) /\ List(p) # <<>> /\ List(q) # <<>> /\ HasRoom(k2) /\ HasRoom(k3)
           /\ KeepCache(k4, Held(c))
    BY DEF BeginCopyfile
  <1>4. Hash(p) \in Buckets /\ Hash(q) \in Buckets
    BY HashOk
  <1> HIDE DEF p, q
  <1>5. Relinked(cache, k) /\ k \in CacheSet
    BY <1>1, <1>4, BeginIs, GetRelinks DEF Relinked
  <1> HIDE DEF k
  <1>6. Relinked(cache, k2)
    <2>1. Relinked(k, k2)
      BY <1>4, <1>5, GetRelinks
    <2>. QED BY <2>1, <1>5, RelinkedTwice
  <1>7. k2 \in CacheSet /\ Listed(k2, had) /\ Keyed(cache, k2)
    BY <1>1, <1>6, BeginIs, RelinkedOk
  <1> HIDE DEF k2
  <1>8. CASE End(c) /\ KeepCache(k2, Held(c))
    BY <1>1, <1>7, <1>8, BeginIs, EndStep
  <1>9. CASE End(c) /\ up' = FALSE /\ UNCHANGED cache
    <2>1. cl' = [cl EXCEPT ![c] = Idle] /\ up' \in BOOLEAN
      BY <1>9 DEF End
    <2>2. Idle \in ClSet /\ Idle.pc # "put" /\ Idle.op \notin Creates
      BY IdleIs DEF Idle, Creates
    <2>. QED BY <1>1, <1>9, <2>1, <2>2, BeginIs, PlainStep
  <1>10. CASE /\ End(c) /\ List(p) # <<>> /\ List(q) # <<>> /\ HasRoom(k2) /\ HasRoom(k3)
              /\ KeepCache(k4, Held(c))
    <2>1. /\ List(p) \in Seq(Servers) /\ ToSet(List(p)) \subseteq HadOf(had, p) /\ p \in Names
          /\ List(q) \in Seq(Servers) /\ ToSet(List(q)) \subseteq HadOf(had, q) /\ q \in Names
      BY <1>1, <1>4, <1>10, BeginIs, ListIs
    <2>2. k3 \in CacheSet /\ Listed(k3, had) /\ Keyed(k2, k3)
      BY <2>1, <1>4, <1>7, <1>10, PutLists
    <2> HIDE DEF k3
    <2>3. k4 \in CacheSet /\ Listed(k4, had) /\ Keyed(k3, k4)
      BY <2>1, <2>2, <1>4, <1>10, PutLists
    <2> HIDE DEF k4
    <2>4. Keyed(cache, k4)
      BY <2>2, <2>3, <1>7, KeyedTwice
    <2>. QED BY <1>1, <1>10, <2>3, <2>4, BeginIs, EndStep
  <1>. QED BY <1>2, <1>3, <1>8, <1>9, <1>10

LEMMA AskKeeps ==
    ASSUME LInv, NEW c \in Clients, Ask(c)
    PROVE  LInv'
  <1> DEFINE p == cl[c].path
             t == ClearEnd(trie, p)
             e == NextEntry(t, p)
             told(n) == [cl[c] EXCEPT !.pc = "told", !.sent = n]
  <1>1. Typed /\ Lists /\ up /\ cl[c].pc = "ask"
    BY DEF LInv, Ask
  <1>2. cl[c] \in ClSet /\ cl[c].op \in Creates \cup Deletes /\ p \in Paths
    <2>1. cl[c].op \in Creates \cup Deletes
      BY <1>1, HandlerIs
    <2>2. cl[c].op # ""
      BY <2>1 DEF Creates, Deletes
    <2>. QED BY <2>1, <2>2, <1>1, HandlerIs
  <1>3. \A n \in Nodes : /\ told(n) \in ClSet /\ told(n).pc = "told"
                         /\ told(n).op = cl[c].op /\ told(n).src = cl[c].src
                         /\ told(n).path = cl[c].path
    BY <1>1, <1>2 DEF ClSet
  <1>4. cl[c].op \in Creates /\ cl[c].src # Nil => cache.node[cl[c].src].key = cl[c].path
    BY <1>1 DEF Lists, HoldsItsNode
  <1>5. /\ trie \in TrieSet /\ Ported(trie, had) /\ Made /\ up \in BOOLEAN
        /\ disk \in [Servers -> [Names -> {"none", "file", "dir"}]]
        /\ holder' \in [Servers -> Clients \cup {Nobody, Lost}]
        /\ owed' \in [Paths -> Servers \cup {NoServer}]
        /\ UNCHANGED <<cache, disk, available, had>>
    BY <1>1 DEF Ask, Typed, Lists
  <1>6. Made' /\ disk' \in [Servers -> [Names -> {"none", "file", "dir"}]]
    BY <1>5 DEF Made
  <1>7. cl = [cl EXCEPT ![c] = cl[c]] /\ cl \in [Clients -> ClSet]
    BY <1>1 DEF Typed
  <1>8. p \in Nodes /\ p \in Seq(Nat)
    BY <1>2, PathsAre
  <1>9. CASE cl' = [cl EXCEPT ![c] = told(p)] /\ UNCHANGED <<trie, up>>
    <2> DEFINE r == told(p)
    <2>1. /\ r \in ClSet /\ r.pc # "put" /\ cl' = [cl EXCEPT ![c] = r]
          /\ r.op \in Creates /\ r.src # Nil => cache.node[r.src].key = r.path
      BY <1>3, <1>4, <1>8, <1>9
    <2>2. trie' \in TrieSet /\ Ported(trie', had) /\ up' \in BOOLEAN
      BY <1>5, <1>9
    <2> HIDE DEF r
    <2>. QED BY <1>1, <1>5, <1>6, <2>1, <2>2, PlainStep
  <1>10. CASE cl' = [cl EXCEPT ![c] = told(e)] /\ trie' = DeleteNode(t, e) /\ UNCHANGED up
    <2>1. t \in TrieSet /\ Ported(t, had)
      BY <1>5, ClearIs DEF Cleared
    <2>2. e \in Nodes /\ e \in Seq(Nat)
      <3> HIDE DEF t
      <3>. QED BY <1>8, <2>1, NextIsNode
    <2>3. trie' \in TrieSet /\ Ported(trie', had) /\ up' \in BOOLEAN
      <3> HIDE DEF t, e
      <3>. QED BY <2>1, <2>2, <1>5, <1>10, DeletePorts
    <2> DEFINE r == told(e)
    <2>4. /\ r \in ClSet /\ r.pc # "put" /\ cl' = [cl EXCEPT ![c] = r]
          /\ r.op \in Creates /\ r.src # Nil => cache.node[r.src].key = r.path
      <3> HIDE DEF e
      <3>. QED BY <1>3, <1>4, <2>2, <1>10
    <2> HIDE DEF r, t, e
    <2>. QED BY <1>1, <1>5, <1>6, <2>3, <2>4, PlainStep
  <1>11. CASE up' = FALSE /\ UNCHANGED <<trie, cl>>
    <2> DEFINE r == cl[c]
    <2>1. /\ r \in ClSet /\ r.pc # "put" /\ cl' = [cl EXCEPT ![c] = r]
          /\ r.op \in Creates /\ r.src # Nil => cache.node[r.src].key = r.path
      BY <1>1, <1>2, <1>4, <1>7, <1>11
    <2>2. trie' \in TrieSet /\ Ported(trie', had) /\ up' \in BOOLEAN
      BY <1>5, <1>11
    <2> HIDE DEF r
    <2>. QED BY <1>1, <1>5, <1>6, <2>1, <2>2, PlainStep
  <1>12. \/ cl' = [cl EXCEPT ![c].pc = "told", ![c].sent = p] /\ UNCHANGED <<trie, up>>
         \/ /\ cl' = [cl EXCEPT ![c].pc = "told", ![c].sent = e]
            /\ trie' = DeleteNode(t, e) /\ UNCHANGED up
         \/ up' = FALSE /\ UNCHANGED <<trie, cl>>
    BY DEF Ask
  <1>13. \A n : [cl EXCEPT ![c].pc = "told", ![c].sent = n] = [cl EXCEPT ![c] = told(n)]
    BY <1>7 DEF ClSet
  <1> HIDE DEF t, e, told
  <1>. QED BY <1>9, <1>10, <1>11, <1>12, <1>13

LEMMA DeletefileToldKeeps ==
    ASSUME LInv, NEW c \in Clients, DeletefileTold(c)
    PROVE  LInv'
  <1> DEFINE s == cl[c].todo[1]
             d == Removed(disk[s], cl[c].sent)
  <1>1. Typed /\ Lists /\ up /\ cl[c].pc = "told" /\ s \in Servers
    BY HandlerIs DEF LInv, DeletefileTold
  <1>2. disk[s] \in [Names -> {"none", "file", "dir"}]
    BY <1>1 DEF Typed
  <1>3. d \in [Names -> {"none", "file", "dir"}] /\ \A q \in Names : d[q] # "none" => disk[s][q] # "none"
    <2>1. \A q \in Names : d[q] \in {"none", disk[s][q]}
      BY DEF Removed
    <2>. QED BY <1>2, <2>1 DEF Removed
  <1>4. OnDisk(s, d) /\ Release(s) /\ End(c) /\ UNCHANGED <<trie, cache, available, up, owed, had>>
    BY DEF DeletefileTold
  <1> HIDE DEF d
  <1>5. disk' \in [Servers -> [Names -> {"none", "file", "dir"}]] /\ Made'
    <2>1. /\ disk' \in [Servers -> [Names -> {"none", "file", "dir"}]]
          /\ \A x \in Servers : \A q \in Names : disk'[x][q] # "none" => disk[x][q] # "none"
      BY <1>1, <1>3, <1>4 DEF OnDisk, Typed
    <2>. QED BY <2>1, <1>1, <1>4 DEF Made, Lists
  <1>6. /\ trie' \in TrieSet /\ Ported(trie', had) /\ up' \in BOOLEAN
        /\ holder' \in [Servers -> Clients \cup {Nobody, Lost}]
        /\ owed' \in [Paths -> Servers \cup {NoServer}]
    BY <1>1, <1>4 DEF Typed, Lists, Release
  <1>7. cl' = [cl EXCEPT ![c] = Idle]
    BY <1>4 DEF End
  <1>8. Idle \in ClSet /\ Idle.pc # "put" /\ Idle.op \notin Creates
    BY IdleIs DEF Idle, Creates
  <1>. QED BY <1>1, <1>4, <1>5, <1>6, <1>7, <1>8, PlainStep

LEMMA DeletedirToldKeeps ==
    ASSUME LInv, NEW c \in Clients, DeletedirTold(c)
    PROVE  LInv'
  <1> DEFINE s == cl[c].todo[1]
             d == Wiped(disk[s], cl[c].sent)
             rest == Tail(cl[c].todo)
             r == [cl[c] EXCEPT !.todo = rest, !.pc = IF rest = <<>> THEN "prune" ELSE "ask"]
  <1>1. Typed /\ Lists /\ up /\ cl[c].pc = "told" /\ cl[c].op = "deletedir" /\ s \in Servers
    BY HandlerIs DEF LInv, DeletedirTold
  <1>2. disk[s] \in [Names -> {"none", "file", "dir"}]
    BY <1>1 DEF Typed
  <1>3. d \in [Names -> {"none", "file", "dir"}] /\ \A q \in Names : d[q] # "none" => disk[s][q] # "none"
    <2>1. \A q \in Names : d[q] \in {"none", disk[s][q]}
      BY DEF Wiped
    <2>. QED BY <1>2, <2>1 DEF Wiped
  <1>4. /\ OnDisk(s, d) /\ Release(s) /\ UNCHANGED <<trie, cache, available, up, owed, had>>
        /\ cl' = [cl EXCEPT ![c].todo = rest, ![c].pc = IF rest = <<>> THEN "prune" ELSE "ask"]
    BY DEF DeletedirTold
  <1> HIDE DEF d
  <1>5. disk' \in [Servers -> [Names -> {"none", "file", "dir"}]] /\ Made'
    <2>1. /\ disk' \in [Servers -> [Names -> {"none", "file", "dir"}]]
          /\ \A x \in Servers : \A q \in Names : disk'[x][q] # "none" => disk[x][q] # "none"
      BY <1>1, <1>3, <1>4 DEF OnDisk, Typed
    <2>. QED BY <2>1, <1>1, <1>4 DEF Made, Lists
  <1>6. /\ trie' \in TrieSet /\ Ported(trie', had) /\ up' \in BOOLEAN
        /\ holder' \in [Servers -> Clients \cup {Nobody, Lost}]
        /\ owed' \in [Paths -> Servers \cup {NoServer}]
    BY <1>1, <1>4 DEF Typed, Lists, Release
  <1>7. cl' = [cl EXCEPT ![c] = r] /\ cl[c] \in ClSet
    BY <1>1, <1>4 DEF Typed, ClSet
  <1>8. rest \in Seq(Servers)
    <2>1. cl[c].todo \in Seq(Servers) /\ cl[c].todo # <<>>
      BY <1>1, HandlerIs
    <2>2. ASSUME NEW q \in Seq(Servers), q # <<>> PROVE Tail(q) \in Seq(Servers)
      BY <2>2
    <2>. QED BY <2>1, <2>2
  <1> HIDE DEF rest
  <1>9. r \in ClSet /\ r.pc # "put" /\ r.op \notin Creates
    BY <1>1, <1>7, <1>8 DEF ClSet, Creates, Deletes
  <1> HIDE DEF r, s
  <1>. QED BY <1>1, <1>4, <1>5, <1>6, <1>7, <1>9, PlainStep

\* The first token of a path.
LEMMA FirstTokenIs ==
    ASSUME NEW p \in Paths
    PROVE  FirstToken(p) \in Tokens(p) /\ FirstToken(p) \in Names /\ Hash(FirstToken(p)) \in Buckets
  <1>1. Tokens(p) \in SUBSET Seq(Nat) /\ Tokens(p) # {}
    BY PathsAre, NamesAre
  <1>2. \E n \in Tokens(p) : \A m \in Tokens(p) : Len(n) <= Len(m)
    BY <1>1, Shortest
  <1>3. FirstToken(p) \in Tokens(p)
    BY <1>2 DEF FirstToken
  <1>. QED BY <1>3, PathsAre, NamesAre

LEMMA CreatePutKeeps ==
    ASSUME LInv, NEW c \in Clients, CreatePut(c)
    PROVE  LInv'
  <1> DEFINE p == cl[c].path
             lh == cl[c].todo
             n == cl[c].src
             key == FirstToken(p)
             k == IF n = Nil THEN cache ELSE [cache EXCEPT !.node[n].lh = lh]
             d == put(k, key, lh)
  <1>1. Typed /\ Lists /\ up /\ cl[c].pc = "put" /\ cl[c].op \in Creates
    BY HandlerIs DEF LInv, CreatePut
  <1>2. UNCHANGED <<trie, disk, available, holder, owed, had>>
    BY DEF CreatePut
  <1>3. \/ Hang(c)
        \/ HasRoom(k) /\ End(c) /\ KeepCache(d, Held(c))
    BY DEF CreatePut, NewList
  <1>4. p \in Paths /\ lh \in Seq(Servers) /\ n \in Link
    <2>1. cl[c].op # ""
      BY <1>1 DEF Creates
    <2>. QED BY <2>1, <1>1, HandlerIs
  <1>5. /\ key \in Tokens(p) /\ key \in Names /\ Hash(key) \in Buckets
        /\ p \in Tokens(p) /\ p \in Names
    BY <1>4, FirstTokenIs, PathsAre, NamesAre
  <1>6. \A q \in Tokens(p) : ToSet(lh) \subseteq had[q]
    BY <1>1 DEF Lists, PutsWhatWas
  <1>7. ToSet(lh) \subseteq HadOf(had, key) /\ ToSet(lh) \subseteq HadOf(had, p)
    BY <1>5, <1>6 DEF HadOf
  <1>8. cache \in CacheSet /\ Listed(cache, had) /\ (n # Nil => cache.node[n].key = p)
    BY <1>1 DEF Typed, Lists, HoldsItsNode
  <1> HIDE DEF key, p, lh, n
  <1>9. k \in CacheSet /\ Listed(k, had) /\ Keyed(cache, k)
    <2>1. CASE n = Nil
      BY <2>1, <1>8 DEF Keyed
    <2>2. CASE n # Nil
      <3>1. n \in Ids /\ ToSet(lh) \subseteq HadOf(had, cache.node[n].key)
        BY <2>2, <1>4, <1>7, <1>8, Links
      <3>2. /\ k \in CacheSet /\ Listed(k, had)
            /\ \A i \in Ids : k.node[i].key = cache.node[i].key
        BY <2>2, <3>1, <1>4, <1>8, Relisted
      <3> HIDE DEF k
      <3>. QED BY <3>2 DEF Keyed
    <2>. QED BY <2>1, <2>2
  <1> HIDE DEF k
  <1>10. CASE Hang(c)
    BY <1>1, <1>2, <1>10, HangStep DEF Typed
  <1>11. CASE HasRoom(k) /\ End(c) /\ KeepCache(d, Held(c))
    <2>1. d \in CacheSet /\ Listed(d, had) /\ Keyed(k, d)
      BY <1>4, <1>5, <1>7, <1>9, <1>11, PutLists
    <2> HIDE DEF d
    <2>2. Keyed(cache, d)
      BY <2>1, <1>9, KeyedTwice
    <2>3. /\ trie' \in TrieSet /\ Ported(trie', had)
          /\ holder' \in [Servers -> Clients \cup {Nobody, Lost}]
          /\ owed' \in [Paths -> Servers \cup {NoServer}]
      BY <1>1, <1>2 DEF Typed, Lists
    <2>. QED BY <1>1, <1>2, <1>11, <2>1, <2>2, <2>3, EndStep
  <1>. QED BY <1>3, <1>10, <1>11

LEMMA DeletedirPruneKeeps ==
    ASSUME LInv, NEW c \in Clients, DeletedirPrune(c)
    PROVE  LInv'
  <1> DEFINE p == cl[c].path
             r == Pruned(trie, p)
             keys == Append(r.gone, p)
             k == Dropped(cache, keys)[Len(keys)]
  <1>1. Typed /\ Lists /\ up /\ cl[c].pc = "prune" /\ cl[c].op = "deletedir"
    BY HandlerIs DEF LInv, DeletedirPrune
  <1>2. UNCHANGED <<disk, available, holder, owed, had>>
    BY DEF DeletedirPrune
  <1>3. \/ up' = FALSE /\ UNCHANGED <<trie, cache, cl>>
        \/ Hang(c) /\ UNCHANGED trie
        \/ trie' = DeleteNode(r.trie, p) /\ KeepCache(k, Held(c)) /\ End(c)
    BY DEF DeletedirPrune
  <1>4. p \in Paths /\ p \in Seq(Nat) /\ p \in Nodes /\ Paths # {}
    <2>1. p \in Paths
      BY <1>1, HandlerIs
    <2>. QED BY <2>1, PathsAre
  <1>5. /\ trie \in TrieSet /\ Ported(trie, had) /\ cache \in CacheSet /\ Made
        /\ disk \in [Servers -> [Names -> {"none", "file", "dir"}]]
        /\ holder' \in [Servers -> Clients \cup {Nobody, Lost}]
        /\ owed' \in [Paths -> Servers \cup {NoServer}]
    BY <1>1, <1>2 DEF Typed, Lists
  <1>6. CASE up' = FALSE /\ UNCHANGED <<trie, cache, cl>>
    <2> DEFINE x == cl[c]
    <2>1. x \in ClSet /\ x.pc # "put" /\ cl' = [cl EXCEPT ![c] = x] /\ x.op \notin Creates
      BY <1>1, <1>6 DEF Typed, Creates
    <2>2. Made' /\ up' \in BOOLEAN /\ trie' \in TrieSet /\ Ported(trie', had)
          /\ disk' \in [Servers -> [Names -> {"none", "file", "dir"}]]
      BY <1>2, <1>5, <1>6 DEF Made
    <2> HIDE DEF x
    <2>. QED BY <1>1, <1>2, <1>5, <1>6, <2>1, <2>2, PlainStep
  <1>7. CASE Hang(c) /\ UNCHANGED trie
    BY <1>1, <1>2, <1>5, <1>7, HangStep
  <1>8. CASE trie' = DeleteNode(r.trie, p) /\ KeepCache(k, Held(c)) /\ End(c)
    <2>1. r \in PrunedSet(had)
      BY <1>4, <1>5, PrunedIn
    <2> HIDE DEF p, r
    <2>2. r.trie \in TrieSet /\ Ported(r.trie, had) /\ r.gone \in Seq(Nodes)
      BY <2>1 DEF PrunedSet
    <2>3. trie' \in TrieSet /\ Ported(trie', had)
      BY <2>2, <1>4, <1>8, DeletePorts
    <2>4. keys \in Seq(Nodes) /\ Len(keys) \in 0 .. Len(keys)
      <3>1. keys \in Seq(Nodes)
        BY <2>2, <1>4
      <3> HIDE DEF keys
      <3>. QED BY <3>1
    <2> HIDE DEF keys
    <2>5. Relinked(cache, k)
      BY <2>4, <1>4, <1>5, DroppedIs
    <2> HIDE DEF k
    <2>6. k \in CacheSet /\ Listed(k, had) /\ Keyed(cache, k)
      BY <2>5, <1>1, RelinkedOk
    <2>. QED BY <1>1, <1>2, <1>5, <1>8, <2>3, <2>6, EndStep
  <1>. QED BY <1>3, <1>6, <1>7, <1>8

\* More servers ever created a path.
Grown(h, g) == \A q \in Names : h[q] \subseteq g[q]

LEMMA GrownKeeps ==
    ASSUME NEW h, NEW g, Grown(h, g)
    PROVE  /\ \A t : Ported(t, h) => Ported(t, g)
           /\ \A k : Listed(k, h) => Listed(k, g)
  <1>1. \A q : HadOf(h, q) \subseteq HadOf(g, q)
    BY DEF Grown, HadOf
  <1>2. ASSUME NEW t, Ported(t, h) PROVE Ported(t, g)
    BY <1>1, <1>2 DEF Ported
  <1>3. ASSUME NEW k, Listed(k, h) PROVE Listed(k, g)
    BY <1>1, <1>3 DEF Listed
  <1>. QED BY <1>2, <1>3

LEMMA CreateToldKeeps ==
    ASSUME LInv, NEW c \in Clients, CreateTold(c)
    PROVE  LInv'
  <1> DEFINE s == cl[c].todo[1]
             p == cl[c].path
             kind == IF cl[c].op = "createfile" THEN "file" ELSE "dir"
  <1>1. Typed /\ Lists /\ up /\ cl[c].pc = "told" /\ cl[c].op \in Creates
    BY DEF LInv, CreateTold
  <1>2. /\ s \in Servers /\ cl[c] \in ClSet /\ p \in Paths
        /\ cl[c].todo \in Seq(Servers) /\ Len(cl[c].todo) = 1
    <2>1. cl[c].op # ""
      BY <1>1 DEF Creates
    <2>. QED BY <2>1, <1>1, HandlerIs
  <1>3. /\ trie \in TrieSet /\ Ported(trie, had) /\ cache \in CacheSet /\ Made
        /\ disk \in [Servers -> [Names -> {"none", "file", "dir"}]]
        /\ had \in [Names -> SUBSET Servers] /\ Listed(cache, had)
    BY <1>1 DEF Typed, Lists
  <1>4. UNCHANGED <<cache, available, up>>
    BY DEF CreateTold
  <1>5. \/ /\ disk' = [disk EXCEPT ![s] = Created(@, p, kind)]
           /\ trie' = InsertPath(trie, p, s)
           /\ Release(s)
           /\ cl' = [cl EXCEPT ![c].pc = "put"]
           /\ owed' = [owed EXCEPT ![p] = IF \E o \in Clients : Covers(o, p) THEN @ ELSE s]
           /\ had' = [q \in Names |-> IF q \in Tokens(p) THEN had[q] \cup {s} ELSE had[q]]
        \/ /\ holder' = [holder EXCEPT ![s] = Lost] /\ End(c)
           /\ UNCHANGED <<disk, trie, owed, had>>
    BY DEF CreateTold
  <1>6. CASE /\ holder' = [holder EXCEPT ![s] = Lost] /\ End(c)
             /\ UNCHANGED <<disk, trie, owed, had>>
    <2>1. /\ Idle \in ClSet /\ Idle.pc # "put" /\ Idle.op \notin Creates
          /\ cl' = [cl EXCEPT ![c] = Idle]
      BY <1>6, IdleIs DEF Idle, Creates, End
    <2>2. /\ holder' \in [Servers -> Clients \cup {Nobody, Lost}]
          /\ owed' \in [Paths -> Servers \cup {NoServer}] /\ Made' /\ up' \in BOOLEAN
          /\ trie' \in TrieSet /\ Ported(trie', had)
          /\ disk' \in [Servers -> [Names -> {"none", "file", "dir"}]]
      BY <1>1, <1>2, <1>3, <1>4, <1>6 DEF Typed, Made
    <2>. QED BY <1>1, <1>4, <1>6, <2>1, <2>2, PlainStep
  <1>7. CASE /\ disk' = [disk EXCEPT ![s] = Created(@, p, kind)]
             /\ trie' = InsertPath(trie, p, s)
             /\ Release(s)
             /\ cl' = [cl EXCEPT ![c].pc = "put"]
             /\ owed' = [owed EXCEPT ![p] = IF \E o \in Clients : Covers(o, p) THEN @ ELSE s]
             /\ had' = [q \in Names |-> IF q \in Tokens(p) THEN had[q] \cup {s} ELSE had[q]]
    <2> DEFINE r == [cl[c] EXCEPT !.pc = "put"]
    <2>1. cl' = [cl EXCEPT ![c] = r] /\ r \in ClSet
      BY <1>1, <1>2, <1>7 DEF Typed, ClSet
    <2>2. r.pc = "put" /\ r.op = cl[c].op /\ r.src = cl[c].src /\ r.path = p /\ r.todo = cl[c].todo
      BY <1>2 DEF ClSet
    <2> HIDE DEF r
    <2>3. /\ cl' \in [Clients -> ClSet]
          /\ \A o \in Clients : cl'[o] = IF o = c THEN r ELSE cl[o]
      BY <1>1, <2>1 DEF Typed
    <2>4. kind \in {"none", "file", "dir"} /\ Tokens(p) \subseteq Names
      BY <1>2, NamesAre
    <2> HIDE DEF s, p, kind
    <2>5. /\ had' \in [Names -> SUBSET Servers] /\ Grown(had, had')
          /\ \A q \in Tokens(p) : s \in had'[q]
      BY <1>2, <1>3, <1>7, <2>4 DEF Grown
    <2>6. trie' \in TrieSet /\ Ported(trie', had') /\ Listed(cache', had')
      <3>1. Ported(trie, had') /\ Listed(cache', had')
        BY <1>3, <1>4, <2>5, GrownKeeps
      <3>2. trie' = InsertTries3(trie, Tokens(p), s) /\ Tokens(p) \in SUBSET Names
        BY <1>7, <2>4 DEF InsertPath
      <3>3. trie' \in TrieSet
        BY <3>2, <1>2, <1>3, InsertIs DEF Inserts
      <3>4. \A q \in Tokens(p) : s \in had'[q]
        BY <2>5
      <3> DEFINE h == had'
      <3>5. Ported(trie, h) /\ \A q \in Tokens(p) : s \in h[q]
        BY <3>1, <3>4
      <3> HIDE DEF h
      <3>6. Ported(InsertTries3(trie, Tokens(p), s), h)
        BY <3>2, <3>5, <1>2, <1>3, InsertPorts
      <3>. QED BY <3>1, <3>2, <3>3, <3>6 DEF h
    <2>7. disk' \in [Servers -> [Names -> {"none", "file", "dir"}]]
      <3>1. Created(disk[s], p, kind) \in [Names -> {"none", "file", "dir"}]
        BY <1>2, <1>3, <2>4 DEF Created
      <3>. QED BY <3>1, <1>2, <1>3, <1>7
    <2>8. Made'
      <3>1. SUFFICES ASSUME NEW x \in Servers, NEW q \in Names, disk'[x][q] # "none"
                     PROVE  x \in had'[q]
        BY DEF Made
      <3>2. CASE disk[x][q] # "none"
        BY <3>2, <1>3, <2>5 DEF Made, Grown
      <3>3. CASE disk[x][q] = "none"
        <4>1. x = s /\ disk'[s] = Created(disk[s], p, kind)
          BY <3>1, <3>3, <1>2, <1>3, <1>7
        <4>2. q \in Tokens(p)
          BY <4>1, <3>1, <3>3, <1>2, PathsAre DEF Created
        <4>. QED BY <4>1, <4>2, <2>5
      <3>. QED BY <3>2, <3>3
    <2>9. PutsWhatWas'
      <3>1. SUFFICES ASSUME NEW o \in Clients, cl'[o].pc = "put", NEW q \in Tokens(cl'[o].path)
                     PROVE  ToSet(cl'[o].todo) \subseteq had'[q]
        BY DEF PutsWhatWas
      <3>2. CASE o = c
        <4>1. q \in Tokens(p) /\ cl'[o].todo = cl[c].todo
          BY <3>1, <3>2, <2>2, <2>3
        <4>2. ToSet(cl[c].todo) \subseteq {s}
          BY <1>2 DEF ToSet, s
        <4>. QED BY <4>1, <4>2, <2>5
      <3>3. CASE o # c
        <4>1. cl'[o] = cl[o] /\ ToSet(cl[o].todo) \subseteq had[q]
          BY <3>1, <3>3, <2>3, <1>1 DEF Lists, PutsWhatWas
        <4>2. q \in Names
          <5>1. cl[o].op # ""
            BY <4>1, <3>1, <1>1, HandlerIs DEF Creates
          <5>. QED BY <5>1, <4>1, <3>1, <1>1, HandlerIs, NamesAre
        <4>. QED BY <4>1, <4>2, <2>5 DEF Grown
      <3>. QED BY <3>2, <3>3
    <2>10. HoldsItsNode'
      <3>1. HoldsItsNode
        BY <1>1 DEF Lists
      <3>. QED BY <3>1, <2>2, <2>3, <1>2, <1>4 DEF HoldsItsNode, p
    <2>11. Typed'
      <3>1. /\ holder' \in [Servers -> Clients \cup {Nobody, Lost}]
            /\ owed' \in [Paths -> Servers \cup {NoServer}]
        BY <1>1, <1>2, <1>7 DEF Typed, Release
      <3>. QED BY <3>1, <2>3, <2>5, <2>6, <2>7, <1>1, <1>4 DEF Typed
    <2>12. Lists'
      BY <2>6, <2>8, <2>9, <2>10 DEF Lists
    <2>. QED BY <2>11, <2>12 DEF LInv
  <1>. QED BY <1>5, <1>6, <1>7

\* A storage server that goes away or comes back.
LEMMA MovingKeeps ==
    ASSUME LInv, NEW s \in Mortal, GoesAway(s) \/ ComesBack(s)
    PROVE  LInv'
  <1>1. up /\ UNCHANGED <<cache, disk, holder, cl, up, owed, had>>
    BY DEF GoesAway, ComesBack, Moving
  <1>2. Typed /\ Lists /\ s \in Servers
    BY <1>1, NameSpaceAssumption DEF LInv
  <1>3. available' \subseteq Servers
    BY <1>2 DEF GoesAway, ComesBack, Typed
  <1>4. trie' \in TrieSet /\ Ported(trie', had)
    <2>1. trie \in TrieSet /\ Ported(trie, had) /\ Made
      BY <1>2 DEF Typed, Lists
    <2>2. CASE UNCHANGED trie
      BY <2>1, <2>2
    <2>3. CASE trie' = InsertTries3(trie, Listing(s), s)
      <3>1. Listing(s) \in SUBSET Names /\ \A q \in Listing(s) : s \in had[q]
        BY <2>1, <1>2 DEF Listing, Made
      <3>2. InsertTries3(trie, Listing(s), s) \in TrieSet
        BY <3>1, <2>1, <1>2, InsertIs DEF Inserts
      <3>3. Ported(InsertTries3(trie, Listing(s), s), had)
        BY <3>1, <2>1, <1>2, InsertPorts
      <3>. QED BY <3>2, <3>3, <2>3
    <2>. QED BY <2>2, <2>3 DEF GoesAway, ComesBack
  <1>5. Typed'
    BY <1>1, <1>2, <1>3, <1>4 DEF Typed
  <1>6. PutsWhatWas' /\ HoldsItsNode' /\ Made'
    BY <1>1, <1>2 DEF Lists, PutsWhatWas, HoldsItsNode, Made
  <1>7. Lists'
    BY <1>1, <1>2, <1>4, <1>6 DEF Lists
  <1>. QED BY <1>5, <1>7 DEF LInv

LEMMA LStep == LInv /\ [Next]_vars => LInv'
  <1>. SUFFICES ASSUME LInv, [Next]_vars PROVE LInv'
    OBVIOUS
  <1>1. ASSUME NEW c \in Clients, NEW p \in Paths,
               \/ \E op \in Creates : BeginCreate(c, op, p)
               \/ BeginDeletefile(c, p)
               \/ BeginDeletedir(c, p)
               \/ \E op \in Writes \cup {"read"} : BeginAccess(c, op, p)
        PROVE  LInv'
    BY <1>1, BeginCreateKeeps, BeginDeletefileKeeps, BeginDeletedirKeeps, BeginAccessKeeps
  <1>2. ASSUME NEW c \in Clients, NEW pq \in Copies, BeginCopyfile(c, pq[1], pq[2])
        PROVE  LInv'
    BY <1>2, BeginCopyfileKeeps
  <1>3. ASSUME NEW c \in Clients, \/ Ask(c) \/ CreateTold(c) \/ CreatePut(c) \/ DeletefileTold(c)
                                  \/ DeletedirTold(c) \/ DeletedirPrune(c)
        PROVE  LInv'
    BY <1>3, AskKeeps, CreateToldKeeps, CreatePutKeeps, DeletefileToldKeeps, DeletedirToldKeeps,
       DeletedirPruneKeeps
  <1>4. ASSUME NEW s \in Mortal, GoesAway(s) \/ ComesBack(s) PROVE LInv'
    BY <1>4, MovingKeeps
  <1>5. CASE UNCHANGED vars
    BY <1>5 DEF vars, LInv, Typed, Lists, PutsWhatWas, HoldsItsNode, Made
  <1>. QED BY <1>1, <1>2, <1>3, <1>4, <1>5 DEF Next

\* Every list that a thread, the trie or the cache has names storage servers that created
\* the path, and a create still has the node that it found in the cache.
THEOREM ListsHold == Spec => []LInv
  <1>1. Init => LInv
    BY InitLInv
  <1>2. LInv /\ [Next]_vars => LInv'
    BY LStep
  <1>. QED BY <1>1, <1>2, PTL DEF Spec

LEMMA LInvTyped == LInv => TypeOK
  <1>. SUFFICES ASSUME LInv PROVE TypeOK
    OBVIOUS
  <1>1. Typed
    BY DEF LInv
  <1>2. \A n \in DOMAIN trie : trie[n].count \in Int /\ trie[n].end \in BOOLEAN
    <2>1. \A n \in DOMAIN trie : trie[n] \in Contents
      BY <1>1, TrieIs DEF Typed
    <2>. QED BY <2>1 DEF Contents
  <1>3. cache.size \in Int /\ cache.head \in Ids \cup {Nil}
    BY <1>1 DEF Typed, CacheSet, Link
  <1>4. \A c \in Clients : /\ cl[c].pc \in {"idle", "ask", "told", "prune", "put", "hung"}
                           /\ cl[c].pc \in {"ask", "told"} => cl[c].todo # <<>>
    BY <1>1, HandlerIs DEF ClSet
  <1>. QED BY <1>1, <1>2, <1>3, <1>4 DEF Typed, TypeOK

\* The trie, the cache, the disks and the handlers' records are what they should be:
\* a handler that waits for a storage server has one left to ask.
THEOREM NameSpaceTypes == Spec => []TypeOK
  <1>. QED BY ListsHold, LInvTyped, PTL

LEMMA LInvLists == LInv => CachedWasThere
  <1>. SUFFICES ASSUME LInv, up, NEW n \in Ids, cache.node[n] # Unused
                PROVE  ToSet(cache.node[n].lh) \subseteq had[cache.node[n].key]
    BY DEF CachedWasThere
  <1>1. ToSet(cache.node[n].lh) \subseteq HadOf(had, cache.node[n].key)
    BY DEF LInv, Lists, Listed
  <1>2. HadOf(had, cache.node[n].key) \subseteq had[cache.node[n].key]
    BY DEF HadOf
  <1>. QED BY <1>1, <1>2

\* A list that the cache has for a path, although a thread may change it after
\* block_server is released and another find it meanwhile, names only storage servers
\* that created that path.
THEOREM CacheNamesCreators == Spec => []CachedWasThere
  <1>. QED BY ListsHold, LInvLists, PTL

-----------------------------------------------------------------------------
(* What the counters count: a trie stands for a collection of insertions,   *)
(* numbered pairs of a number and a name.                                   *)

Inserted == UNION {SUBSET ((1 .. b) \X Names) : b \in Nat}
Under(L, n) == {x \in L : IsPrefix(n, x[2])}

Counts(t, L) ==
    /\ DOMAIN t = {n \in Nodes : n = Root \/ Under(L, n) # {}}
    /\ \A n \in DOMAIN t : /\ t[n].count = Cardinality(Under(L, n))
                           /\ t[n].end => \E x \in L : x[2] = n

LEMMA InsertedIs ==
    ASSUME NEW L \in Inserted
    PROVE  /\ IsFiniteSet(L)
           /\ \A M \in SUBSET L : M \in Inserted /\ IsFiniteSet(M) /\ Cardinality(M) \in Nat
           /\ \A n : Under(L, n) \in SUBSET L
           /\ \A x \in L : /\ x[1] \in Nat /\ x = <<x[1], x[2]>>
                           /\ x[2] \in Names /\ x[2] \in Seq(Nat) /\ x[2] # Root /\ x[2] \in Nodes
  <1>1. PICK b \in Nat : L \in SUBSET ((1 .. b) \X Names)
    BY DEF Inserted
  <1>2. IsFiniteSet((1 .. b) \X Names)
    <2>1. IsFiniteSet(1 .. b)
      BY FS_Interval
    <2>2. IsFiniteSet(Names)
      BY FiniteNodes
    <2> DEFINE S == 1 .. b
    <2> HIDE DEF S
    <2>3. IsFiniteSet(S \X Names)
      BY <2>1, <2>2, FS_Product DEF S
    <2>. QED BY <2>3 DEF S
  <1>3. IsFiniteSet(L)
    BY <1>1, <1>2, FS_Subset
  <1>4. ASSUME NEW M \in SUBSET L PROVE M \in Inserted /\ IsFiniteSet(M) /\ Cardinality(M) \in Nat
    BY <1>1, <1>3, FS_Subset, FS_CardinalityType DEF Inserted
  <1>5. ASSUME NEW x \in L
        PROVE  /\ x[1] \in Nat /\ x = <<x[1], x[2]>>
               /\ x[2] \in Names /\ x[2] \in Seq(Nat) /\ x[2] # Root /\ x[2] \in Nodes
    <2>1. x[1] \in 1 .. b /\ x = <<x[1], x[2]>> /\ x[2] \in Names
      BY <1>1
    <2>. QED BY <2>1, NamesAre, PathsAre
  <1>. QED BY <1>3, <1>4, <1>5 DEF Under

\* A node is there exactly for the insertions at and below it.
LEMMA CountedIs ==
    ASSUME NEW t, NEW L \in Inserted, Counts(t, L)
    PROVE  /\ Root \in DOMAIN t
           /\ \A n : n \in DOMAIN t /\ n # Root <=> n \in Seq(Nat) /\ n # Root /\ Under(L, n) # {}
           /\ \A x \in L : Prefixes(x[2]) \subseteq DOMAIN t /\ x[2] \in DOMAIN t
  <1>1. \A x \in L : /\ x[2] \in Seq(Nat) /\ x[2] \in Prefixes(x[2])
                     /\ \A n : n \in Prefixes(x[2]) <=> n \in Seq(Nat) /\ IsPrefix(n, x[2])
    BY InsertedIs, PrefixesAre
  <1>2. ASSUME NEW x \in L, NEW n \in Seq(Nat), IsPrefix(n, x[2]) PROVE n \in DOMAIN t
    <2>1. n \in Nodes
      BY <1>1, <1>2, InsertedIs, NamesAre
    <2>2. x \in Under(L, n)
      BY <1>2 DEF Under
    <2>. QED BY <2>1, <2>2 DEF Counts
  <1>3. \A n \in Seq(Nat) : Under(L, n) # {} => n \in DOMAIN t
    BY <1>2 DEF Under
  <1>4. \A n \in DOMAIN t : n \in Seq(Nat) /\ (n # Root => Under(L, n) # {})
    BY PathsAre DEF Counts
  <1>5. Root \in DOMAIN t
    BY PathsAre DEF Counts
  <1>. QED BY <1>1, <1>2, <1>3, <1>4, <1>5

\* The sum of the counters of a set of nodes, if they count disjoint parts of a set.
Sums(it, t, S) ==
    \A s \in SUBSET S :
        it[s] = IF s = {} THEN 0
                ELSE LET x == CHOOSE y \in s : TRUE IN t[x].count + it[s \ {x}]

Parts(C, t, S, X) ==
    /\ C \in [S -> SUBSET X]
    /\ \A m \in S : t[m].count = Cardinality(C[m])
    /\ \A m, k \in S : m # k => C[m] \cap C[k] = {}

SumTo(t, S, k) ==
    /\ \E g : g \in [SUBSET S -> Nat] /\ Sums(g, t, S)
    /\ \A it : Sums(it, t, S) => it[S] = k

LEMMA OwnUnfolds ==
    ASSUME NEW t, NEW n, NEW k, SumTo(t, Children(t, n), k)
    PROVE  Own(t, n) = t[n].count - k
  <1> DEFINE S == Children(t, n)
             P(f) == f = [s \in SUBSET S |->
                            IF s = {} THEN 0
                            ELSE t[CHOOSE x \in s : TRUE].count + f[s \ {CHOOSE x \in s : TRUE}]]
             it == CHOOSE f : P(f)
  <1>1. Own(t, n) = t[n].count - it[S]
    BY DEF Own, MapThenSumSet, MapThenFoldSet
  <1>2. \E g : P(g)
    <2>1. PICK g : g \in [SUBSET S -> Nat] /\ Sums(g, t, S)
      BY DEF SumTo
    <2>2. P(g)
      BY <2>1 DEF Sums
    <2>. QED BY <2>2
  <1>3. P(it)
    BY <1>2
  <1>4. Sums(it, t, S)
    <2> HIDE DEF it, S
    <2>. QED BY <1>3 DEF Sums
  <1> HIDE DEF it
  <1>. QED BY <1>1, <1>4 DEF SumTo

LEMMA Disjoint ==
    ASSUME NEW A, IsFiniteSet(A), NEW B, IsFiniteSet(B), A \cap B = {}
    PROVE  Cardinality(A \cup B) = Cardinality(A) + Cardinality(B)
  <1>1. Cardinality(A \cup B) = Cardinality(A) + Cardinality(B) - Cardinality(A \cap B)
    BY FS_Union
  <1>2. Cardinality(A \cap B) = 0 /\ Cardinality(A) \in Nat /\ Cardinality(B) \in Nat
    BY FS_EmptySet, FS_CardinalityType
  <1>. QED BY <1>1, <1>2

LEMMA SumIs ==
    ASSUME NEW t, NEW S, IsFiniteSet(S), NEW X, IsFiniteSet(X), NEW C, Parts(C, t, S, X)
    PROVE  SumTo(t, S, Cardinality(UNION {C[m] : m \in S}))
  <1>0. /\ C \in [S -> SUBSET X]
        /\ \A m \in S : t[m].count = Cardinality(C[m])
        /\ \A m, k \in S : m # k => C[m] \cap C[k] = {}
    BY DEF Parts
  <1> DEFINE All(R) == UNION {C[m] : m \in R}
             g == [R \in SUBSET S |-> Cardinality(All(R))]
  <1>1. \A R \in SUBSET S : IsFiniteSet(All(R)) /\ Cardinality(All(R)) \in Nat
    <2>1. \A R \in SUBSET S : All(R) \in SUBSET X
      BY <1>0
    <2> HIDE DEF All
    <2>. QED BY <2>1, FS_Subset, FS_CardinalityType
  <1>2. g \in [SUBSET S -> Nat]
    <2> HIDE DEF All
    <2>. QED BY <1>1
  <1>3. g[{}] = 0
    <2>1. All({}) = {}
      OBVIOUS
    <2>. QED BY <2>1, FS_EmptySet
  <1>4. ASSUME NEW R \in SUBSET S, NEW x \in R
        PROVE  g[R] = t[x].count + g[R \ {x}]
    <2>1. All(R) = C[x] \cup All(R \ {x}) /\ C[x] \cap All(R \ {x}) = {}
      BY <1>0
    <2>2. IsFiniteSet(C[x]) /\ Cardinality(C[x]) \in Nat
      BY <1>0, FS_Subset, FS_CardinalityType
    <2>3. IsFiniteSet(All(R \ {x})) /\ Cardinality(All(R \ {x})) \in Nat
      <3> HIDE DEF All
      <3>. QED BY <1>1
    <2> HIDE DEF All
    <2>4. Cardinality(All(R)) = Cardinality(C[x]) + Cardinality(All(R \ {x}))
      BY <2>1, <2>2, <2>3, Disjoint
    <2>. QED BY <1>0, <2>2, <2>3, <2>4
  <1> HIDE DEF g
  <1>5. \A R \in SUBSET S : R # {} => /\ (CHOOSE y \in R : TRUE) \in R
                                      /\ R \ {CHOOSE y \in R : TRUE} \in SUBSET S
    OBVIOUS
  <1>6. Sums(g, t, S)
    BY <1>3, <1>4, <1>5 DEF Sums
  <1>7. ASSUME NEW it, Sums(it, t, S) PROVE it[S] = g[S]
    <2> DEFINE Bad == {Cardinality(R) : R \in {Q \in SUBSET S : it[Q] # g[Q]}}
    <2>1. \A R \in SUBSET S : IsFiniteSet(R) /\ Cardinality(R) \in Nat
      BY FS_Subset, FS_CardinalityType
    <2>2. ASSUME Bad # {} PROVE FALSE
      <3>1. Bad \in SUBSET Nat
        BY <2>1
      <3>2. PICK m \in Bad : \A k \in Bad : m <= k
        <4> HIDE DEF Bad
        <4>. QED BY <2>2, <3>1, Smallest
      <3>3. PICK R \in SUBSET S : it[R] # g[R] /\ m = Cardinality(R)
        BY <3>2
      <3>4. R # {}
        BY <3>3, <1>3, <1>7 DEF Sums
      <3> DEFINE x == CHOOSE y \in R : TRUE
                 Q == R \ {x}
      <3>5. x \in R /\ Q \in SUBSET S
        BY <3>4
      <3>6. it[R] = t[x].count + it[Q] /\ g[R] = t[x].count + g[Q]
        <4>1. it[R] = t[x].count + it[Q]
          BY <3>4, <1>7 DEF Sums
        <4>2. g[R] = t[x].count + g[Q]
          <5> HIDE DEF x
          <5>. QED BY <3>5, <1>4
        <4>. QED BY <4>1, <4>2
      <3>7. Cardinality(Q) = Cardinality(R) - 1
        BY <3>5, <2>1, FS_RemoveElement
      <3> HIDE DEF x, Q
      <3>8. it[Q] # g[Q]
        BY <3>3, <3>6
      <3>9. Cardinality(Q) \in Bad
        BY <3>8, <3>5
      <3>10. m \in Nat /\ m <= Cardinality(Q) /\ Cardinality(Q) = m - 1
        <4> HIDE DEF Bad
        <4>. QED BY <3>1, <3>2, <3>3, <3>7, <3>9
      <3>. QED BY <3>10
    <2>. QED BY <2>2
  <1>8. g[S] = Cardinality(UNION {C[m] : m \in S})
    BY DEF g
  <1>. QED BY <1>2, <1>6, <1>7, <1>8 DEF SumTo

\* The next node on the way down to a path.
LEMMA NextDown ==
    ASSUME NEW n \in Seq(Nat), NEW q \in Seq(Nat), IsPrefix(n, q), n # q
    PROVE  \E m \in Seq(Nat) : Len(m) = Len(n) + 1 /\ IsPrefix(n, m) /\ IsPrefix(m, q)
  <1>1. Len(n) <= Len(q) /\ \A i \in 1 .. Len(n) : n[i] = q[i]
    BY PrefixIs
  <1>2. Len(n) # Len(q)
    BY PrefixOrder
  <1>3. Len(n) + 1 \in 0 .. Len(q)
    BY <1>1, <1>2
  <1> DEFINE m == SubSeq(q, 1, Len(n) + 1)
  <1>4. m \in Seq(Nat) /\ Len(m) = Len(n) + 1 /\ \A i \in 1 .. Len(n) + 1 : m[i] = q[i]
    BY <1>3, Cut
  <1> HIDE DEF m
  <1>5. IsPrefix(m, q)
    <2>1. Len(m) <= Len(q) /\ \A i \in 1 .. Len(m) : m[i] = q[i]
      BY <1>3, <1>4
    <2>. QED BY <2>1, <1>4, PrefixIs
  <1>6. IsPrefix(n, m)
    <2>1. Len(n) <= Len(m) /\ \A i \in 1 .. Len(n) : n[i] = m[i]
      BY <1>1, <1>4
    <2>. QED BY <2>1, <1>4, PrefixIs
  <1>. QED BY <1>4, <1>5, <1>6

At(L, n) == {x \in L : x[2] = n}

LEMMA OwnIs ==
    ASSUME NEW t \in TrieSet, NEW L \in Inserted, Counts(t, L), NEW n \in DOMAIN t
    PROVE  Own(t, n) = Cardinality(At(L, n))
  <1> DEFINE S == Children(t, n)
             C == [m \in S |-> Under(L, m)]
             below == UNION {C[m] : m \in S}
  <1>1. /\ \A m \in DOMAIN t : m \in Seq(Nat)
        /\ \A m \in S : m \in DOMAIN t /\ m \in Nodes /\ Len(m) = Len(n) + 1 /\ IsPrefix(n, m)
    BY TrieIs, PathsAre DEF Children
  <1>2. IsFiniteSet(S)
    BY <1>1, FiniteNodes, FS_Subset
  <1>3. IsFiniteSet(L) /\ C \in [S -> SUBSET L]
    BY InsertedIs
  <1>4. \A m \in S : t[m].count = Cardinality(C[m])
    BY <1>1 DEF Counts
  <1>5. ASSUME NEW m \in S, NEW k \in S, NEW x \in L, x \in C[m], x \in C[k]
        PROVE  m = k
    <2>1. IsPrefix(m, x[2]) /\ IsPrefix(k, x[2]) /\ x[2] \in Seq(Nat)
      BY <1>5, InsertedIs DEF Under
    <2>2. m \in Seq(Nat) /\ k \in Seq(Nat) /\ Len(m) = Len(k) /\ Len(m) \in Nat
      BY <1>1
    <2>3. IsPrefix(m, k)
      BY <2>1, <2>2, PrefixOrder
    <2>. QED BY <2>2, <2>3, PrefixOrder
  <1>6. \A m, k \in S : m # k => C[m] \cap C[k] = {}
    BY <1>3, <1>5
  <1>7. below = Under(L, n) \ At(L, n)
    <2>1. ASSUME NEW m \in S, NEW x \in C[m] PROVE x \in Under(L, n) \ At(L, n)
      <3>1. x \in L /\ IsPrefix(m, x[2]) /\ x[2] \in Seq(Nat)
        BY <2>1, InsertedIs DEF Under
      <3>2. IsPrefix(n, x[2])
        BY <3>1, <1>1, PrefixOrder
      <3>3. Len(n) + 1 <= Len(x[2]) /\ Len(n) \in Nat
        BY <3>1, <1>1, PrefixIs
      <3>4. x[2] # n
        BY <3>3
      <3>. QED BY <3>1, <3>2, <3>4 DEF Under, At
    <2>2. ASSUME NEW x \in L, IsPrefix(n, x[2]), x[2] # n PROVE \E m \in S : x \in C[m]
      <3>1. x[2] \in Seq(Nat) /\ n \in Seq(Nat)
        BY <1>1, InsertedIs
      <3>2. PICK m \in Seq(Nat) : Len(m) = Len(n) + 1 /\ IsPrefix(n, m) /\ IsPrefix(m, x[2])
        BY <2>2, <3>1, NextDown
      <3>3. x \in Under(L, m) /\ m # Root
        BY <3>2, <3>1 DEF Under, Root
      <3>4. m \in DOMAIN t
        BY <3>3, CountedIs
      <3>5. m \in S
        BY <3>2, <3>4 DEF Children
      <3>. QED BY <3>3, <3>5
    <2> HIDE DEF S, C
    <2>. QED BY <2>1, <2>2 DEF Under, At
  <1> HIDE DEF S, C
  <1>8. SumTo(t, S, Cardinality(below))
    <2>1. Parts(C, t, S, L)
      BY <1>3, <1>4, <1>6 DEF Parts
    <2>. QED BY <2>1, <1>2, <1>3, SumIs
  <1>9. Own(t, n) = t[n].count - Cardinality(below)
    BY <1>8, OwnUnfolds DEF S
  <1>11. At(L, n) \in SUBSET L /\ Under(L, n) = At(L, n) \cup below /\ At(L, n) \cap below = {}
    <2>1. n \in Seq(Nat) /\ IsPrefix(n, n)
      BY <1>1, PrefixOrder
    <2> HIDE DEF below
    <2>. QED BY <2>1, <1>7 DEF At, Under
  <1>12. below \in SUBSET L
    BY <1>7 DEF Under
  <1> HIDE DEF below
  <1>13. IsFiniteSet(At(L, n)) /\ IsFiniteSet(below) /\ Cardinality(At(L, n)) \in Nat /\ Cardinality(below) \in Nat
    BY <1>11, <1>12, InsertedIs
  <1>14. Cardinality(Under(L, n)) = Cardinality(At(L, n)) + Cardinality(below)
    BY <1>11, <1>13, Disjoint
  <1>15. t[n].count = Cardinality(Under(L, n))
    BY DEF Counts
  <1>. QED BY <1>9, <1>13, <1>14, <1>15

\* Names with a number in front of them.
Numbered(a, V) == {<<a, q>> : q \in V}

LEMMA NumberedIs ==
    ASSUME NEW a, NEW V, IsFiniteSet(V)
    PROVE  IsFiniteSet(Numbered(a, V)) /\ Cardinality(Numbered(a, V)) = Cardinality(V)
  <1> DEFINE f == [q \in V |-> <<a, q>>]
             W == Numbered(a, V)
  <1>1. f \in Bijection(V, W)
    <2>1. f \in [V -> W] /\ \A q, r \in V : f[q] = f[r] => q = r
      BY DEF Numbered
    <2>2. \A w \in W : \E q \in V : f[q] = w
      BY DEF Numbered
    <2>. QED BY <2>1, <2>2 DEF Bijection, Injection, Surjection, IsInjective
  <1>2. ExistsBijection(V, W)
    BY <1>1 DEF ExistsBijection
  <1> HIDE DEF W
  <1>. QED BY <1>2, FS_Bijection DEF W

\* Each of the names inserted is one insertion more.
CountsAlso(u, L, vals) ==
    \E M \in Inserted : /\ L \subseteq M /\ Counts(u, M)
                        /\ \A q \in vals : \E x \in M : x[2] = q

LEMMA InsertCounts ==
    ASSUME NEW t \in TrieSet, NEW L \in Inserted, Counts(t, L),
           NEW vals \in SUBSET Names, NEW s \in Servers
    PROVE  CountsAlso(InsertTries3(t, vals, s), L, vals)
  <1>1. PICK b \in Nat : L \in SUBSET ((1 .. b) \X Names)
    BY DEF Inserted
  <1> DEFINE u == InsertTries3(t, vals, s)
             N == Numbered(b + 1, vals)
             M == L \cup N
  <1>2. M \in Inserted
    <2>1. M \in SUBSET ((1 .. b + 1) \X Names)
      BY <1>1 DEF Numbered
    <2>. QED BY <2>1 DEF Inserted
  <1>3. Inserts(t, vals, s, u)
    BY InsertIs
  <1> HIDE DEF u
  <1>4. DOMAIN u = {n \in Nodes : n = Root \/ Under(M, n) # {}}
    <2>1. /\ \A x \in M : x \in L \/ x[2] \in vals
          /\ \A val \in vals : <<b + 1, val>> \in M /\ <<b + 1, val>>[2] = val
          /\ L \subseteq M
      BY DEF Numbered
    <2>2. /\ DOMAIN u = DOMAIN t \cup UNION {Prefixes(val) : val \in vals}
          /\ DOMAIN u \subseteq Nodes /\ Nodes \subseteq Seq(Nat)
      BY <1>3, TrieIs, PathsAre DEF Inserts
    <2>3. \A val \in vals : \A n : n \in Prefixes(val) <=> n \in Seq(Nat) /\ IsPrefix(n, val)
      BY NamesAre, PathsAre, PrefixesAre
    <2> HIDE DEF M
    <2>4. ASSUME NEW n \in DOMAIN u, n # Root PROVE Under(M, n) # {}
      <3>1. CASE n \in DOMAIN t
        BY <3>1, <2>1, <2>4 DEF Counts, Under
      <3>2. CASE \E val \in vals : n \in Prefixes(val)
        BY <3>2, <2>1, <2>3 DEF Under
      <3>. QED BY <3>1, <3>2, <2>2
    <2>5. ASSUME NEW n \in Nodes, n = Root \/ Under(M, n) # {} PROVE n \in DOMAIN u
      <3>1. CASE n = Root
        BY <3>1, <2>2, CountedIs
      <3>2. CASE \E x \in L : IsPrefix(n, x[2])
        BY <3>2, <2>2 DEF Counts, Under
      <3>3. CASE \E val \in vals : IsPrefix(n, val)
        <4>1. PICK val \in vals : n \in Prefixes(val)
          BY <3>3, <2>2, <2>3
        <4>. QED BY <4>1, <2>2
      <3>. QED BY <3>1, <3>2, <3>3, <2>1, <2>5 DEF Under
    <2>. QED BY <2>2, <2>4, <2>5
  <1>5. ASSUME NEW n \in DOMAIN u PROVE u[n].count = Cardinality(Under(M, n))
    <2>1. OldAt(t, n).count = Cardinality(Under(L, n))
      <3>1. CASE n \in DOMAIN t
        BY <3>1 DEF Counts, OldAt
      <3>2. CASE n \notin DOMAIN t
        <4>1. n \in Seq(Nat)
          BY <1>3, TrieIs, PathsAre DEF Inserts
        <4>2. Under(L, n) = {}
          BY <3>2, <4>1, CountedIs
        <4>. QED BY <3>2, <4>2, FS_EmptySet DEF OldAt, NewNode
      <3>. QED BY <3>1, <3>2
    <2> DEFINE K == Numbered(b + 1, More(vals, n))
    <2>2. Under(M, n) = Under(L, n) \cup K /\ Under(L, n) \cap K = {}
      <3>1. \A x \in L : x[1] # b + 1
        BY <1>1
      <3>2. Under(L, n) \cap K = {}
        BY <3>1 DEF Under, Numbered
      <3>3. \A x \in N : x \in K <=> IsPrefix(n, x[2])
        BY DEF Numbered, More
      <3>4. K \subseteq N
        BY DEF Numbered, More
      <3> HIDE DEF K, N
      <3>. QED BY <3>2, <3>3, <3>4 DEF Under
    <2>3. IsFiniteSet(More(vals, n)) /\ Cardinality(More(vals, n)) \in Nat
      <3>1. More(vals, n) \in SUBSET Names
        BY DEF More
      <3>. QED BY <3>1, SomeNames
    <2>4. IsFiniteSet(K) /\ Cardinality(K) = Cardinality(More(vals, n))
      BY <2>3, NumberedIs
    <2>5. IsFiniteSet(Under(L, n))
      BY InsertedIs
    <2> HIDE DEF K, M
    <2>6. Cardinality(Under(M, n)) = Cardinality(Under(L, n)) + Cardinality(K)
      BY <2>2, <2>4, <2>5, Disjoint
    <2>. QED BY <2>1, <2>4, <2>6, <1>3 DEF Inserts
  <1>6. \A q \in vals : \E x \in M : x[2] = q
    <2>1. \A q \in vals : <<b + 1, q>> \in M /\ <<b + 1, q>>[2] = q
      BY DEF Numbered
    <2>. QED BY <2>1
  <1>7. ASSUME NEW n \in DOMAIN u, u[n].end PROVE \E x \in M : x[2] = n
    <2>1. OldAt(t, n).end \/ n \in vals
      BY <1>3, <1>7 DEF Inserts
    <2>2. CASE OldAt(t, n).end
      BY <2>2 DEF OldAt, NewNode, Counts
    <2>. QED BY <2>1, <2>2, <1>6
  <1>8. Counts(u, M) /\ L \subseteq M
    <2>1. L \subseteq M
      OBVIOUS
    <2> HIDE DEF M
    <2>. QED BY <2>1, <1>4, <1>5, <1>7 DEF Counts
  <1> HIDE DEF M
  <1>9. CountsAlso(u, L, vals)
    BY <1>2, <1>6, <1>8 DEF CountsAlso
  <1>. QED BY <1>9 DEF u

LEMMA ClearCounts ==
    ASSUME NEW t \in TrieSet, NEW L, Counts(t, L), NEW val
    PROVE  Counts(ClearEnd(t, val), L)
BY ClearIs DEF Cleared, Counts

\* One insertion less.
LEMMA OneLess ==
    ASSUME NEW L \in Inserted, NEW x \in L, NEW n
    PROVE  /\ L \ {x} \in Inserted
           /\ Under(L \ {x}, n) = Under(L, n) \ {x}
           /\ Cardinality(Under(L \ {x}, n)) =
                Cardinality(Under(L, n)) - IF IsPrefix(n, x[2]) THEN 1 ELSE 0
  <1>1. L \ {x} \in Inserted /\ Under(L, n) \in SUBSET L
    BY InsertedIs
  <1>2. Under(L \ {x}, n) = Under(L, n) \ {x} /\ (x \in Under(L, n) <=> IsPrefix(n, x[2]))
    BY DEF Under
  <1>3. IsFiniteSet(Under(L, n)) /\ Cardinality(Under(L, n)) \in Nat
    BY <1>1, InsertedIs
  <1> DEFINE U == Under(L, n)
  <1> HIDE DEF U
  <1>4. Cardinality(U \ {x}) = IF x \in U THEN Cardinality(U) - 1 ELSE Cardinality(U)
    BY <1>3, FS_RemoveElement DEF U
  <1>5. Under(L \ {x}, n) = U \ {x} /\ (x \in U <=> IsPrefix(n, x[2]))
    BY <1>2 DEF U
  <1>6. Cardinality(Under(L \ {x}, n)) = IF x \in U THEN Cardinality(U) - 1 ELSE Cardinality(U)
    BY <1>4, <1>5
  <1>7. Cardinality(U) \in Nat
    BY <1>3 DEF U
  <1>8. Cardinality(Under(L \ {x}, n)) = Cardinality(U) - IF IsPrefix(n, x[2]) THEN 1 ELSE 0
    BY <1>5, <1>6, <1>7
  <1>. QED BY <1>1, <1>2, <1>8 DEF U

\* DeleteNode of a name that was inserted undoes one insertion of it.
LEMMA DeleteCounts ==
    ASSUME NEW t \in TrieSet, NEW L \in Inserted, Counts(t, L), NEW x \in L
    PROVE  Counts(DeleteNode(t, x[2]), L \ {x})
  <1> DEFINE val == x[2]
             u == DeleteNode(t, val)
             M == L \ {x}
  <1>1. val \in Seq(Nat) /\ val # Root /\ Walkable(t, val)
    BY InsertedIs, CountedIs DEF Walkable
  <1>2. Deleted(t, val, u)
    BY <1>1, DeleteIs
  <1>3. /\ \A n : Under(M, n) = Under(L, n) \ {x}
        /\ \A n \in DOMAIN t : LessAt(t, val, n) = Cardinality(Under(M, n))
    <2>1. ASSUME NEW n PROVE /\ Under(M, n) = Under(L, n) \ {x}
                             /\ Cardinality(Under(M, n)) =
                                  Cardinality(Under(L, n)) - IF IsPrefix(n, val) THEN 1 ELSE 0
      BY OneLess
    <2> HIDE DEF M, val
    <2>. QED BY <2>1 DEF LessAt, Counts
  <1>4. \A n : IsFiniteSet(Under(M, n)) /\ (Cardinality(Under(M, n)) = 0 <=> Under(M, n) = {})
    <2>1. M \in Inserted
      BY OneLess
    <2> HIDE DEF M
    <2>2. \A n : IsFiniteSet(Under(M, n))
      BY <2>1, InsertedIs
    <2>. QED BY <2>2, FS_EmptySet
  <1>5. /\ \A n \in DOMAIN t : n \in Seq(Nat) /\ (n # Root => Under(L, n) # {})
        /\ Root \in DOMAIN t /\ Root \in Seq(Nat)
    BY CountedIs, PathsAre
  <1>6. \A n : n \in Prefixes(val) <=> n \in Seq(Nat) /\ IsPrefix(n, val)
    BY <1>1, PrefixesAre
  <1>7. DOMAIN u = {m \in DOMAIN t : ~ \E g \in Gone(t, val) : IsPrefix(g, m)}
    BY <1>1, <1>2 DEF Deleted
  <1> HIDE DEF u, M
  <1>8. ASSUME NEW n \in DOMAIN t, n # Root, Under(M, n) = {} PROVE n \notin DOMAIN u
    <2>1. IsPrefix(n, val) /\ n \in Prefixes(val) /\ IsPrefix(n, n)
      <3>1. x \in Under(L, n)
        BY <1>3, <1>5, <1>8
      <3>. QED BY <3>1, <1>5, <1>6, PrefixOrder DEF Under
    <2>2. LessAt(t, val, n) = 0
      BY <1>3, <1>4, <1>8
    <2>3. n \in Gone(t, val)
      BY <2>1, <2>2, <1>8 DEF Gone
    <2>. QED BY <2>1, <2>3, <1>7
  <1>9. ASSUME NEW n \in DOMAIN t, Under(M, n) # {} PROVE n \in DOMAIN u
    <2>1. SUFFICES ASSUME NEW g \in Gone(t, val), IsPrefix(g, n) PROVE FALSE
      BY <1>7
    <2>2. g \in DOMAIN t /\ g \in Seq(Nat) /\ Under(M, g) = {}
      BY <1>3, <1>4, <1>5 DEF Gone
    <2>3. PICK y \in M : IsPrefix(n, y[2])
      BY <1>9 DEF Under
    <2>4. y[2] \in Seq(Nat)
      BY <2>3, InsertedIs DEF M
    <2>5. IsPrefix(g, y[2])
      BY <2>1, <2>2, <2>3, <2>4, <1>5, PrefixOrder
    <2>. QED BY <2>2, <2>3, <2>5 DEF Under
  <1>10. Root \in DOMAIN u
    <2>1. SUFFICES ASSUME NEW g \in Gone(t, val), IsPrefix(g, Root) PROVE FALSE
      BY <1>5, <1>7
    <2>2. g \in Seq(Nat) /\ g # Root
      BY <1>6 DEF Gone
    <2>3. Len(g) <= 0
      BY <2>1, <2>2, <1>5, PrefixIs DEF Root
    <2>. QED BY <2>2, <2>3 DEF Root
  <1>11. DOMAIN u = {n \in Nodes : n = Root \/ Under(M, n) # {}}
    <2>1. DOMAIN t = {n \in Nodes : n = Root \/ Under(L, n) # {}} /\ DOMAIN u \subseteq DOMAIN t
      BY <1>7 DEF Counts
    <2>2. \A n \in Nodes : Under(M, n) # {} => n \in DOMAIN t
      BY <2>1, <1>3
    <2>. QED BY <2>1, <2>2, <1>8, <1>9, <1>10
  <1>12. \A n \in DOMAIN u : u[n].count = Cardinality(Under(M, n))
    BY <1>2, <1>3 DEF Deleted
  <1>13. ASSUME NEW n \in DOMAIN u, u[n].end PROVE \E y \in M : y[2] = n
    BY <1>2, <1>13 DEF Deleted, Counts, M
  <1>14. Counts(u, M)
    BY <1>11, <1>12, <1>13 DEF Counts
  <1>. QED BY <1>14 DEF u, M

\* The next entry has been inserted.
LEMMA NextCounts ==
    ASSUME NEW t \in TrieSet, NEW L \in Inserted, Counts(t, L), NEW val \in DOMAIN t, val # Root
    PROVE  \E x \in L : x[2] = NextEntry(t, val) /\ IsPrefix(val, x[2])
  <1> DEFINE e == NextEntry(t, val)
  <1>1. val \in Seq(Nat) /\ \A n \in DOMAIN t : n \in Seq(Nat)
    BY CountedIs, PathsAre
  <1>2. e \in DOMAIN t /\ IsPrefix(val, e) /\ (Children(t, e) = {} \/ t[e].end)
    BY <1>1, NextEntryIs
  <1> HIDE DEF e
  <1>3. e # Root /\ e \in Seq(Nat)
    <2>1. Len(val) <= Len(e) /\ e \in Seq(Nat)
      BY <1>1, <1>2, PrefixIs
    <2>. QED BY <2>1, <1>1 DEF Root
  <1>4. CASE t[e].end
    BY <1>2, <1>4 DEF Counts, e
  <1>5. CASE Children(t, e) = {}
    <2>1. PICK x \in L : IsPrefix(e, x[2])
      <3>1. Under(L, e) # {}
        BY <1>2, <1>3, CountedIs
      <3>. QED BY <3>1 DEF Under
    <2>2. x[2] \in Seq(Nat)
      BY InsertedIs
    <2>3. ASSUME e # x[2] PROVE FALSE
      <3>1. PICK m \in Seq(Nat) : Len(m) = Len(e) + 1 /\ IsPrefix(e, m) /\ IsPrefix(m, x[2])
        BY <2>1, <2>2, <2>3, <1>3, NextDown
      <3>2. m # Root /\ x \in Under(L, m)
        BY <3>1, <1>3 DEF Under, Root
      <3>3. m \in DOMAIN t
        BY <3>2, CountedIs
      <3>. QED BY <3>1, <3>3, <1>5 DEF Children
    <2>. QED BY <2>1, <2>3, <1>2 DEF e
  <1>. QED BY <1>2, <1>4, <1>5

\* u is what is left of t when entries under "below" have been deleted, c of which are left.
SamePorts(t, u) == \A n \in DOMAIN u : n \in DOMAIN t /\ u[n].ports = t[n].ports
Leaves(t, L, below, u, M) ==
    /\ M \in Inserted /\ M \subseteq L /\ Counts(u, M)
    /\ \A x \in L \ M : IsPrefix(below, x[2])
    /\ SamePorts(t, u)
LeavesSome(t, L, below, u, c) ==
    \E M \in Inserted : Leaves(t, L, below, u, M) /\ Cardinality(Under(M, below)) = c

LEMMA PruneOne ==
    ASSUME NEW t, NEW L, NEW below \in Seq(Nat), below # Root, NEW u \in TrieSet, NEW c \in Nat,
           c > 0, LeavesSome(t, L, below, u, c)
    PROVE  LeavesSome(t, L, below, DeleteNode(u, NextEntry(u, below)), c - 1)
  <1>1. PICK M \in Inserted : Leaves(t, L, below, u, M) /\ Cardinality(Under(M, below)) = c
    BY DEF LeavesSome
  <1>2. below \in DOMAIN u /\ Counts(u, M)
    <2>1. Under(M, below) # {}
      <3>1. ASSUME Under(M, below) = {} PROVE Cardinality(Under(M, below)) = 0
        BY <3>1, FS_EmptySet
      <3>. QED BY <3>1, <1>1
    <2>. QED BY <2>1, <1>1, CountedIs DEF Leaves
  <1>3. PICK x \in M : x[2] = NextEntry(u, below) /\ IsPrefix(below, x[2])
    BY <1>2, NextCounts
  <1> DEFINE v == DeleteNode(u, x[2])
             K == M \ {x}
  <1>4. Counts(v, K) /\ K \in Inserted
    BY <1>2, DeleteCounts, OneLess
  <1>5. SamePorts(t, v)
    <2>1. Deleted(u, x[2], v)
      BY InsertedIs, DeleteIs
    <2> HIDE DEF v
    <2>. QED BY <2>1, <1>1 DEF Deleted, SamePorts, Leaves
  <1>6. Cardinality(Under(K, below)) = c - 1
    BY <1>1, <1>3, OneLess
  <1>7. K \subseteq L /\ \A y \in L \ K : IsPrefix(below, y[2])
    BY <1>1, <1>3 DEF Leaves
  <1> HIDE DEF v, K
  <1>8. LeavesSome(t, L, below, v, c - 1)
    BY <1>4, <1>5, <1>6, <1>7 DEF LeavesSome, Leaves
  <1>. QED BY <1>3, <1>8 DEF v

\* deletedir's loop deletes everything that was inserted under path/, and nothing else.
LEMMA PrunedCounts ==
    ASSUME NEW t \in TrieSet, NEW L \in Inserted, Counts(t, L), NEW path \in Seq(Nat), NEW h, Ported(t, h)
    PROVE  \E M \in Inserted : /\ Leaves(t, L, Append(path, Slash), Pruned(t, path).trie, M)
                               /\ Under(M, Append(path, Slash)) = {}
  <1> DEFINE below == Append(path, Slash)
             N == Rest(t, path)
  <1>1. below \in Seq(Nat) /\ below # Root /\ N \in Nat
    BY BelowIs
  <1>2. PICK f : /\ f[0] = [trie |-> t, gone |-> <<>>]
                 /\ \A k \in 1 .. N : f[k] = Prune(f[k - 1], below)
                 /\ \A k \in 0 .. N : f[k] \in PrunedSet(h)
                 /\ Pruned(t, path) = f[N]
    BY PrunedIs, ZenonT(60)
  <1>3. N = Cardinality(Under(L, below))
    <2>1. CASE below \in DOMAIN t
      BY <2>1 DEF Rest, Counts
    <2>2. CASE below \notin DOMAIN t
      <3>1. Under(L, below) = {}
        BY <2>2, <1>1, CountedIs
      <3>. QED BY <3>1, <2>2, FS_EmptySet DEF Rest
    <2>. QED BY <2>1, <2>2
  <1> DEFINE Q(k) == LeavesSome(t, L, below, f[k].trie, N - k)
  <1> HIDE DEF below, N
  <1>4. Q(0)
    <2>1. f[0].trie = t /\ N - 0 = N
      BY <1>1, <1>2
    <2>2. SamePorts(t, t)
      BY DEF SamePorts
    <2>3. Leaves(t, L, below, t, L)
      BY <2>2 DEF Leaves
    <2>. QED BY <2>1, <2>3, <1>3 DEF LeavesSome
  <1>5. ASSUME NEW k \in 1 .. N, Q(k - 1) PROVE Q(k)
    <2> DEFINE u == f[k - 1].trie
               c == N - (k - 1)
    <2>1. k - 1 \in 0 .. N /\ c \in Nat /\ c > 0 /\ c - 1 = N - k
      BY <1>1
    <2>2. u \in TrieSet
      BY <2>1, <1>2 DEF PrunedSet
    <2>3. f[k].trie = DeleteNode(u, NextEntry(u, below))
      <3>1. \A x : Prune(x, below).trie = DeleteNode(x.trie, NextEntry(x.trie, below))
        BY DEF Prune
      <3>. QED BY <3>1, <1>2
    <2>4. LeavesSome(t, L, below, u, c)
      BY <1>5
    <2> HIDE DEF u, c
    <2>5. LeavesSome(t, L, below, DeleteNode(u, NextEntry(u, below)), c - 1)
      BY <2>1, <2>2, <2>4, <1>1, PruneOne
    <2>. QED BY <2>1, <2>3, <2>5
  <1>6. Q(N)
    <2> DEFINE Bad == {k \in 0 .. N : ~Q(k)}
    <2>1. ASSUME Bad # {} PROVE FALSE
      <3>1. Bad \in SUBSET Nat
        BY <1>1
      <3>2. PICK m \in Bad : \A k \in Bad : m <= k
        <4> HIDE DEF Bad
        <4>. QED BY <2>1, <3>1, Smallest
      <3>3. m \in 1 .. N /\ m - 1 \in 0 .. N /\ ~Q(m)
        <4>1. m \in 0 .. N /\ ~Q(m) /\ m # 0
          BY <3>2, <1>4
        <4>. QED BY <4>1, <1>1
      <3>4. Q(m - 1)
        <4>1. m - 1 \notin Bad
          <5> HIDE DEF Bad
          <5>. QED BY <3>2, <3>3
        <4>. QED BY <4>1, <3>3
      <3> HIDE DEF Q
      <3>. QED BY <3>3, <3>4, <1>5
    <2>2. N \in 0 .. N
      BY <1>1
    <2>. QED BY <2>1, <2>2
  <1>7. PICK M \in Inserted : Leaves(t, L, below, f[N].trie, M) /\ Cardinality(Under(M, below)) = 0
    <2>1. N - N = 0
      BY <1>1
    <2>. QED BY <2>1, <1>6 DEF LeavesSome
  <1>8. Under(M, below) = {}
    <2>1. IsFiniteSet(Under(M, below))
      BY InsertedIs
    <2>. QED BY <2>1, <1>7, FS_EmptySet
  <1>. QED BY <1>2, <1>7, <1>8 DEF below, N

-----------------------------------------------------------------------------
(* The invariant of counters: the trie stands for a collection of           *)
(* insertions, a created path that nobody is deleting is one of them, and a *)
(* handler that deletes has sent its own path or one below.                 *)

Kept(L) ==
    \A p \in Paths : owed[p] # NoServer =>
        /\ \E x \in L : x[2] = p
        /\ owed[p] \in ToSet(trie[p].ports)
        /\ disk[owed[p]][p] # "none"
Stands == \E L \in Inserted : Counts(trie, L) /\ Kept(L)
Spared == \A o \in Clients : \A p \in Paths : Covers(o, p) => owed[p] = NoServer

SentRight(r) ==
    r.pc = "told" => /\ r.op = "deletefile" => r.sent = r.path \/ Below(r.sent, r.path)
                     /\ r.op = "deletedir" => r.sent = r.path
SentBelow == \A c \in Clients : SentRight(cl[c])

CInv == up => Stands /\ Spared /\ SentBelow

LEMMA InitCInv == Init => CInv
  <1>. SUFFICES ASSUME Init PROVE CInv
    OBVIOUS
  <1> DEFINE L == {}
  <1>1. L \in Inserted /\ \A n : Under(L, n) = {}
    <2>1. {} \in SUBSET ((1 .. 0) \X Names) /\ 0 \in Nat
      OBVIOUS
    <2>. QED BY <2>1 DEF Inserted, Under
  <1> HIDE DEF L
  <1>2. Counts(trie, L)
    <2>1. DOMAIN trie = {Root} /\ trie[Root].count = 0 /\ ~trie[Root].end
      BY DEF Init, EmptyTrie, NewNode
    <2>2. Cardinality({}) = 0
      BY FS_EmptySet
    <2>. QED BY <2>1, <2>2, <1>1, PathsAre DEF Counts
  <1>3. Stands
    BY <1>1, <1>2 DEF Stands, Kept, Init
  <1>4. \A c \in Clients : cl[c].op = "" /\ cl[c].pc = "idle"
    BY DEF Init, Idle
  <1>. QED BY <1>3, <1>4 DEF CInv, Spared, SentBelow, SentRight, Covers, Deletes

\* A name with another in front of it lies below it.
LEMMA SeparateNames ==
    ASSUME NoContinuation, NEW p \in Names, NEW q \in Names, IsPrefix(p, q)
    PROVE  q = p \/ Below(q, p)
  <1>. SUFFICES ASSUME q # p PROVE Below(q, p)
    OBVIOUS
  <1>1. p \in Seq(Nat) /\ q \in Seq(Nat) /\ Slash \in Nat
    BY NamesAre, PathsAre DEF Slash
  <1>2. q[Len(p) + 1] = Slash
    BY DEF NoContinuation, IsStrictPrefix
  <1>3. Len(p) <= Len(q) /\ Len(p) # Len(q) /\ \A i \in 1 .. Len(p) : p[i] = q[i]
    BY <1>1, PrefixIs, PrefixOrder
  <1> DEFINE a == Append(p, Slash)
  <1>4. a \in Seq(Nat) /\ Len(a) = Len(p) + 1 /\ a[Len(p) + 1] = Slash /\ \A i \in 1 .. Len(p) : a[i] = p[i]
    BY <1>1
  <1> HIDE DEF a
  <1>5. Len(a) <= Len(q)
    BY <1>1, <1>3, <1>4
  <1>6. \A i \in 1 .. Len(a) : i \in 1 .. Len(p) \/ i = Len(p) + 1
    BY <1>1, <1>4
  <1>7. \A i \in 1 .. Len(a) : a[i] = q[i]
    BY <1>2, <1>3, <1>4, <1>6
  <1>8. IsPrefix(a, q)
    BY <1>1, <1>4, <1>5, <1>7, PrefixIs
  <1>. QED BY <1>8 DEF Below, a

\* A handler's step that adds nothing to the trie or to a disk.
LEMMA ShrinkStep ==
    ASSUME LInv, CInv, up, NEW c \in Clients, NEW r, cl' = [cl EXCEPT ![c] = r],
           r.op = "" \/ (r.op = cl[c].op /\ r.path = cl[c].path), SentRight(r), UNCHANGED owed,
           NEW L \in Inserted, Counts(trie, L), Kept(L),
           NEW M \in Inserted, Counts(trie', M), M \subseteq L, SamePorts(trie, trie'),
           \A x \in L \ M : x[2] \in Paths => owed[x[2]] = NoServer,
           \A q \in Paths : owed[q] # NoServer => disk'[owed[q]][q] = disk[owed[q]][q]
    PROVE  CInv'
  <1>1. \A o \in Clients : cl'[o] = IF o = c THEN r ELSE cl[o]
    BY DEF LInv, Typed
  <1>2. Spared'
    <2>1. Spared
      BY DEF CInv
    <2>2. SUFFICES ASSUME NEW o \in Clients, NEW p \in Paths, Covers(o, p)' PROVE owed[p] = NoServer
      BY DEF Spared
    <2>3. cl'[o].op \in Deletes /\ (p = cl'[o].path \/ Below(p, cl'[o].path))
      BY <2>2 DEF Covers
    <2>4. cl'[o].op # ""
      BY <2>3 DEF Deletes
    <2>5. cl'[o].op = cl[o].op /\ cl'[o].path = cl[o].path
      BY <2>4, <1>1
    <2>6. Covers(o, p)
      BY <2>3, <2>5 DEF Covers
    <2>. QED BY <2>1, <2>6 DEF Spared
  <1>3. SentBelow'
    <2>1. SentBelow
      BY DEF CInv
    <2>. QED BY <2>1, <1>1 DEF SentBelow
  <1>4. Kept(M)'
    <2>1. SUFFICES ASSUME NEW p \in Paths, owed[p] # NoServer
                   PROVE  /\ \E x \in M : x[2] = p
                          /\ owed[p] \in ToSet(trie'[p].ports)
                          /\ disk'[owed[p]][p] # "none"
      BY DEF Kept
    <2>2. PICK x \in L : x[2] = p
      BY <2>1 DEF Kept
    <2>3. x \in M /\ p \in DOMAIN trie'
      <3>1. x \in M
        BY <2>1, <2>2
      <3>. QED BY <3>1, <2>2, CountedIs
    <2>4. trie'[p].ports = trie[p].ports
      BY <2>3 DEF SamePorts
    <2>. QED BY <2>1, <2>2, <2>3, <2>4 DEF Kept
  <1>5. Stands'
    BY <1>4 DEF Stands
  <1>. QED BY <1>2, <1>3, <1>5 DEF CInv

\* A handler that has just begun waits for its path's server, or has ended.
Begun(c, op, p, r) ==
    /\ Begin(c, op, p) /\ cl' = [cl EXCEPT ![c] = r]
    /\ r.pc # "told" /\ (r.op = "" \/ (r.op = op /\ r.path = p))

LEMMA BegunKeeps ==
    ASSUME LInv, CInv, NEW c \in Clients, NEW op, NEW p, NEW r, Begun(c, op, p, r)
    PROVE  CInv'
  <1>1. up /\ UNCHANGED <<trie, disk>> /\ Stands /\ Spared /\ SentBelow
    BY DEF Begun, Begin, CInv
  <1>2. \A o \in Clients : cl'[o] = IF o = c THEN r ELSE cl[o]
    BY DEF LInv, Typed, Begun
  <1>3. \A q \in Paths : owed'[q] = IF op \in Deletes /\ (q = p \/ Below(q, p)) THEN NoServer
                                    ELSE owed[q]
    BY DEF Begun, Begin
  <1>4. Stands'
    <2>1. PICK L \in Inserted : Counts(trie, L) /\ Kept(L)
      BY <1>1 DEF Stands
    <2>2. \A q \in Paths : owed'[q] # NoServer => owed'[q] = owed[q]
      BY <1>3
    <2>3. Kept(L)'
      BY <1>1, <2>1, <2>2 DEF Kept
    <2>. QED BY <1>1, <2>1, <2>3 DEF Stands
  <1>5. Spared'
    <2>1. SUFFICES ASSUME NEW o \in Clients, NEW q \in Paths, Covers(o, q)' PROVE owed'[q] = NoServer
      BY DEF Spared
    <2>2. cl'[o].op \in Deletes /\ (q = cl'[o].path \/ Below(q, cl'[o].path))
      BY <2>1 DEF Covers
    <2>3. CASE o = c
      <3>1. r.op = op /\ r.path = p
        BY <2>2, <2>3, <1>2 DEF Begun, Deletes
      <3>. QED BY <3>1, <2>2, <2>3, <1>2, <1>3
    <2>4. CASE o # c
      <3>1. Covers(o, q)
        BY <2>2, <2>4, <1>2 DEF Covers
      <3>. QED BY <3>1, <1>1, <1>3 DEF Spared
    <2>. QED BY <2>3, <2>4
  <1>6. SentBelow'
    <2>1. SentRight(r)
      BY DEF Begun, SentRight
    <2>. QED BY <2>1, <1>1, <1>2 DEF SentBelow
  <1>. QED BY <1>4, <1>5, <1>6 DEF CInv

\* A handler that has ended, or never will, has no command.
LEMMA OverIs ==
    ASSUME NEW c, Hang(c) \/ End(c)
    PROVE  \E r : cl' = [cl EXCEPT ![c] = r] /\ r.pc # "told" /\ r.op = ""
  <1> DEFINE hung == [Idle EXCEPT !.pc = "hung"]
  <1>1. Idle.pc # "told" /\ Idle.op = "" /\ hung.pc # "told" /\ hung.op = ""
    BY DEF Idle
  <1>2. cl' = [cl EXCEPT ![c] = Idle] \/ cl' = [cl EXCEPT ![c] = hung]
    BY DEF Hang, End
  <1> HIDE DEF hung
  <1>. QED BY <1>1, <1>2

LEMMA BeginIsBegun ==
    ASSUME NEW c \in Clients, NEW p,
           \/ \E op \in Creates : BeginCreate(c, op, p)
           \/ BeginDeletefile(c, p)
           \/ BeginDeletedir(c, p)
           \/ \E op \in Writes \cup {"read"} : BeginAccess(c, op, p)
           \/ \E q : BeginCopyfile(c, p, q)
    PROVE  \E op, r : Begun(c, op, p, r)
  <1>1. ASSUME NEW op, Begin(c, op, p), Hang(c) \/ End(c) PROVE \E r : Begun(c, op, p, r)
    <2>1. PICK r : cl' = [cl EXCEPT ![c] = r] /\ r.pc # "told" /\ r.op = ""
      BY <1>1, OverIs
    <2>. QED BY <2>1, <1>1 DEF Begun
  <1>2. ASSUME NEW op, NEW todo, NEW src, Begin(c, op, p), Goes(c, "ask", op, p, todo, src)
        PROVE  \E r : Begun(c, op, p, r)
    <2> DEFINE r == [Idle EXCEPT !.pc = "ask", !.op = op, !.path = p, !.todo = todo, !.src = src]
    <2>1. r.pc = "ask" /\ r.op = op /\ r.path = p
      BY DEF Idle
    <2>2. cl' = [cl EXCEPT ![c] = r]
      BY <1>2 DEF Goes
    <2> HIDE DEF r
    <2>3. Begun(c, op, p, r)
      BY <1>2, <2>1, <2>2 DEF Begun
    <2>. QED BY <2>3
  <1>3. ASSUME NEW op \in Creates, BeginCreate(c, op, p) PROVE \E r : Begun(c, op, p, r)
    <2>1. Begin(c, op, p) /\ (\/ Hang(c) \/ End(c)
                              \/ \E s \in available : Goes(c, "ask", op, p, <<s>>, Find(get(cache, p), p)))
      BY <1>3 DEF BeginCreate
    <2>. QED BY <2>1, <1>1, <1>2
  <1>4. ASSUME BeginDeletefile(c, p) PROVE \E r : Begun(c, "deletefile", p, r)
    <2>1. Begin(c, "deletefile", p) /\ (\/ Hang(c) \/ End(c)
                                        \/ Goes(c, "ask", "deletefile", p, <<List(p)[1]>>, Nil))
      BY <1>4 DEF BeginDeletefile
    <2>. QED BY <2>1, <1>1, <1>2
  <1>5. ASSUME BeginDeletedir(c, p) PROVE \E r : Begun(c, "deletedir", p, r)
    <2>1. Begin(c, "deletedir", p) /\ (End(c) \/ Goes(c, "ask", "deletedir", p, SearchWords(trie, p), Nil))
      BY <1>5 DEF BeginDeletedir
    <2>. QED BY <2>1, <1>1, <1>2
  <1>6. ASSUME NEW op, BeginAccess(c, op, p) PROVE \E r : Begun(c, op, p, r)
    <2>1. Begin(c, op, p) /\ (Hang(c) \/ End(c))
      BY <1>6 DEF BeginAccess
    <2>. QED BY <2>1, <1>1
  <1>7. ASSUME NEW q, BeginCopyfile(c, p, q) PROVE \E r : Begun(c, "copyfile", p, r)
    <2>1. Begin(c, "copyfile", p) /\ (Hang(c) \/ End(c))
      BY <1>7 DEF BeginCopyfile
    <2>. QED BY <2>1, <1>1
  <1>. QED BY <1>3, <1>4, <1>5, <1>6, <1>7

LEMMA SamePortsNot == ASSUME NEW t PROVE SamePorts(t, t)
BY DEF SamePorts

LEMMA CreatePutCounts ==
    ASSUME LInv, CInv, NEW c \in Clients, CreatePut(c)
    PROVE  CInv'
  <1>1. UNCHANGED <<trie, disk, owed>> /\ up /\ (Hang(c) \/ End(c))
    BY DEF CreatePut
  <1>2. PICK L \in Inserted : Counts(trie, L) /\ Kept(L)
    BY <1>1 DEF CInv, Stands
  <1>3. PICK r : cl' = [cl EXCEPT ![c] = r] /\ r.pc # "told" /\ r.op = ""
    BY <1>1, OverIs
  <1>4. r.op = "" /\ SentRight(r)
    BY <1>3 DEF SentRight
  <1>5. SamePorts(trie, trie') /\ Counts(trie', L)
    BY <1>1, <1>2, SamePortsNot
  <1>. QED BY <1>1, <1>2, <1>3, <1>4, <1>5, ShrinkStep

LEMMA DeletefileToldCounts ==
    ASSUME LInv, CInv, NEW c \in Clients, DeletefileTold(c)
    PROVE  CInv'
  <1> DEFINE s == cl[c].todo[1]
             d == Removed(disk[s], cl[c].sent)
  <1>1. /\ UNCHANGED <<trie, owed>> /\ up /\ End(c) /\ OnDisk(s, d)
        /\ cl[c].pc = "told" /\ cl[c].op = "deletefile"
    BY DEF DeletefileTold
  <1>2. PICK L \in Inserted : Counts(trie, L) /\ Kept(L)
    BY <1>1 DEF CInv, Stands
  <1>3. Idle.op = "" /\ SentRight(Idle) /\ cl' = [cl EXCEPT ![c] = Idle]
    BY <1>1 DEF Idle, SentRight, End
  <1>4. SamePorts(trie, trie') /\ Counts(trie', L)
    BY <1>1, <1>2, SamePortsNot
  <1>5. ASSUME NEW q \in Paths, owed[q] # NoServer PROVE disk'[owed[q]][q] = disk[owed[q]][q]
    <2>1. q # cl[c].sent
      <3>1. ~Covers(c, q)
        BY <1>1, <1>5 DEF CInv, Spared
      <3>2. cl[c].sent = cl[c].path \/ Below(cl[c].sent, cl[c].path)
        BY <1>1 DEF CInv, SentBelow, SentRight
      <3>. QED BY <3>1, <3>2, <1>1 DEF Covers, Deletes
    <2>2. q \in Names /\ d[q] = disk[s][q]
      BY <2>1, NamesAre DEF Removed
    <2> HIDE DEF d, s
    <2>3. disk \in [Servers -> [Names -> {"none", "file", "dir"}]]
      BY DEF LInv, Typed
    <2>4. disk' = disk \/ disk' = [disk EXCEPT ![s] = d]
      BY <1>1 DEF OnDisk
    <2>5. owed[q] \in Servers
      BY <1>5 DEF LInv, Typed
    <2>. QED BY <2>2, <2>3, <2>4, <2>5
  <1>. QED BY <1>1, <1>2, <1>3, <1>4, <1>5, ShrinkStep

LEMMA DeletedirToldCounts ==
    ASSUME LInv, CInv, NEW c \in Clients, DeletedirTold(c)
    PROVE  CInv'
  <1> DEFINE s == cl[c].todo[1]
             d == Wiped(disk[s], cl[c].sent)
             rest == Tail(cl[c].todo)
             r == [cl[c] EXCEPT !.todo = rest, !.pc = IF rest = <<>> THEN "prune" ELSE "ask"]
  <1>1. /\ UNCHANGED <<trie, owed>> /\ up /\ OnDisk(s, d)
        /\ cl[c].pc = "told" /\ cl[c].op = "deletedir"
        /\ cl' = [cl EXCEPT ![c].todo = rest, ![c].pc = IF rest = <<>> THEN "prune" ELSE "ask"]
    BY DEF DeletedirTold
  <1>2. PICK L \in Inserted : Counts(trie, L) /\ Kept(L)
    BY <1>1 DEF CInv, Stands
  <1>3. cl' = [cl EXCEPT ![c] = r] /\ r.op = cl[c].op /\ r.path = cl[c].path /\ SentRight(r)
    <2>1. cl \in [Clients -> ClSet] /\ cl[c] \in ClSet
      BY DEF LInv, Typed
    <2> HIDE DEF rest
    <2>. QED BY <2>1, <1>1 DEF ClSet, SentRight
  <1>4. SamePorts(trie, trie') /\ Counts(trie', L)
    BY <1>1, <1>2, SamePortsNot
  <1>5. ASSUME NEW q \in Paths, owed[q] # NoServer PROVE disk'[owed[q]][q] = disk[owed[q]][q]
    <2>1. q # cl[c].sent /\ ~Below(q, cl[c].sent)
      <3>1. ~Covers(c, q)
        BY <1>1, <1>5 DEF CInv, Spared
      <3>2. cl[c].sent = cl[c].path
        BY <1>1 DEF CInv, SentBelow, SentRight
      <3>. QED BY <3>1, <3>2, <1>1 DEF Covers, Deletes
    <2>2. q \in Names /\ d[q] = disk[s][q]
      BY <2>1, NamesAre DEF Wiped
    <2> HIDE DEF d, s
    <2>3. disk \in [Servers -> [Names -> {"none", "file", "dir"}]]
      BY DEF LInv, Typed
    <2>4. disk' = disk \/ disk' = [disk EXCEPT ![s] = d]
      BY <1>1 DEF OnDisk
    <2>5. owed[q] \in Servers
      BY <1>5 DEF LInv, Typed
    <2>. QED BY <2>2, <2>3, <2>4, <2>5
  <1> HIDE DEF r
  <1>. QED BY <1>1, <1>2, <1>3, <1>4, <1>5, ShrinkStep

LEMMA AskCounts ==
    ASSUME NoContinuation, LInv, CInv, NEW c \in Clients, Ask(c)
    PROVE  CInv'
  <1> DEFINE p == cl[c].path
             t == ClearEnd(trie, p)
             e == NextEntry(t, p)
             told(n) == [cl[c] EXCEPT !.pc = "told", !.sent = n]
  <1>1. /\ up /\ Typed /\ Lists /\ cl[c].pc = "ask" /\ UNCHANGED <<disk, owed>>
        /\ \/ /\ cl[c].op # "deletefile" /\ UNCHANGED <<trie, up>>
              /\ cl' = [cl EXCEPT ![c].pc = "told", ![c].sent = p]
           \/ /\ cl[c].op = "deletefile" /\ Walkable(trie, p) /\ trie' = DeleteNode(t, e)
              /\ cl' = [cl EXCEPT ![c].pc = "told", ![c].sent = e]
           \/ up' = FALSE
    BY DEF Ask, LInv
  <1>2. PICK L \in Inserted : Counts(trie, L) /\ Kept(L)
    BY <1>1 DEF CInv, Stands
  <1>3. cl[c] \in ClSet /\ cl \in [Clients -> ClSet] /\ trie \in TrieSet
    BY <1>1 DEF Typed
  <1>4. p \in Paths /\ p \in Names /\ p \in Seq(Nat) /\ p # Root
    <2>1. cl[c].op \in Creates \cup Deletes
      BY <1>1, HandlerIs
    <2>2. cl[c].op # ""
      BY <2>1 DEF Creates, Deletes
    <2>3. p \in Paths
      BY <2>2, <1>1, HandlerIs
    <2>. QED BY <2>3, NamesAre, PathsAre
  <1>5. \A n : /\ told(n).pc = "told" /\ told(n).sent = n /\ told(n).op = cl[c].op
               /\ told(n).path = cl[c].path
               /\ [cl EXCEPT ![c].pc = "told", ![c].sent = n] = [cl EXCEPT ![c] = told(n)]
    BY <1>3 DEF ClSet
  <1>6. CASE /\ cl[c].op # "deletefile" /\ UNCHANGED <<trie, up>>
             /\ cl' = [cl EXCEPT ![c].pc = "told", ![c].sent = p]
    <2> DEFINE r == told(p)
    <2>1. /\ cl' = [cl EXCEPT ![c] = r] /\ r.op = cl[c].op /\ r.path = cl[c].path /\ r.sent = p
      BY <1>5, <1>6
    <2> HIDE DEF r
    <2>2. SentRight(r)
      BY <2>1, <1>6 DEF SentRight
    <2>3. SamePorts(trie, trie') /\ Counts(trie', L)
      BY <1>2, <1>6, SamePortsNot
    <2>. QED BY <1>1, <1>2, <2>1, <2>2, <2>3, ShrinkStep
  <1>7. CASE /\ cl[c].op = "deletefile" /\ Walkable(trie, p) /\ trie' = DeleteNode(t, e)
             /\ cl' = [cl EXCEPT ![c].pc = "told", ![c].sent = e]
    <2>1. t \in TrieSet /\ Counts(t, L) /\ p \in DOMAIN t /\ SamePorts(trie, t)
      <3>1. Cleared(trie, t) /\ Counts(t, L)
        BY <1>2, <1>3, ClearIs, ClearCounts
      <3>2. p \in DOMAIN trie
        BY <1>4, <1>7, PrefixesAre DEF Walkable
      <3> HIDE DEF t
      <3>. QED BY <3>1, <3>2 DEF Cleared, SamePorts
    <2> HIDE DEF t
    <2>2. PICK x \in L : x[2] = e /\ IsPrefix(p, x[2])
      BY <2>1, <1>4, NextCounts
    <2> HIDE DEF e
    <2>3. e = p \/ Below(e, p)
      <3>1. x[2] \in Names
        BY <2>2, InsertedIs
      <3>. QED BY <3>1, <2>2, <1>4, SeparateNames
    <2> DEFINE M == L \ {x}
               r == told(e)
    <2>4. M \in Inserted /\ Counts(trie', M)
      BY <2>1, <2>2, <1>7, OneLess, DeleteCounts
    <2>5. SamePorts(trie, trie')
      <3>1. e \in Seq(Nat)
        BY <2>2, InsertedIs
      <3>2. Deleted(t, e, trie')
        BY <3>1, <2>1, <1>7, DeleteIs
      <3>. QED BY <3>2, <2>1 DEF Deleted, SamePorts
    <2>6. ASSUME NEW y \in L \ M, y[2] \in Paths PROVE owed[y[2]] = NoServer
      <3>1. y[2] = e
        BY <2>2
      <3>2. Covers(c, y[2])
        BY <3>1, <2>3, <1>7 DEF Covers, Deletes
      <3>. QED BY <3>2, <2>6, <1>1 DEF CInv, Spared
    <2>7. M \subseteq L
      OBVIOUS
    <2>8. /\ cl' = [cl EXCEPT ![c] = r] /\ r.op = cl[c].op /\ r.path = cl[c].path /\ r.sent = e
      BY <1>5, <1>7
    <2> HIDE DEF r, M
    <2>9. SentRight(r)
      BY <2>3, <2>8, <1>7 DEF SentRight
    <2>. QED BY <1>1, <1>2, <2>4, <2>5, <2>6, <2>7, <2>8, <2>9, ShrinkStep
  <1>8. CASE up' = FALSE
    BY <1>8 DEF CInv
  <1>. QED BY <1>1, <1>6, <1>7, <1>8

LEMMA DeletedirPruneCounts ==
    ASSUME NoContinuation, LInv, CInv, NEW c \in Clients, DeletedirPrune(c)
    PROVE  CInv'
  <1> DEFINE p == cl[c].path
             below == Append(p, Slash)
             t == Pruned(trie, p).trie
  <1>1. /\ up /\ Typed /\ Lists /\ cl[c].pc = "prune" /\ UNCHANGED <<disk, owed>>
        /\ \/ Hang(c) /\ UNCHANGED trie
           \/ Walkable(t, p) /\ trie' = DeleteNode(t, p) /\ End(c)
           \/ up' = FALSE
    BY DEF DeletedirPrune, LInv
  <1>2. PICK L \in Inserted : Counts(trie, L) /\ Kept(L)
    BY <1>1 DEF CInv, Stands
  <1>3. cl[c].op = "deletedir" /\ p \in Paths /\ p \in Names /\ p \in Seq(Nat) /\ p # Root
    <2>1. cl[c].op = "deletedir" /\ p \in Paths
      BY <1>1, HandlerIs
    <2>. QED BY <2>1, NamesAre, PathsAre
  <1>4. trie \in TrieSet /\ Ported(trie, had)
    BY <1>1 DEF Typed, Lists
  <1>5. CASE Hang(c) /\ UNCHANGED trie
    <2> DEFINE r == [Idle EXCEPT !.pc = "hung"]
    <2>1. r.op = "" /\ SentRight(r) /\ cl' = [cl EXCEPT ![c] = r]
      BY <1>5 DEF Idle, SentRight, Hang
    <2>2. SamePorts(trie, trie') /\ Counts(trie', L)
      BY <1>2, <1>5, SamePortsNot
    <2> HIDE DEF r
    <2>. QED BY <1>1, <1>2, <2>1, <2>2, ShrinkStep
  <1>6. CASE Walkable(t, p) /\ trie' = DeleteNode(t, p) /\ End(c)
    <2>1. PICK M \in Inserted : Leaves(trie, L, below, t, M) /\ Under(M, below) = {}
      BY <1>2, <1>3, <1>4, PrunedCounts
    <2>2. t \in TrieSet
      <3>1. Pruned(trie, p) \in PrunedSet(had)
        BY <1>3, <1>4, PrunedIn
      <3>. QED BY <3>1 DEF PrunedSet
    <2> HIDE DEF t
    <2>3. p \in DOMAIN t
      BY <1>3, <1>6, PrefixesAre DEF Walkable
    <2>4. PICK x \in M : x[2] = p
      <3>1. PICK x \in M : IsPrefix(p, x[2])
        <4>1. Under(M, p) # {}
          BY <2>1, <2>3, <1>3, CountedIs DEF Leaves
        <4>. QED BY <4>1 DEF Under
      <3>2. ~Below(x[2], p)
        BY <3>1, <2>1 DEF Under, Below
      <3>3. x[2] \in Names
        BY <3>1, InsertedIs
      <3>. QED BY <3>1, <3>2, <3>3, <1>3, SeparateNames
    <2> DEFINE K == M \ {x}
    <2>5. K \in Inserted /\ Counts(trie', K) /\ K \subseteq L
      BY <2>1, <2>2, <2>4, <1>6, OneLess, DeleteCounts DEF Leaves
    <2>6. SamePorts(trie, trie')
      <3>1. Deleted(t, p, trie')
        BY <2>2, <1>3, <1>6, DeleteIs
      <3>. QED BY <3>1, <2>1 DEF Deleted, SamePorts, Leaves
    <2>7. ASSUME NEW y \in L \ K, y[2] \in Paths PROVE owed[y[2]] = NoServer
      <3>1. y[2] = p \/ Below(y[2], p)
        BY <2>1, <2>4 DEF Leaves, Below
      <3>2. Covers(c, y[2])
        BY <3>1, <1>3 DEF Covers, Deletes
      <3>. QED BY <3>2, <2>7, <1>1 DEF CInv, Spared
    <2>8. Idle.op = "" /\ SentRight(Idle) /\ cl' = [cl EXCEPT ![c] = Idle]
      BY <1>6 DEF Idle, SentRight, End
    <2> HIDE DEF K
    <2>. QED BY <1>1, <1>2, <2>5, <2>6, <2>7, <2>8, ShrinkStep
  <1>7. CASE up' = FALSE
    BY <1>7 DEF CInv
  <1>. QED BY <1>1, <1>5, <1>6, <1>7

LEMMA CreateToldCounts ==
    ASSUME LInv, CInv, NEW c \in Clients, CreateTold(c)
    PROVE  CInv'
  <1> DEFINE s == cl[c].todo[1]
             p == cl[c].path
             kind == IF cl[c].op = "createfile" THEN "file" ELSE "dir"
  <1>1. Typed /\ up /\ cl[c].pc = "told" /\ cl[c].op \in Creates
    BY DEF LInv, CreateTold
  <1>2. s \in Servers /\ cl[c] \in ClSet /\ cl \in [Clients -> ClSet] /\ p \in Paths
    <2>1. cl[c].op # ""
      BY <1>1 DEF Creates
    <2>. QED BY <2>1, <1>1, HandlerIs DEF Typed
  <1>3. /\ trie \in TrieSet /\ owed \in [Paths -> Servers \cup {NoServer}]
        /\ disk \in [Servers -> [Names -> {"none", "file", "dir"}]]
    BY <1>1 DEF Typed
  <1>4. \/ /\ disk' = [disk EXCEPT ![s] = Created(@, p, kind)]
           /\ trie' = InsertPath(trie, p, s)
           /\ cl' = [cl EXCEPT ![c].pc = "put"]
           /\ owed' = [owed EXCEPT ![p] = IF \E o \in Clients : Covers(o, p) THEN @ ELSE s]
        \/ End(c) /\ UNCHANGED <<disk, trie, owed>>
    BY DEF CreateTold
  <1>5. Spared /\ SentBelow /\ \E L \in Inserted : Counts(trie, L) /\ Kept(L)
    BY <1>1 DEF CInv, Stands
  <1>6. PICK L \in Inserted : Counts(trie, L) /\ Kept(L)
    BY <1>5
  <1>7. CASE End(c) /\ UNCHANGED <<disk, trie, owed>>
    <2>1. Idle.op = "" /\ SentRight(Idle) /\ cl' = [cl EXCEPT ![c] = Idle]
      BY <1>7 DEF Idle, SentRight, End
    <2>2. SamePorts(trie, trie') /\ Counts(trie', L)
      BY <1>6, <1>7, SamePortsNot
    <2>. QED BY <1>1, <1>6, <1>7, <2>1, <2>2, ShrinkStep
  <1>8. CASE /\ disk' = [disk EXCEPT ![s] = Created(@, p, kind)]
             /\ trie' = InsertPath(trie, p, s)
             /\ cl' = [cl EXCEPT ![c].pc = "put"]
             /\ owed' = [owed EXCEPT ![p] = IF \E o \in Clients : Covers(o, p) THEN @ ELSE s]
    <2> DEFINE r == [cl[c] EXCEPT !.pc = "put"]
    <2>1. \A o \in Clients : cl'[o] = IF o = c THEN r ELSE cl[o]
      BY <1>2, <1>8
    <2>2. r.pc = "put" /\ r.op = cl[c].op /\ r.path = cl[c].path
      BY <1>2 DEF ClSet
    <2> HIDE DEF r
    <2>3. /\ kind \in {"file", "dir"} /\ p \in Names /\ p \in Tokens(p)
          /\ Tokens(p) \in SUBSET Names
      BY <1>2, NamesAre, PathsAre
    <2>4. trie' = InsertTries3(trie, Tokens(p), s)
      BY <1>8 DEF InsertPath
    <2> HIDE DEF s, p, kind
    <2>5. PICK M \in Inserted : /\ L \subseteq M /\ Counts(trie', M)
                                /\ \A q \in Tokens(p) : \E x \in M : x[2] = q
      <3>1. CountsAlso(trie', L, Tokens(p))
        BY <2>3, <2>4, <1>2, <1>3, <1>6, InsertCounts
      <3>. QED BY <3>1 DEF CountsAlso
    <2>6. Inserts(trie, Tokens(p), s, trie')
      BY <2>3, <2>4, <1>2, <1>3, InsertIs
    <2>7. \A q \in Paths : owed'[q] = IF q = p /\ ~(\E o \in Clients : Covers(o, p)) THEN s
                                      ELSE owed[q]
      BY <1>2, <1>3, <1>8
    <2>8. \A q \in Paths : \A o \in Clients : Covers(o, q) => owed'[q] = NoServer
      BY <2>7, <1>5 DEF Spared
    <2>9. \A o \in Clients : \A q : Covers(o, q)' <=> Covers(o, q)
      <3>1. \A o \in Clients : cl'[o].op = cl[o].op /\ cl'[o].path = cl[o].path
        BY <2>1, <2>2
      <3>. QED BY <3>1 DEF Covers
    <2>10. Spared'
      BY <2>8, <2>9 DEF Spared
    <2>11. SentBelow'
      <3>1. SentRight(r)
        BY <2>2 DEF SentRight
      <3>. QED BY <3>1, <2>1, <1>5 DEF SentBelow
    <2>12. ASSUME NEW q \in Paths, owed'[q] # NoServer
           PROVE  /\ \E x \in M : x[2] = q
                  /\ owed'[q] \in ToSet(trie'[q].ports)
                  /\ disk'[owed'[q]][q] # "none"
      <3>1. Created(disk[s], p, kind)[p] = kind /\ disk'[s] = Created(disk[s], p, kind)
        BY <2>3, <1>2, <1>3, <1>8 DEF Created
      <3>2. CASE owed'[q] # owed[q]
        <4>1. q = p /\ owed'[q] = s
          BY <3>2, <2>7
        <4>2. PICK x \in M : x[2] = q
          BY <4>1, <2>3, <2>5
        <4>3. q \in DOMAIN trie'
          BY <4>2, <2>5, CountedIs
        <4>4. s \in ToSet(trie'[q].ports)
          BY <4>1, <4>3, <2>3, <2>6 DEF Inserts
        <4>. QED BY <4>1, <4>2, <4>4, <3>1, <2>3
      <3>3. CASE owed'[q] = owed[q]
        <4>1. PICK x \in L : x[2] = q
          BY <3>3, <2>12, <1>6 DEF Kept
        <4>2. owed[q] \in ToSet(trie[q].ports) /\ disk[owed[q]][q] # "none"
          BY <3>3, <2>12, <1>6 DEF Kept
        <4>3. q \in DOMAIN trie /\ q \in DOMAIN trie'
          BY <4>1, <2>5, <1>6, CountedIs
        <4>4. ToSet(trie[q].ports) \subseteq ToSet(trie'[q].ports)
          BY <4>3, <2>6 DEF Inserts, OldAt
        <4>5. q \in Names /\ owed[q] \in Servers
          BY <3>3, <2>12, <1>3, NamesAre
        <4>6. disk'[owed[q]][q] # "none"
          <5>1. CASE owed[q] = s
            <6>1. Created(disk[s], p, kind)[q] \in {kind, "dir", disk[s][q]}
              BY <4>5 DEF Created
            <6>. QED BY <6>1, <5>1, <4>2, <3>1, <2>3
          <5>2. CASE owed[q] # s
            BY <5>2, <4>2, <4>5, <1>3, <1>8
          <5>. QED BY <5>1, <5>2
        <4>. QED BY <4>1, <4>2, <4>4, <4>6, <3>3, <2>5
      <3>. QED BY <3>2, <3>3
    <2>13. Kept(M)'
      BY <2>12 DEF Kept
    <2>14. Stands'
      BY <2>5, <2>13 DEF Stands
    <2>. QED BY <2>10, <2>11, <2>14 DEF CInv
  <1>. QED BY <1>4, <1>7, <1>8

\* A storage server that comes back inserts what it has.
LEMMA MovingCounts ==
    ASSUME LInv, CInv, NEW s \in Mortal, GoesAway(s) \/ ComesBack(s)
    PROVE  CInv'
  <1>1. up /\ UNCHANGED <<disk, cl, owed>>
    BY DEF GoesAway, ComesBack, Moving
  <1>2. Spared /\ SentBelow /\ \E L \in Inserted : Counts(trie, L) /\ Kept(L)
    BY <1>1 DEF CInv, Stands
  <1>3. PICK L \in Inserted : Counts(trie, L) /\ Kept(L)
    BY <1>2
  <1>4. trie \in TrieSet /\ s \in Servers /\ Listing(s) \in SUBSET Names
    BY NameSpaceAssumption DEF LInv, Typed, Listing
  <1>5. Spared' /\ SentBelow'
    BY <1>1, <1>2 DEF Spared, SentBelow, Covers
  <1>6. CASE UNCHANGED trie
    BY <1>1, <1>3, <1>5, <1>6 DEF CInv, Stands, Kept
  <1>7. CASE trie' = InsertTries3(trie, Listing(s), s)
    <2>1. PICK M \in Inserted : L \subseteq M /\ Counts(trie', M)
      <3>1. CountsAlso(trie', L, Listing(s))
        BY <1>3, <1>4, <1>7, InsertCounts
      <3>. QED BY <3>1 DEF CountsAlso
    <2>2. Inserts(trie, Listing(s), s, trie')
      BY <1>4, <1>7, InsertIs
    <2>3. ASSUME NEW q \in Paths, owed[q] # NoServer
          PROVE  /\ \E x \in M : x[2] = q
                 /\ owed[q] \in ToSet(trie'[q].ports) /\ disk[owed[q]][q] # "none"
      <3>1. PICK x \in L : x[2] = q
        BY <2>3, <1>3 DEF Kept
      <3>2. q \in DOMAIN trie /\ q \in DOMAIN trie'
        BY <3>1, <2>1, <1>3, CountedIs
      <3>3. ToSet(trie[q].ports) \subseteq ToSet(trie'[q].ports)
        BY <3>2, <2>2 DEF Inserts, OldAt
      <3>. QED BY <3>1, <3>3, <2>1, <2>3, <1>3 DEF Kept
    <2>4. Kept(M)'
      BY <2>3, <1>1 DEF Kept
    <2>. QED BY <2>1, <2>4, <1>5 DEF CInv, Stands
  <1>. QED BY <1>6, <1>7 DEF GoesAway, ComesBack

LEMMA CStep == NoContinuation /\ LInv /\ CInv /\ [Next]_vars => CInv'
  <1>. SUFFICES ASSUME NoContinuation, LInv, CInv, [Next]_vars PROVE CInv'
    OBVIOUS
  <1>1. ASSUME NEW c \in Clients, NEW p,
               \/ \E op \in Creates : BeginCreate(c, op, p)
               \/ BeginDeletefile(c, p)
               \/ BeginDeletedir(c, p)
               \/ \E op \in Writes \cup {"read"} : BeginAccess(c, op, p)
               \/ \E q : BeginCopyfile(c, p, q)
        PROVE  CInv'
    BY <1>1, BeginIsBegun, BegunKeeps
  <1>2. ASSUME NEW c \in Clients, \/ Ask(c) \/ CreateTold(c) \/ CreatePut(c) \/ DeletefileTold(c)
                                  \/ DeletedirTold(c) \/ DeletedirPrune(c)
        PROVE  CInv'
    BY <1>2, AskCounts, CreateToldCounts, CreatePutCounts, DeletefileToldCounts,
       DeletedirToldCounts, DeletedirPruneCounts
  <1>3. ASSUME NEW s \in Mortal, GoesAway(s) \/ ComesBack(s) PROVE CInv'
    BY <1>3, MovingCounts
  <1>4. CASE UNCHANGED vars
    BY <1>4 DEF vars, CInv, Stands, Kept, Spared, Covers, SentBelow
  <1>. QED BY <1>1, <1>2, <1>3, <1>4 DEF Next

\* If no name continues another, the trie always stands for a collection of insertions
\* that have not been undone, and what was created and is not being deleted is among them.
THEOREM CountsHold == ASSUME NoContinuation PROVE Spec => []CInv
  <1>1. Init => CInv
    BY InitCInv
  <1>2. LInv /\ CInv /\ [Next]_vars => CInv'
    BY CStep
  <1>. QED BY <1>1, <1>2, ListsHold, PTL DEF Spec

LEMMA CInvCounts == LInv /\ CInv => TrieCounts
  <1>. SUFFICES ASSUME LInv, CInv, up, NEW n \in DOMAIN trie
                PROVE  /\ Own(trie, n) >= 0
                       /\ n # Root => trie[n].count > 0 /\ Front(n) \in DOMAIN trie
                       /\ trie[n].end => Own(trie, n) > 0
    BY DEF TrieCounts
  <1>1. trie \in TrieSet
    BY DEF LInv, Typed
  <1>2. PICK L \in Inserted : Counts(trie, L)
    BY DEF CInv, Stands
  <1>3. Own(trie, n) = Cardinality(At(L, n))
    BY <1>1, <1>2, OwnIs
  <1>4. IsFiniteSet(At(L, n)) /\ Cardinality(At(L, n)) \in Nat
    <2>1. At(L, n) \in SUBSET L
      BY DEF At
    <2>. QED BY <2>1, InsertedIs
  <1>5. ASSUME trie[n].end PROVE Own(trie, n) > 0
    <2>1. At(L, n) # {}
      BY <1>2, <1>5 DEF Counts, At
    <2>2. Cardinality(At(L, n)) # 0
      BY <2>1, <1>4, FS_EmptySet
    <2>. QED BY <2>2, <1>3, <1>4
  <1>6. ASSUME n # Root PROVE trie[n].count > 0 /\ Front(n) \in DOMAIN trie
    <2>1. trie[n].count > 0
      BY <1>1, <1>6, TrieIs
    <2>2. n \in Seq(Nat) /\ Under(L, n) # {}
      BY <1>2, <1>6, CountedIs
    <2>3. PICK x \in L : IsPrefix(n, x[2])
      BY <2>2 DEF Under
    <2>4. Front(n) \in Seq(Nat) /\ IsPrefix(Front(n), n)
      <3>1. Len(n) - 1 \in 0 .. Len(n)
        BY <2>2, <1>6 DEF Root
      <3>2. /\ Front(n) \in Seq(Nat) /\ Len(Front(n)) = Len(n) - 1
            /\ \A i \in 1 .. Len(n) - 1 : Front(n)[i] = n[i]
        BY <3>1, <2>2, Cut DEF Front
      <3>3. Len(Front(n)) <= Len(n) /\ \A i \in 1 .. Len(Front(n)) : Front(n)[i] = n[i]
        BY <3>1, <3>2
      <3>. QED BY <3>2, <3>3, <2>2, PrefixIs
    <2>5. x[2] \in Seq(Nat)
      BY <2>3, InsertedIs
    <2>6. IsPrefix(Front(n), x[2])
      BY <2>2, <2>3, <2>4, <2>5, PrefixOrder
    <2>7. Front(n) \in Prefixes(x[2])
      BY <2>4, <2>5, <2>6, PrefixesAre
    <2>. QED BY <2>1, <2>3, <2>7, <1>2, CountedIs
  <1>. QED BY <1>3, <1>4, <1>5, <1>6

\* If no name continues another, the counters by which DeleteNode unlinks nodes and
\* deletedir knows when to stop count the insertions at and below each node, although
\* the handlers change the trie without a lock of their own.
THEOREM TrieCountsRight == ASSUME NoContinuation PROVE Spec => []TrieCounts
  <1>. QED BY CountsHold, ListsHold, CInvCounts, PTL

LEMMA CInvListed == CInv => CreatedIsListed
  <1>. SUFFICES ASSUME CInv, up, NEW p \in Paths, owed[p] # NoServer
                PROVE  /\ p \in DOMAIN trie /\ owed[p] \in ToSet(trie[p].ports)
                       /\ disk[owed[p]][p] # "none"
    BY DEF CreatedIsListed
  <1>1. PICK L \in Inserted : Counts(trie, L) /\ Kept(L)
    BY DEF CInv, Stands
  <1>2. PICK x \in L : x[2] = p
    BY <1>1 DEF Kept
  <1>3. p \in DOMAIN trie
    BY <1>1, <1>2, CountedIs
  <1>. QED BY <1>1, <1>3 DEF Kept

\* If no name continues another, what a create answered YES for stays listed with its
\* server, which has it, until a command deletes it or something above it, whatever
\* other handlers delete meanwhile.
THEOREM CreatedStaysListed == ASSUME NoContinuation PROVE Spec => []CreatedIsListed
  <1>. QED BY CountsHold, CInvListed, PTL
=============================================================================
