---------------------------- MODULE LookupCache -----------------------------
(***************************************************************************)
(* LRU.c: the naming server's cache of path lookups, down to its links.    *)
(* The nodes of the recency list are also the chains of the hash table,    *)
(* through the same next: map[h] points to a node, and a search for a path *)
(* with hash h follows next from there.                                    *)
(*                                                                         *)
(* A cache is a record; an operation is a function from a cache and its    *)
(* arguments to a cache.  Dereferencing freed memory or a null pointer     *)
(* sets "broken": what the program does from then on is undefined.         *)
(***************************************************************************)
EXTENDS Integers, Sequences, FiniteSets

CONSTANTS
    Capacity,   \* of the cache
    Hash(_),    \* hashfunction(path) % 31
    Buckets,    \* its values
    NNodes      \* bound: nodes that can be reached at a time

ASSUME CacheAssumption == Capacity \in Nat \ {0} /\ NNodes \in Nat

Nil == 0
Ids == 1 .. NNodes
Unused == [key |-> <<>>, lh |-> <<>>, prev |-> Nil, next |-> Nil, freed |-> FALSE]

initLRUCache == [head |-> Nil, tail |-> Nil, size |-> 0, map |-> [h \in Buckets |-> Nil],
                 node |-> [i \in Ids |-> Unused], broken |-> FALSE]

\* Marks the cache broken if an operation touches a node that was freed.
Touch(c, ns) == [c EXCEPT !.broken = @ \/ \E n \in ns \ {Nil} : c.node[n].freed]

addToCache(c, n) ==
    LET t == c.tail
        linked == [c EXCEPT !.node = [@ EXCEPT ![n].prev = t, ![n].next = Nil],
                            !.tail = n,
                            !.head = IF @ = Nil THEN n ELSE @]
    IN  IF t = Nil THEN linked ELSE Touch([linked EXCEPT !.node[t].next = n], {t})

removeFromCache(c, n) ==
    LET p == c.node[n].prev
        a == IF p # Nil THEN [c EXCEPT !.node[p].next = c.node[n].next]
                        ELSE [c EXCEPT !.head = c.node[n].next]
        q == a.node[n].next
        b == IF q # Nil THEN [a EXCEPT !.node[q].prev = a.node[n].prev]
                        ELSE [a EXCEPT !.tail = a.node[n].prev]
    IN  Touch(b, {n, p, q})

\* The head of the bucket is changed only if the node has no predecessor.  The
\* node's own links were not cleared by removeFromCache.
RemoveFromHashMap(c, n, h) ==
    LET p == c.node[n].prev
        a == IF p # Nil THEN [c EXCEPT !.node[p].next = c.node[n].next]
                        ELSE [c EXCEPT !.map[h] = c.node[n].next]
        q == a.node[n].next
        b == IF q # Nil THEN [a EXCEPT !.node[q].prev = a.node[n].prev] ELSE a
    IN  Touch(b, {n, p, q})

\* The whole bucket is emptied, whichever of its nodes is evicted.
evictLRUNode(c) ==
    IF c.head = Nil THEN [c EXCEPT !.broken = TRUE]
    ELSE LET n == c.head
             q == c.node[n].next
             a == [c EXCEPT !.head = q, !.map[Hash(c.node[n].key)] = Nil]
             b == IF q # Nil THEN [a EXCEPT !.node[q].prev = Nil] ELSE a
         IN  [Touch(b, {n, q}) EXCEPT !.node[n].freed = TRUE]

-----------------------------------------------------------------------------
(* Searching a bucket.                                                      *)

\* The nodes that a search with hash h passes, in order; more of them than there
\* are nodes is a cycle.
Chain(c, h) ==
    LET f[k \in 0 .. NNodes] ==
            IF k = 0 THEN c.map[h]
            ELSE LET n == f[k - 1] IN IF n = Nil THEN Nil ELSE c.node[n].next
    IN  f

Hits(c, key) == LET f == Chain(c, Hash(key))
                IN  {k \in 0 .. NNodes : f[k] # Nil /\ c.node[f[k]].key = key}

\* The node found for key, or Nil.
Find(c, key) ==
    LET hits == Hits(c, key)
    IN  IF hits = {} THEN Nil
        ELSE Chain(c, Hash(key))[CHOOSE k \in hits : \A j \in hits : k <= j]

\* The search never ends.
Endless(c, key) == Hits(c, key) = {} /\ Chain(c, Hash(key))[NNodes] # Nil

\* The nodes it dereferences.
Visited(c, key) ==
    LET f == Chain(c, Hash(key))
        hits == Hits(c, key)
    IN  {f[k] : k \in {j \in 0 .. NNodes : \A i \in hits : j <= i}}

MoveToTail(c, n) == IF n = c.tail THEN c ELSE addToCache(removeFromCache(c, n), n)

-----------------------------------------------------------------------------
(* The operations.                                                          *)

get(c, key) == LET n == Find(c, key)
                   d == Touch(c, Visited(c, key))
               IN  IF n = Nil THEN d ELSE MoveToTail(d, n)

Fresh(c) == CHOOSE i \in Ids : c.node[i] = Unused
HasRoom(c) == \E i \in Ids : c.node[i] = Unused

\* A new node is linked behind the last one that the search passed, or starts the
\* bucket; then the cache makes room for it.
put(c, key, lh) ==
    LET n == Find(c, key)
        d == Touch(c, Visited(c, key))
        i == Fresh(c)
        new == [d EXCEPT !.node[i] = [Unused EXCEPT !.key = key, !.lh = lh]]
        last == CHOOSE v \in Visited(c, key) \ {Nil} : c.node[v].next = Nil
        chained == IF c.map[Hash(key)] = Nil THEN [new EXCEPT !.map[Hash(key)] = i]
                   ELSE [new EXCEPT !.node[last].next = i]
        full == c.size >= Capacity
    IN  IF n # Nil THEN MoveToTail([d EXCEPT !.node[n].lh = lh], n)
        ELSE [addToCache(IF full THEN evictLRUNode(chained) ELSE chained, i)
                EXCEPT !.size = IF full THEN @ ELSE @ + 1]

removeForDelete(c, key) ==
    LET n == Find(c, key)
        d == Touch(c, Visited(c, key))
    IN  IF n = Nil THEN d
        ELSE [RemoveFromHashMap(removeFromCache(d, n), n, Hash(key)) EXCEPT !.size = @ - 1]

-----------------------------------------------------------------------------
\* Memory that nothing points to any more is reused; "held" are nodes whose list a
\* thread still has.
Reachable(c, held) ==
    LET roots == {c.head, c.tail} \cup {c.map[h] : h \in Buckets} \cup held
        links(S) == S \cup {c.node[n].prev : n \in S} \cup {c.node[n].next : n \in S}
        f[k \in 0 .. NNodes] == (IF k = 0 THEN roots ELSE links(f[k - 1])) \ {Nil}
    IN  f[NNodes]

Collect(c, held) ==
    LET reached == Reachable(c, held)
    IN  [c EXCEPT !.node = [i \in Ids |-> IF i \in reached THEN @[i] ELSE Unused]]
=============================================================================
