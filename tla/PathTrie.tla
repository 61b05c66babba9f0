------------------------------ MODULE PathTrie ------------------------------
(***************************************************************************)
(* Tries.c: the naming server's index of paths.  A node of the trie is the *)
(* sequence of letters that leads to it, and a trie is a function from the *)
(* nodes it has to their contents; the root is always there.  Letters are  *)
(* numbers in the order of their character codes; '/' comes before every   *)
(* letter of a name.                                                       *)
(***************************************************************************)
EXTENDS Integers, SequencesExt

Slash == 0
Root == <<>>

NewNode == [count |-> 0, end |-> FALSE, ports |-> <<>>]
EmptyTrie == [n \in {Root} |-> NewNode]

Children(t, n) == {m \in DOMAIN t : Len(m) = Len(n) + 1 /\ IsPrefix(n, m)}

\* Mutant: the loop stops one node early (i < length).
InsertNotCountingLast(t, vals, s) ==
    [n \in DOMAIN t \cup UNION {Prefixes(val) : val \in vals} |->
        LET old == IF n \in DOMAIN t THEN t[n] ELSE NewNode
        IN  [count |-> old.count + Cardinality({val \in vals : IsStrictPrefix(n, val)}),
             end   |-> old.end \/ n \in vals,
             ports |-> IF n \in vals /\ s \notin ToSet(old.ports)
                       THEN <<s>> \o old.ports ELSE old.ports]]

\* insertTries3 of each of vals with three times the same server (their order makes no
\* difference): an insertion counts in every node of the path, the root included; a
\* new server goes to the front.
InsertTries3(t, vals, s) ==
    [n \in DOMAIN t \cup UNION {Prefixes(val) : val \in vals} |->
        LET old == IF n \in DOMAIN t THEN t[n] ELSE NewNode
        IN  [count |-> old.count + Cardinality({val \in vals : IsPrefix(n, val)}),
             end   |-> old.end \/ n \in vals,
             ports |-> IF n \in vals /\ s \notin ToSet(old.ports)
                       THEN <<s>> \o old.ports ELSE old.ports]]

\* The components of a path as strtok(path, "/") yields them, each with those
\* before it.
Tokens(path) ==
    {p \in Prefixes(path) : /\ p # Root /\ Last(p) # Slash
                            /\ p = path \/ path[Len(p) + 1] = Slash}
FirstToken(path) == CHOOSE p \in Tokens(path) : \A q \in Tokens(path) : Len(p) <= Len(q)

\* A create that succeeded inserts every one of them.
InsertPath(t, path, s) == InsertTries3(t, Tokens(path), s)

\* searchWords copies the servers of a node to the front of a list, one by one: the
\* oldest comes first.  No such node gives currSize 0, one without servers -1.
SearchWords(t, val) == IF val \in DOMAIN t THEN Reverse(t[val].ports) ELSE <<>>
Portless(t, val) == val \in DOMAIN t /\ t[val].ports = <<>>

\* rec goes down the leftmost children of val, to the first end or leaf.
Leftmost(t, val, n) ==
    /\ IsPrefix(val, n)
    /\ \A k \in Len(val) + 1 .. Len(n) :
         \A m \in Children(t, SubSeq(n, 1, k - 1)) : n[k] <= m[k]

\* val itself counts only if nothing is below it.
NextEntry(t, val) ==
    LET stops == {n \in DOMAIN t : /\ Leftmost(t, val, n)
                                   /\ Children(t, n) = {} \/ (t[n].end /\ n # val)}
    IN  IF val \notin DOMAIN t THEN Root
        ELSE CHOOSE n \in stops : \A m \in stops : Len(n) <= Len(m)

\* Reaching val from the root dereferences every node on the way.
Walkable(t, val) == Prefixes(val) \subseteq DOMAIN t

ClearEnd(t, val) == [t EXCEPT ![val].end = FALSE]

\* Mutant: a child is unlinked while something is left below it.
DeleteWhileCounted(t, val) ==
    LET less == [n \in DOMAIN t |->
                   [t[n] EXCEPT !.count = IF IsPrefix(n, val) THEN @ - 1 ELSE @,
                                !.end = @ /\ n # val]]
        gone == {n \in Prefixes(val) \ {Root} : less[n].count <= 1}
    IN  [n \in {m \in DOMAIN t : ~ \E g \in gone : IsPrefix(g, m)} |-> less[n]]

\* A child whose count is zero is unlinked, with whatever is below it.
DeleteNode(t, val) ==
    LET less == [n \in DOMAIN t |->
                   [t[n] EXCEPT !.count = IF IsPrefix(n, val) THEN @ - 1 ELSE @,
                                !.end = @ /\ n # val]]
        gone == {n \in Prefixes(val) \ {Root} : less[n].count = 0}
    IN  [n \in {m \in DOMAIN t : ~ \E g \in gone : IsPrefix(g, m)} |-> less[n]]

\* Deletedirfunctionality: while more than one insertion is left under path/, delete
\* the next entry there; then once more.  As a function of the number of deletions;
\* "gone" are the entries deleted.
Pruned(t, path) ==
    LET below == Append(path, Slash)
        n == IF below \in DOMAIN t THEN t[below].count ELSE 0
        after[k \in 0 .. n] ==
            IF k = 0 THEN [trie |-> t, gone |-> <<>>]
            ELSE LET u == after[k - 1]
                     e == NextEntry(u.trie, below)
                 IN  [trie |-> DeleteNode(u.trie, e), gone |-> Append(u.gone, e)]
    IN  after[n]

\* Insertions of a node itself: what it counts beyond its children.
Own(t, n) == t[n].count - MapThenSumSet(LAMBDA m : t[m].count, Children(t, n))
=============================================================================
