----------------------------- MODULE NameSpace ------------------------------
(***************************************************************************)
(* What the naming server knows about paths: the trie, the cache in front  *)
(* of it, and the storage servers' directories they stand for.             *)
(*                                                                         *)
(* The threads of the clients share trie and cache without a lock.  A      *)
(* handler first looks its path up; then it waits for block_server of a    *)
(* storage server, sends the command, hears the answer, and changes the    *)
(* trie before, after or without that lock.  A step goes from one place    *)
(* where the handler may wait to the next.                                 *)
(***************************************************************************)
EXTENDS PathTrie, LookupCache

CONSTANTS
    Clients,
    Servers,    \* indices of storage servers
    Mortal,     \* those that may go away and come back
    Paths,      \* paths that clients name
    Copies,     \* pairs of a source and a destination in their copyfile commands
    Commands,   \* pairs of an operation and a path: what they issue
    MaxCmds,    \* bound: commands in a behaviour
    MaxMoves    \* bound: departures and returns of storage servers

Creates == {"createfile", "createdir"}
Deletes == {"deletefile", "deletedir"}
Writes  == {"write", "info"}
AllOps  == Creates \cup Deletes \cup Writes \cup {"read", "copyfile"}

\* The texts that may be looked up.
Texts == UNION {Prefixes(p) : p \in Paths \cup UNION {{pq[1], pq[2]} : pq \in Copies}}

\* A path has a bounded number of letters of a finite alphabet.
ASSUME NameSpaceAssumption ==
    /\ Servers \subseteq Nat /\ Servers # {} /\ Mortal \subseteq Servers
    /\ \A cmd \in Commands : cmd[1] \in AllOps
    /\ IsFiniteSet(Paths) /\ Copies \subseteq Seq(Nat) \X Seq(Nat)
    /\ \A p \in Texts : p \in Seq(Nat) /\ Hash(p) \in Buckets
    /\ \A p \in Paths : Tokens(p) # {} /\ p \in Tokens(p)
    /\ MaxCmds \in Nat /\ MaxMoves \in Nat

Names == UNION {Tokens(p) : p \in Paths}
NoServer == -1
Nobody == "nobody"
Lost == "lost"       \* a handler returned without sem_post

VARIABLES
    trie,       \* THP
    cache,      \* cache
    disk,       \* per storage server: what is in its directory "main"
    available,  \* storage servers that are up
    holder,     \* per storage server: who has block_server
    cl,         \* per client: its command and where its handler is
    up,         \* the naming server has not crashed
    cmds, moves,
    owed,       \* history: the server of a path that was created, from the YES to the
                \* next command that deletes it
    had         \* history: the storage servers that ever created a path

vars == <<trie, cache, disk, available, holder, cl, up, cmds, moves, owed, had>>

Idle == [pc |-> "idle", op |-> "", path |-> Root, sent |-> Root, todo |-> <<>>, src |-> Nil]

TypeOK ==
    /\ \A n \in DOMAIN trie : trie[n].count \in Int /\ trie[n].end \in BOOLEAN
    /\ cache.size \in Int /\ cache.head \in Ids \cup {Nil}
    /\ disk \in [Servers -> [Names -> {"none", "file", "dir"}]]
    /\ available \subseteq Servers
    /\ holder \in [Servers -> Clients \cup {Nobody, Lost}]
    /\ \A c \in Clients : /\ cl[c].pc \in {"idle", "ask", "told", "prune", "put", "hung"}
                          /\ cl[c].pc \in {"ask", "told"} => cl[c].todo # <<>>
    /\ up \in BOOLEAN
    /\ owed \in [Paths -> Servers \cup {NoServer}] /\ had \in [Names -> SUBSET Servers]

Init ==
    /\ trie = EmptyTrie
    /\ cache = initLRUCache
    /\ disk = [s \in Servers |-> [q \in Names |-> "none"]]
    /\ available = Servers
    /\ holder = [s \in Servers |-> Nobody]
    /\ cl = [c \in Clients |-> Idle]
    /\ up = TRUE
    /\ cmds = 0 /\ moves = 0
    /\ owed = [p \in Paths |-> NoServer]
    /\ had = [q \in Names |-> {}]

-----------------------------------------------------------------------------
(* A storage server's directory.                                            *)

Below(q, p) == IsPrefix(Append(p, Slash), q)

\* createFilePath, createDirPath: directories on the way are created; a file on the
\* way, or something of the other kind at the end, is an error.
Creatable(d, p, kind) ==
    /\ \A q \in Tokens(p) \ {p} : d[q] # "file"
    /\ d[p] \in {"none", kind}
Created(d, p, kind) ==
    [q \in Names |-> IF q = p THEN kind ELSE IF q \in Tokens(p) THEN "dir" ELSE d[q]]

\* removeLastFile: remove() takes a file or an empty directory.
Removed(d, p) ==
    [q \in Names |-> IF q = p /\ (\A x \in Names : Below(x, p) => d[x] = "none")
                     THEN "none" ELSE d[q]]

\* deleteFolder: rm -rf.
Wiped(d, p) == [q \in Names |-> IF q = p \/ Below(q, p) THEN "none" ELSE d[q]]

-----------------------------------------------------------------------------
(* The beginning of a handler: it looks up its path and ends, or goes on.   *)

\* Nodes whose list a handler of another client has.
Held(c) == {cl[o].src : o \in Clients \ {c}}

\* c's handler ends; an operation on the cache has yielded k.
KeepCache(k, held) ==
    /\ up' = (up /\ ~k.broken)
    /\ cache' = IF k.broken THEN initLRUCache ELSE Collect(k, held)

End(c) == cl' = [cl EXCEPT ![c] = Idle]
Hang(c) == /\ cl' = [cl EXCEPT ![c] = [Idle EXCEPT !.pc = "hung"]]
           /\ UNCHANGED <<cache, up>>

Begin(c, op, p) ==
    /\ up /\ cl[c].pc = "idle" /\ cmds < MaxCmds /\ <<op, p>> \in Commands
    /\ cmds' = cmds + 1
    /\ owed' = [q \in Paths |-> IF op \in Deletes /\ (q = p \/ Below(q, p)) THEN NoServer
                                ELSE owed[q]]
    /\ UNCHANGED <<trie, disk, available, holder, moves, had>>

\* The list the handler works with: the cached one, or the servers of the node.
Cached(p) == Find(cache, p) # Nil
List(p) == IF Cached(p) THEN cache.node[Find(cache, p)].lh ELSE SearchWords(trie, p)

Goes(c, pc, op, p, todo, src) ==
    cl' = [cl EXCEPT ![c] = [Idle EXCEPT !.pc = pc, !.op = op, !.path = p, !.todo = todo,
                                         !.src = src]]

\* A path that has servers is ALREADY there.  Otherwise find_storage_server_port picks one
\* that is up.
BeginCreate(c, op, p) ==
    /\ op \in Creates
    /\ Begin(c, op, p)
    /\ IF Endless(cache, p) THEN Hang(c)
       ELSE LET src == Find(get(cache, p), p)
            IN  IF List(p) # <<>>
                THEN /\ End(c)
                     /\ KeepCache(get(cache, p), Held(c))
                ELSE /\ \E s \in available : Goes(c, "ask", op, p, <<s>>, src)
                     /\ KeepCache(get(cache, p), Held(c) \cup {src})

\* deletefile takes the list of a cached path with it, and deletes the path from the
\* cache a second time if it goes on.
BeginDeletefile(c, p) ==
    LET once == removeForDelete(cache, p)
    IN  /\ Begin(c, "deletefile", p)
        /\ IF Endless(cache, p) \/ (List(p) # <<>> /\ Endless(once, p)) THEN Hang(c)
           ELSE IF List(p) = <<>>
           THEN /\ End(c)
                /\ KeepCache(once, Held(c))
           ELSE /\ Goes(c, "ask", "deletefile", p, <<List(p)[1]>>, Nil)
                /\ KeepCache(removeForDelete(once, p), Held(c))

\* deletedir does not look into the cache.
BeginDeletedir(c, p) ==
    /\ Begin(c, "deletedir", p)
    /\ IF SearchWords(trie, p) = <<>> THEN End(c)
       ELSE Goes(c, "ask", "deletedir", p, SearchWords(trie, p), Nil)
    /\ UNCHANGED <<cache, up>>

\* read, write and info: the client is given an address or told that there is no such
\* file.  read caches only what it found; write and info also that there is nothing.
BeginAccess(c, op, p) ==
    /\ op \in Writes \cup {"read"}
    /\ Begin(c, op, p)
    /\ LET k == get(cache, p)
           puts == IF op = "read" THEN List(p) # <<>> ELSE ~Cached(p)
       IN  IF Endless(cache, p) THEN Hang(c)
           ELSE /\ puts /\ ~k.broken => HasRoom(k)
                /\ End(c)
                /\ KeepCache(IF puts /\ ~k.broken THEN put(k, p, List(p)) ELSE k, Held(c))

\* copyfile: the lookups of both paths.  A list without servers whose currSize is not 0
\* gets through, and its first element is dereferenced.
BeginCopyfile(c, p, q) ==
    LET k == get(cache, p)
        k2 == get(k, q)
        passes(x) == List(x) # <<>> \/ (~Cached(x) /\ Portless(trie, x))
        k3 == put(k2, p, List(p))
    IN  /\ Begin(c, "copyfile", p)
        /\ IF Endless(cache, p) \/ Endless(k, q) THEN Hang(c)
           ELSE /\ End(c)
                /\ IF k2.broken \/ ~(passes(p) /\ passes(q)) THEN KeepCache(k2, Held(c))
                   ELSE IF List(p) = <<>> \/ List(q) = <<>>
                   THEN up' = FALSE /\ UNCHANGED cache
                   ELSE /\ HasRoom(k2) /\ HasRoom(k3)
                        /\ KeepCache(put(k3, q, List(q)), Held(c))

-----------------------------------------------------------------------------
(* The exchange with a storage server.                                      *)

\* The handler gets block_server and sends the command.  deletefile has by then found
\* the next entry after its path, sends that one, and deletes it from the trie.
Ask(c) ==
    LET s == cl[c].todo[1]
        p == cl[c].path
        e == NextEntry(ClearEnd(trie, p), p)
    IN  /\ up /\ cl[c].pc = "ask" /\ holder[s] = Nobody
        /\ holder' = [holder EXCEPT ![s] = c]
        /\ IF cl[c].op # "deletefile"
           THEN /\ cl' = [cl EXCEPT ![c].pc = "told", ![c].sent = p]
                /\ UNCHANGED <<trie, up>>
           ELSE IF Walkable(trie, p)
           THEN /\ cl' = [cl EXCEPT ![c].pc = "told", ![c].sent = e]
                /\ trie' = DeleteNode(ClearEnd(trie, p), e)
                /\ UNCHANGED up
           ELSE up' = FALSE /\ UNCHANGED <<trie, cl>>
        /\ UNCHANGED <<cache, disk, available, cmds, moves, owed, had>>

Release(s) == holder' = [holder EXCEPT ![s] = Nobody]

\* A storage server that went away does nothing; the handlers of deletes go on.
OnDisk(s, d) == disk' = IF s \in available THEN [disk EXCEPT ![s] = d] ELSE disk

Covers(o, p) == cl[o].op \in Deletes /\ (p = cl[o].path \/ Below(p, cl[o].path))

CreateTold(c) ==
    LET s == cl[c].todo[1]
        p == cl[c].path
        kind == IF cl[c].op = "createfile" THEN "file" ELSE "dir"
    IN  /\ up /\ cl[c].pc = "told" /\ cl[c].op \in Creates
        /\ IF Creatable(disk[s], p, kind)
           THEN /\ disk' = [disk EXCEPT ![s] = Created(@, p, kind)]
                /\ trie' = InsertPath(trie, p, s)
                /\ Release(s)
                /\ cl' = [cl EXCEPT ![c].pc = "put"]
                /\ owed' = [owed EXCEPT ![p] = IF \E o \in Clients : Covers(o, p) THEN @
                                               ELSE s]
                /\ had' = [q \in Names |-> IF q \in Tokens(p) THEN had[q] \cup {s} ELSE had[q]]
           ELSE /\ holder' = [holder EXCEPT ![s] = Lost]
                /\ End(c)
                /\ UNCHANGED <<disk, trie, owed, had>>
        /\ UNCHANGED <<cache, available, up, cmds, moves>>

\* Mutant: the storage server is looked for again instead of remembered.
NewListPickedAgain(c) == <<CHOOSE s \in available : TRUE>>

NewList(c) == cl[c].todo

\* After sem_post: the list gets the new server, whoever else has it, and is cached
\* under what strtok left of the path.
CreatePut(c) ==
    LET lh == NewList(c)
        n == cl[c].src
        key == FirstToken(cl[c].path)
        k == IF n = Nil THEN cache ELSE [cache EXCEPT !.node[n].lh = lh]
    IN  /\ up /\ cl[c].pc = "put"
        /\ IF Endless(k, key) THEN Hang(c)
           ELSE /\ HasRoom(k)
                /\ End(c)
                /\ KeepCache(put(k, key, lh), Held(c))
        /\ UNCHANGED <<trie, disk, available, holder, cmds, moves, owed, had>>

DeletefileTold(c) ==
    LET s == cl[c].todo[1]
    IN  /\ up /\ cl[c].pc = "told" /\ cl[c].op = "deletefile"
        /\ OnDisk(s, Removed(disk[s], cl[c].sent))
        /\ Release(s)
        /\ End(c)
        /\ UNCHANGED <<trie, cache, available, up, cmds, moves, owed, had>>

\* Mutant: the last storage server is not noticed.
DeletedirToldOneMore(c) ==
    LET s == cl[c].todo[1]
    IN  /\ up /\ cl[c].pc = "told" /\ cl[c].op = "deletedir"
        /\ OnDisk(s, Wiped(disk[s], cl[c].sent))
        /\ Release(s)
        /\ cl' = [cl EXCEPT ![c].todo = Tail(@), ![c].pc = "ask"]
        /\ UNCHANGED <<trie, cache, available, up, cmds, moves, owed, had>>

\* One storage server after the other.
DeletedirTold(c) ==
    LET s == cl[c].todo[1]
        rest == Tail(cl[c].todo)
    IN  /\ up /\ cl[c].pc = "told" /\ cl[c].op = "deletedir"
        /\ OnDisk(s, Wiped(disk[s], cl[c].sent))
        /\ Release(s)
        /\ cl' = [cl EXCEPT ![c].todo = rest, ![c].pc = IF rest = <<>> THEN "prune" ELSE "ask"]
        /\ UNCHANGED <<trie, cache, available, up, cmds, moves, owed, had>>

\* removeForDelete of one path after the other, as a function of how many.
Dropped(c, keys) ==
    LET drop[k \in 0 .. Len(keys)] == IF k = 0 THEN c ELSE removeForDelete(drop[k - 1], keys[k])
    IN  drop

\* Then the entries below the path leave the trie and the cache, and the path itself,
\* with no lock at all.
DeletedirPrune(c) ==
    LET p == cl[c].path
        r == Pruned(trie, p)
        keys == Append(r.gone, p)
        drop == Dropped(cache, keys)
    IN  /\ up /\ cl[c].pc = "prune"
        /\ IF ~Walkable(trie, p) \/ ~Walkable(r.trie, p)
           THEN up' = FALSE /\ UNCHANGED <<trie, cache, cl>>
           ELSE IF \E k \in 1 .. Len(keys) : Endless(drop[k - 1], keys[k])
           THEN Hang(c) /\ UNCHANGED trie
           ELSE /\ trie' = DeleteNode(r.trie, p)
                /\ KeepCache(drop[Len(keys)], Held(c))
                /\ End(c)
        /\ UNCHANGED <<disk, available, holder, cmds, moves, owed, had>>

-----------------------------------------------------------------------------
\* Storage servers go away and come back while no handler deals with them (what
\* happens otherwise is in NamingServer and ServerRegistry).
Moving(s) ==
    /\ up /\ moves < MaxMoves /\ s \in Mortal
    /\ \A c \in Clients : cl[c].pc \in {"ask", "told"} => s \notin ToSet(cl[c].todo)
    /\ moves' = moves + 1
    /\ UNCHANGED <<cache, disk, holder, cl, up, cmds, owed, had>>

GoesAway(s) ==
    /\ Moving(s) /\ s \in available
    /\ available' = available \ {s}
    /\ available' # {}
    /\ UNCHANGED trie

\* Its paths, with directories on the way and each on its own, are inserted (again).
Listing(s) == {q \in Names : disk[s][q] # "none"}

ComesBack(s) ==
    /\ Moving(s) /\ s \notin available
    /\ available' = available \cup {s}
    /\ trie' = InsertTries3(trie, Listing(s), s)

Next ==
    \/ \E c \in Clients :
         \/ \E p \in Paths : \/ \E op \in Creates : BeginCreate(c, op, p)
                             \/ BeginDeletefile(c, p)
                             \/ BeginDeletedir(c, p)
                             \/ \E op \in Writes \cup {"read"} : BeginAccess(c, op, p)
         \/ \E pq \in Copies : BeginCopyfile(c, pq[1], pq[2])
         \/ Ask(c)
         \/ CreateTold(c) \/ CreatePut(c)
         \/ DeletefileTold(c)
         \/ DeletedirTold(c) \/ DeletedirPrune(c)
    \/ \E s \in Mortal : GoesAway(s) \/ ComesBack(s)

Spec == Init /\ [][Next]_vars

-----------------------------------------------------------------------------
(* Properties.                                                              *)

\* No name continues another except behind a '/': "a" and "a/b", never "a" and "ab".  The
\* trie does not tell a continued name from one that has been inserted.
NoContinuation ==
    \A p, q \in Names : IsStrictPrefix(p, q) => q[Len(p) + 1] = Slash

\* The counters that DeleteNode and deletedir rely on: a node counts the insertions at
\* itself and below it, none is there without one, and an end was inserted.
TrieCounts ==
    up => \A n \in DOMAIN trie :
            /\ Own(trie, n) >= 0
            /\ n # Root => trie[n].count > 0 /\ Front(n) \in DOMAIN trie
            /\ trie[n].end => Own(trie, n) > 0

\* What a create answered YES for stays until somebody deletes it or something above
\* it: the path is listed with the server that created it, which has it.
CreatedIsListed ==
    up => \A p \in Paths : owed[p] # NoServer =>
            /\ p \in DOMAIN trie
            /\ owed[p] \in ToSet(trie[p].ports)
            /\ disk[owed[p]][p] # "none"

\* A list in the cache, whoever may still change it or find it, names storage servers
\* that created the path it is cached for.
CachedWasThere ==
    up => \A n \in Ids : LET e == cache.node[n]
                         IN  e # Unused => ToSet(e.lh) \subseteq had[e.key]

\* ("first we find if it already exists or not", Naming_server.c:241.)  While no command
\* is under way, a path for which a lookup yields a server is on some storage server.
FoundExists ==
    up /\ (\A c \in Clients : cl[c].pc = "idle") =>
        \A p \in Paths : ~Endless(cache, p) /\ List(p) # <<>> =>
            \E s \in Servers : disk[s][p] # "none"
=============================================================================
