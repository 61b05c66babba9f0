--------------------------- MODULE ServerRegistry ---------------------------
(***************************************************************************)
(* How a storage server joins, leaves and comes back.                      *)
(*                                                                         *)
(* connect_to_naming_server tells the master port its index, then connects *)
(* to two ports of its own.  server_master_starter marks it available,     *)
(* accepts both connections and starts two threads: empty_func watches the *)
(* second connection, redundant_copy sleeps between its rounds.            *)
(*                                                                         *)
(* Connections are kept as descriptors: numbers that the kernel gives out  *)
(* again once they are closed, in arrays shared by the watchers of every   *)
(* connection the index has had.                                           *)
(*                                                                         *)
(* Commands and rounds of redundancy also hold block_server for a while    *)
(* (NamingServer); here that is a delay like any other.                    *)
(***************************************************************************)
EXTENDS Integers, Sequences

CONSTANTS
    Servers,    \* indices of storage servers
    MaxRuns,    \* bound: runs of storage servers' programs
    NOthers,    \* bound: connections of clients
    NFds,       \* bound: descriptors
    Events      \* conditions of the environment that may occur

\* "reuse":   clients connect and take descriptors that were closed
\* "soon":    a storage server is back before its old watcher has run
\* "halfway": a storage server exits before its connections were accepted
ASSUME RegistryAssumption ==
    /\ Servers \subseteq Nat /\ Servers # {} /\ MaxRuns \in Nat /\ NOthers \in Nat /\ NFds \in Nat
    /\ Events \subseteq {"reuse", "soon", "halfway"}

Fds == 0 .. NFds - 1
Invalid == -1
Client == -1                                 \* the peer of a client's connection
None == [peer |-> Client, run |-> 0, port |-> 0]
Conn(i, k, p) == [peer |-> i, run |-> k, port |-> p]
OfClient(n) == Conn(Client, n, 0)
Conns == {Conn(i, k, p) : i \in Servers, k \in 1 .. MaxRuns, p \in 1 .. 2}
           \cup {OfClient(n) : n \in 1 .. NOthers}

VARIABLES
    ss,         \* per storage server: its last run, and how far that is
    bye,        \* runs whose BYE (cntrlC) is still to be read
    masterQ,    \* indices sent to the master port, not yet read
    waiting,    \* per storage server and port: connections not accepted yet
    fds,        \* the connection of each descriptor
    sock,       \* server_reciever_sock[i], server_reciever_sock2[i]
    available,  \* server_available[i]
    holder,     \* who has block_server[i]
    master,     \* server_master_starter: where it is, and index
    watch,      \* per storage server: its threads of empty_func, oldest first
    red,        \* per storage server: how many threads of redundant_copy
    others,     \* clients: their descriptor, and whether they are connected
    up          \* the naming server runs

vars == <<ss, bye, masterQ, waiting, fds, sock, available, holder, master, watch, red, others, up>>

TypeOK ==
    /\ ss \in [Servers -> [run : 0 .. MaxRuns, pc : {"off", "asked", "half", "up"}]]
    /\ bye \subseteq Servers \X (1 .. MaxRuns)
    /\ masterQ \in Seq(Servers)
    /\ waiting \in [Servers -> [1 .. 2 -> Seq(Conns)]]
    /\ fds \in [Fds -> Conns \cup {None}]
    /\ sock \in [Servers -> [1 .. 2 -> Fds \cup {Invalid}]]
    /\ available \in [Servers -> BOOLEAN]
    /\ holder \in [Servers -> {"nobody", "master", "watcher"}]
    /\ master \in [pc : {"wait", "lock", "accept", "accept2"}, index : Servers]
    /\ \A i \in Servers : watch[i] \in Seq([pc : {"read", "recv", "lock", "done"},
                                            on : Conns \cup {None}])
    /\ red \in [Servers -> 0 .. MaxRuns]
    /\ others \in [1 .. NOthers -> [fd : Fds \cup {Invalid}, st : {"new", "in", "left"}]]
    /\ up \in BOOLEAN

Init ==
    /\ ss = [i \in Servers |-> [run |-> 0, pc |-> "off"]]
    /\ bye = {}
    /\ masterQ = <<>>
    /\ waiting = [i \in Servers |-> [p \in 1 .. 2 |-> <<>>]]
    /\ fds = [f \in Fds |-> None]
    /\ sock = [i \in Servers |-> [p \in 1 .. 2 |-> Invalid]]
    /\ available = [i \in Servers |-> FALSE]
    /\ holder = [i \in Servers |-> "nobody"]
    /\ master = [pc |-> "wait", index |-> CHOOSE i \in Servers : TRUE]
    /\ watch = [i \in Servers |-> <<>>]
    /\ red = [i \in Servers |-> 0]
    /\ others = [n \in 1 .. NOthers |-> [fd |-> Invalid, st |-> "new"]]
    /\ up = TRUE

-----------------------------------------------------------------------------
(* Connections and descriptors.                                             *)

\* A recv under way keeps its connection open although its descriptor is closed.
Open(c) ==
    \/ \E f \in Fds : fds[f] = c
    \/ \E i \in Servers : \E n \in DOMAIN watch[i] :
         watch[i][n].pc = "recv" /\ watch[i][n].on = c

Current(i, p) == Conn(i, ss[i].run, p)

\* Its other end is still there.
Alive(c) ==
    IF c.peer = Client THEN c # None /\ others[c.run].st = "in"
    ELSE c.run = ss[c.peer].run /\ ss[c.peer].pc # "off"

Accepted(i, p) == ss[i].pc = "up" /\ Current(i, p) \notin {waiting[i][p][n] : n \in DOMAIN waiting[i][p]}

FreeFds == {f \in Fds : fds[f] = None}
Lowest == CHOOSE f \in FreeFds : \A g \in FreeFds : f <= g

Close(F) == fds' = [f \in Fds |-> IF f \in F THEN None ELSE fds[f]]

-----------------------------------------------------------------------------
(* Storage servers (Storage_server.c).                                      *)

Quiet(i) == \A n \in DOMAIN watch[i] : watch[i][n].pc = "done"

Runs == CHOOSE k \in {ss[i].run : i \in Servers} : \A i \in Servers : ss[i].run <= k

\* It connects to the master port and sends its index.
Ask(i) ==
    /\ up /\ ss[i].pc = "off" /\ Runs < MaxRuns
    /\ Quiet(i) \/ "soon" \in Events
    /\ ss' = [ss EXCEPT ![i] = [run |-> Runs + 1, pc |-> "asked"]]
    /\ masterQ' = Append(masterQ, i)
    /\ UNCHANGED <<bye, waiting, fds, sock, available, holder, master, watch, red, others, up>>

\* The kernel completes a connection before the naming server accepts it.
Connect(i, p) ==
    /\ up /\ ss[i].pc = IF p = 1 THEN "asked" ELSE "half"
    /\ ss' = [ss EXCEPT ![i].pc = IF p = 1 THEN "half" ELSE "up"]
    /\ waiting' = [waiting EXCEPT ![i][p] = Append(@, Current(i, p))]
    /\ UNCHANGED <<bye, masterQ, fds, sock, available, holder, master, watch, red, others, up>>

Exit(i) ==
    /\ ss' = [ss EXCEPT ![i].pc = "off"]
    /\ UNCHANGED <<masterQ, waiting, fds, sock, available, holder, master, watch, red, others, up>>

\* cntrlC says BYE; a kill does not.
Quit(i) ==
    /\ ss[i].pc # "off"
    /\ Accepted(i, 2) \/ "halfway" \in Events
    /\ \/ ss[i].pc = "up" /\ bye' = bye \cup {<<i, ss[i].run>>}
       \/ bye' = bye
    /\ Exit(i)

\* NM_runner's recv returned 0.
CutOff(i) ==
    /\ Accepted(i, 1) /\ ~Open(Current(i, 1))
    /\ Exit(i) /\ bye' = bye

-----------------------------------------------------------------------------
(* server_master_starter.                                                   *)

MasterGo(pc) == master' = [master EXCEPT !.pc = pc]

\* It reads an index from the master port.
MasterRead ==
    /\ master.pc = "wait" /\ masterQ # <<>>
    /\ master' = [pc |-> "lock", index |-> Head(masterQ)]
    /\ masterQ' = Tail(masterQ)
    /\ available' = [available EXCEPT ![Head(masterQ)] = TRUE]
    /\ UNCHANGED <<ss, bye, waiting, fds, sock, holder, watch, red, others, up>>

MasterLock ==
    LET i == master.index IN
    /\ up /\ master.pc = "lock" /\ holder[i] = "nobody"
    /\ holder' = [holder EXCEPT ![i] = "master"]
    /\ MasterGo("accept")
    /\ UNCHANGED <<ss, bye, masterQ, waiting, fds, sock, available, watch, red, others, up>>

\* accept() on port p, the descriptor into its array.
AcceptFrom(i, p) ==
    /\ waiting[i][p] # <<>> /\ FreeFds # {}
    /\ fds' = [fds EXCEPT ![Lowest] = Head(waiting[i][p])]
    /\ sock' = [sock EXCEPT ![i][p] = Lowest]
    /\ waiting' = [waiting EXCEPT ![i][p] = Tail(@)]

\* Mutant: the second accept stores its descriptor in the first array.
AcceptIntoFirst(i, p) ==
    /\ waiting[i][p] # <<>> /\ FreeFds # {}
    /\ fds' = [fds EXCEPT ![Lowest] = Head(waiting[i][p])]
    /\ sock' = [sock EXCEPT ![i][1] = Lowest]
    /\ waiting' = [waiting EXCEPT ![i][p] = Tail(@)]

Accept(i, p) == AcceptFrom(i, p)

MasterAccept ==
    /\ master.pc = "accept"
    /\ Accept(master.index, 1)
    /\ MasterGo("accept2")
    /\ UNCHANGED <<ss, bye, masterQ, available, holder, watch, red, others, up>>

\* The second connection, the two threads, and the lock is given back.
MasterStart ==
    LET i == master.index IN
    /\ master.pc = "accept2"
    /\ Accept(i, 2)
    /\ watch' = [watch EXCEPT ![i] = Append(@, [pc |-> "read", on |-> None])]
    /\ red' = [red EXCEPT ![i] = @ + 1]
    /\ holder' = [holder EXCEPT ![i] = "nobody"]
    /\ MasterGo("wait")
    /\ UNCHANGED <<ss, bye, masterQ, available, others, up>>

-----------------------------------------------------------------------------
(* empty_func, redundant_copy, and what else there is.                      *)

WatchGo(i, n, pc, c) == watch' = [watch EXCEPT ![i][n] = [pc |-> pc, on |-> c]]

\* recv on the descriptor that is in the array now.  On a closed one it fails
\* and the loop goes round again.
WatchRead(i, n) ==
    /\ watch[i][n].pc = "read" /\ sock[i][2] # Invalid /\ fds[sock[i][2]] # None
    /\ WatchGo(i, n, "recv", fds[sock[i][2]])
    /\ UNCHANGED <<ss, bye, masterQ, waiting, fds, sock, available, holder, master, red, others, up>>

\* Bytes that may come in: a BYE, a client's command, a storage server's reply.
Says(c) ==
    \/ c.peer # Client /\ c.port = 2 /\ <<c.peer, c.run>> \in bye
    \/ Alive(c) /\ c.port # 2

Result(c) == IF Says(c) THEN 3 ELSE 0

\* Mutant: the end of a connection is not taken for one.
OnlyBytes(r) == r > 0

Ends(r) == r >= 0

WatchHears(i, n) ==
    LET c == watch[i][n].on IN
    /\ watch[i][n].pc = "recv"
    /\ Says(c) \/ ~Alive(c)
    /\ WatchGo(i, n, IF Ends(Result(c)) THEN "lock" ELSE "read", None)
    /\ bye' = bye \ {<<c.peer, c.run>>}
    /\ UNCHANGED <<ss, masterQ, waiting, fds, sock, available, holder, master, red, others, up>>

\* With the lock: not available, both descriptors closed.
Leaving(i, n, pc) ==
    /\ watch[i][n].pc = "lock" /\ holder[i] = "nobody"
    /\ available' = [available EXCEPT ![i] = FALSE]
    /\ Close({sock[i][1], sock[i][2]})
    /\ WatchGo(i, n, pc, None)
    /\ UNCHANGED <<ss, bye, masterQ, waiting, sock, master, red, others, up>>

\* Mutant: the loop is not left.
WatchGoesOn(i, n) == Leaving(i, n, "read") /\ UNCHANGED holder

\* Mutant: the lock is not given back.
WatchKeepsLock(i, n) == Leaving(i, n, "done") /\ holder' = [holder EXCEPT ![i] = "watcher"]

WatchLeaves(i, n) == Leaving(i, n, "done") /\ UNCHANGED holder

\* A redundancy thread wakes up and finds its storage server gone.
RedStops(i) ==
    /\ red[i] > 0 /\ ~available[i]
    /\ red' = [red EXCEPT ![i] = @ - 1]
    /\ UNCHANGED <<ss, bye, masterQ, waiting, fds, sock, available, holder, master, watch, others, up>>

\* A client's connection is accepted elsewhere (ClientPorts) and closed there by number.
OtherJoins(n) ==
    /\ up /\ "reuse" \in Events /\ others[n].st = "new" /\ FreeFds # {}
    /\ fds' = [fds EXCEPT ![Lowest] = OfClient(n)]
    /\ others' = [others EXCEPT ![n] = [fd |-> Lowest, st |-> "in"]]
    /\ UNCHANGED <<ss, bye, masterQ, waiting, sock, available, holder, master, watch, red, up>>

OtherLeaves(n) ==
    /\ up /\ others[n].st = "in"
    /\ Close({others[n].fd})
    /\ others' = [others EXCEPT ![n] = [fd |-> Invalid, st |-> "left"]]
    /\ UNCHANGED <<ss, bye, masterQ, waiting, sock, available, holder, master, watch, red, up>>

-----------------------------------------------------------------------------

StorageServer(i) == Ask(i) \/ (\E p \in 1 .. 2 : Connect(i, p)) \/ Quit(i) \/ CutOff(i)
Master == MasterRead \/ MasterLock \/ MasterAccept \/ MasterStart
Watch(i) == \E n \in DOMAIN watch[i] : WatchRead(i, n) \/ WatchHears(i, n)
Leave(i) == \E n \in DOMAIN watch[i] : WatchLeaves(i, n)

\* handle_sigint_cntrlC; the kernel closes what is left.
Shutdown ==
    /\ up /\ up' = FALSE
    /\ masterQ' = <<>> /\ waiting' = [i \in Servers |-> [p \in 1 .. 2 |-> <<>>]]
    /\ fds' = [f \in Fds |-> None]
    /\ watch' = [i \in Servers |-> <<>>] /\ red' = [i \in Servers |-> 0]
    /\ available' = [i \in Servers |-> FALSE] /\ holder' = [i \in Servers |-> "nobody"]
    /\ UNCHANGED <<ss, bye, sock, master, others>>

Others == \E n \in 1 .. NOthers : OtherJoins(n) \/ OtherLeaves(n)

NamingServer == Master \/ (\E i \in Servers : Watch(i) \/ Leave(i) \/ RedStops(i)) \/ Shutdown

Next ==
    \/ \E i \in Servers : StorageServer(i)
    \/ NamingServer
    \/ Others

Spec == Init /\ [][Next]_vars

\* A storage server goes on with what it began and threads run; whoever waits for
\* a lock gets it in the end.
FairSpec ==
    /\ Spec
    /\ \A i \in Servers :
        /\ WF_vars(\E p \in 1 .. 2 : Connect(i, p)) /\ WF_vars(CutOff(i))
        /\ WF_vars(Watch(i)) /\ SF_vars(Leave(i))
    /\ WF_vars(MasterRead \/ MasterAccept \/ MasterStart) /\ SF_vars(MasterLock)

-----------------------------------------------------------------------------
(* Properties.                                                              *)

Registering(i) == master.pc # "wait" /\ master.index = i

Fd(i, p) == IF sock[i][p] = Invalid THEN None ELSE fds[sock[i][p]]

\* A storage server that is marked available and is not just registering: both its
\* descriptors are open and are connections of one run of its program, exactly one
\* watcher waits for the end of that run, and redundancy runs for it.
\* (server_master_starter, empty_func: marked, accepted and cleaned up in separate steps)
RegisteredConnected ==
    \A i \in Servers : up /\ available[i] /\ ~Registering(i) =>
        /\ \E k \in 1 .. MaxRuns : \A p \in 1 .. 2 : Fd(i, p) = Conn(i, k, p)
        /\ \E n \in DOMAIN watch[i] :
            /\ watch[i][n].pc # "done" /\ watch[i][n].on \in {None, Fd(i, 2)}
            /\ \A m \in DOMAIN watch[i] \ {n} : watch[i][m].pc = "done"
        /\ red[i] > 0

\* The naming server closes a connection only after its other end has gone: a watcher
\* closes by number, and the number may have a new owner. (empty_func, 1610-1611)
ClosesOnlyDead ==
    [][\A f \in Fds, c \in Conns :
         fds[f] = c /\ fds'[f] # c /\ up' => ~Alive(c)']_vars

\* A storage server that exits is marked down, unless it is back before. (empty_func)
ExitNoticed ==
    \A i \in Servers :
        (ss[i].run > 0 /\ ss[i].pc = "off") ~> (~available[i] \/ ss[i].pc # "off" \/ ~up)

\* A storage server that starts is in use in the end, on its own connections.
\* (connect_to_naming_server, server_master_starter)
StartedServes ==
    \A i \in Servers :
        (ss[i].pc = "asked") ~>
        (~up \/ (available[i] /\ ~Registering(i) /\ \A p \in 1 .. 2 : Fd(i, p) = Current(i, p)))
=============================================================================
