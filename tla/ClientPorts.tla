---------------------------- MODULE ClientPorts -----------------------------
(***************************************************************************)
(* How a client gets a thread of the naming server: client_master_starter  *)
(* accepts it on the master port, find_a_free_port_for_client picks a slot *)
(* (a listening port of its own), the client connects there, and a thread  *)
(* running clientcommandtemporary reads its commands until it disconnects  *)
(* and then frees the slot.                                                *)
(*                                                                         *)
(* client_lock guards the slots, master_client_lock one round of the       *)
(* accepting loop.  The new thread gets its slot through a pointer to a    *)
(* variable of that loop, and reads it whenever it first runs.             *)
(***************************************************************************)
EXTENDS Integers, Sequences, FiniteSets

CONSTANTS
    NSlots,       \* CLIENT_PORT
    NSessions,    \* bound: connections clients make in a behaviour
    Events        \* conditions of the environment that may occur

\* "early": a client exits before it connected to its own port
\* "short": recv returns part of a command, and the thread gives its client up
\* "late":  a new thread first runs after the accepting loop went round again
ASSUME PortsAssumption ==
    NSlots \in Nat \ {0} /\ NSessions \in Nat /\ Events \subseteq {"early", "short", "late"}

Slots == 0 .. NSlots - 1

\* A session is one run of a client program, which connects once; the thread
\* created for it has its name.
Sessions == 1 .. NSessions
None == 0

VARIABLES
    session,     \* per session: how far its client is
    backlog,     \* sessions waiting on the master port, oldest first
    waiting,     \* per slot: sessions connected to its port, not accepted yet
    taken,       \* client_available[i]
    sock,        \* client_reciever_sock[i]: the session at its other end
    acc,         \* the accepting loop: pc, index, the session it is serving
    x,           \* the loop's variable x, whose address threads are given
    masterLock,  \* master_client_lock
    lockFree,    \* client_lock
    thread,      \* per session: its thread's pc, its index, the socket it reads,
                 \* and (history) whether it gave up on part of a command
    cut          \* history: sessions whose socket the naming server closed

vars == <<session, backlog, waiting, taken, sock, acc, x, masterLock, lockFree, thread, cut>>

TypeOK ==
    /\ session \in [Sessions -> [st : {"new", "asked", "told", "joined", "left"}, port : Slots]]
    /\ backlog \in Seq(Sessions)
    /\ waiting \in [Slots -> Seq(Sessions)]
    /\ taken \in [Slots -> BOOLEAN]
    /\ sock \in [Slots -> Sessions \cup {None}]
    /\ acc \in [pc : {"wait", "accept", "find", "tell", "lock", "join", "start", "post"},
                index : Slots, of : Sessions \cup {None}]
    /\ x \in Slots
    /\ masterLock \in 0 .. 1 /\ lockFree \in BOOLEAN
    /\ thread \in [Sessions -> [pc : {"none", "created", "loop", "recv", "drop", "gone"},
                                index : Slots, on : Sessions \cup {None},
                                torn : BOOLEAN]]
    /\ cut \subseteq Sessions

Init ==
    /\ session = [k \in Sessions |-> [st |-> "new", port |-> 0]]
    /\ backlog = <<>>
    /\ waiting = [i \in Slots |-> <<>>]
    /\ taken = [i \in Slots |-> FALSE]
    /\ sock = [i \in Slots |-> None]
    /\ acc = [pc |-> "wait", index |-> 0, of |-> None]
    /\ x = 0
    /\ masterLock = 1 /\ lockFree = TRUE
    /\ thread = [k \in Sessions |-> [pc |-> "none", index |-> 0, on |-> None, torn |-> FALSE]]
    /\ cut = {}

-----------------------------------------------------------------------------
(* Clients (Client.c, main).                                                *)

St(k) == session[k].st
Connected == {k \in Sessions : St(k) = "joined" /\ k \notin cut}
Go(k, st) == session' = [session EXCEPT ![k] = [@ EXCEPT !.st = st]]

Ask(k) ==
    /\ St(k) = "new"
    /\ Go(k, "asked")
    /\ backlog' = Append(backlog, k)
    /\ UNCHANGED <<waiting, taken, sock, acc, x, masterLock, lockFree, thread, cut>>

\* The client was told its port and connects to it; the kernel completes the
\* connection before the naming server accepts it.
Join(k) ==
    /\ St(k) = "told"
    /\ Go(k, "joined")
    /\ waiting' = [waiting EXCEPT ![session[k].port] = Append(@, k)]
    /\ UNCHANGED <<backlog, taken, sock, acc, x, masterLock, lockFree, thread, cut>>

Leave(k) ==
    /\ St(k) \in IF "early" \in Events THEN {"asked", "told", "joined"} ELSE {"joined"}
    /\ Go(k, "left")
    /\ UNCHANGED <<backlog, waiting, taken, sock, acc, x, masterLock, lockFree, thread, cut>>

-----------------------------------------------------------------------------
(* client_master_starter.                                                   *)

AccGo(pc) == acc' = [acc EXCEPT !.pc = pc]

AccWait ==
    /\ acc.pc = "wait" /\ masterLock > 0
    /\ masterLock' = masterLock - 1
    /\ AccGo("accept")
    /\ UNCHANGED <<session, backlog, waiting, taken, sock, x, lockFree, thread, cut>>

Accept ==
    /\ acc.pc = "accept" /\ backlog # <<>>
    /\ acc' = [acc EXCEPT !.pc = "find", !.of = Head(backlog)]
    /\ backlog' = Tail(backlog)
    /\ UNCHANGED <<session, waiting, taken, sock, x, masterLock, lockFree, thread, cut>>

\* Mutant: a slot is picked and not marked as taken.
FindFreeUnmarked ==
    /\ acc.pc = "find" /\ lockFree
    /\ \E i \in Slots :
         /\ ~taken[i] /\ \A j \in 0 .. i - 1 : taken[j]
         /\ acc' = [acc EXCEPT !.pc = "tell", !.index = i]
    /\ UNCHANGED <<session, backlog, waiting, taken, sock, x, masterLock, lockFree, thread, cut>>

\* The scan of find_a_free_port_for_client, under client_lock.  With every slot
\* taken the loop goes on to its next sem_wait without a sem_post.
FindFree ==
    /\ acc.pc = "find" /\ lockFree
    /\ \/ \E i \in Slots :
            /\ ~taken[i] /\ \A j \in 0 .. i - 1 : taken[j]
            /\ taken' = [taken EXCEPT ![i] = TRUE]
            /\ acc' = [acc EXCEPT !.pc = "tell", !.index = i]
       \/ /\ \A i \in Slots : taken[i]
          /\ AccGo("wait")
          /\ UNCHANGED taken
    /\ UNCHANGED <<session, backlog, waiting, sock, x, masterLock, lockFree, thread, cut>>

\* Mutant: the client is told the port after its own.
TellNextPort ==
    /\ acc.pc = "tell"
    /\ session' = IF St(acc.of) = "asked"
                  THEN [session EXCEPT ![acc.of] = [st |-> "told", port |-> (acc.index + 1) % NSlots]]
                  ELSE session
    /\ AccGo("lock")
    /\ UNCHANGED <<backlog, waiting, taken, sock, x, masterLock, lockFree, thread, cut>>

Tell ==
    /\ acc.pc = "tell"
    /\ session' = IF St(acc.of) = "asked"
                  THEN [session EXCEPT ![acc.of] = [st |-> "told", port |-> acc.index]]
                  ELSE session
    /\ AccGo("lock")
    /\ UNCHANGED <<backlog, waiting, taken, sock, x, masterLock, lockFree, thread, cut>>

AccLock ==
    /\ acc.pc = "lock" /\ lockFree
    /\ lockFree' = FALSE
    /\ AccGo("join")
    /\ UNCHANGED <<session, backlog, waiting, taken, sock, x, masterLock, thread, cut>>

\* accept on the slot's own port, with client_lock held for as long as it takes.
AccJoin ==
    LET i == acc.index IN
    /\ acc.pc = "join" /\ waiting[i] # <<>>
    /\ sock' = [sock EXCEPT ![i] = Head(waiting[i])]
    /\ waiting' = [waiting EXCEPT ![i] = Tail(@)]
    /\ lockFree' = TRUE
    /\ AccGo("start")
    /\ UNCHANGED <<session, backlog, taken, x, masterLock, thread, cut>>

\* int x = index; pthread_create(..., &x): x is the same variable every time round.
StartThread ==
    /\ acc.pc = "start"
    /\ (\E k \in Sessions : thread[k].pc = "created") => "late" \in Events
    /\ x' = acc.index
    /\ thread' = [thread EXCEPT ![acc.of] = [@ EXCEPT !.pc = "created"]]
    /\ AccGo("post")
    /\ UNCHANGED <<session, backlog, waiting, taken, sock, masterLock, lockFree, cut>>

AccPost ==
    /\ acc.pc = "post"
    /\ masterLock' = masterLock + 1
    /\ AccGo("wait")
    /\ UNCHANGED <<session, backlog, waiting, taken, sock, x, lockFree, thread, cut>>

Acceptor ==
    \/ AccWait \/ Accept \/ FindFree \/ Tell \/ AccLock \/ AccJoin
    \/ StartThread \/ AccPost

-----------------------------------------------------------------------------
(* clientcommandtemporary.                                                  *)

\* Mutant: the thread is given the address of index instead of x.
ReadLoopIndex(k) ==
    /\ thread[k].pc = "created"
    /\ thread' = [thread EXCEPT ![k] = [@ EXCEPT !.pc = "loop", !.index = acc.index]]
    /\ UNCHANGED <<session, backlog, waiting, taken, sock, acc, x, masterLock, lockFree, cut>>

ReadIndex(k) ==
    /\ thread[k].pc = "created"
    /\ thread' = [thread EXCEPT ![k] = [@ EXCEPT !.pc = "loop", !.index = x]]
    /\ UNCHANGED <<session, backlog, waiting, taken, sock, acc, x, masterLock, lockFree, cut>>

Recv(k) ==
    /\ thread[k].pc = "loop"
    /\ thread' = [thread EXCEPT ![k] = [@ EXCEPT !.pc = "recv", !.on = sock[thread[k].index]]]
    /\ UNCHANGED <<session, backlog, waiting, taken, sock, acc, x, masterLock, lockFree, cut>>

\* A command (NamingServer), then round the loop again.
Command(k) ==
    /\ thread[k].pc = "recv"
    /\ thread[k].on \in Connected
    /\ thread' = [thread EXCEPT ![k] = [@ EXCEPT !.pc = "loop"]]
    /\ UNCHANGED <<session, backlog, waiting, taken, sock, acc, x, masterLock, lockFree, cut>>

\* Mutant: client_available is cleared before client_lock is taken.
EofFreesSlot(k) ==
    /\ thread[k].pc = "recv"
    /\ thread[k].on \notin Connected \/ "short" \in Events
    /\ taken' = [taken EXCEPT ![thread[k].index] = FALSE]
    /\ thread' = [thread EXCEPT ![k] = [@ EXCEPT !.pc = "drop", !.torn = thread[k].on \in Connected]]
    /\ UNCHANGED <<session, backlog, waiting, sock, acc, x, masterLock, lockFree, cut>>

\* recv returns 0, or -1 on a descriptor that is not open, or less than a command.
Eof(k) ==
    /\ thread[k].pc = "recv"
    /\ thread[k].on \notin Connected \/ "short" \in Events
    /\ thread' = [thread EXCEPT ![k] = [@ EXCEPT !.pc = "drop", !.torn = thread[k].on \in Connected]]
    /\ UNCHANGED <<session, backlog, waiting, taken, sock, acc, x, masterLock, lockFree, cut>>

\* Mutant: client_available is never cleared.
DropKeepsSlot(k) ==
    LET i == thread[k].index IN
    /\ thread[k].pc = "drop" /\ lockFree
    /\ cut' = cut \cup ({sock[i]} \ {None})
    /\ sock' = [sock EXCEPT ![i] = None]
    /\ thread' = [thread EXCEPT ![k] = [@ EXCEPT !.pc = "gone"]]
    /\ UNCHANGED <<session, backlog, waiting, taken, acc, x, masterLock, lockFree>>

Drop(k) ==
    LET i == thread[k].index IN
    /\ thread[k].pc = "drop" /\ lockFree
    /\ taken' = [taken EXCEPT ![i] = FALSE]
    /\ cut' = cut \cup ({sock[i]} \ {None})
    /\ sock' = [sock EXCEPT ![i] = None]
    /\ thread' = [thread EXCEPT ![k] = [@ EXCEPT !.pc = "gone"]]
    /\ UNCHANGED <<session, backlog, waiting, acc, x, masterLock, lockFree>>

Thread(k) == ReadIndex(k) \/ Recv(k) \/ Command(k) \/ Eof(k) \/ Drop(k)

Next ==
    \/ \E k \in Sessions : Ask(k) \/ Join(k) \/ Leave(k) \/ Thread(k)
    \/ Acceptor

Spec == Init /\ [][Next]_vars

\* A client that was told its port connects to it, and the naming server's
\* threads run; client_lock is free again and again for a thread that waits.
FairSpec ==
    /\ Spec
    /\ WF_vars(Acceptor)
    /\ \A k \in Sessions :
        /\ WF_vars(Join(k))
        /\ WF_vars(ReadIndex(k)) /\ WF_vars(Recv(k)) /\ WF_vars(Eof(k)) /\ SF_vars(Drop(k))

-----------------------------------------------------------------------------
(* Properties.                                                              *)

Reading == {"loop", "recv", "drop"}

\* Each thread reads the socket of the client it was created for, and no two
\* threads read one client (Naming_server.c:1538: "to run each and every client
\* and recieve its data").
OwnSocket ==
    \A k \in Sessions : thread[k].pc \in Reading => sock[thread[k].index] = k

\* The naming server never closes the connection of a client that is still there,
\* except for a command of which it received only a part.
NeverCutOff == \A k \in cut : St(k) = "left" \/ thread[k].torn

\* A slot is given to one client at a time: while it is connected, or on its way
\* to its port, no other client is told the same port.
SlotForOne ==
    \A k, l \in {j \in Sessions : St(j) = "told"} \cup Connected :
        session[k].port = session[l].port => k = l

\* A client that connected to the port it was told gets a thread that reads it,
\* until it leaves or a command arrives in part.
JoinedIsServed ==
    \A k \in Sessions :
        St(k) = "joined" ~>
            (St(k) = "left"
             \/ \E t \in Sessions : thread[t].on = k /\ (thread[t].pc = "recv" \/ thread[t].torn))

\* The slot of a client that left is free again sooner or later, also while the
\* accepting loop has client_lock and waits for somebody else to connect; unless
\* that somebody is gone, and it waits for ever.
SlotFreed ==
    \A i \in Slots :
        (\E k \in Sessions : sock[i] = k /\ St(k) = "left")
            ~> (~taken[i] \/ (acc.pc = "join" /\ St(acc.of) = "left"))
=============================================================================
