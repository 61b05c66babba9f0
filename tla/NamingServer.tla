---------------------------- MODULE NamingServer ----------------------------
(***************************************************************************)
(* The command processor of the naming server: one thread per connected    *)
(* client (command_proccessor and the handlers it calls), one redundancy   *)
(* thread and one disconnection watcher per storage server, and the        *)
(* storage servers that answer them.                                       *)
(*                                                                         *)
(* The threads share one TCP connection per storage server.  The semaphore *)
(* block_server[i] is meant to make a request and its reply one exchange,  *)
(* and red_lock to keep redundancy and commands apart.  What a path lookup *)
(* yields (trie and cache) is a free choice here: every server, or none.   *)
(***************************************************************************)
EXTENDS Placement, Sequences, FiniteSets

CONSTANTS
    Clients,     \* clients connected, each served by a thread of its own
    Up,          \* storage servers connected when the model starts
    Ops,         \* operations the clients may issue
    Events,      \* conditions of the environment that may occur
    MaxEntries,  \* bound: entries of a directory, replicas of a path
    SemMax       \* SEM_VALUE_MAX, where sem_post starts to fail, scaled down

AllOps == {"create", "deletefile", "deletedir", "read", "write", "info",
           "ls", "copyfile", "copydir"}

\* "refuse":  a storage server answers NO to a create
\* "crash":   a storage server exits
\* "senderr": a send to a client socket returns -1
\* "empty":   a copied directory has an empty file
\* "timer":   the redundancy timer fires
AllEvents == {"refuse", "crash", "senderr", "empty", "timer"}

Red(s)   == <<"redundancy", s>>     \* the thread running redundant_copy(s)
Watch(s) == <<"watch", s>>          \* the thread running empty_func(s)
Threads  == Clients \cup {Red(s) : s \in Servers} \cup {Watch(s) : s \in Servers}

ASSUME UpAssumption == Up \subseteq Servers
ASSUME OpsAssumption == Ops \subseteq AllOps /\ Events \subseteq AllEvents
ASSUME BoundAssumption == MaxEntries \in Nat \ {0} /\ SemMax \in Nat \ {0}
ASSUME ThreadsAssumption ==
    \A s \in Servers : Red(s) \notin Clients /\ Watch(s) \notin Clients

VARIABLES
    sem,        \* block_server[i]
    red,        \* red_lock
    holders,    \* history: threads past sem_wait(block_server[i]), no sem_post yet
    available,  \* server_available[i]
    alive,      \* the storage server's process runs
    open,       \* the naming server has not closed server_reciever_sock[i]
    req,        \* requests on their way to server i
    rep,        \* replies on their way back from server i
    made,       \* history: an accepted create has run for this client's command
    cl,         \* per client thread: its program counter and locals
    rd,         \* per server: the redundancy thread
    wpc         \* per server: the disconnection watcher

vars == <<sem, red, holders, available, alive, open, req, rep, made, cl, rd, wpc>>

locks   == <<sem, holders>>
network == <<alive, open, req, rep, made>>

Answers == {"none", "YES", "NO", "ALREADY", "DONT", "-1", "IP"}
Cmds    == {"none", "create", "delete", "access", "copyread", "copywrite"}
Entries == [at : Up, full : BOOLEAN]

ClientState ==
    [pc     : {"idle", "try", "lookup", "lock", "send", "recv", "tell", "stop",
               "unlock", "extra", "after", "late", "finish"},
     op     : Ops \cup {"none"},     \* C->operation
     cmd    : Cmds,                  \* what it is asking a storage server
     srv    : Servers,               \* index of that server
     todo   : Seq(Entries),          \* servers or entries still to process, the
                                     \* head being processed
     extra  : 0 .. 1,                \* surplus sem_posts it is about to make
     quit   : BOOLEAN,               \* it returns after its sem_post
     answer : Answers]               \* last thing sent to the client

\* A message on a server's connection; "by" is only known to the model.
Messages == [by : Threads, kind : Cmds \cup {"red"}, ticket : {"", "YES", "NO"}]

RedState == [pc : {"sleep", "red", "l1", "l2", "l3", "ask", "hear",
                   "u1", "u2", "u3", "u4", "gone"},
             left : 0 .. MaxEntries, listed : BOOLEAN]

TypeOK ==
    /\ sem \in [Servers -> 0 .. SemMax]
    /\ red \in 0 .. SemMax
    /\ holders \in [Servers -> SUBSET Threads]
    /\ available \in [Servers -> BOOLEAN]
    /\ alive \in [Servers -> BOOLEAN]
    /\ open \in [Servers -> BOOLEAN]
    /\ req \in [Servers -> Seq(Messages)]
    /\ rep \in [Servers -> Seq(Messages)]
    /\ made \in [Clients -> BOOLEAN]
    /\ cl \in [Clients -> ClientState]
    /\ rd \in [Servers -> RedState]
    /\ wpc \in [Servers -> {"watch", "want", "mark", "post", "gone"}]

Init ==
    /\ sem = [s \in Servers |-> 1]
    /\ red = 1
    /\ holders = [s \in Servers |-> {}]
    /\ available = [s \in Servers |-> s \in Up]
    /\ alive = available
    /\ open = available
    /\ req = [s \in Servers |-> <<>>]
    /\ rep = [s \in Servers |-> <<>>]
    /\ made = [c \in Clients |-> FALSE]
    /\ cl = [c \in Clients |->
               [pc |-> "idle", op |-> "none", cmd |-> "none", srv |-> 0,
                todo |-> <<>>, extra |-> 0, quit |-> FALSE, answer |-> "none"]]
    /\ rd = [s \in Servers |-> [pc |-> IF s \in Up THEN "sleep" ELSE "gone",
                                left |-> 0, listed |-> FALSE]]
    /\ wpc = [s \in Servers |-> IF s \in Up THEN "watch" ELSE "gone"]

-----------------------------------------------------------------------------
(* Semaphores.  sem_post on a semaphore at SEM_VALUE_MAX fails and leaves   *)
(* it as it is.                                                             *)

Posted(v) == IF v < SemMax THEN v + 1 ELSE v

\* Mutant: sem_trywait, its result ignored, instead of sem_wait.
TryP(t, s) ==
    /\ sem' = [sem EXCEPT ![s] = @ - 1]
    /\ holders' = [holders EXCEPT ![s] = @ \cup {t}]

P(t, s) ==
    /\ sem[s] > 0
    /\ sem' = [sem EXCEPT ![s] = @ - 1]
    /\ holders' = [holders EXCEPT ![s] = @ \cup {t}]

V(t, s) ==
    /\ sem' = [sem EXCEPT ![s] = Posted(@)]
    /\ holders' = [holders EXCEPT ![s] = @ \ {t}]

\* A request to a process that is gone is lost.
Ask(s, m) == req' = IF alive[s] THEN [req EXCEPT ![s] = Append(@, m)] ELSE req
Take(s)   == rep' = [rep EXCEPT ![s] = Tail(@)]

\* recv on server s's socket returns 0 or -1: nothing is left to read and the
\* peer is gone, or the descriptor is closed.
Closed(s) == \/ ~open[s]
             \/ rep[s] = <<>> /\ ~alive[s]

At(c, pc) == cl[c].pc = pc

\* Client c's thread moves on with locals r.
Step(c, r) == cl' = [cl EXCEPT ![c] = r]

-----------------------------------------------------------------------------
(* A command arrives and is looked up.                                      *)

Receive(c, o) ==
    /\ At(c, "idle")
    /\ Step(c, [cl[c] EXCEPT !.pc = "try", !.op = o, !.cmd = "none",
                        !.todo = <<>>, !.quit = FALSE,
                        !.answer = "none"])
    /\ made' = [made EXCEPT ![c] = FALSE]
    /\ UNCHANGED <<locks, red, available, alive, open, req, rep, rd, wpc>>

\* sem_trywait(&red_lock), whose result nobody looks at.
TryRed(c) ==
    /\ At(c, "try")
    /\ red' = IF red > 0 THEN red - 1 ELSE red
    /\ Step(c, [cl[c] EXCEPT !.pc = "lookup"])
    /\ UNCHANGED <<locks, available, network, rd, wpc>>

\* What a handler answers when the lookup alone decides: the path of a create
\* is taken, the path of any other operation is missing, ls only reads the trie.
\* Mutant: deletedir of a missing path sends nothing.
AtOnceMute(o) ==
    CASE o = "create" -> "ALREADY"
      [] o \in {"deletefile", "ls"} -> "YES"
      [] o = "deletedir" -> "none"
      [] o \in {"read", "write", "info"} -> "-1"
      [] OTHER -> "DONT"

AtOnce(o) ==
    CASE o = "create" -> "ALREADY"
      [] o \in {"deletefile", "deletedir", "ls"} -> "YES"
      [] o \in {"read", "write", "info"} -> "-1"
      [] OTHER -> "DONT"

\* A handler is about to ask server s for cmd.
Begin(c, cmd, s, todo) ==
    Step(c, [cl[c] EXCEPT !.pc = "lock", !.cmd = cmd, !.srv = s,
                     !.todo = todo])

AnswerAtOnce(c) ==
    Step(c, [cl[c] EXCEPT !.pc = "finish", !.answer = AtOnce(cl[c].op)])

\* find_storage_server_port: any available server can come out of the random
\* pick followed by the scan; with none it returns -1 and no answer is sent.
CreateLookup(c) ==
    /\ cl[c].op = "create"
    /\ IF \E s \in Servers : available[s]
       THEN \E s \in Servers : available[s] /\ Begin(c, "create", s, <<>>)
       ELSE Step(c, [cl[c] EXCEPT !.pc = "finish"])

\* The ports of a path: no server twice (checkForPortExistance).
Routes == {q \in UNION {[1 .. n -> [at : Up, full : {TRUE}]] : n \in 1 .. MaxEntries} :
             \A i, j \in DOMAIN q : q[i].at = q[j].at => i = j}

DeleteLookup(c) ==
    \E q \in Routes :
        /\ \/ cl[c].op = "deletefile" /\ Len(q) = 1
           \/ cl[c].op = "deletedir"
        /\ Begin(c, "delete", q[1].at, q)

\* A read of a file whose server is down goes to one of its replicas.
AccessLookup(c) ==
    \E s \in Up :
        \/ /\ cl[c].op = "read"
           /\ Begin(c, "access",
                    ReadPlace(s, {x \in Servers : available[x]})[1], <<>>)
        \/ cl[c].op \in {"write", "info"} /\ Begin(c, "access", s, <<>>)

CopyFileLookup(c) ==
    /\ cl[c].op = "copyfile"
    /\ \E s, d \in Up :
         Begin(c, "copyread", s, <<[at |-> s, full |-> TRUE], [at |-> d, full |-> TRUE]>>)

\* LL_Tries_Ports_fn: the entries of the directory, each with its server.
CopyDirLookup(c) ==
    /\ cl[c].op = "copydir"
    /\ \E n \in 0 .. MaxEntries : \E q \in [1 .. n -> Entries] :
        /\ \A i \in 1 .. n : q[i].full \/ "empty" \in Events
        /\ IF n = 0
           THEN Step(c, [cl[c] EXCEPT !.pc = "finish", !.answer = "YES"])
           ELSE Begin(c, "copyread", q[1].at, q)

Lookup(c) ==
    /\ At(c, "lookup")
    /\ \/ AnswerAtOnce(c)  \/ CreateLookup(c)   \/ DeleteLookup(c)
       \/ AccessLookup(c)  \/ CopyFileLookup(c) \/ CopyDirLookup(c)
    /\ UNCHANGED <<locks, red, available, network, rd, wpc>>

-----------------------------------------------------------------------------
(* One exchange with a storage server, under its lock.                      *)

Lock(c) ==
    /\ At(c, "lock")
    /\ P(c, cl[c].srv)
    /\ Step(c, [cl[c] EXCEPT !.pc = IF cl[c].cmd = "access" THEN "tell" ELSE "send"])
    /\ UNCHANGED <<red, available, network, rd, wpc>>

\* read, write, info: the client gets the server's address; if that send fails
\* the handler returns with the lock.
Tell(c) ==
    /\ At(c, "tell")
    /\ \/ Step(c, [cl[c] EXCEPT !.pc = "stop", !.answer = "IP"])
       \/ "senderr" \in Events /\ Step(c, [cl[c] EXCEPT !.pc = "finish"])
    /\ UNCHANGED <<locks, red, available, network, rd, wpc>>

\* Mutant: the handler returns without its sem_post.
StopAndKeep(c) ==
    /\ At(c, "stop")
    /\ Step(c, [cl[c] EXCEPT !.pc = "finish"])
    /\ UNCHANGED <<locks, red, available, network, rd, wpc>>

\* The client reports that it is done with the storage server, or disconnects.
Stop(c) ==
    /\ At(c, "stop")
    /\ Step(c, [cl[c] EXCEPT !.pc = "unlock"])
    /\ UNCHANGED <<locks, red, available, network, rd, wpc>>

\* Mutant: deletefile, too, posts before it reads the acknowledgement.
SendAndPost(c) ==
    LET s == cl[c].srv IN
    /\ At(c, "send")
    /\ open[s]
    /\ Ask(s, [by |-> c, kind |-> cl[c].cmd, ticket |-> ""])
    /\ Step(c, [cl[c] EXCEPT !.pc = IF cl[c].op = "deletefile" THEN "unlock" ELSE "recv"])
    /\ UNCHANGED <<locks, red, available, alive, open, rep, made, rd, wpc>>

\* copyfile alone posts between its write and the write's acknowledgement.
Send(c) ==
    LET s == cl[c].srv
        early == cl[c].op = "copyfile" /\ cl[c].cmd = "copywrite"
    IN
    /\ At(c, "send")
    /\ open[s]
    /\ Ask(s, [by |-> c, kind |-> cl[c].cmd, ticket |-> ""])
    /\ Step(c, [cl[c] EXCEPT !.pc = IF early THEN "unlock" ELSE "recv"])
    /\ UNCHANGED <<locks, red, available, alive, open, rep, made, rd, wpc>>

\* send on a closed descriptor: a create gives up, the others read on.
SendFails(c) ==
    LET early == cl[c].op = "copyfile" /\ cl[c].cmd = "copywrite" IN
    /\ At(c, "send")
    /\ ~open[cl[c].srv]
    /\ Step(c, [cl[c] EXCEPT !.pc = IF early \/ cl[c].cmd = "create" THEN "unlock" ELSE "recv",
                        !.quit = (cl[c].cmd = "create")])
    /\ UNCHANGED <<locks, red, available, network, rd, wpc>>

\* Mutant: a refused create posts, and falls through to the sem_post at the end.
RefusedPostsTwice(c) ==
    Step(c, [cl[c] EXCEPT !.pc = "unlock", !.extra = 1, !.answer = "NO", !.quit = TRUE])

\* A refused create: Createfunctionality returns without sem_post when the NO
\* reached the client; copydirfunctionality posts.
CreateRefused(c) ==
    \/ Step(c, [cl[c] EXCEPT !.pc = IF cl[c].op = "create" THEN "finish" ELSE "unlock",
                        !.answer = "NO", !.quit = TRUE])
    \/ "senderr" \in Events /\ Step(c, [cl[c] EXCEPT !.pc = "unlock", !.quit = TRUE])

\* Mutant: an accepted create posts twice.
AcceptedPostsTwice(c) ==
    Step(c, [cl[c] EXCEPT !.pc = "unlock", !.extra = 1, !.answer = "YES"])

CreateAccepted(c) ==
    \/ Step(c, [cl[c] EXCEPT !.pc = "unlock",
                        !.answer = IF cl[c].op = "create" THEN "YES" ELSE @])
    \/ /\ cl[c].op = "create" /\ "senderr" \in Events
       /\ Step(c, [cl[c] EXCEPT !.pc = "unlock", !.quit = TRUE])

\* Whatever reply comes first is taken for the reply to the request.
Recv(c) ==
    LET s == cl[c].srv IN
    /\ At(c, "recv")
    /\ open[s] /\ rep[s] # <<>>
    /\ Take(s)
    /\ IF cl[c].cmd = "create"
       THEN IF Head(rep[s]).ticket = "YES" THEN CreateAccepted(c) ELSE CreateRefused(c)
       ELSE Step(c, [cl[c] EXCEPT !.pc = "unlock",
                             !.answer = IF cl[c].op = "deletefile" THEN "YES" ELSE @])
    /\ UNCHANGED <<locks, red, available, alive, open, req, made, rd, wpc>>

\* Mutant: a create that reads -1 returns without a sem_post.
ClosedAndKeep(c) ==
    /\ At(c, "recv")
    /\ Closed(cl[c].srv)
    /\ Step(c, [cl[c] EXCEPT !.pc = IF cl[c].cmd = "create" THEN "finish" ELSE "unlock",
                        !.quit = (cl[c].cmd = "create")])
    /\ UNCHANGED <<locks, red, available, network, rd, wpc>>

\* recv returned 0 or -1.  A create that reads 0 posts and then falls through
\* to the sem_post of the successful path.
RecvClosed(c) ==
    LET s == cl[c].srv IN
    /\ At(c, "recv")
    /\ Closed(s)
    /\ \E r \in {0, -1} :
        /\ ~open[s] => r = -1
        /\ Step(c, [cl[c] EXCEPT
             !.pc = "unlock",
             !.quit = (cl[c].cmd = "create" /\ r = -1),
             !.extra = IF cl[c].cmd = "create" /\ r = 0 THEN 1 ELSE 0,
             !.answer = IF cl[c].op = "deletefile" /\ r = 0 THEN "YES" ELSE @])
    /\ UNCHANGED <<locks, red, available, network, rd, wpc>>

Unlock(c) ==
    /\ At(c, "unlock")
    /\ V(c, cl[c].srv)
    /\ Step(c, [cl[c] EXCEPT !.pc = IF cl[c].extra > 0 THEN "extra" ELSE "after"])
    /\ UNCHANGED <<red, available, network, rd, wpc>>

\* A sem_post with no sem_wait of its own.
Extra(c) ==
    /\ At(c, "extra")
    /\ V(c, cl[c].srv)
    /\ Step(c, [cl[c] EXCEPT !.pc = "after", !.extra = 0])
    /\ UNCHANGED <<red, available, network, rd, wpc>>

\* copyfile: the acknowledgement read after the lock was given back.
LateAck(c) ==
    LET s == cl[c].srv IN
    /\ At(c, "late")
    /\ \/ open[s] /\ rep[s] # <<>> /\ Take(s)
       \/ Closed(s) /\ UNCHANGED rep
    /\ Step(c, [cl[c] EXCEPT !.pc = "finish", !.answer = "YES"])
    /\ UNCHANGED <<locks, red, available, alive, open, req, made, rd, wpc>>

-----------------------------------------------------------------------------
(* What a handler does after an exchange.                                   *)

\* The next entry of a directory being deleted or copied, or the final answer.
NextEntry(c, cmd) ==
    IF Len(cl[c].todo) > 1
    THEN Begin(c, cmd, cl[c].todo[2].at, Tail(cl[c].todo))
    ELSE Step(c, [cl[c] EXCEPT !.pc = "finish", !.answer = "YES"])

\* create, deletefile, read, write and info return; so does a copydir whose
\* create failed.
Return(c) ==
    /\ cl[c].quit \/ cl[c].op \notin {"deletedir", "copyfile", "copydir"}
    /\ Step(c, [cl[c] EXCEPT !.pc = "finish"])

DeleteDirNext(c) ==
    /\ cl[c].op = "deletedir"
    /\ NextEntry(c, "delete")

CopyFileNext(c) ==
    /\ cl[c].op = "copyfile"
    /\ IF cl[c].cmd = "copyread"
       THEN Begin(c, "copywrite", cl[c].todo[2].at, Tail(cl[c].todo))
       ELSE Step(c, [cl[c] EXCEPT !.pc = "late"])

\* copydir: read an entry, create its copy on an available server, write it.
\* A copy with nothing to write skips the write and its sem_wait, and still
\* makes the sem_post after it.
CopyDirNext(c) ==
    LET full == Head(cl[c].todo).full IN
    /\ cl[c].op = "copydir" /\ ~cl[c].quit
    /\ \/ /\ cl[c].cmd = "copyread"
          /\ \E s \in Servers : available[s] /\ Begin(c, "create", s, cl[c].todo)
       \/ /\ cl[c].cmd = "copyread"
          /\ \A s \in Servers : ~available[s]
          /\ NextEntry(c, "copyread")
       \/ /\ cl[c].cmd = "create" /\ full
          /\ Begin(c, "copywrite", cl[c].srv, cl[c].todo)
       \/ /\ cl[c].cmd = "create" /\ ~full
          /\ Step(c, [cl[c] EXCEPT !.pc = "extra", !.extra = 1,
                              !.cmd = "copywrite"])
       \/ /\ cl[c].cmd = "copywrite"
          /\ NextEntry(c, "copyread")

After(c) ==
    /\ At(c, "after")
    /\ Return(c) \/ DeleteDirNext(c) \/ CopyFileNext(c) \/ CopyDirNext(c)
    /\ UNCHANGED <<locks, red, available, network, rd, wpc>>

\* The end of command_proccessor: sem_post(&red_lock), taken or not.
Finish(c) ==
    /\ At(c, "finish")
    /\ red' = Posted(red)
    /\ Step(c, [cl[c] EXCEPT !.pc = "idle"])
    /\ UNCHANGED <<locks, available, network, rd, wpc>>

-----------------------------------------------------------------------------
(* The storage server's side of the connection (NM_runner).                 *)

Serve(s) ==
    LET m == Head(req[s]) IN
    /\ alive[s] /\ req[s] # <<>>
    /\ req' = [req EXCEPT ![s] = Tail(@)]
    /\ \E t \in IF m.kind = "create" /\ "refuse" \in Events THEN {"YES", "NO"} ELSE {"YES"} :
        /\ rep' = [rep EXCEPT ![s] = Append(@, [m EXCEPT !.ticket = t])]
        /\ made' = IF m.kind = "create" /\ t = "YES" THEN [made EXCEPT ![m.by] = TRUE]
                   ELSE made
    /\ UNCHANGED <<locks, red, available, alive, open, cl, rd, wpc>>

Crash(s) ==
    /\ "crash" \in Events
    /\ alive[s]
    /\ alive' = [alive EXCEPT ![s] = FALSE]
    /\ req' = [req EXCEPT ![s] = <<>>]
    /\ UNCHANGED <<locks, red, available, open, rep, made, cl, rd, wpc>>

-----------------------------------------------------------------------------
(* empty_func: sees the server go, takes its lock, marks it down.           *)

WatchEof(s) ==
    /\ wpc[s] = "watch" /\ ~alive[s]
    /\ wpc' = [wpc EXCEPT ![s] = "want"]
    /\ UNCHANGED <<locks, red, available, network, cl, rd>>

WatchLock(s) ==
    /\ wpc[s] = "want"
    /\ P(Watch(s), s)
    /\ wpc' = [wpc EXCEPT ![s] = "mark"]
    /\ UNCHANGED <<red, available, network, cl, rd>>

WatchMark(s) ==
    /\ wpc[s] = "mark"
    /\ available' = [available EXCEPT ![s] = FALSE]
    /\ open' = [open EXCEPT ![s] = FALSE]
    /\ rep' = [rep EXCEPT ![s] = <<>>]
    /\ wpc' = [wpc EXCEPT ![s] = "post"]
    /\ UNCHANGED <<locks, red, alive, req, made, cl, rd>>

WatchPost(s) ==
    /\ wpc[s] = "post"
    /\ V(Watch(s), s)
    /\ wpc' = [wpc EXCEPT ![s] = "gone"]
    /\ UNCHANGED <<red, available, network, cl, rd>>

-----------------------------------------------------------------------------
(* redundant_copy.                                                          *)

RedGo(s, pc) == rd' = [rd EXCEPT ![s].pc = pc]

RedTimer(s) ==
    /\ "timer" \in Events
    /\ rd[s].pc = "sleep"
    /\ RedGo(s, IF available[s] THEN "red" ELSE "gone")
    /\ UNCHANGED <<locks, red, available, network, cl, wpc>>

RedLock(s) ==
    /\ rd[s].pc = "red" /\ red > 0
    /\ red' = red - 1
    /\ RedGo(s, "l1")
    /\ UNCHANGED <<locks, available, network, cl, wpc>>

\* Mutant: the second host's semaphore is forgotten.
RedLockOneHost(s) ==
    /\ \/ rd[s].pc = "l1" /\ P(Red(s), Host1(s)) /\ RedGo(s, "l3")
       \/ /\ rd[s].pc = "l3" /\ P(Red(s), s)
          /\ rd' = [rd EXCEPT ![s] = [@ EXCEPT !.pc = "ask", !.listed = FALSE]]
    /\ UNCHANGED <<red, available, network, cl, wpc>>

\* block_server of the two hosts, then of the server itself.
RedLockServers(s) ==
    /\ \/ rd[s].pc = "l1" /\ P(Red(s), Host1(s)) /\ RedGo(s, "l2")
       \/ rd[s].pc = "l2" /\ P(Red(s), Host2(s)) /\ RedGo(s, "l3")
       \/ /\ rd[s].pc = "l3" /\ P(Red(s), s)
          /\ rd' = [rd EXCEPT ![s] = [@ EXCEPT !.pc = "ask", !.listed = FALSE]]
    /\ UNCHANGED <<red, available, network, cl, wpc>>

\* getMain if the server is believed to be up, then a getsizdir (and perhaps a
\* copyfileread) per entry, all on the server's own connection.  The requests to
\* the hosts have no reply.
RedAsk(s) ==
    /\ rd[s].pc = "ask"
    /\ IF rd[s].listed \/ available[s]
       THEN Ask(s, [by |-> Red(s), kind |-> "red", ticket |-> ""]) /\ RedGo(s, "hear")
       ELSE UNCHANGED req /\ RedGo(s, "u1")
    /\ UNCHANGED <<locks, red, available, alive, open, rep, made, cl, wpc>>

\* From a connection that is gone nothing is read; the listing is then whatever
\* the buffer holds.
RedHear(s) ==
    /\ rd[s].pc = "hear"
    /\ \/ open[s] /\ rep[s] # <<>> /\ Take(s)
       \/ Closed(s) /\ UNCHANGED rep
    /\ \E n \in IF rd[s].listed THEN {rd[s].left} ELSE 0 .. MaxEntries :
         rd' = [rd EXCEPT ![s] = [pc |-> IF n > 0 THEN "ask" ELSE "u1",
                                  left |-> IF n > 0 THEN n - 1 ELSE 0,
                                  listed |-> TRUE]]
    /\ UNCHANGED <<locks, red, available, alive, open, req, made, cl, wpc>>

RedUnlock(s) ==
    /\ \/ rd[s].pc = "u1" /\ V(Red(s), s) /\ RedGo(s, "u2")
       \/ rd[s].pc = "u2" /\ V(Red(s), Host1(s)) /\ RedGo(s, "u3")
       \/ rd[s].pc = "u3" /\ V(Red(s), Host2(s)) /\ RedGo(s, "u4")
    /\ UNCHANGED <<red, available, network, cl, wpc>>

\* Mutant: red_lock is not given back.
RedKeep(s) ==
    /\ rd[s].pc = "u4"
    /\ RedGo(s, "sleep")
    /\ UNCHANGED <<locks, red, available, network, cl, wpc>>

RedPost(s) ==
    /\ rd[s].pc = "u4"
    /\ red' = Posted(red)
    /\ RedGo(s, "sleep")
    /\ UNCHANGED <<locks, available, network, cl, wpc>>

-----------------------------------------------------------------------------
\* A handler's own steps once it has a command.
Handle(c) ==
    \/ TryRed(c) \/ Lookup(c) \/ Lock(c) \/ Tell(c) \/ Stop(c)
    \/ Send(c) \/ SendFails(c) \/ Recv(c) \/ RecvClosed(c)
    \/ Unlock(c) \/ Extra(c) \/ LateAck(c) \/ After(c) \/ Finish(c)

Watcher(s) == WatchEof(s) \/ WatchLock(s) \/ WatchMark(s) \/ WatchPost(s)

Redundancy(s) ==
    \/ RedTimer(s) \/ RedLock(s) \/ RedLockServers(s)
    \/ RedAsk(s) \/ RedHear(s) \/ RedUnlock(s) \/ RedPost(s)

Next ==
    \/ \E c \in Clients : Handle(c) \/ \E o \in Ops : Receive(c, o)
    \/ \E s \in Servers : Serve(s) \/ Crash(s) \/ Watcher(s) \/ Redundancy(s)

Spec == Init /\ [][Next]_vars

\* Threads run and storage servers answer.  A thread waiting for a semaphore
\* gets it if it is free again and again: every client thread sleeps a second
\* after a command and every redundancy thread two minutes after a round.
Fairness ==
    /\ \A c \in Clients : WF_vars(Handle(c)) /\ SF_vars(Lock(c))
    /\ \A s \in Up :
        /\ WF_vars(Serve(s)) /\ WF_vars(Watcher(s)) /\ SF_vars(WatchLock(s))
        /\ WF_vars(Redundancy(s)) /\ SF_vars(RedLock(s)) /\ SF_vars(RedLockServers(s))

FairSpec == Spec /\ Fairness

-----------------------------------------------------------------------------
(* Properties.                                                              *)

\* The entry a handler goes on to is in its queue.
QueueInv ==
    \A c \in Clients :
        /\ cl[c].op = "copyfile" /\ cl[c].cmd = "copyread" => Len(cl[c].todo) = 2
        /\ cl[c].op = "copydir" /\ cl[c].cmd # "none" => cl[c].todo # <<>>

TypeInv == TypeOK /\ QueueInv

\* Conditions under which every sem_post has its sem_wait: no create can lose
\* its storage server half-way, and no copied directory has an empty file.
Balanced ==
    /\ "crash" \in Events => Ops \cap {"create", "copydir"} = {}
    /\ "empty" \in Events => "copydir" \notin Ops

\* Never do two threads use one storage server's connection at a time
\* (Naming_server.c:646: "we need to make server busy so that no other client
\* can use it"); and the semaphore never promises a second thread entry.
ExclusiveAccess ==
    \A s \in Servers :
        /\ \A t, u \in holders[s] : t = u
        /\ holders[s] # {} => sem[s] = 0

\* A thread that waits for its next command, or has finished its round, holds
\* no storage server: every path through a handler gives the lock back.
NoLockLeak ==
    \A s \in Servers :
        /\ \A c \in Clients : At(c, "idle") => c \notin holders[s]
        /\ rd[s].pc \in {"sleep", "gone"} => \A x \in Servers : Red(s) \notin holders[x]
        /\ wpc[s] \in {"watch", "gone"} => Watch(s) \notin holders[s]

\* Nor is the lock given back twice: a free server's semaphore is exactly 1.
LockConserved ==
    \A s \in Servers : sem[s] = 1 - Cardinality(holders[s])

\* A client is told that its create succeeded only if a storage server ran that
\* very create with success: no handler consumes another's acknowledgement.
CreateAnswerTrue ==
    \A c \in Clients : cl[c].op = "create" /\ cl[c].answer = "YES" => made[c]

\* A replication round reads a server and rewrites two replicas while it has all
\* three servers to itself.
RoundIsolated ==
    \A s \in Servers : rd[s].pc \in {"ask", "hear"} =>
        \A x \in {s, Host1(s), Host2(s)} : holders[x] = {Red(s)}

\* Every command is answered, and its thread turns to the next one
\* (DOCUMENTATION.txt:36, "ACK packet to confirm the action completion or not").
CommandAnswered ==
    \A c \in Clients : At(c, "try") ~> (At(c, "idle") /\ cl[c].answer # "none")

\* Every redundancy round that starts ends.
RoundEnds ==
    \A s \in Servers : rd[s].pc = "red" ~> rd[s].pc = "sleep"

\* A storage server that went away is eventually taken out of server_available,
\* whatever handlers were in the middle of an exchange with it.
DeadServerMarkedDown ==
    \A s \in Up : ~alive[s] ~> ~available[s]

-----------------------------------------------------------------------------
(* The inductive invariant behind ExclusiveAccess and RoundIsolated, for     *)
(* environments in which waits and posts are balanced.                       *)

\* A binary semaphore: its token is either in it or with the one holder.
LockInv ==
    \A s \in Servers :
        /\ sem[s] = IF holders[s] = {} THEN 1 ELSE 0
        /\ \A t, u \in holders[s] : t = u

\* A handler between its sem_wait and its sem_post holds its server, and never
\* comes to a post without a wait.
HandlerInv(c) ==
    /\ cl[c].pc \in {"send", "recv", "tell", "stop", "unlock"} => c \in holders[cl[c].srv]
    /\ cl[c].extra = 0 /\ cl[c].pc # "extra"
    /\ cl[c].cmd = "create" => cl[c].op \in {"create", "copydir"}
    /\ cl[c].op = "copydir" => \A i \in 1 .. Len(cl[c].todo) : cl[c].todo[i].full

\* The redundancy thread takes its servers in the order Host1, Host2, s and
\* gives them back in the order s, Host1, Host2.
RoundInv(s) ==
    /\ rd[s].pc \in {"l2", "l3", "ask", "hear", "u1", "u2"} => Red(s) \in holders[Host1(s)]
    /\ rd[s].pc \in {"l3", "ask", "hear", "u1", "u2", "u3"} => Red(s) \in holders[Host2(s)]
    /\ rd[s].pc \in {"ask", "hear", "u1"} => Red(s) \in holders[s]

WatchInv(s) ==
    /\ wpc[s] \in {"mark", "post"} => Watch(s) \in holders[s]
    /\ "crash" \notin Events => (open[s] => alive[s])

IInv ==
    /\ TypeInv
    /\ LockInv
    /\ \A c \in Clients : HandlerInv(c)
    /\ \A s \in Servers : RoundInv(s) /\ WatchInv(s)

\* Conditions under which a handler that took a storage server gives it back: it
\* is not refused a create and loses no client while it answers.
Returning == Balanced /\ Events \cap {"refuse", "senderr"} = {}

\* Thread t is between its sem_wait and its sem_post on server s.
Inside(t, s) ==
    \/ /\ t \in Clients /\ cl[t].srv = s
       /\ cl[t].pc \in {"send", "recv", "tell", "stop", "unlock"}
    \/ t = Watch(s) /\ wpc[s] \in {"mark", "post"}
    \/ \E x \in Servers :
        /\ t = Red(x)
        /\ \/ s = x /\ rd[x].pc \in {"ask", "hear", "u1"}
           \/ s = Host1(x) /\ rd[x].pc \in {"l2", "l3", "ask", "hear", "u1", "u2"}
           \/ s = Host2(x) /\ rd[x].pc \in {"l3", "ask", "hear", "u1", "u2", "u3"}

\* What a storage server says where it refuses nothing.
Agreed == {m \in Messages : m.ticket = "YES"}

HeldInv ==
    /\ \A s \in Servers : \A t \in holders[s] : Inside(t, s)
    /\ rep \in [Servers -> Seq(Agreed)]
=============================================================================
