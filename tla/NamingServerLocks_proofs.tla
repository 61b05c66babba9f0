---------------------- MODULE NamingServerLocks_proofs ----------------------
(***************************************************************************)
(* Exclusive use of a storage server's connection, and the isolation of a  *)
(* redundancy round, in every environment in which waits and posts are     *)
(* balanced (Balanced); and no handler leaves with a lock (Returning).     *)
(***************************************************************************)
EXTENDS NamingServer_proofs, FiniteSetTheorems

\* Holders other than t keep what they hold.
Keeps(t) == \A x \in Servers : \A u \in holders[x] : u # t => u \in holders'[x]

\* sem_wait by t: it becomes the only holder.
LEMMA WaitKeeps ==
    ASSUME TypeOK, LockInv, NEW t \in Threads, NEW s \in Servers, P(t, s)
    PROVE  /\ LockInv' /\ Keeps(t)
           /\ t \in holders'[s]
           /\ \A x \in Servers : t \in holders[x] => t \in holders'[x]
  <1>1. sem \in [Servers -> 0 .. SemMax] /\ holders \in [Servers -> SUBSET Threads]
    BY DEF TypeOK
  <1>2. sem[s] = 1 /\ holders[s] = {}
    BY <1>1, BoundAssumption DEF P, LockInv
  <1>3. /\ sem' = [sem EXCEPT ![s] = 0]
        /\ holders' = [holders EXCEPT ![s] = {t}]
    BY <1>1, <1>2 DEF P
  <1>4. LockInv'
    BY <1>1, <1>3 DEF LockInv
  <1>. QED BY <1>1, <1>2, <1>3, <1>4 DEF Keeps

\* sem_post by a holder: nobody holds the server, its token is back.
LEMMA PostKeeps ==
    ASSUME TypeOK, LockInv, NEW t \in Threads, NEW s \in Servers, t \in holders[s], V(t, s)
    PROVE  /\ LockInv' /\ Keeps(t)
           /\ \A x \in Servers : x # s => holders'[x] = holders[x]
  <1>1. sem \in [Servers -> 0 .. SemMax] /\ holders \in [Servers -> SUBSET Threads]
    BY DEF TypeOK
  <1>2. sem[s] = 0 /\ holders[s] = {t}
    BY DEF LockInv
  <1>3. /\ sem' = [sem EXCEPT ![s] = 1]
        /\ holders' = [holders EXCEPT ![s] = {}]
    <2>1. Posted(sem[s]) = 1
      BY <1>2, BoundAssumption DEF Posted
    <2>2. holders[s] \ {t} = {}
      BY <1>2
    <2>. QED BY <2>1, <2>2 DEF V
  <1>4. LockInv'
    BY <1>1, <1>3 DEF LockInv
  <1>. QED BY <1>1, <1>2, <1>3, <1>4 DEF Keeps

\* What does not touch the locks keeps them.
LEMMA UnchangedKeeps ==
    ASSUME LockInv, UNCHANGED locks
    PROVE  LockInv' /\ \A t : Keeps(t)
BY DEF LockInv, locks, Keeps

\* A client's step does not disturb the other threads.
LEMMA ClientFrame ==
    ASSUME TypeOK, NEW c \in Clients, Keeps(c), UNCHANGED <<rd, wpc, alive, open>>,
           \A s \in Servers : RoundInv(s) /\ WatchInv(s)
    PROVE  \A s \in Servers : RoundInv(s)' /\ WatchInv(s)'
  <1>. SUFFICES ASSUME NEW s \in Servers PROVE RoundInv(s)' /\ WatchInv(s)'
    OBVIOUS
  <1>1. Red(s) # c /\ Watch(s) # c
    BY ThreadsAssumption
  <1>2. Host1(s) \in Servers /\ Host2(s) \in Servers
    BY HostsAreServers
  <1>3. \A x \in Servers : /\ Red(s) \in holders[x] => Red(s) \in holders'[x]
                           /\ Watch(s) \in holders[x] => Watch(s) \in holders'[x]
    BY <1>1 DEF Keeps
  <1>. QED BY <1>2, <1>3 DEF RoundInv, WatchInv

\* What a client's step must establish for the invariant of all handlers.
LEMMA HandlerFrame ==
    ASSUME TypeOK, NEW c \in Clients, NEW r, Step(c, r), Keeps(c),
           \A d \in Clients : HandlerInv(d), HandlerInv(c)'
    PROVE  \A d \in Clients : HandlerInv(d)'
  <1>. SUFFICES ASSUME NEW d \in Clients, d # c PROVE HandlerInv(d)'
    OBVIOUS
  <1>1. cl'[d] = cl[d] /\ cl[d].srv \in Servers
    BY DEF TypeOK, Step, ClientState
  <1>2. \A x \in Servers : d \in holders[x] => d \in holders'[x]
    BY DEF Keeps
  <1>. QED BY <1>1, <1>2 DEF HandlerInv

\* A redundancy thread's or a watcher's step leaves the handlers as they are.
LEMMA ServerFrame ==
    ASSUME TypeOK, NEW s \in Servers, NEW t \in {Red(s), Watch(s)}, Keeps(t), UNCHANGED cl,
           \A c \in Clients : HandlerInv(c)
    PROVE  \A c \in Clients : HandlerInv(c)'
  <1>. SUFFICES ASSUME NEW c \in Clients PROVE HandlerInv(c)'
    OBVIOUS
  <1>1. c # t /\ cl[c].srv \in Servers
    BY ThreadsAssumption DEF TypeOK, ClientState
  <1>2. \A x \in Servers : c \in holders[x] => c \in holders'[x]
    BY <1>1 DEF Keeps
  <1>. QED BY <1>1, <1>2 DEF HandlerInv

\* A step that leaves the locks alone and moves c within what it holds.
LEMMA MoveInv ==
    ASSUME TypeOK, NEW c \in Clients, NEW r, Step(c, r), UNCHANGED locks, HandlerInv(c),
           r.pc \in {"send", "recv", "tell", "stop", "unlock"} =>
              /\ cl[c].pc \in {"send", "recv", "tell", "stop", "unlock"}
              /\ r.srv = cl[c].srv,
           r.extra = 0, r.pc # "extra",
           r.cmd = "create" => r.op \in {"create", "copydir"},
           r.op = "copydir" => \A i \in 1 .. Len(r.todo) : r.todo[i].full
    PROVE  HandlerInv(c)'
  <1>1. cl'[c] = r /\ holders' = holders
    BY DEF TypeOK, Step, locks
  <1>. QED BY <1>1 DEF HandlerInv

\* The locals of a handler and the entries it works through.
LEMMA Locals ==
    ASSUME TypeOK, NEW c \in Clients
    PROVE  /\ cl[c] \in ClientState /\ cl[c].srv \in Servers
           /\ cl[c].todo \in Seq(Entries) /\ c \in Threads
BY DEF TypeOK, ClientState, Threads

\* A step that leaves the locks, the operation and the entries alone, and does
\* not enter the section between a wait and its post.
LEMMA QuietInv ==
    ASSUME TypeOK, NEW c \in Clients, UNCHANGED locks, HandlerInv(c)
    PROVE  /\ \A pc \in {"lookup", "idle", "late", "finish"} : \A a, q :
                /\ Step(c, [cl[c] EXCEPT !.pc = pc]) => HandlerInv(c)'
                /\ Step(c, [cl[c] EXCEPT !.pc = pc, !.answer = a]) => HandlerInv(c)'
                /\ Step(c, [cl[c] EXCEPT !.pc = pc, !.answer = a, !.quit = q]) => HandlerInv(c)'
           /\ cl[c].pc \in {"send", "recv", "tell", "stop"} =>
                \A pc \in {"recv", "stop", "unlock", "finish"} : \A a, q :
                /\ Step(c, [cl[c] EXCEPT !.pc = pc]) => HandlerInv(c)'
                /\ Step(c, [cl[c] EXCEPT !.pc = pc, !.answer = a]) => HandlerInv(c)'
                /\ Step(c, [cl[c] EXCEPT !.pc = pc, !.quit = q]) => HandlerInv(c)'
                /\ Step(c, [cl[c] EXCEPT !.pc = pc, !.answer = a, !.quit = q]) => HandlerInv(c)'
  <1>1. cl[c] \in ClientState
    BY Locals
  <1>2. ASSUME NEW r, Step(c, r), r.op = cl[c].op, r.cmd = cl[c].cmd, r.todo = cl[c].todo,
               r.srv = cl[c].srv, r.extra = cl[c].extra, r.pc # "extra",
               r.pc \in {"send", "recv", "tell", "stop", "unlock"} =>
                  cl[c].pc \in {"send", "recv", "tell", "stop", "unlock"}
        PROVE  HandlerInv(c)'
    BY <1>2, MoveInv DEF HandlerInv
  <1>. QED BY <1>1, <1>2 DEF ClientState

\* A handler that turns to a server: it holds nothing of the section yet.
LEMMA BeginInv ==
    ASSUME TypeOK, NEW c \in Clients, UNCHANGED locks, HandlerInv(c),
           NEW cmd, NEW s, NEW todo, Begin(c, cmd, s, todo),
           cmd = "create" => cl[c].op \in {"create", "copydir"},
           cl[c].op = "copydir" => \A i \in 1 .. Len(todo) : todo[i].full
    PROVE  HandlerInv(c)'
  <1> DEFINE r == [cl[c] EXCEPT !.pc = "lock", !.cmd = cmd, !.srv = s, !.todo = todo]
  <1>1. cl[c] \in ClientState
    BY Locals
  <1>2. /\ r.pc = "lock" /\ r.cmd = cmd /\ r.todo = todo
        /\ r.op = cl[c].op /\ r.extra = cl[c].extra
    BY <1>1 DEF ClientState
  <1>3. Step(c, r)
    BY DEF Begin
  <1>. HIDE DEF r
  <1>. QED BY <1>2, <1>3, MoveInv DEF HandlerInv

LEMMA LookupInv ==
    ASSUME TypeOK, Balanced, NEW c \in Clients, HandlerInv(c), Lookup(c)
    PROVE  HandlerInv(c)'
  <1>1. UNCHANGED locks /\ cl[c] \in ClientState
    BY Locals DEF Lookup
  <1>2. \A a : /\ Step(c, [cl[c] EXCEPT !.pc = "finish"]) => HandlerInv(c)'
               /\ Step(c, [cl[c] EXCEPT !.pc = "finish", !.answer = a]) => HandlerInv(c)'
    BY <1>1, QuietInv
  <1>3. ASSUME NEW cmd, NEW s, NEW todo, Begin(c, cmd, s, todo),
               cmd = "create" => cl[c].op = "create", cl[c].op # "copydir"
        PROVE  HandlerInv(c)'
    BY <1>1, <1>3, BeginInv
  <1>4. CASE AnswerAtOnce(c)
    BY <1>2, <1>4 DEF AnswerAtOnce
  <1>5. CASE CreateLookup(c)
    BY <1>2, <1>3, <1>5 DEF CreateLookup
  <1>6. CASE DeleteLookup(c)
    BY <1>3, <1>6 DEF DeleteLookup
  <1>7. CASE AccessLookup(c)
    BY <1>3, <1>7 DEF AccessLookup
  <1>8. CASE CopyFileLookup(c)
    <2>1. cl[c].op = "copyfile" /\ \E s, todo : Begin(c, "copyread", s, todo)
      BY <1>8 DEF CopyFileLookup
    <2>. QED BY <1>3, <2>1
  <1>9. CASE CopyDirLookup(c)
    <2>1. cl[c].op = "copydir" /\ "empty" \notin Events
      <3>1. cl[c].op = "copydir"
        BY <1>9 DEF CopyDirLookup
      <3>2. "copydir" \in Ops
        BY <1>1, <3>1 DEF ClientState
      <3>. QED BY <3>1, <3>2 DEF Balanced
    <2>2. PICK n \in 0 .. MaxEntries : \E q \in [1 .. n -> Entries] :
             /\ \A i \in 1 .. n : q[i].full
             /\ IF n = 0 THEN Step(c, [cl[c] EXCEPT !.pc = "finish", !.answer = "YES"])
                ELSE Begin(c, "copyread", q[1].at, q)
      BY <1>9, <2>1 DEF CopyDirLookup
    <2>3. PICK q \in [1 .. n -> Entries] :
             /\ \A i \in 1 .. n : q[i].full
             /\ IF n = 0 THEN Step(c, [cl[c] EXCEPT !.pc = "finish", !.answer = "YES"])
                ELSE Begin(c, "copyread", q[1].at, q)
      BY <2>2
    <2>4. Len(q) = n
      BY BoundAssumption
    <2>. QED BY <1>1, <1>2, <2>1, <2>3, <2>4, BeginInv
  <1>. QED BY <1>4, <1>5, <1>6, <1>7, <1>8, <1>9 DEF Lookup

LEMMA AfterInv ==
    ASSUME TypeInv, NEW c \in Clients, HandlerInv(c), After(c)
    PROVE  HandlerInv(c)'
  <1>1. TypeOK /\ UNCHANGED locks
    BY DEF TypeInv, After
  <1>2. cl[c].todo \in Seq(Entries) /\ cl[c] \in ClientState
    BY <1>1, Locals
  <1>3. \A a : /\ Step(c, [cl[c] EXCEPT !.pc = "finish"]) => HandlerInv(c)'
               /\ Step(c, [cl[c] EXCEPT !.pc = "late"]) => HandlerInv(c)'
               /\ Step(c, [cl[c] EXCEPT !.pc = "finish", !.answer = a]) => HandlerInv(c)'
    BY <1>1, QuietInv
  <1>4. ASSUME NEW cmd, cmd # "create", NextEntry(c, cmd) PROVE HandlerInv(c)'
    <2>1. CASE Len(cl[c].todo) > 1 /\ Begin(c, cmd, cl[c].todo[2].at, Tail(cl[c].todo))
      <3>1. cl[c].op = "copydir" =>
              \A i \in 1 .. Len(Tail(cl[c].todo)) : Tail(cl[c].todo)[i].full
        BY <1>2, <2>1 DEF HandlerInv
      <3>. QED BY <1>1, <1>4, <2>1, <3>1, BeginInv
    <2>2. CASE Step(c, [cl[c] EXCEPT !.pc = "finish", !.answer = "YES"])
      BY <1>3, <2>2
    <2>. QED BY <1>4, <2>1, <2>2 DEF NextEntry
  <1>5. CASE Return(c)
    BY <1>3, <1>5 DEF Return
  <1>6. CASE DeleteDirNext(c)
    BY <1>4, <1>6 DEF DeleteDirNext
  <1>7. CASE CopyFileNext(c)
    <2>1. CASE \E s, todo : Begin(c, "copywrite", s, todo)
      BY <1>1, <1>7, <2>1, BeginInv DEF CopyFileNext
    <2>2. CASE Step(c, [cl[c] EXCEPT !.pc = "late"])
      BY <1>3, <2>2
    <2>. QED BY <1>7, <2>1, <2>2 DEF CopyFileNext
  <1>8. CASE CopyDirNext(c)
    <2>1. cl[c].op = "copydir" /\ \A i \in 1 .. Len(cl[c].todo) : cl[c].todo[i].full
      BY <1>8 DEF CopyDirNext, HandlerInv
    <2>2. ASSUME NEW cmd, NEW s, Begin(c, cmd, s, cl[c].todo) PROVE HandlerInv(c)'
      BY <1>1, <2>1, <2>2, BeginInv
    <2>3. cl[c].cmd # "none" => Head(cl[c].todo).full
      BY <1>2, <2>1 DEF TypeInv, QueueInv
    <2>4. \/ \E cmd, s : Begin(c, cmd, s, cl[c].todo)
          \/ NextEntry(c, "copyread")
      BY <1>8, <2>3 DEF CopyDirNext
    <2>. QED BY <1>4, <2>2, <2>4
  <1>. QED BY <1>5, <1>6, <1>7, <1>8 DEF After

\* With waits and posts balanced, no handler reads an end of file from a server
\* it asked to create something.
LEMMA NoSurplus ==
    ASSUME TypeOK, Balanced, NEW c \in Clients, HandlerInv(c), WatchInv(cl[c].srv),
           RecvClosed(c)
    PROVE  \E q, a : Step(c, [cl[c] EXCEPT !.pc = "unlock", !.quit = q, !.extra = 0, !.answer = a])
  <1>1. cl[c] \in ClientState /\ cl[c].srv \in Servers
    BY Locals
  <1>2. PICK r \in {0, -1} :
           /\ ~open[cl[c].srv] => r = -1
           /\ Step(c, [cl[c] EXCEPT
             !.pc = "unlock",
             !.quit = (cl[c].cmd = "create" /\ r = -1),
             !.extra = IF cl[c].cmd = "create" /\ r = 0 THEN 1 ELSE 0,
             !.answer = IF cl[c].op = "deletefile" /\ r = 0 THEN "YES" ELSE @])
    BY Zenon DEF RecvClosed
  <1>3. ~(cl[c].cmd = "create" /\ r = 0)
    <2>. SUFFICES ASSUME cl[c].cmd = "create", r = 0 PROVE FALSE
      OBVIOUS
    <2>1. cl[c].op \in {"create", "copydir"} /\ cl[c].op \in Ops
      BY <1>1 DEF HandlerInv, ClientState
    <2>2. "crash" \notin Events
      BY <2>1 DEF Balanced
    <2>3. open[cl[c].srv] /\ alive[cl[c].srv]
      BY <1>2, <2>2 DEF WatchInv
    <2>. QED BY <2>3 DEF RecvClosed, Closed
  <1>. QED BY <1>2, <1>3

\* One step of a handler: it keeps its own part of the invariant, the
\* semaphores, and what the other threads hold.
LEMMA HandlerStep ==
    ASSUME IInv, Balanced, NEW c \in Clients, Handle(c) \/ \E o \in Ops : Receive(c, o)
    PROVE  LockInv' /\ Keeps(c) /\ HandlerInv(c)'
  <1>1. /\ TypeInv /\ TypeOK /\ LockInv /\ HandlerInv(c)
        /\ cl[c] \in ClientState /\ cl[c].srv \in Servers /\ c \in Threads
        /\ WatchInv(cl[c].srv)
    BY Locals DEF IInv, TypeInv
  <1>2. UNCHANGED locks => LockInv' /\ Keeps(c)
    BY <1>1, UnchangedKeeps
  <1>3. ASSUME NEW o \in Ops, Receive(c, o) PROVE HandlerInv(c)' /\ UNCHANGED locks
    <2> DEFINE r == [cl[c] EXCEPT !.pc = "try", !.op = o, !.cmd = "none",
                                  !.todo = <<>>, !.quit = FALSE, !.answer = "none"]
    <2>1. r.pc = "try" /\ r.cmd = "none" /\ r.todo = <<>> /\ r.extra = cl[c].extra
      BY <1>1 DEF ClientState
    <2>2. Step(c, r) /\ UNCHANGED locks
      BY <1>3 DEF Receive
    <2>. HIDE DEF r
    <2>. QED BY <1>1, <2>1, <2>2, MoveInv DEF HandlerInv
  <1>4. CASE TryRed(c) \/ Finish(c) \/ LateAck(c)
    BY <1>1, <1>2, <1>4, QuietInv DEF TryRed, Finish, LateAck
  <1>5. CASE Lookup(c)
    BY <1>1, <1>2, <1>5, LookupInv DEF Lookup
  <1>6. CASE After(c)
    BY <1>1, <1>2, <1>6, AfterInv DEF After
  <1>7. CASE Tell(c) \/ Stop(c) \/ Send(c) \/ SendFails(c)
    BY <1>1, <1>2, <1>7, QuietInv DEF Tell, Stop, Send, SendFails, At
  <1>8. CASE Recv(c)
    BY <1>1, <1>2, <1>8, QuietInv DEF Recv, CreateAccepted, CreateRefused, At
  <1>9. CASE RecvClosed(c)
    <2>1. PICK q, a : Step(c, [cl[c] EXCEPT !.pc = "unlock", !.quit = q, !.extra = 0,
                                            !.answer = a])
      BY <1>1, <1>9, NoSurplus DEF IInv
    <2> DEFINE r == [cl[c] EXCEPT !.pc = "unlock", !.quit = q, !.extra = 0, !.answer = a]
    <2>2. /\ r.pc = "unlock" /\ r.extra = 0 /\ r.op = cl[c].op /\ r.cmd = cl[c].cmd
          /\ r.todo = cl[c].todo /\ r.srv = cl[c].srv
      BY <1>1 DEF ClientState
    <2>3. Step(c, r) /\ UNCHANGED locks /\ cl[c].pc = "recv"
      BY <1>9, <2>1 DEF RecvClosed, At
    <2>. HIDE DEF r
    <2>. QED BY <1>1, <1>2, <2>2, <2>3, MoveInv DEF HandlerInv
  <1>10. CASE Lock(c)
    <2>1. LockInv' /\ Keeps(c) /\ c \in holders'[cl[c].srv]
      BY <1>1, <1>10, WaitKeeps DEF Lock
    <2>2. PICK pc \in {"tell", "send"} : Step(c, [cl[c] EXCEPT !.pc = pc])
      BY <1>10, Zenon DEF Lock
    <2>3. cl'[c] = [cl[c] EXCEPT !.pc = pc]
      BY <1>1, <2>2 DEF Step, TypeOK
    <2>. QED BY <1>1, <2>1, <2>3 DEF HandlerInv, ClientState
  <1>11. CASE Unlock(c)
    <2>1. LockInv' /\ Keeps(c)
      BY <1>1, <1>11, PostKeeps DEF Unlock, At, HandlerInv
    <2>2. Step(c, [cl[c] EXCEPT !.pc = "after"])
      BY <1>1, <1>11 DEF Unlock, HandlerInv
    <2>3. cl'[c] = [cl[c] EXCEPT !.pc = "after"]
      BY <1>1, <2>2 DEF Step, TypeOK
    <2>. QED BY <1>1, <2>1, <2>3 DEF HandlerInv, ClientState
  <1>12. ~Extra(c)
    BY <1>1 DEF Extra, At, HandlerInv
  <1>. QED BY <1>2, <1>3, <1>4, <1>5, <1>6, <1>7, <1>8, <1>9, <1>10, <1>11, <1>12 DEF Handle

\* A step of server s's redundancy thread or watcher leaves the round of every
\* other server, and its watcher, as they were.
LEMMA OthersFrame ==
    ASSUME TypeOK, NEW s \in Servers, NEW t \in {Red(s), Watch(s)}, Keeps(t),
           NEW x \in Servers, x # s, rd'[x] = rd[x], wpc'[x] = wpc[x],
           open'[x] = open[x], alive'[x] = alive[x], RoundInv(x), WatchInv(x)
    PROVE  RoundInv(x)' /\ WatchInv(x)'
  <1>1. Red(x) # t /\ Watch(x) # t
    BY DEF Red, Watch
  <1>2. Host1(x) \in Servers /\ Host2(x) \in Servers
    BY HostsAreServers
  <1>3. \A y \in Servers : /\ Red(x) \in holders[y] => Red(x) \in holders'[y]
                           /\ Watch(x) \in holders[y] => Watch(x) \in holders'[y]
    BY <1>1 DEF Keeps
  <1>. QED BY <1>2, <1>3 DEF RoundInv, WatchInv

\* The watcher of a server.
LEMMA WatcherStep ==
    ASSUME IInv, NEW s \in Servers, Watcher(s)
    PROVE  /\ LockInv' /\ Keeps(Watch(s)) /\ RoundInv(s)' /\ WatchInv(s)'
           /\ UNCHANGED <<cl, rd, alive>>
           /\ \A x \in Servers : x # s => wpc'[x] = wpc[x] /\ open'[x] = open[x]
  <1>1. /\ TypeOK /\ LockInv /\ RoundInv(s) /\ WatchInv(s)
        /\ Watch(s) \in Threads /\ Red(s) # Watch(s)
        /\ Host1(s) \in Servers /\ Host2(s) \in Servers
    BY HostsAreServers DEF IInv, TypeInv, Threads, Red, Watch
  <1>2. CASE WatchEof(s) \/ WatchMark(s)
    <2>1. LockInv' /\ Keeps(Watch(s)) /\ holders' = holders
      BY <1>1, <1>2, UnchangedKeeps DEF WatchEof, WatchMark, locks
    <2>. QED BY <1>1, <1>2, <2>1
             DEF WatchEof, WatchMark, network, locks, TypeOK, RoundInv, WatchInv
  <1>3. CASE WatchLock(s) \/ WatchPost(s)
    <2>1. LockInv' /\ Keeps(Watch(s)) /\ (WatchLock(s) => Watch(s) \in holders'[s])
      BY <1>1, <1>3, WaitKeeps, PostKeeps DEF WatchLock, WatchPost, WatchInv
    <2>2. \A x \in Servers : Red(s) \in holders[x] => Red(s) \in holders'[x]
      BY <1>1, <2>1 DEF Keeps
    <2>3. UNCHANGED <<cl, rd, open, alive>>
      BY <1>3 DEF WatchLock, WatchPost, network
    <2>4. RoundInv(s)'
      BY <1>1, <2>2, <2>3 DEF RoundInv
    <2>5. /\ wpc' = [wpc EXCEPT ![s] = IF WatchLock(s) THEN "mark" ELSE "gone"]
      BY <1>3 DEF WatchLock, WatchPost
    <2>6. wpc'[s] \in {"mark", "post"} => Watch(s) \in holders'[s]
      BY <1>1, <2>1, <2>5 DEF TypeOK
    <2>7. WatchInv(s)'
      BY <1>1, <2>3, <2>6 DEF WatchInv
    <2>. QED BY <1>1, <2>1, <2>3, <2>4, <2>5, <2>7 DEF TypeOK
  <1>. QED BY <1>2, <1>3 DEF Watcher

\* The redundancy thread of a server.
LEMMA RoundStep ==
    ASSUME IInv, NEW s \in Servers, Redundancy(s)
    PROVE  /\ LockInv' /\ Keeps(Red(s)) /\ RoundInv(s)' /\ WatchInv(s)'
           /\ UNCHANGED <<cl, wpc, open, alive>>
           /\ \A x \in Servers : x # s => rd'[x] = rd[x]
  <1>1. /\ TypeOK /\ LockInv /\ RoundInv(s) /\ WatchInv(s)
        /\ Red(s) \in Threads /\ Red(s) # Watch(s)
        /\ Host1(s) \in Servers /\ Host2(s) \in Servers
        /\ Host1(s) # s /\ Host2(s) # s /\ Host1(s) # Host2(s)
    BY HostsAreServers, HostsDistinct DEF IInv, TypeInv, Threads, Red, Watch
  <1>2. UNCHANGED <<cl, wpc, open, alive>>
    BY DEF Redundancy, RedTimer, RedLock, RedLockServers, RedAsk, RedHear, RedUnlock,
           RedPost, network
  <1>3. \A x \in Servers : x # s => rd'[x] = rd[x]
    BY <1>1 DEF TypeOK, Redundancy, RedTimer, RedLock, RedLockServers, RedAsk, RedHear,
                RedUnlock, RedPost, RedGo
  <1>4. Keeps(Red(s)) => WatchInv(s)'
    BY <1>1, <1>2 DEF Keeps, WatchInv
  <1>5. ASSUME NEW pc, RedGo(s, pc) PROVE rd'[s].pc = pc
    BY <1>1, <1>5 DEF RedGo, TypeOK, RedState
  <1>6. CASE RedTimer(s) \/ RedLock(s) \/ RedPost(s) \/ RedAsk(s) \/ RedHear(s)
    <2>1. LockInv' /\ Keeps(Red(s)) /\ holders' = holders
      BY <1>1, <1>6, UnchangedKeeps DEF RedTimer, RedLock, RedPost, RedAsk, RedHear, locks
    <2>2. \/ rd'[s].pc \in {"red", "gone", "l1", "sleep"}
          \/ rd[s].pc \in {"ask", "hear"} /\ rd'[s].pc \in {"ask", "hear", "u1"}
      <3>1. CASE RedTimer(s) \/ RedLock(s) \/ RedPost(s)
        BY <1>5, <3>1 DEF RedTimer, RedLock, RedPost
      <3>2. CASE RedAsk(s)
        BY <1>5, <3>2 DEF RedAsk
      <3>3. CASE RedHear(s)
        BY <1>1, <1>5, <3>3 DEF RedHear, TypeOK
      <3>. QED BY <1>6, <3>1, <3>2, <3>3
    <2>3. RoundInv(s)'
      BY <1>1, <2>1, <2>2 DEF RoundInv
    <2>. QED BY <1>2, <1>3, <1>4, <2>1, <2>3
  <1>7. CASE RedLockServers(s)
    <2>1. ASSUME NEW x \in Servers, P(Red(s), x)
          PROVE  /\ LockInv' /\ Keeps(Red(s)) /\ Red(s) \in holders'[x]
                 /\ \A y \in Servers : Red(s) \in holders[y] => Red(s) \in holders'[y]
      BY <1>1, <2>1, WaitKeeps
    <2>2. CASE rd[s].pc = "l1" /\ P(Red(s), Host1(s)) /\ RedGo(s, "l2")
      BY <1>1, <1>2, <1>3, <1>4, <1>5, <2>1, <2>2 DEF RoundInv
    <2>3. CASE rd[s].pc = "l2" /\ P(Red(s), Host2(s)) /\ RedGo(s, "l3")
      BY <1>1, <1>2, <1>3, <1>4, <1>5, <2>1, <2>3 DEF RoundInv
    <2>4. CASE /\ rd[s].pc = "l3" /\ P(Red(s), s)
               /\ rd' = [rd EXCEPT ![s] = [@ EXCEPT !.pc = "ask", !.listed = FALSE]]
      <3>1. rd'[s].pc = "ask"
        BY <1>1, <2>4 DEF TypeOK, RedState
      <3>. QED BY <1>1, <1>2, <1>3, <1>4, <2>1, <2>4, <3>1 DEF RoundInv
    <2>. QED BY <1>7, <2>2, <2>3, <2>4 DEF RedLockServers
  <1>8. CASE RedUnlock(s)
    <2>1. ASSUME NEW x \in Servers, Red(s) \in holders[x], V(Red(s), x)
          PROVE  /\ LockInv' /\ Keeps(Red(s))
                 /\ \A y \in Servers : y # x => holders'[y] = holders[y]
      BY <1>1, <2>1, PostKeeps
    <2>2. CASE rd[s].pc = "u1" /\ V(Red(s), s) /\ RedGo(s, "u2")
      BY <1>1, <1>2, <1>3, <1>4, <1>5, <2>1, <2>2 DEF RoundInv
    <2>3. CASE rd[s].pc = "u2" /\ V(Red(s), Host1(s)) /\ RedGo(s, "u3")
      BY <1>1, <1>2, <1>3, <1>4, <1>5, <2>1, <2>3 DEF RoundInv
    <2>4. CASE rd[s].pc = "u3" /\ V(Red(s), Host2(s)) /\ RedGo(s, "u4")
      BY <1>1, <1>2, <1>3, <1>4, <1>5, <2>1, <2>4 DEF RoundInv
    <2>. QED BY <1>8, <2>2, <2>3, <2>4 DEF RedUnlock
  <1>. QED BY <1>6, <1>7, <1>8 DEF Redundancy

\* At the start every semaphore is 1 and no thread is past one.
LEMMA InitInv == Init => IInv
  <1>. SUFFICES ASSUME Init PROVE IInv
    OBVIOUS
  <1>1. LockInv
    BY DEF Init, LockInv
  <1>2. \A c \in Clients : HandlerInv(c)
    BY DEF Init, HandlerInv
  <1>3. \A s \in Servers : RoundInv(s) /\ WatchInv(s)
    BY DEF Init, RoundInv, WatchInv
  <1>. QED BY <1>1, <1>2, <1>3, InitType DEF IInv

\* A handler's step sets its own locals and no other's.
LEMMA HandlerMoves ==
    ASSUME NEW c \in Clients, Handle(c) \/ \E o \in Ops : Receive(c, o)
    PROVE  \E r : Step(c, r)
  <1>1. CASE Lookup(c)
    BY <1>1 DEF Lookup, AnswerAtOnce, CreateLookup, DeleteLookup, AccessLookup,
                CopyFileLookup, CopyDirLookup, Begin
  <1>2. CASE After(c)
    BY <1>2 DEF After, Return, DeleteDirNext, CopyFileNext, CopyDirNext, NextEntry, Begin
  <1>3. CASE Recv(c)
    BY <1>3 DEF Recv, CreateAccepted, CreateRefused
  <1>. QED BY <1>1, <1>2, <1>3
           DEF Handle, Receive, TryRed, Lock, Tell, Stop, Send, SendFails,
               RecvClosed, Unlock, Extra, LateAck, Finish

\* A client's step keeps the whole invariant.
LEMMA ClientInv ==
    ASSUME IInv, Balanced, NEW c \in Clients, Handle(c) \/ \E o \in Ops : Receive(c, o)
    PROVE  IInv'
  <1>1. TypeOK /\ TypeInv' /\ LockInv' /\ Keeps(c) /\ HandlerInv(c)'
    BY HandlerStep, ClientType, QueueStep DEF IInv, TypeInv
  <1>2. UNCHANGED <<rd, wpc, alive, open>>
    BY DEF Handle, Receive, TryRed, Lookup, Lock, Tell, Stop, Send, SendFails, Recv,
           RecvClosed, Unlock, Extra, LateAck, After, Finish, network
  <1>3. \E r : Step(c, r)
    BY HandlerMoves
  <1>4. \A d \in Clients : HandlerInv(d)'
    BY <1>1, <1>3, HandlerFrame DEF IInv
  <1>5. \A s \in Servers : RoundInv(s)' /\ WatchInv(s)'
    BY <1>1, <1>2, ClientFrame DEF IInv
  <1>. QED BY <1>1, <1>4, <1>5 DEF IInv

\* So does a step of a storage server or of one of the two threads that tend it.
LEMMA ServerInv ==
    ASSUME IInv, NEW s \in Servers, Serve(s) \/ Crash(s) \/ Watcher(s) \/ Redundancy(s)
    PROVE  IInv'
  <1>1. TypeOK /\ LockInv
    BY DEF IInv, TypeInv
  <1>2. UNCHANGED cl
    BY DEF Serve, Crash, Watcher, WatchEof, WatchLock, WatchMark, WatchPost,
           Redundancy, RedTimer, RedLock, RedLockServers, RedAsk, RedHear,
           RedUnlock, RedPost
  <1>3. TypeInv'
    BY <1>2, ServerType DEF IInv, TypeInv, QueueInv
  <1>4. CASE Serve(s) \/ Crash(s)
    <2>1. LockInv' /\ UNCHANGED <<holders, rd, wpc, open>>
      BY <1>1, <1>4, UnchangedKeeps DEF Serve, Crash, locks
    <2>2. "crash" \notin Events => UNCHANGED alive
      BY <1>4 DEF Serve, Crash
    <2>3. \A x \in Servers : RoundInv(x)' /\ WatchInv(x)'
      BY <2>1, <2>2 DEF IInv, RoundInv, WatchInv
    <2>4. \A c \in Clients : HandlerInv(c)'
      BY <1>2, <2>1 DEF IInv, HandlerInv
    <2>. QED BY <1>3, <2>1, <2>3, <2>4 DEF IInv
  <1>5. CASE Watcher(s)
    <2>1. /\ LockInv' /\ Keeps(Watch(s)) /\ RoundInv(s)' /\ WatchInv(s)'
          /\ UNCHANGED <<rd, alive>>
          /\ \A x \in Servers : x # s => wpc'[x] = wpc[x] /\ open'[x] = open[x]
      BY <1>5, WatcherStep
    <2>2. \A x \in Servers : RoundInv(x)' /\ WatchInv(x)'
      BY <1>1, <2>1, OthersFrame DEF IInv
    <2>3. \A c \in Clients : HandlerInv(c)'
      BY <1>1, <1>2, <2>1, ServerFrame DEF IInv
    <2>. QED BY <1>3, <2>1, <2>2, <2>3 DEF IInv
  <1>6. CASE Redundancy(s)
    <2>1. /\ LockInv' /\ Keeps(Red(s)) /\ RoundInv(s)' /\ WatchInv(s)'
          /\ UNCHANGED <<wpc, open, alive>>
          /\ \A x \in Servers : x # s => rd'[x] = rd[x]
      BY <1>6, RoundStep
    <2>2. \A x \in Servers : RoundInv(x)' /\ WatchInv(x)'
      BY <1>1, <2>1, OthersFrame DEF IInv
    <2>3. \A c \in Clients : HandlerInv(c)'
      BY <1>1, <1>2, <2>1, ServerFrame DEF IInv
    <2>. QED BY <1>3, <2>1, <2>2, <2>3 DEF IInv
  <1>. QED BY <1>4, <1>5, <1>6

LEMMA InvStep == Balanced /\ IInv /\ [Next]_vars => IInv'
  <1>. SUFFICES ASSUME Balanced, IInv, [Next]_vars PROVE IInv'
    OBVIOUS
  <1>1. CASE UNCHANGED vars
    <2>1. TypeInv'
      BY <1>1 DEF IInv, TypeInv, TypeOK, QueueInv, vars
    <2>. QED BY <1>1, <2>1 DEF IInv, LockInv, HandlerInv, RoundInv, WatchInv, vars
  <1>2. CASE Next
    BY <1>2, ClientInv, ServerInv DEF Next
  <1>. QED BY <1>1, <1>2

\* The invariant behind all that follows: every semaphore's token is in it or
\* with the one thread that holds it, and every handler, round and watcher holds
\* what its place in the code says.
THEOREM Inductive ==
    ASSUME Balanced PROVE Spec => []IInv
  <1>1. IInv /\ [Next]_vars => IInv'
    BY InvStep
  <1>. QED BY <1>1, InitInv, PTL DEF Spec

\* Wherever waits and posts are balanced, no two threads ever use one storage
\* server's connection at a time, whatever the clients, the servers and their
\* replies: block_server does what Naming_server.c:646 wants of it.
THEOREM Exclusion ==
    ASSUME Balanced PROVE Spec => []ExclusiveAccess
  <1>1. IInv => ExclusiveAccess
    BY DEF IInv, LockInv, ExclusiveAccess
  <1>2. IInv /\ [Next]_vars => IInv'
    BY InvStep
  <1>. QED BY <1>1, <1>2, InitInv, PTL DEF Spec

\* Under the same condition a replication round has the server it reads and the
\* two it writes to itself, from its first request to its last.
THEOREM RoundsIsolated ==
    ASSUME Balanced PROVE Spec => []RoundIsolated
  <1>1. IInv => RoundIsolated
    <2>. SUFFICES ASSUME IInv, NEW s \in Servers, rd[s].pc \in {"ask", "hear"},
                         NEW x \in {s, Host1(s), Host2(s)}
                  PROVE  holders[x] = {Red(s)}
      BY DEF RoundIsolated
    <2>1. x \in Servers
      BY HostsAreServers
    <2>2. Red(s) \in holders[x]
      BY DEF IInv, RoundInv
    <2>. QED BY <2>1, <2>2 DEF IInv, LockInv
  <1>2. IInv /\ [Next]_vars => IInv'
    BY InvStep
  <1>. QED BY <1>1, <1>2, InitInv, PTL DEF Spec

\* Under the same condition no sem_post is ever one too many: a storage server's
\* semaphore is 1 when nobody holds the server and 0 when one thread does.
THEOREM Conserved ==
    ASSUME Balanced PROVE Spec => []LockConserved
  <1>1. IInv => LockConserved
    <2>. SUFFICES ASSUME IInv, NEW s \in Servers
                  PROVE  sem[s] = 1 - Cardinality(holders[s])
      BY DEF LockConserved
    <2>1. CASE holders[s] = {}
      <3>1. Cardinality(holders[s]) = 0
        BY <2>1, FS_EmptySet
      <3>2. sem[s] = 1
        BY <2>1 DEF IInv, LockInv
      <3>. QED BY <3>1, <3>2
    <2>2. CASE \E t : holders[s] = {t}
      <3>1. Cardinality(holders[s]) = 1
        BY <2>2, FS_Singleton
      <3>2. sem[s] = 0
        BY <2>2 DEF IInv, LockInv
      <3>. QED BY <3>1, <3>2
    <2>. QED BY <2>1, <2>2 DEF IInv, LockInv
  <1>2. IInv /\ [Next]_vars => IInv'
    BY InvStep
  <1>. QED BY <1>1, <1>2, InitInv, PTL DEF Spec

-----------------------------------------------------------------------------
(* No lock is lost: in every environment in which a handler that took a     *)
(* storage server also comes to its post (Returning), whoever holds one is  *)
(* between its wait and its post.                                           *)


\* The clauses of Inside, for a thread of each kind.
LEMMA InsideKinds ==
    ASSUME NEW s \in Servers
    PROVE  /\ \A c \in Clients : Inside(c, s) <=>
                cl[c].srv = s /\ cl[c].pc \in {"send", "recv", "tell", "stop", "unlock"}
           /\ \A x \in Servers : Inside(Watch(x), s) <=> x = s /\ wpc[x] \in {"mark", "post"}
           /\ \A x \in Servers : Inside(Red(x), s) <=>
                \/ s = x /\ rd[x].pc \in {"ask", "hear", "u1"}
                \/ s = Host1(x) /\ rd[x].pc \in {"l2", "l3", "ask", "hear", "u1", "u2"}
                \/ s = Host2(x) /\ rd[x].pc \in {"l3", "ask", "hear", "u1", "u2", "u3"}
  <1>1. \A c \in Clients : /\ c # Watch(s)
                           /\ \A x \in Servers : c # Red(x)
    BY ThreadsAssumption
  <1>2. \A x, y \in Servers : /\ Watch(x) # Red(y) /\ Watch(x) \notin Clients /\ Red(x) \notin Clients
                              /\ Watch(x) = Watch(y) => x = y
                              /\ Red(x) = Red(y) => x = y
    BY ThreadsAssumption DEF Watch, Red
  <1>. QED BY <1>1, <1>2 DEF Inside

\* The thread t acts: the others keep their places, and whoever holds a server
\* after the step held it before, or is t.
LEMMA ActorHeld ==
    ASSUME HeldInv, NEW t,
           \A s \in Servers : holders[s] \subseteq Threads,
           \A s \in Servers : holders'[s] \subseteq holders[s] \cup {t},
           \A s \in Servers : \A u \in Threads : u # t => (Inside(u, s) => Inside(u, s)'),
           \A s \in Servers : t \in holders'[s] => Inside(t, s)'
    PROVE  \A s \in Servers : \A u \in holders'[s] : Inside(u, s)'
BY DEF HeldInv

\* Who else is inside after a step of client c, or of a server's threads.
LEMMA InsideClients ==
    ASSUME TypeOK, NEW c \in Clients, NEW r, Step(c, r), UNCHANGED <<rd, wpc>>,
           NEW s \in Servers
    PROVE  /\ Inside(c, s)' <=> r.srv = s /\ r.pc \in {"send", "recv", "tell", "stop", "unlock"}
           /\ \A u \in Threads : u # c => (Inside(u, s) => Inside(u, s)')
  <1>1. cl'[c] = r /\ \A d \in Clients : d # c => cl'[d] = cl[d]
    BY DEF TypeOK, Step
  <1>2. \A x \in Servers : c # Red(x) /\ c # Watch(x)
    BY ThreadsAssumption
  <1>. QED BY <1>1, <1>2 DEF Inside, Threads

\* Every reply says YES.
LEMMA AgreedKept ==
    ASSUME TypeOK, HeldInv, Returning, [Next]_vars
    PROVE  rep' \in [Servers -> Seq(Agreed)]
  <1>1. rep \in [Servers -> Seq(Agreed)] /\ req \in [Servers -> Seq(Messages)]
    BY DEF HeldInv, TypeOK
  <1>2. ASSUME NEW s \in Servers, rep[s] # <<>>, Take(s)
        PROVE  rep' \in [Servers -> Seq(Agreed)]
    BY <1>1, <1>2, TailType DEF Take
  <1>3. UNCHANGED rep => rep' \in [Servers -> Seq(Agreed)]
    BY <1>1
  <1>4. ASSUME NEW c \in Clients, Handle(c) \/ \E o \in Ops : Receive(c, o)
        PROVE  rep' \in [Servers -> Seq(Agreed)]
    <2>1. cl[c].srv \in Servers
      BY Locals
    <2>2. CASE Recv(c) \/ LateAck(c)
      BY <1>2, <1>3, <2>1, <2>2 DEF Recv, LateAck
    <2>. QED BY <1>3, <1>4, <2>2
             DEF Handle, Receive, TryRed, Lookup, Lock, Tell, Stop, Send, SendFails,
                 RecvClosed, Unlock, Extra, After, Finish, network
  <1>5. ASSUME NEW s \in Servers, Serve(s) PROVE rep' \in [Servers -> Seq(Agreed)]
    <2>1. Head(req[s]) \in Messages
      BY <1>1, <1>5, TailType DEF Serve
    <2>2. rep' = [rep EXCEPT ![s] = Append(@, [Head(req[s]) EXCEPT !.ticket = "YES"])]
      BY <1>5 DEF Serve, Returning
    <2>3. [Head(req[s]) EXCEPT !.ticket = "YES"] \in Agreed
      BY <2>1 DEF Messages, Agreed
    <2>. QED BY <1>1, <2>2, <2>3
  <1>6. ASSUME NEW s \in Servers, Watcher(s) PROVE rep' \in [Servers -> Seq(Agreed)]
    <2>1. CASE WatchMark(s)
      BY <1>1, <2>1 DEF WatchMark
    <2>. QED BY <1>3, <1>6, <2>1 DEF Watcher, WatchEof, WatchLock, WatchPost, network
  <1>7. ASSUME NEW s \in Servers, Redundancy(s) PROVE rep' \in [Servers -> Seq(Agreed)]
    <2>1. CASE RedHear(s)
      BY <1>2, <1>3, <1>7, <2>1 DEF RedHear
    <2>. QED BY <1>3, <1>7, <2>1
             DEF Redundancy, RedTimer, RedLock, RedLockServers, RedAsk, RedUnlock, RedPost, network
  <1>8. ASSUME NEW s \in Servers, Crash(s) PROVE rep' \in [Servers -> Seq(Agreed)]
    BY <1>3, <1>8 DEF Crash
  <1>9. CASE UNCHANGED vars
    BY <1>3, <1>9 DEF vars
  <1>. QED BY <1>4, <1>5, <1>6, <1>7, <1>8, <1>9 DEF Next

\* A handler inside stays inside, except by its post.
LEMMA StaysInside ==
    ASSUME TypeOK, HeldInv, Returning, NEW c \in Clients,
           Tell(c) \/ Stop(c) \/ Send(c) \/ SendFails(c) \/ Recv(c) \/ RecvClosed(c)
    PROVE  /\ cl'[c].pc \in {"recv", "stop", "unlock"}
           /\ cl'[c].srv = cl[c].srv
           /\ UNCHANGED locks
  <1>1. cl[c] \in ClientState /\ cl[c].srv \in Servers
    BY Locals
  <1>2. ASSUME NEW r, Step(c, r) PROVE cl'[c] = r
    BY <1>2 DEF TypeOK, Step
  <1>3. "senderr" \notin Events
    BY DEF Returning
  <1>4. CASE Tell(c)
    BY <1>1, <1>2, <1>3, <1>4 DEF Tell, ClientState
  <1>5. CASE Stop(c) \/ Send(c) \/ SendFails(c)
    BY <1>1, <1>2, <1>5 DEF Stop, Send, SendFails, ClientState
  <1>6. CASE Recv(c)
    <2>1. Head(rep[cl[c].srv]).ticket = "YES"
      <3>1. rep[cl[c].srv] \in Seq(Agreed) /\ rep[cl[c].srv] # <<>>
        BY <1>1, <1>6 DEF HeldInv, Recv
      <3>. QED BY <3>1, TailType DEF Agreed
    <2>2. CASE cl[c].cmd = "create"
      BY <1>1, <1>2, <1>3, <1>6, <2>1, <2>2 DEF Recv, CreateAccepted, ClientState
    <2>3. CASE cl[c].cmd # "create"
      BY <1>1, <1>2, <1>6, <2>3 DEF Recv, ClientState
    <2>. QED BY <2>2, <2>3
  <1>7. CASE RecvClosed(c)
    <2>1. PICK q, x, a :
             Step(c, [cl[c] EXCEPT !.pc = "unlock", !.quit = q, !.extra = x, !.answer = a])
      BY <1>7, Zenon DEF RecvClosed
    <2>2. UNCHANGED locks
      BY <1>7 DEF RecvClosed
    <2>. QED BY <1>1, <1>2, <2>1, <2>2 DEF ClientState
  <1>. QED BY <1>4, <1>5, <1>6, <1>7

\* The locks after a wait or a post of t.
LEMMA LocksMove ==
    ASSUME TypeOK, NEW t \in Threads, NEW s \in Servers
    PROVE  /\ P(t, s) => \A x \in Servers : holders'[x] \subseteq holders[x] \cup {t}
                                            /\ (x # s => holders'[x] = holders[x])
           /\ V(t, s) => \A x \in Servers : holders'[x] \subseteq holders[x]
                                            /\ (x = s => t \notin holders'[x])
BY DEF TypeOK, P, V

LEMMA ClientHeld ==
    ASSUME IInv, HeldInv, Returning, NEW c \in Clients, Handle(c) \/ \E o \in Ops : Receive(c, o)
    PROVE  \A s \in Servers : \A u \in holders'[s] : Inside(u, s)'
  <1>1. /\ TypeOK /\ HandlerInv(c) /\ cl[c] \in ClientState /\ cl[c].srv \in Servers
        /\ c \in Threads
    BY Locals DEF IInv, TypeInv
  <1>2. PICK r : Step(c, r)
    BY HandlerMoves
  <1>3. cl'[c] = r
    BY <1>1, <1>2 DEF TypeOK, Step
  <1>4. UNCHANGED <<rd, wpc>>
    BY DEF Handle, Receive, TryRed, Lookup, Lock, Tell, Stop, Send, SendFails, Recv,
           RecvClosed, Unlock, Extra, LateAck, After, Finish, network
  <1>5. ASSUME NEW s \in Servers
        PROVE  /\ holders[s] \subseteq Threads
               /\ \A u \in Threads : u # c => (Inside(u, s) => Inside(u, s)')
               /\ Inside(c, s)' <=> r.srv = s /\ r.pc \in {"send", "recv", "tell", "stop", "unlock"}
               /\ c \in holders[s] => cl[c].srv = s
                    /\ cl[c].pc \in {"send", "recv", "tell", "stop", "unlock"}
    <2>1. holders[s] \subseteq Threads
      BY <1>1 DEF TypeOK
    <2>2. c \in holders[s] => Inside(c, s)
      BY DEF HeldInv
    <2>. QED BY <1>1, <1>2, <1>4, <2>1, <2>2, InsideClients, InsideKinds
  <1>6. CASE Tell(c) \/ Stop(c) \/ Send(c) \/ SendFails(c) \/ Recv(c) \/ RecvClosed(c)
    <2>1. /\ r.pc \in {"recv", "stop", "unlock"} /\ r.srv = cl[c].srv
          /\ holders' = holders
      BY <1>1, <1>3, <1>6, StaysInside DEF locks
    <2>2. \A s \in Servers : c \in holders'[s] => Inside(c, s)'
      BY <1>5, <2>1
    <2>. QED BY <1>5, <2>1, <2>2, ActorHeld
  <1>7. CASE \/ \E o \in Ops : Receive(c, o)
             \/ TryRed(c) \/ Lookup(c) \/ LateAck(c) \/ After(c) \/ Finish(c)
    <2>1. /\ holders' = holders
          /\ cl[c].pc \notin {"send", "recv", "tell", "stop", "unlock"}
      BY <1>7 DEF Receive, TryRed, Lookup, LateAck, After, Finish, locks, At
    <2>2. \A s \in Servers : c \notin holders'[s]
      BY <1>5, <2>1
    <2>. QED BY <1>5, <2>1, <2>2, ActorHeld
  <1>8. CASE Lock(c)
    <2>1. P(c, cl[c].srv) /\ cl[c].pc = "lock"
      BY <1>8 DEF Lock, At
    <2>2. PICK pc \in {"tell", "send"} : Step(c, [cl[c] EXCEPT !.pc = pc])
      BY <1>8, Zenon DEF Lock
    <2>3. cl'[c] = [cl[c] EXCEPT !.pc = pc]
      BY <1>1, <2>2 DEF Step, TypeOK
    <2>4. r.srv = cl[c].srv /\ r.pc \in {"tell", "send"}
      BY <1>1, <1>3, <2>3 DEF ClientState
    <2>5. \A s \in Servers : /\ holders'[s] \subseteq holders[s] \cup {c}
                             /\ (s # cl[c].srv => holders'[s] = holders[s])
      BY <1>1, <2>1, LocksMove
    <2>6. \A s \in Servers : c \in holders'[s] => Inside(c, s)'
      BY <1>5, <2>1, <2>4, <2>5
    <2>. QED BY <1>5, <2>5, <2>6, ActorHeld
  <1>9. CASE Unlock(c)
    <2>1. V(c, cl[c].srv)
      BY <1>9 DEF Unlock
    <2>2. \A s \in Servers : /\ holders'[s] \subseteq holders[s]
                             /\ s = cl[c].srv => c \notin holders'[s]
      BY <1>1, <2>1, LocksMove
    <2>3. \A s \in Servers : c \notin holders'[s]
      BY <1>5, <2>2
    <2>. QED BY <1>5, <2>2, <2>3, ActorHeld
  <1>10. ~Extra(c)
    BY <1>1 DEF Extra, At, HandlerInv
  <1>. QED BY <1>6, <1>7, <1>8, <1>9, <1>10 DEF Handle

LEMMA WatcherHeld ==
    ASSUME IInv, HeldInv, NEW s \in Servers, Watcher(s)
    PROVE  \A x \in Servers : \A u \in holders'[x] : Inside(u, x)'
  <1>1. TypeOK /\ Watch(s) \in Threads /\ WatchInv(s)
    BY DEF IInv, TypeInv, Threads
  <1>2. /\ UNCHANGED <<cl, rd>>
        /\ \A y \in Servers : y # s => wpc'[y] = wpc[y]
    BY <1>1, WatcherStep
  <1>3. ASSUME NEW x \in Servers
        PROVE  /\ holders[x] \subseteq Threads
               /\ \A u \in Threads : u # Watch(s) => (Inside(u, x) => Inside(u, x)')
               /\ Inside(Watch(s), x)' <=> s = x /\ wpc'[s] \in {"mark", "post"}
               /\ Watch(s) \in holders[x] => s = x /\ wpc[s] \in {"mark", "post"}
    <2>1. holders[x] \subseteq Threads /\ \A u \in holders[x] : Inside(u, x)
      BY <1>1 DEF TypeOK, HeldInv
    <2>2. \A u \in Threads : u # Watch(s) => (Inside(u, x) => Inside(u, x)')
      BY <1>2 DEF Inside
    <2>3. /\ Watch(s) \notin Clients
          /\ \A y \in Servers : Watch(s) # Red(y)
          /\ Watch(s) = Watch(x) => s = x
      BY ThreadsAssumption DEF Watch, Red
    <2>4. Inside(Watch(s), x)' <=> s = x /\ wpc'[s] \in {"mark", "post"}
      BY <2>3 DEF Inside
    <2>5. Inside(Watch(s), x) <=> s = x /\ wpc[s] \in {"mark", "post"}
      BY <2>3 DEF Inside
    <2>. QED BY <2>1, <2>2, <2>4, <2>5
  <1>4. CASE WatchEof(s) \/ WatchMark(s)
    <2>1. holders' = holders /\ wpc'[s] \in {"want", "post"} /\ (WatchEof(s) => wpc[s] = "watch")
          /\ (WatchMark(s) => wpc'[s] = "post")
      BY <1>1, <1>4 DEF WatchEof, WatchMark, locks, TypeOK
    <2>2. \A x \in Servers : Watch(s) \in holders'[x] => Inside(Watch(s), x)'
      BY <1>3, <1>4, <2>1
    <2>. QED BY <1>3, <2>1, <2>2, ActorHeld
  <1>5. CASE WatchLock(s)
    <2>1. P(Watch(s), s) /\ wpc'[s] = "mark" /\ wpc[s] = "want"
      BY <1>1, <1>5 DEF WatchLock, TypeOK
    <2>2. \A x \in Servers : /\ holders'[x] \subseteq holders[x] \cup {Watch(s)}
                             /\ x # s => holders'[x] = holders[x]
      BY <1>1, <2>1, LocksMove
    <2>3. \A x \in Servers : Watch(s) \in holders'[x] => Inside(Watch(s), x)'
      BY <1>3, <2>1, <2>2
    <2>. QED BY <1>3, <2>2, <2>3, ActorHeld
  <1>6. CASE WatchPost(s)
    <2>1. V(Watch(s), s)
      BY <1>6 DEF WatchPost
    <2>2. \A x \in Servers : /\ holders'[x] \subseteq holders[x]
                             /\ x = s => Watch(s) \notin holders'[x]
      BY <1>1, <2>1, LocksMove
    <2>3. \A x \in Servers : Watch(s) \notin holders'[x]
      BY <1>3, <2>2
    <2>. QED BY <1>3, <2>2, <2>3, ActorHeld
  <1>. QED BY <1>4, <1>5, <1>6 DEF Watcher

LEMMA RoundHeld ==
    ASSUME IInv, HeldInv, NEW s \in Servers, Redundancy(s)
    PROVE  \A x \in Servers : \A u \in holders'[x] : Inside(u, x)'
  <1>1. /\ TypeOK /\ Red(s) \in Threads
        /\ Host1(s) \in Servers /\ Host2(s) \in Servers
        /\ Host1(s) # s /\ Host2(s) # s /\ Host1(s) # Host2(s)
    BY HostsAreServers, HostsDistinct DEF IInv, TypeInv, Threads
  <1>2. /\ UNCHANGED <<cl, wpc>>
        /\ \A y \in Servers : y # s => rd'[y] = rd[y]
    BY RoundStep
  <1> DEFINE Places(x, pc) == \/ s = x /\ pc \in {"ask", "hear", "u1"}
                              \/ x = Host1(s) /\ pc \in {"l2", "l3", "ask", "hear", "u1", "u2"}
                              \/ x = Host2(s) /\ pc \in {"l3", "ask", "hear", "u1", "u2", "u3"}
  <1>3. ASSUME NEW x \in Servers
        PROVE  /\ holders[x] \subseteq Threads
               /\ \A u \in Threads : u # Red(s) => (Inside(u, x) => Inside(u, x)')
               /\ Places(x, rd'[s].pc) => Inside(Red(s), x)'
               /\ Red(s) \in holders[x] => Places(x, rd[s].pc)
    <2>1. holders[x] \subseteq Threads /\ (Red(s) \in holders[x] => Inside(Red(s), x))
      BY <1>1 DEF TypeOK, HeldInv
    <2>2. \A u \in Threads : u # Red(s) => (Inside(u, x) => Inside(u, x)')
      BY <1>2 DEF Inside
    <2>3. Places(x, rd'[s].pc) => Inside(Red(s), x)'
      BY DEF Inside
    <2>. QED BY <2>1, <2>2, <2>3, InsideKinds
  <1>4. ASSUME NEW pc, RedGo(s, pc) PROVE rd'[s].pc = pc
    BY <1>1, <1>4 DEF RedGo, TypeOK, RedState
  <1>5. SUFFICES \A x \in Servers : /\ holders'[x] \subseteq holders[x] \cup {Red(s)}
                                    /\ Red(s) \in holders'[x] => Places(x, rd'[s].pc)
    BY <1>3, ActorHeld
  <1>6. CASE RedTimer(s) \/ RedLock(s) \/ RedPost(s) \/ RedAsk(s) \/ RedHear(s)
    <2>1. holders' = holders
      BY <1>6 DEF RedTimer, RedLock, RedPost, RedAsk, RedHear, locks
    <2>2. \/ rd[s].pc \in {"sleep", "red", "u4"}
          \/ rd[s].pc \in {"ask", "hear"} /\ rd'[s].pc \in {"ask", "hear", "u1"}
      <3>1. CASE RedTimer(s) \/ RedLock(s) \/ RedPost(s)
        BY <3>1 DEF RedTimer, RedLock, RedPost
      <3>2. CASE RedAsk(s)
        BY <1>4, <3>2 DEF RedAsk
      <3>3. CASE RedHear(s)
        BY <1>1, <1>4, <3>3 DEF RedHear, TypeOK
      <3>. QED BY <1>6, <3>1, <3>2, <3>3
    <2>. QED BY <1>3, <2>1, <2>2
  <1>7. CASE RedLockServers(s)
    <2>1. ASSUME NEW y \in Servers, P(Red(s), y)
          PROVE  \A x \in Servers : /\ holders'[x] \subseteq holders[x] \cup {Red(s)}
                                    /\ x # y => holders'[x] = holders[x]
      BY <1>1, <2>1, LocksMove
    <2>2. CASE rd[s].pc = "l1" /\ P(Red(s), Host1(s)) /\ RedGo(s, "l2")
      BY <1>1, <1>3, <1>4, <2>1, <2>2
    <2>3. CASE rd[s].pc = "l2" /\ P(Red(s), Host2(s)) /\ RedGo(s, "l3")
      BY <1>1, <1>3, <1>4, <2>1, <2>3
    <2>4. CASE /\ rd[s].pc = "l3" /\ P(Red(s), s)
               /\ rd' = [rd EXCEPT ![s] = [@ EXCEPT !.pc = "ask", !.listed = FALSE]]
      <3>1. rd'[s].pc = "ask"
        BY <1>1, <2>4 DEF TypeOK, RedState
      <3>. QED BY <1>1, <1>3, <2>1, <2>4, <3>1
    <2>. QED BY <1>7, <2>2, <2>3, <2>4 DEF RedLockServers
  <1>8. CASE RedUnlock(s)
    <2>1. ASSUME NEW y \in Servers, V(Red(s), y)
          PROVE  \A x \in Servers : /\ holders'[x] \subseteq holders[x]
                                    /\ x = y => Red(s) \notin holders'[x]
      BY <1>1, <2>1, LocksMove
    <2>2. CASE rd[s].pc = "u1" /\ V(Red(s), s) /\ RedGo(s, "u2")
      BY <1>1, <1>3, <1>4, <2>1, <2>2
    <2>3. CASE rd[s].pc = "u2" /\ V(Red(s), Host1(s)) /\ RedGo(s, "u3")
      BY <1>1, <1>3, <1>4, <2>1, <2>3
    <2>4. CASE rd[s].pc = "u3" /\ V(Red(s), Host2(s)) /\ RedGo(s, "u4")
      BY <1>1, <1>3, <1>4, <2>1, <2>4
    <2>. QED BY <1>8, <2>2, <2>3, <2>4 DEF RedUnlock
  <1>. QED BY <1>6, <1>7, <1>8 DEF Redundancy

LEMMA HeldStep == Returning /\ IInv /\ HeldInv /\ [Next]_vars => HeldInv'
  <1>. SUFFICES ASSUME Returning, IInv, HeldInv, [Next]_vars PROVE HeldInv'
    OBVIOUS
  <1>1. rep' \in [Servers -> Seq(Agreed)]
    BY AgreedKept DEF IInv, TypeInv
  <1>2. CASE UNCHANGED <<holders, cl, rd, wpc>>
    BY <1>1, <1>2 DEF HeldInv, Inside
  <1>3. \A x \in Servers : \A u \in holders'[x] : Inside(u, x)'
    <2>1. CASE UNCHANGED vars
      BY <1>2, <2>1 DEF vars, HeldInv
    <2>2. ASSUME NEW s \in Servers, Serve(s) \/ Crash(s)
          PROVE  \A x \in Servers : \A u \in holders'[x] : Inside(u, x)'
      BY <1>2, <2>2 DEF Serve, Crash, locks, HeldInv
    <2>. QED BY <2>1, <2>2, ClientHeld, WatcherHeld, RoundHeld DEF Next
  <1>. QED BY <1>1, <1>3 DEF HeldInv

\* Where no create is refused and no client is lost while it is answered, a thread
\* that waits for its next command or has finished its round holds no storage
\* server: every path through every handler comes to its sem_post.
THEOREM Returns ==
    ASSUME Returning PROVE Spec => []NoLockLeak
  <1>1. Balanced
    BY DEF Returning
  <1>2. Init => HeldInv
    <2>1. <<>> \in Seq(Agreed)
      OBVIOUS
    <2>. QED BY <2>1 DEF Init, HeldInv
  <1>3. IInv /\ [Next]_vars => IInv'
    BY <1>1, InvStep
  <1>4. IInv /\ HeldInv /\ [Next]_vars => HeldInv'
    BY HeldStep
  <1>5. HeldInv => NoLockLeak
    <2>. SUFFICES ASSUME HeldInv, NEW s \in Servers
                  PROVE  /\ \A c \in Clients : At(c, "idle") => c \notin holders[s]
                         /\ rd[s].pc \in {"sleep", "gone"} =>
                              \A x \in Servers : Red(s) \notin holders[x]
                         /\ wpc[s] \in {"watch", "gone"} => Watch(s) \notin holders[s]
      BY DEF NoLockLeak
    <2>1. \A x \in Servers : \A t \in holders[x] : Inside(t, x)
      BY DEF HeldInv
    <2>2. \A c \in Clients : At(c, "idle") => ~Inside(c, s)
      BY InsideKinds DEF At
    <2>3. rd[s].pc \in {"sleep", "gone"} => \A x \in Servers : ~Inside(Red(s), x)
      BY InsideKinds
    <2>4. wpc[s] \in {"watch", "gone"} => ~Inside(Watch(s), s)
      BY InsideKinds
    <2>. QED BY <2>1, <2>2, <2>3, <2>4
  <1>. QED BY <1>2, <1>3, <1>4, <1>5, InitInv, PTL DEF Spec
=============================================================================
