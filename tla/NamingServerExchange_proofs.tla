--------------------- MODULE NamingServerExchange_proofs ---------------------
(***************************************************************************)
(* What the locks are for: where an exchange with a storage server is one  *)
(* piece (OnePiece), the naming server implements Exchange, and a client   *)
(* is told YES only for a create that was made.                            *)
(***************************************************************************)
EXTENDS NamingServerExchange, NamingServerLocks_proofs

\* A thread that waits for an answer holds the storage server.
LEMMA WaiterHolds ==
    ASSUME IInv, NEW t \in Threads, NEW s \in Servers, WaitsAt(t, s)
    PROVE  t \in holders[s]
  <1>1. CASE t \in Clients /\ cl[t].pc = "recv" /\ cl[t].srv = s
    BY <1>1 DEF IInv, HandlerInv
  <1>2. CASE t = Red(s) /\ rd[s].pc = "hear"
    BY <1>2 DEF IInv, RoundInv
  <1>. QED BY <1>1, <1>2 DEF WaitsAt

\* So there is at most one.
LEMMA OneWaiter ==
    ASSUME IInv, NEW s \in Servers, NEW t \in Threads, NEW u \in Threads,
           WaitsAt(t, s), WaitsAt(u, s)
    PROVE  t = u
BY WaiterHolds DEF IInv, LockInv

\* A queue of one message.
LEMMA OneMessage ==
    ASSUME NEW m
    PROVE  Append(<<>>, m) = <<m>> /\ Head(<<m>>) = m /\ Len(<<m>>) = 1 /\ <<m>> # <<>>
OBVIOUS

\* Messages are typed, and have an owner.
LEMMA MessageTypes ==
    ASSUME TypeOK, NEW s \in Servers
    PROVE  /\ req[s] \in Seq(Messages) /\ rep[s] \in Seq(Messages)
           /\ req[s] # <<>> => Head(req[s]) \in Messages /\ Head(req[s]).by \in Threads
           /\ rep[s] # <<>> => Head(rep[s]) \in Messages /\ Head(rep[s]).by \in Threads
  <1>1. req[s] \in Seq(Messages) /\ rep[s] \in Seq(Messages)
    BY DEF TypeOK
  <1>2. \A q \in Seq(Messages) : q # <<>> => Head(q) \in Messages
    BY TailType
  <1>. QED BY <1>1, <1>2 DEF Messages

\* A thread about to send finds the connection quiet.
LEMMA QuietAtSend ==
    ASSUME IInv, NEW s \in Servers, ServerInvX(s), NEW t \in Threads,
           t \in holders[s], ~WaitsAt(t, s)
    PROVE  Waiters(s) = {} /\ req[s] = <<>> /\ rep[s] = <<>>
  <1>1. ASSUME NEW u \in Threads PROVE ~WaitsAt(u, s)
    BY WaiterHolds DEF IInv, LockInv
  <1>2. /\ req[s] # <<>> => Head(req[s]).by \in Threads
        /\ rep[s] # <<>> => Head(rep[s]).by \in Threads
    BY MessageTypes DEF IInv, TypeInv
  <1>. QED BY <1>1, <1>2 DEF Waiters, ServerInvX, Meant

\* What waits, and what a message is for, after a step of client c.
LEMMA ClientWaits ==
    ASSUME TypeOK, NEW c \in Clients, NEW r, Step(c, r), UNCHANGED rd
    PROVE  /\ \A s \in Servers : WaitsAt(c, s)' <=> r.pc = "recv" /\ r.srv = s
           /\ \A s \in Servers : WaitsAt(c, s) <=> cl[c].pc = "recv" /\ cl[c].srv = s
           /\ \A t \in Threads, s \in Servers : t # c => (WaitsAt(t, s)' <=> WaitsAt(t, s))
           /\ \A d \in Clients : d # c => cl'[d] = cl[d]
           /\ cl'[c] = r
  <1>1. cl'[c] = r /\ \A d \in Clients : d # c => cl'[d] = cl[d]
    BY DEF TypeOK, Step
  <1>2. \A s \in Servers : c # Red(s)
    BY ThreadsAssumption
  <1>. QED BY <1>1, <1>2 DEF WaitsAt

\* A storage server's invariant after a step of client c that leaves its
\* messages alone: none of them is for c.
LEMMA ServerKept ==
    ASSUME TypeOK, NEW c \in Clients, NEW r, Step(c, r), UNCHANGED <<rd, wpc, alive, open>>,
           NEW s \in Servers, ServerInvX(s), req'[s] = req[s], rep'[s] = rep[s],
           \A d \in Clients : d # c => made'[d] = made[d],
           req[s] # <<>> => Head(req[s]).by # c,
           rep[s] # <<>> => Head(rep[s]).by # c
    PROVE  ServerInvX(s)' /\ OnWire(s)' = OnWire(s)
  <1>1. ASSUME NEW m \in Messages, m.by # c, Meant(s, m) PROVE Meant(s, m)'
    <2>1. m.by \in Threads
      BY DEF Messages
    <2>. QED BY <1>1, <2>1, ClientWaits DEF Meant
  <1>2. /\ req[s] # <<>> => Head(req[s]) \in Messages
        /\ rep[s] # <<>> => Head(rep[s]) \in Messages
    BY MessageTypes
  <1>3. OnWire(s)' = OnWire(s)
    BY DEF OnWire
  <1>4. /\ req[s] # <<>> => Len(req[s]) = 1 /\ rep[s] = <<>> /\ Meant(s, Head(req[s]))
        /\ rep[s] # <<>> => Len(rep[s]) = 1 /\ Meant(s, Head(rep[s]))
    BY DEF ServerInvX
  <1>5. /\ req[s] # <<>> => Meant(s, Head(req[s]))'
        /\ rep[s] # <<>> => Meant(s, Head(rep[s]))'
    <2>1. req[s] # <<>> => Meant(s, Head(req[s]))'
      BY <1>1, <1>2, <1>4 DEF Meant
    <2>2. rep[s] # <<>> => Meant(s, Head(rep[s]))'
      BY <1>1, <1>2, <1>4 DEF Meant
    <2>. QED BY <2>1, <2>2
  <1>. QED BY <1>3, <1>4, <1>5 DEF ServerInvX

\* A handler's step that makes no new promise, and waits only after a send.
Modest(c) ==
    LET r == cl'[c] IN
    /\ r.pc = "recv" => cl[c].pc = "send" /\ r.srv = cl[c].srv /\ r.cmd = cl[c].cmd
    /\ r.pc # "late"
    /\ r.op = "create" => r.cmd \in {"none", "create"}
    /\ r.pc \in {"lock", "send", "recv"} => r.cmd # "none"
    /\ r.op = "create" /\ r.answer = "YES" => cl[c].op = "create" /\ cl[c].answer = "YES"

LEMMA ModestMove ==
    ASSUME TypeOK, NEW c \in Clients, ClientInvX(c), NEW r, Step(c, r),
           r.op = cl[c].op, r.pc # "late",
           r.pc = "recv" => cl[c].pc = "send" /\ r.srv = cl[c].srv /\ r.cmd = cl[c].cmd,
           r.op = "create" => r.cmd \in {"none", "create"},
           r.pc \in {"lock", "send", "recv"} => r.cmd # "none",
           r.answer # "YES" \/ r.op # "create" \/ r.answer = cl[c].answer
    PROVE  Modest(c)
  <1>1. cl'[c] = r
    BY DEF TypeOK, Step
  <1>. QED BY <1>1 DEF Modest

\* A handler's moves within its operation.
LEMMA ModestMoves ==
    ASSUME TypeOK, NEW c \in Clients, ClientInvX(c)
    PROVE  /\ \A pc \in {"idle", "lookup", "finish", "after", "unlock", "tell", "stop"} : \A q, x :
                /\ Step(c, [cl[c] EXCEPT !.pc = pc]) => Modest(c)
                /\ Step(c, [cl[c] EXCEPT !.pc = pc, !.quit = q]) => Modest(c)
                /\ \A a : a # "YES" \/ cl[c].op # "create" \/ a = cl[c].answer =>
                     /\ Step(c, [cl[c] EXCEPT !.pc = pc, !.answer = a]) => Modest(c)
                     /\ Step(c, [cl[c] EXCEPT !.pc = pc, !.answer = a, !.quit = q]) => Modest(c)
                     /\ Step(c, [cl[c] EXCEPT !.pc = pc, !.quit = q, !.extra = x, !.answer = a])
                          => Modest(c)
           /\ \A pc \in {"send", "recv"} : \A q :
              cl[c].pc = (IF pc = "send" THEN "lock" ELSE "send") =>
                /\ Step(c, [cl[c] EXCEPT !.pc = pc]) => Modest(c)
                /\ Step(c, [cl[c] EXCEPT !.pc = pc, !.quit = q]) => Modest(c)
           /\ \A cmd, s, todo : cmd # "none" /\ (cl[c].op # "create" \/ cmd = "create") =>
                (Begin(c, cmd, s, todo) => Modest(c))
  <1>1. cl[c] \in ClientState
    BY Locals
  <1>2. ASSUME NEW pc \in {"idle", "lookup", "finish", "after", "unlock", "tell", "stop"},
               NEW r, Step(c, r), r.pc = pc, r.op = cl[c].op, r.cmd = cl[c].cmd,
               r.answer # "YES" \/ cl[c].op # "create" \/ r.answer = cl[c].answer
        PROVE  Modest(c)
    BY <1>2, ModestMove DEF ClientInvX
  <1>3. ASSUME NEW pc \in {"send", "recv"}, cl[c].pc = IF pc = "send" THEN "lock" ELSE "send",
               NEW r, Step(c, r), r.pc = pc, r.op = cl[c].op, r.cmd = cl[c].cmd,
               r.srv = cl[c].srv, r.answer = cl[c].answer
        PROVE  Modest(c)
    BY <1>3, ModestMove DEF ClientInvX
  <1>4. ASSUME NEW cmd, NEW s, NEW todo, cmd # "none", cl[c].op # "create" \/ cmd = "create",
               Begin(c, cmd, s, todo)
        PROVE  Modest(c)
    <2> DEFINE r == [cl[c] EXCEPT !.pc = "lock", !.cmd = cmd, !.srv = s, !.todo = todo]
    <2>1. r.pc = "lock" /\ r.cmd = cmd /\ r.op = cl[c].op /\ r.answer = cl[c].answer
      BY <1>1 DEF ClientState
    <2>2. Step(c, r)
      BY <1>4 DEF Begin
    <2>. HIDE DEF r
    <2>. QED BY <1>4, <2>1, <2>2, ModestMove DEF ClientInvX
  <1>5. ASSUME NEW pc \in {"idle", "lookup", "finish", "after", "unlock", "tell", "stop"},
               NEW q, NEW x
        PROVE  /\ Step(c, [cl[c] EXCEPT !.pc = pc]) => Modest(c)
               /\ Step(c, [cl[c] EXCEPT !.pc = pc, !.quit = q]) => Modest(c)
    BY <1>1, <1>2 DEF ClientState
  <1>6. ASSUME NEW pc \in {"idle", "lookup", "finish", "after", "unlock", "tell", "stop"},
               NEW q, NEW x, NEW a, a # "YES" \/ cl[c].op # "create" \/ a = cl[c].answer
        PROVE  /\ Step(c, [cl[c] EXCEPT !.pc = pc, !.answer = a]) => Modest(c)
               /\ Step(c, [cl[c] EXCEPT !.pc = pc, !.answer = a, !.quit = q]) => Modest(c)
               /\ Step(c, [cl[c] EXCEPT !.pc = pc, !.quit = q, !.extra = x, !.answer = a])
                    => Modest(c)
    BY <1>1, <1>2, <1>6 DEF ClientState
  <1>7. ASSUME NEW pc \in {"send", "recv"}, NEW q,
               cl[c].pc = IF pc = "send" THEN "lock" ELSE "send"
        PROVE  /\ Step(c, [cl[c] EXCEPT !.pc = pc]) => Modest(c)
               /\ Step(c, [cl[c] EXCEPT !.pc = pc, !.quit = q]) => Modest(c)
    BY <1>1, <1>3, <1>7 DEF ClientState
  <1>. QED BY <1>4, <1>5, <1>6, <1>7

\* Every step of a handler but the one that reads the answer to a create.
LEMMA ModestSteps ==
    ASSUME IInv, OnePiece, NEW c \in Clients, ClientInvX(c),
           Handle(c), ~Recv(c)
    PROVE  Modest(c)
  <1>1. TypeOK /\ cl[c] \in ClientState /\ HandlerInv(c) /\ cl[c].op # "copyfile"
        /\ cl[c].pc # "late" /\ cl[c].pc # "extra"
    <2>1. TypeOK /\ cl[c] \in ClientState /\ HandlerInv(c)
      BY Locals DEF IInv, TypeInv
    <2>. QED BY <2>1 DEF OnePiece, ClientState, HandlerInv, ClientInvX
  <1>2. ASSUME NEW cmd, NEW s, NEW todo, Begin(c, cmd, s, todo), cmd # "none",
               cl[c].op # "create" \/ cmd = "create"
        PROVE  Modest(c)
    BY <1>1, <1>2, ModestMoves
  <1>3. CASE TryRed(c) \/ Finish(c) \/ Stop(c)
    BY <1>1, <1>3, ModestMoves DEF TryRed, Finish, Stop
  <1>4. CASE Tell(c)
    BY <1>1, <1>4, ModestMoves DEF Tell
  <1>5. CASE Lock(c)
    <2>1. PICK pc \in {"tell", "send"} : Step(c, [cl[c] EXCEPT !.pc = pc])
      BY <1>5, Zenon DEF Lock
    <2>2. cl[c].pc = "lock"
      BY <1>5 DEF Lock, At
    <2>. QED BY <1>1, <2>1, <2>2, ModestMoves
  <1>6. CASE Send(c)
    BY <1>1, <1>6, ModestMoves DEF Send, At
  <1>7. CASE SendFails(c)
    BY <1>1, <1>7, ModestMoves DEF SendFails, At
  <1>8. CASE RecvClosed(c)
    <2>1. PICK q, x, a :
             /\ Step(c, [cl[c] EXCEPT !.pc = "unlock", !.quit = q, !.extra = x, !.answer = a])
             /\ a = cl[c].answer \/ cl[c].op = "deletefile"
      BY <1>8, Zenon DEF RecvClosed
    <2>2. a # "YES" \/ cl[c].op # "create" \/ a = cl[c].answer
      BY <2>1
    <2>. QED BY <1>1, <2>1, <2>2, ModestMoves
  <1>9. CASE Unlock(c)
    <2>1. Step(c, [cl[c] EXCEPT !.pc = "after"])
      BY <1>1, <1>9 DEF Unlock, HandlerInv
    <2>. QED BY <1>1, <2>1, ModestMoves
  <1>10. CASE Lookup(c)
    <2>1. \A a : a # "YES" \/ cl[c].op # "create" =>
            (Step(c, [cl[c] EXCEPT !.pc = "finish", !.answer = a]) =>
                Modest(c))
      BY <1>1, ModestMoves
    <2>2. Step(c, [cl[c] EXCEPT !.pc = "finish"]) => Modest(c)
      BY <1>1, ModestMoves
    <2>3. CASE AnswerAtOnce(c)
      BY <2>1, <2>3 DEF AnswerAtOnce, AtOnce
    <2>4. CASE CreateLookup(c)
      BY <1>2, <2>2, <2>4 DEF CreateLookup
    <2>5. CASE DeleteLookup(c) \/ AccessLookup(c)
      BY <1>2, <2>5 DEF DeleteLookup, AccessLookup
    <2>6. CASE CopyDirLookup(c)
      BY <1>2, <2>1, <2>6 DEF CopyDirLookup
    <2>. QED BY <1>1, <1>10, <2>3, <2>4, <2>5, <2>6 DEF Lookup, CopyFileLookup
  <1>11. CASE After(c)
    <2>1. \A a : cl[c].op # "create" =>
            (Step(c, [cl[c] EXCEPT !.pc = "finish", !.answer = a]) =>
                Modest(c))
      BY <1>1, ModestMoves
    <2>2. CASE Return(c)
      BY <1>1, <2>2, ModestMoves DEF Return
    <2>3. ASSUME NEW cmd, cmd # "none", cl[c].op # "create", NextEntry(c, cmd)
          PROVE  Modest(c)
      BY <1>2, <2>1, <2>3 DEF NextEntry
    <2>4. CASE DeleteDirNext(c)
      BY <2>3, <2>4 DEF DeleteDirNext
    <2>5. CASE CopyDirNext(c)
      <3>1. cl[c].op = "copydir" /\ \A i \in 1 .. Len(cl[c].todo) : cl[c].todo[i].full
        BY <1>1, <2>5 DEF CopyDirNext, HandlerInv
      <3>2. cl[c].cmd # "none" => Head(cl[c].todo).full
        BY <1>1, <3>1 DEF IInv, TypeInv, QueueInv, ClientState
      <3>3. \/ \E cmd \in {"create", "copywrite"} : \E s : Begin(c, cmd, s, cl[c].todo)
            \/ NextEntry(c, "copyread")
        BY <2>5, <3>2 DEF CopyDirNext
      <3>. QED BY <1>2, <2>3, <3>1, <3>3
    <2>. QED BY <1>1, <1>11, <2>2, <2>4, <2>5 DEF After, CopyFileNext
  <1>. QED BY <1>1, <1>3, <1>4, <1>5, <1>6, <1>7, <1>8, <1>9, <1>10, <1>11
           DEF Handle, Extra, LateAck, At

(***************************************************************************)
(* The mapping to Exchange, one connection at a time.                      *)
(***************************************************************************)
LEMMA MapStutter ==
    ASSUME \A s \in Servers : Waiters(s)' = Waiters(s) /\ OnWire(s)' = OnWire(s)
    PROVE  UNCHANGED E!vars
BY DEF Waiting, Wire, E!vars

LEMMA MapOne ==
    ASSUME NEW s \in Servers,
           \A x \in Servers : x # s => Waiters(x)' = Waiters(x) /\ OnWire(x)' = OnWire(x)
    PROVE  /\ Waiting' = [Waiting EXCEPT ![s] = Waiters(s)']
           /\ Wire' = [Wire EXCEPT ![s] = OnWire(s)']
           /\ \A x \in Servers : Waiting[x] = Waiters(x) /\ Wire[x] = OnWire(x)
BY DEF Waiting, Wire

\* The wire carries what the queues hold.
LEMMA WireIs ==
    /\ \A s \in Servers : req[s] # <<>> => OnWire(s) = E!Asked(Head(req[s]).by)
    /\ \A s \in Servers : req[s] = <<>> /\ rep[s] # <<>> => OnWire(s) = E!Answered(Head(rep[s]).by)
    /\ \A s \in Servers : req[s] = <<>> /\ rep[s] = <<>> => OnWire(s) = E!Quiet
BY DEF OnWire, E!Asked, E!Answered, E!Quiet

LEMMA MapAsk ==
    ASSUME NEW s \in Servers, NEW u \in Threads,
           \A x \in Servers : x # s => Waiters(x)' = Waiters(x) /\ OnWire(x)' = OnWire(x),
           \A x \in Servers : ~WaitsAt(u, x), Waiters(s) = {}, OnWire(s) = E!Quiet,
           Waiters(s)' = {u}, OnWire(s)' \in {E!Asked(u), E!Quiet}
    PROVE  E!Next
  <1>1. E!Ask(u, s)
    <2>1. \A x \in Servers : u \notin Waiting[x]
      BY MapOne DEF Waiters
    <2>2. Waiting[s] = {} /\ Wire[s] = E!Quiet
      BY MapOne
    <2>3. Waiting' = [Waiting EXCEPT ![s] = {u}]
      BY MapOne
    <2>4. Wire' = [Wire EXCEPT ![s] = E!Asked(u)] \/ Wire' = Wire
      <3>1. Wire' = [Wire EXCEPT ![s] = OnWire(s)']
        BY MapOne
      <3>2. [Wire EXCEPT ![s] = E!Quiet] = Wire
        BY <2>2 DEF Wire
      <3>. QED BY <3>1, <3>2
    <2>. QED BY <2>1, <2>2, <2>3, <2>4 DEF E!Ask
  <1>. QED BY <1>1 DEF E!Next

LEMMA MapEnd ==
    ASSUME NEW s \in Servers, NEW u \in Threads,
           \A x \in Servers : x # s => Waiters(x)' = Waiters(x) /\ OnWire(x)' = OnWire(x),
           Waiters(s) = {u}, OnWire(s) \in {E!Answered(u), E!Quiet},
           Waiters(s)' = {}, OnWire(s)' = E!Quiet
    PROVE  E!Next
  <1>1. Waiting[s] = {u} /\ Waiting' = [Waiting EXCEPT ![s] = {}]
    BY MapOne
  <1>2. Wire' = [Wire EXCEPT ![s] = E!Quiet] /\ Wire[s] = OnWire(s)
    BY MapOne
  <1>3. CASE OnWire(s) = E!Answered(u)
    BY <1>1, <1>2, <1>3 DEF E!Hear, E!Next
  <1>4. CASE OnWire(s) = E!Quiet
    <2>1. Wire' = Wire
      BY <1>2, <1>4 DEF Wire
    <2>. QED BY <1>1, <1>2, <1>4, <2>1 DEF E!GiveUp, E!Next
  <1>. QED BY <1>3, <1>4

LEMMA MapWire ==
    ASSUME NEW s \in Servers,
           \A x \in Servers : x # s => OnWire(x)' = OnWire(x),
           \A x \in Servers : Waiters(x)' = Waiters(x),
           \/ OnWire(s)' = E!Quiet
           \/ \E u \in Waiters(s) : OnWire(s) = E!Asked(u) /\ OnWire(s)' = E!Answered(u)
    PROVE  E!Next
  <1>1. Waiting' = Waiting
    BY DEF Waiting
  <1>2. Wire' = [Wire EXCEPT ![s] = OnWire(s)'] /\ Wire[s] = OnWire(s) /\ Waiting[s] = Waiters(s)
    BY MapOne
  <1>. QED BY <1>1, <1>2 DEF E!Lose, E!Answer, E!Next

(***************************************************************************)
(* The steps of a handler.                                                 *)
(***************************************************************************)
ServersInv == \A s \in Servers : ServerInvX(s)

\* A message is for a thread that waits.
LEMMA ForWaiter ==
    ASSUME TypeOK, ServersInv, NEW s \in Servers
    PROVE  /\ req[s] # <<>> => Head(req[s]).by \in Waiters(s)
           /\ rep[s] # <<>> => Head(rep[s]).by \in Waiters(s)
  <1>1. ServerInvX(s)
    BY DEF ServersInv
  <1>. QED BY <1>1, MessageTypes DEF ServerInvX, Meant, Waiters

\* Who waits where after client c's step.
LEMMA ClientWaiters ==
    ASSUME TypeOK, NEW c \in Clients, NEW r, Step(c, r), UNCHANGED rd, NEW s \in Servers
    PROVE  /\ (cl[c].pc = "recv" /\ cl[c].srv = s <=> r.pc = "recv" /\ r.srv = s)
                => Waiters(s)' = Waiters(s)
           /\ c \in Waiters(s) <=> cl[c].pc = "recv" /\ cl[c].srv = s
           /\ ~(r.pc = "recv" /\ r.srv = s) => Waiters(s)' = Waiters(s) \ {c}
           /\ r.pc = "recv" /\ r.srv = s => Waiters(s)' = Waiters(s) \cup {c}
  <1>1. c \in Threads
    BY DEF Threads
  <1>2. /\ WaitsAt(c, s)' <=> r.pc = "recv" /\ r.srv = s
        /\ WaitsAt(c, s) <=> cl[c].pc = "recv" /\ cl[c].srv = s
        /\ \A t \in Threads : t # c => (WaitsAt(t, s)' <=> WaitsAt(t, s))
    BY ClientWaits
  <1>. QED BY <1>1, <1>2 DEF Waiters

\* A step outside an exchange.
LEMMA QuietStep ==
    ASSUME TypeOK, ServersInv, NEW c \in Clients, NEW r, Step(c, r),
           UNCHANGED <<rd, wpc, alive, open, req, rep>>,
           \A d \in Clients : d # c => made'[d] = made[d],
           cl[c].pc # "recv", r.pc # "recv"
    PROVE  ServersInv' /\ UNCHANGED E!vars
  <1>1. ASSUME NEW s \in Servers
        PROVE  ServerInvX(s)' /\ OnWire(s)' = OnWire(s) /\ Waiters(s)' = Waiters(s)
    <2>1. c \notin Waiters(s) /\ Waiters(s)' = Waiters(s)
      BY ClientWaiters
    <2>2. /\ req[s] # <<>> => Head(req[s]).by # c
          /\ rep[s] # <<>> => Head(rep[s]).by # c
      BY <2>1, ForWaiter
    <2>3. ServerInvX(s)
      BY DEF ServersInv
    <2>. QED BY <2>1, <2>2, <2>3, ServerKept
  <1>. QED BY <1>1, MapStutter DEF ServersInv

\* Client c begins to wait; its request, if it is sent at all, is the only
\* message of the connection.
LEMMA AskStep ==
    ASSUME IInv, ServersInv, NEW c \in Clients, cl[c].pc = "send",
           NEW s \in Servers, s = cl[c].srv,
           NEW r, Step(c, r), r.pc = "recv", r.srv = s, r.cmd = cl[c].cmd,
           UNCHANGED <<rd, wpc, alive, open, rep, made>>,
           NEW m \in Messages, m.by = c, m.kind = cl[c].cmd,
           \/ UNCHANGED req
           \/ /\ alive[s]
              /\ req' = [req EXCEPT ![s] = Append(@, m)]
    PROVE  ServersInv' /\ E!Next
  <1>1. TypeOK /\ s \in Servers /\ c \in Threads /\ c \in holders[s]
    BY Locals DEF IInv, TypeInv, HandlerInv
  <1>2. \A x \in Servers : ServerInvX(x) /\ ~WaitsAt(c, x)
    BY <1>1, ClientWaits DEF ServersInv
  <1>3. Waiters(s) = {} /\ req[s] = <<>> /\ rep[s] = <<>>
    BY <1>1, <1>2, QuietAtSend
  <1>4. Waiters(s)' = {c}
    BY <1>1, <1>3, ClientWaiters
  <1>5. ASSUME NEW x \in Servers, x # s
        PROVE  ServerInvX(x)' /\ OnWire(x)' = OnWire(x) /\ Waiters(x)' = Waiters(x)
    <2>1. c \notin Waiters(x) /\ Waiters(x)' = Waiters(x)
      BY <1>1, <1>5, ClientWaiters
    <2>2. /\ req[x] # <<>> => Head(req[x]).by # c
          /\ rep[x] # <<>> => Head(rep[x]).by # c
      BY <1>1, <2>1, ForWaiter
    <2>3. req'[x] = req[x] /\ rep'[x] = rep[x]
      BY <1>1, <1>5 DEF TypeOK
    <2>. QED BY <1>1, <1>2, <2>1, <2>2, <2>3, ServerKept
  <1>6. rep'[s] = <<>> /\ (req'[s] = <<>> \/ (req'[s] = <<m>> /\ alive'[s]))
    <2>1. Append(<<>>, m) = <<m>>
      BY OneMessage
    <2>2. req'[s] = req[s] \/ (req'[s] = Append(req[s], m) /\ alive[s])
      <3>1. DOMAIN req = Servers
        BY <1>1 DEF TypeOK
      <3>2. ASSUME req' = [req EXCEPT ![s] = Append(@, m)] PROVE req'[s] = Append(req[s], m)
        BY <3>1, <3>2, Zenon
      <3>. QED BY <3>2
    <2>. QED BY <1>3, <2>1, <2>2
  <1>7. Meant(s, m)'
    <2>1. WaitsAt(c, s)' /\ cl'[c] = r
      BY <1>1, ClientWaits
    <2>. QED BY <2>1 DEF Meant
  <1>8. ServerInvX(s)'
    <2>1. Head(<<m>>) = m /\ Len(<<m>>) = 1
      BY OneMessage
    <2>2. ServerInvX(s)
      BY <1>2
    <2>. QED BY <1>6, <1>7, <2>1, <2>2 DEF ServerInvX
  <1>9. OnWire(s) = E!Quiet /\ OnWire(s)' \in {E!Asked(c), E!Quiet}
    BY <1>3, <1>6 DEF OnWire, E!Quiet, E!Asked
  <1>10. E!Next
    BY <1>1, <1>2, <1>3, <1>4, <1>5, <1>9, MapAsk
  <1>. QED BY <1>5, <1>8, <1>10 DEF ServersInv

\* Client c stops waiting, and nothing is left on the connection.
LEMMA EndStep ==
    ASSUME IInv, ServersInv, NEW c \in Clients, cl[c].pc = "recv",
           NEW s \in Servers, s = cl[c].srv,
           NEW r, Step(c, r), r.pc # "recv",
           UNCHANGED <<rd, wpc, alive, open, req, made>>,
           \/ UNCHANGED rep /\ rep[s] = <<>> /\ req[s] = <<>>
           \/ rep[s] # <<>> /\ Take(s)
    PROVE  ServersInv' /\ E!Next
  <1>1. TypeOK /\ s \in Servers /\ c \in Threads
    BY Locals DEF IInv, TypeInv
  <1>2. \A x \in Servers : ServerInvX(x)
    BY DEF ServersInv
  <1>3. WaitsAt(c, s) /\ \A t \in Threads : WaitsAt(t, s) => t = c
    <2>1. WaitsAt(c, s)
      BY DEF WaitsAt
    <2>. QED BY <1>1, <2>1, OneWaiter
  <1>4. Waiters(s) = {c} /\ Waiters(s)' = {}
    <2>1. Waiters(s) = {c}
      BY <1>1, <1>3 DEF Waiters
    <2>. QED BY <1>1, <2>1, ClientWaiters
  <1>5. ASSUME NEW x \in Servers, x # s
        PROVE  ServerInvX(x)' /\ OnWire(x)' = OnWire(x) /\ Waiters(x)' = Waiters(x)
    <2>1. c \notin Waiters(x) /\ Waiters(x)' = Waiters(x)
      BY <1>1, <1>5, ClientWaiters
    <2>2. /\ req[x] # <<>> => Head(req[x]).by # c
          /\ rep[x] # <<>> => Head(rep[x]).by # c
      BY <1>1, <2>1, ForWaiter
    <2>3. req'[x] = req[x] /\ rep'[x] = rep[x]
      BY <1>1, <1>5 DEF TypeOK, Take
    <2>. QED BY <1>1, <1>2, <2>1, <2>2, <2>3, ServerKept
  <1>6. req[s] = <<>> /\ req'[s] = <<>> /\ rep'[s] = <<>>
        /\ (rep[s] # <<>> => Head(rep[s]).by = c)
    <2>1. rep[s] # <<>> => Head(rep[s]).by = c
      BY <1>1, <1>4, ForWaiter
    <2>2. rep[s] # <<>> => req[s] = <<>> /\ Tail(rep[s]) = <<>>
      <3>1. rep[s] # <<>> => Len(rep[s]) = 1 /\ req[s] = <<>>
        BY <1>2 DEF ServerInvX
      <3>2. rep[s] # <<>> => Tail(rep[s]) \in Seq(Messages) /\ Len(Tail(rep[s])) = 0
        BY <1>1, <3>1, MessageTypes, HeadTailProperties
      <3>. QED BY <3>1, <3>2, EmptySeq
    <2>. QED BY <1>1, <2>1, <2>2 DEF Take, TypeOK
  <1>7. ServerInvX(s)'
    BY <1>2, <1>6 DEF ServerInvX
  <1>8. OnWire(s) \in {E!Answered(c), E!Quiet} /\ OnWire(s)' = E!Quiet
    BY <1>6 DEF OnWire, E!Quiet, E!Answered
  <1>9. E!Next
    BY <1>1, <1>4, <1>5, <1>8, MapEnd
  <1>. QED BY <1>5, <1>7, <1>9 DEF ServersInv

\* A new command starts modestly.
LEMMA ReceiveModest ==
    ASSUME TypeOK, NEW c \in Clients, NEW o \in Ops, Receive(c, o)
    PROVE  cl'[c].pc = "try" /\ cl'[c].cmd = "none" /\ cl'[c].answer = "none"
  <1>1. cl[c] \in ClientState
    BY Locals
  <1>2. cl'[c] = [cl[c] EXCEPT !.pc = "try", !.op = o, !.cmd = "none", !.todo = <<>>,
                               !.quit = FALSE, !.answer = "none"]
    BY DEF TypeOK, Receive, Step
  <1>. QED BY <1>1, <1>2 DEF ClientState

\* What the reader of a reply becomes.
LEMMA RecvMoves ==
    ASSUME TypeOK, NEW c \in Clients, Recv(c)
    PROVE  /\ cl'[c].pc \in {"unlock", "finish"}
           /\ cl'[c].op = cl[c].op /\ cl'[c].cmd = cl[c].cmd
           /\ cl'[c].answer = "YES" /\ cl[c].op = "create" =>
                \/ cl[c].answer = "YES"
                \/ cl[c].cmd = "create" /\ Head(rep[cl[c].srv]).ticket = "YES"
  <1>1. cl[c] \in ClientState
    BY Locals
  <1>2. ASSUME NEW r, Step(c, r) PROVE cl'[c] = r
    BY <1>2 DEF TypeOK, Step
  <1>3. CASE cl[c].cmd = "create" /\ Head(rep[cl[c].srv]).ticket = "YES"
    BY <1>1, <1>2, <1>3 DEF Recv, CreateAccepted, ClientState
  <1>4. CASE cl[c].cmd = "create" /\ Head(rep[cl[c].srv]).ticket # "YES"
    BY <1>1, <1>2, <1>4 DEF Recv, CreateRefused, ClientState
  <1>5. CASE cl[c].cmd # "create"
    BY <1>1, <1>2, <1>5 DEF Recv, ClientState
  <1>. QED BY <1>3, <1>4, <1>5

\* The clients' part of the invariant.
LEMMA ClientsKept ==
    ASSUME IInv, OnePiece, ExchangeInv, NEW c \in Clients,
           Handle(c) \/ \E o \in Ops : Receive(c, o)
    PROVE  \A d \in Clients : ClientInvX(d)'
  <1>1. TypeOK /\ ClientInvX(c) /\ cl[c].srv \in Servers
    BY Locals DEF IInv, TypeInv, ExchangeInv
  <1>2. PICK r : Step(c, r)
    BY HandlerMoves
  <1>3. \A d \in Clients : d # c => cl'[d] = cl[d]
    BY <1>1, <1>2 DEF TypeOK, Step
  <1>4. /\ \A d \in Clients : d # c => made'[d] = made[d]
        /\ Handle(c) => made' = made
    BY <1>1 DEF TypeOK, Handle, Receive, TryRed, Lookup, Lock, Tell, Stop, Send, SendFails, Recv,
           RecvClosed, Unlock, Extra, LateAck, After, Finish, network
  <1>5. ClientInvX(c)'
    <2>1. CASE \E o \in Ops : Receive(c, o)
      <3>1. cl'[c].pc = "try" /\ cl'[c].cmd = "none" /\ cl'[c].answer = "none"
        BY <1>1, <2>1, ReceiveModest
      <3>. QED BY <3>1 DEF ClientInvX
    <2>2. CASE Handle(c) /\ ~Recv(c)
      <3>1. Modest(c)
        BY <1>1, <2>2, ModestSteps
      <3>. QED BY <1>1, <1>4, <2>2, <3>1 DEF ClientInvX, Modest
    <2>3. CASE Recv(c)
      <3>1. made' = made /\ cl[c].pc = "recv" /\ rep[cl[c].srv] # <<>>
        BY <1>4, <2>3 DEF Handle, Recv, At
      <3>2. Head(rep[cl[c].srv]).by = c /\ ServerInvX(cl[c].srv)
            /\ Meant(cl[c].srv, Head(rep[cl[c].srv]))
        <4>1. WaitsAt(c, cl[c].srv) /\ c \in Threads
          BY <3>1 DEF WaitsAt, Threads
        <4>2. ServerInvX(cl[c].srv) /\ Meant(cl[c].srv, Head(rep[cl[c].srv]))
          BY <1>1, <3>1 DEF ExchangeInv, ServerInvX
        <4>. QED BY <1>1, <3>1, <4>1, <4>2, MessageTypes, OneWaiter DEF Meant
      <3>3. cl[c].cmd = "create" /\ Head(rep[cl[c].srv]).ticket = "YES" => made[c]
        BY <3>1, <3>2 DEF ServerInvX, Meant
      <3>. QED BY <1>1, <2>3, <3>1, <3>3, RecvMoves DEF ClientInvX
    <2>. QED BY <2>1, <2>2, <2>3
  <1>6. \A d \in Clients : d # c => ClientInvX(d)'
    BY <1>3, <1>4 DEF ExchangeInv, ClientInvX
  <1>. QED BY <1>5, <1>6

\* A handler's step keeps the invariant and maps to a step of Exchange.
LEMMA HandlerExchange ==
    ASSUME IInv, OnePiece, ExchangeInv, NEW c \in Clients,
           Handle(c) \/ \E o \in Ops : Receive(c, o)
    PROVE  ExchangeInv' /\ [E!Next]_(E!vars)
  <1>1. /\ TypeOK /\ ServersInv /\ ClientInvX(c) /\ HandlerInv(c)
        /\ cl[c] \in ClientState /\ cl[c].srv \in Servers
        /\ cl[c].pc # "late" /\ cl[c].pc # "extra" /\ cl[c].op # "copyfile"
    <2>1. TypeOK /\ cl[c] \in ClientState /\ cl[c].srv \in Servers
      BY Locals DEF IInv, TypeInv
    <2>. QED BY <2>1 DEF IInv, ExchangeInv, ServersInv, ClientInvX, HandlerInv, OnePiece, ClientState
  <1>2. PICK r : Step(c, r)
    BY HandlerMoves
  <1>3. cl'[c] = r
    BY <1>1, <1>2 DEF TypeOK, Step
  <1>4. UNCHANGED <<rd, wpc, alive, open>> /\ \A d \in Clients : d # c => made'[d] = made[d]
    BY <1>1 DEF TypeOK, Handle, Receive, TryRed, Lookup, Lock, Tell, Stop, Send, SendFails, Recv,
           RecvClosed, Unlock, Extra, LateAck, After, Finish, network
  <1>5. (\E o \in Ops : Receive(c, o)) \/ (Handle(c) /\ ~Recv(c)) =>
            (r.pc = "recv" => cl[c].pc = "send" /\ r.srv = cl[c].srv /\ r.cmd = cl[c].cmd)
    <2>1. CASE \E o \in Ops : Receive(c, o)
      BY <1>1, <1>3, <2>1, ReceiveModest
    <2>2. CASE Handle(c) /\ ~Recv(c)
      BY <1>1, <1>3, <2>2, ModestSteps DEF Modest
    <2>. QED BY <2>1, <2>2
  <1>6. SUFFICES ServersInv' /\ [E!Next]_(E!vars)
    BY ClientsKept DEF ExchangeInv, ServersInv
  <1>7. CASE \/ \E o \in Ops : Receive(c, o)
             \/ TryRed(c) \/ Lookup(c) \/ Lock(c) \/ Tell(c) \/ Stop(c)
             \/ Unlock(c) \/ After(c) \/ Finish(c)
    <2>1. cl[c].pc \notin {"recv", "send"} /\ UNCHANGED <<req, rep>>
      BY <1>7 DEF Receive, TryRed, Lookup, Lock, Tell, Stop, Unlock, After, Finish, At, network
    <2>2. r.pc # "recv"
      BY <1>5, <1>7, <2>1 DEF Recv, At, Handle
    <2>. QED BY <1>1, <1>2, <1>4, <2>1, <2>2, QuietStep
  <1>8. CASE Send(c) \/ SendFails(c)
    <2> DEFINE m == [by |-> c, kind |-> cl[c].cmd, ticket |-> ""]
    <2>1. m \in Messages /\ m.by = c /\ m.kind = cl[c].cmd
      BY <1>1 DEF Messages, Threads, ClientState
    <2>2. cl[c].pc = "send" /\ UNCHANGED <<rep, made>>
      BY <1>8 DEF Send, SendFails, At, network
    <2>3. r.pc = "recv" => r.srv = cl[c].srv /\ r.cmd = cl[c].cmd
      BY <1>5, <1>8, <2>2 DEF Recv, At, Handle
    <2>4. CASE Send(c)
      <3>1. Step(c, [cl[c] EXCEPT !.pc = "recv"])
        BY <1>1, <2>4 DEF Send
      <3>2. r.pc = "recv"
        <4>1. cl'[c] = [cl[c] EXCEPT !.pc = "recv"]
          BY <1>1, <3>1 DEF TypeOK, Step
        <4>. QED BY <1>1, <1>3, <4>1 DEF ClientState
      <3>3. \/ UNCHANGED req
            \/ /\ alive[cl[c].srv]
               /\ req' = [req EXCEPT ![cl[c].srv] = Append(@, m)]
        BY <2>4, Zenon DEF Send, Ask
      <3>. HIDE DEF m
      <3>. QED BY <1>1, <1>2, <1>4, <2>1, <2>2, <2>3, <3>2, <3>3, AskStep
    <2>5. CASE SendFails(c)
      <3>1. UNCHANGED req
        BY <2>5 DEF SendFails, network
      <3>. HIDE DEF m
      <3>2. CASE r.pc = "recv"
        BY <1>1, <1>2, <1>4, <2>1, <2>2, <2>3, <3>1, <3>2, AskStep
      <3>3. CASE r.pc # "recv"
        BY <1>1, <1>2, <1>4, <2>2, <3>1, <3>3, QuietStep
      <3>. QED BY <3>2, <3>3
    <2>. QED BY <1>8, <2>4, <2>5
  <1>9. CASE Recv(c)
    <2>1. /\ cl[c].pc = "recv" /\ UNCHANGED <<req, made>>
          /\ rep[cl[c].srv] # <<>> /\ Take(cl[c].srv)
      BY <1>9 DEF Recv, At
    <2>2. r.pc # "recv"
      BY <1>1, <1>3, <1>9, RecvMoves
    <2>. QED BY <1>1, <1>2, <1>4, <2>1, <2>2, EndStep
  <1>10. CASE RecvClosed(c)
    <2>1. /\ cl[c].pc = "recv" /\ UNCHANGED <<req, rep, made>>
          /\ Closed(cl[c].srv)
      BY <1>10 DEF RecvClosed, At, network
    <2>2. r.pc # "recv"
      BY <1>5, <1>10, <2>1 DEF Recv, Closed, Handle
    <2>3. req[cl[c].srv] = <<>> /\ rep[cl[c].srv] = <<>>
      BY <1>1, <2>1 DEF ServersInv, ServerInvX, Closed
    <2>. QED BY <1>1, <1>2, <1>4, <2>1, <2>2, <2>3, EndStep
  <1>. QED BY <1>1, <1>7, <1>8, <1>9, <1>10 DEF Handle, Extra, LateAck, At

(***************************************************************************)
(* The steps of a storage server and of the two threads that tend it.      *)
(***************************************************************************)

\* A connection whose messages and whose redundancy thread rest.
LEMMA ConnectionKept ==
    ASSUME TypeOK, NEW x \in Servers, ServerInvX(x), UNCHANGED cl,
           rd'[x].pc = "hear" <=> rd[x].pc = "hear",
           req'[x] = req[x], rep'[x] = rep[x], alive'[x] = alive[x], open'[x] = open[x],
           wpc'[x] \in {"want", "mark", "post"} => ~alive[x],
           \A d \in Clients : made[d] => made'[d]
    PROVE  ServerInvX(x)' /\ OnWire(x)' = OnWire(x) /\ Waiters(x)' = Waiters(x)
  <1>1. \A t \in Threads : WaitsAt(t, x)' <=> WaitsAt(t, x)
    BY DEF WaitsAt
  <1>2. /\ req[x] # <<>> => Meant(x, Head(req[x]))'
        /\ rep[x] # <<>> => Meant(x, Head(rep[x]))'
    <2>1. ASSUME NEW m \in Messages, Meant(x, m) PROVE Meant(x, m)'
      <3>1. m.by \in Threads
        BY DEF Messages
      <3>. QED BY <1>1, <2>1, <3>1 DEF Meant
    <2>2. /\ req[x] # <<>> => Head(req[x]) \in Messages /\ Meant(x, Head(req[x]))
          /\ rep[x] # <<>> => Head(rep[x]) \in Messages /\ Meant(x, Head(rep[x]))
      BY MessageTypes DEF ServerInvX
    <2>3. req[x] # <<>> => Meant(x, Head(req[x]))'
      BY <2>1, <2>2 DEF Meant
    <2>4. rep[x] # <<>> => Meant(x, Head(rep[x]))'
      BY <2>1, <2>2 DEF Meant
    <2>. QED BY <2>3, <2>4
  <1>3. ServerInvX(x)'
    BY <1>2 DEF ServerInvX
  <1>. QED BY <1>1, <1>3 DEF Waiters, OnWire

\* The clients' part is about their own locals and what was made for them.
LEMMA ClientsRest ==
    ASSUME UNCHANGED cl, \A d \in Clients : made[d] => made'[d],
           \A d \in Clients : ClientInvX(d)
    PROVE  \A d \in Clients : ClientInvX(d)'
BY DEF ClientInvX

LEMMA ServeExchange ==
    ASSUME IInv, ExchangeInv, NEW s \in Servers, Serve(s)
    PROVE  ExchangeInv' /\ E!Next
  <1>. PICK m \in Messages : m = Head(req[s])
    BY MessageTypes DEF IInv, TypeInv, Serve
  <1>1. TypeOK /\ ServersInv /\ ServerInvX(s) /\ m.by \in Threads
    BY DEF IInv, TypeInv, ExchangeInv, ServersInv, Messages
  <1>2. /\ req[s] # <<>> /\ Len(req[s]) = 1 /\ rep[s] = <<>> /\ Meant(s, m)
        /\ alive[s] /\ open[s]
    BY <1>1 DEF Serve, ServerInvX
  <1>3. PICK t \in {"YES", "NO"} :
           /\ rep' = [rep EXCEPT ![s] = Append(@, [m EXCEPT !.ticket = t])]
           /\ made' = IF m.kind = "create" /\ t = "YES" THEN [made EXCEPT ![m.by] = TRUE]
                      ELSE made
    <2>1. \E t \in IF m.kind = "create" /\ "refuse" \in Events THEN {"YES", "NO"} ELSE {"YES"} :
           /\ rep' = [rep EXCEPT ![s] = Append(@, [m EXCEPT !.ticket = t])]
           /\ made' = IF m.kind = "create" /\ t = "YES" THEN [made EXCEPT ![m.by] = TRUE]
                      ELSE made
      BY Zenon DEF Serve
    <2>. QED BY <2>1
  <1>4. \A d \in Clients : /\ made[d] => made'[d]
                           /\ d = m.by /\ m.kind = "create" /\ t = "YES" => made'[d]
    BY <1>1, <1>3 DEF TypeOK
  <1>. PICK n \in Messages : n = [m EXCEPT !.ticket = t]
    BY DEF Messages
  <1>5. n.by = m.by /\ n.kind = m.kind /\ n.ticket = t
    BY <1>1 DEF Messages
  <1>6. UNCHANGED <<cl, rd, wpc, alive, open>>
    BY DEF Serve
  <1>7. ASSUME NEW x \in Servers, x # s
        PROVE  ServerInvX(x)' /\ OnWire(x)' = OnWire(x) /\ Waiters(x)' = Waiters(x)
    <2>1. req'[x] = req[x] /\ rep'[x] = rep[x]
      BY <1>1, <1>3, <1>7 DEF Serve, TypeOK
    <2>2. wpc[x] \in {"want", "mark", "post"} => ~alive[x]
      BY <1>1 DEF ServersInv, ServerInvX
    <2>. QED BY <1>1, <1>4, <1>6, <2>1, <2>2, ConnectionKept DEF ServersInv
  <1>8. req'[s] = <<>> /\ rep'[s] = <<n>>
    <2>1. req'[s] = Tail(req[s])
      BY <1>1 DEF Serve, TypeOK
    <2>2. Tail(req[s]) = <<>>
      <3>1. Tail(req[s]) \in Seq(Messages) /\ Len(Tail(req[s])) = 0
        BY <1>1, <1>2, MessageTypes, HeadTailProperties
      <3>. QED BY <3>1, EmptySeq
    <2>3. rep'[s] = Append(<<>>, n)
      <3>1. DOMAIN rep = Servers
        BY <1>1 DEF TypeOK
      <3>2. rep'[s] = Append(rep[s], n)
        BY <1>3, <3>1, Zenon
      <3>. QED BY <1>2, <3>2
    <2>4. Append(<<>>, n) = <<n>>
      BY OneMessage
    <2>. QED BY <2>1, <2>2, <2>3, <2>4
  <1>9. \A u \in Threads, x \in Servers : WaitsAt(u, x)' <=> WaitsAt(u, x)
    BY <1>6 DEF WaitsAt
  <1>10. WaitsAt(m.by, s) /\ (m.by \in Clients => m.kind = cl[m.by].cmd)
    BY <1>2 DEF Meant
  <1>11. Waiters(s)' = Waiters(s) /\ m.by \in Waiters(s)
    BY <1>1, <1>9, <1>10 DEF Waiters
  <1>12. OnWire(s) = E!Asked(m.by) /\ OnWire(s)' = E!Answered(m.by)
    <2>1. Head(<<n>>) = n /\ <<n>> # <<>>
      BY OneMessage
    <2>2. OnWire(s) = E!Asked(m.by)
      BY <1>2 DEF OnWire, E!Asked
    <2>. QED BY <1>5, <1>8, <2>1, <2>2 DEF OnWire, E!Answered
  <1>13. WaitsAt(n.by, s)' /\ (n.by \in Clients => n.kind = cl'[n.by].cmd)
    BY <1>1, <1>5, <1>6, <1>9, <1>10
  <1>14. ServerInvX(s)'
    <2>1. Head(<<n>>) = n /\ Len(<<n>>) = 1 /\ <<n>> # <<>>
      BY OneMessage
    <2>2. Meant(s, Head(rep[s]))'
      BY <1>8, <1>13, <2>1 DEF Meant
    <2>3. \A c \in Clients : n.by = c /\ n.kind = "create" /\ n.ticket = "YES" => made'[c]
      BY <1>4, <1>5
    <2>4. wpc'[s] \notin {"want", "mark", "post"} /\ alive'[s] /\ open'[s]
      BY <1>1, <1>2, <1>6 DEF ServerInvX
    <2>. QED BY <1>8, <2>1, <2>2, <2>3, <2>4 DEF ServerInvX
  <1>15. ExchangeInv'
    BY <1>4, <1>6, <1>7, <1>14, ClientsRest DEF ExchangeInv
  <1>16. E!Next
    <2>. QED BY <1>7, <1>11, <1>12, MapWire
  <1>. QED BY <1>15, <1>16

LEMMA CrashExchange ==
    ASSUME IInv, ExchangeInv, NEW s \in Servers, Crash(s)
    PROVE  ExchangeInv' /\ [E!Next]_(E!vars)
  <1>1. TypeOK /\ ServersInv /\ ServerInvX(s) /\ UNCHANGED <<cl, rd, wpc, open, rep, made>>
    BY DEF IInv, TypeInv, ExchangeInv, ServersInv, Crash
  <1>2. req'[s] = <<>> /\ ~alive'[s]
    BY <1>1 DEF Crash, TypeOK
  <1>3. ASSUME NEW x \in Servers, x # s
        PROVE  ServerInvX(x)' /\ OnWire(x)' = OnWire(x) /\ Waiters(x)' = Waiters(x)
    <2>1. req'[x] = req[x] /\ alive'[x] = alive[x]
      BY <1>1, <1>3 DEF Crash, TypeOK
    <2>2. wpc[x] \in {"want", "mark", "post"} => ~alive[x]
      BY <1>1 DEF ServersInv, ServerInvX
    <2>. QED BY <1>1, <2>1, <2>2, ConnectionKept DEF ServersInv
  <1>4. \A u \in Threads : WaitsAt(u, s)' <=> WaitsAt(u, s)
    BY <1>1 DEF WaitsAt
  <1>5. ServerInvX(s)'
    <2>1. rep[s] # <<>> => Meant(s, Head(rep[s]))'
      <3>1. rep[s] # <<>> => Head(rep[s]).by \in Threads /\ Meant(s, Head(rep[s]))
        BY <1>1, MessageTypes DEF ServerInvX
      <3>. QED BY <1>1, <1>4, <3>1 DEF Meant
    <2>. QED BY <1>1, <1>2, <2>1 DEF ServerInvX
  <1>6. ExchangeInv'
    BY <1>1, <1>3, <1>5, ClientsRest DEF ExchangeInv
  <1>7. \A x \in Servers : Waiters(x)' = Waiters(x)
    BY <1>3, <1>4 DEF Waiters
  <1>8. CASE rep[s] = <<>>
    <2>1. OnWire(s)' = E!Quiet
      BY <1>1, <1>2, <1>8 DEF OnWire, E!Quiet
    <2>. QED BY <1>3, <1>6, <1>7, <2>1, MapWire
  <1>9. CASE rep[s] # <<>>
    <2>1. OnWire(s)' = OnWire(s)
      BY <1>1, <1>2, <1>9 DEF OnWire, ServerInvX
    <2>. QED BY <1>3, <1>6, <1>7, <2>1, MapStutter
  <1>. QED BY <1>8, <1>9

\* Marking a server down throws away what it had answered.
LEMMA WatcherExchange ==
    ASSUME IInv, ExchangeInv, NEW s \in Servers, Watcher(s)
    PROVE  ExchangeInv' /\ [E!Next]_(E!vars)
  <1>1. /\ TypeOK /\ ServersInv /\ ServerInvX(s) /\ UNCHANGED <<cl, rd, alive, req, made>>
    BY DEF IInv, TypeInv, ExchangeInv, ServersInv, Watcher, WatchEof, WatchLock, WatchMark,
           WatchPost, network
  <1>2. /\ \A x \in Servers : x # s => rep'[x] = rep[x] /\ open'[x] = open[x] /\ wpc'[x] = wpc[x]
        /\ wpc'[s] \in {"want", "mark", "post"} => ~alive[s]
    BY <1>1 DEF Watcher, WatchEof, WatchLock, WatchMark, WatchPost, network, TypeOK, ServerInvX
  <1>3. ASSUME NEW x \in Servers, x # s
        PROVE  ServerInvX(x)' /\ OnWire(x)' = OnWire(x) /\ Waiters(x)' = Waiters(x)
    <2>1. wpc[x] \in {"want", "mark", "post"} => ~alive[x]
      BY <1>1 DEF ServersInv, ServerInvX
    <2>. QED BY <1>1, <1>2, <1>3, <2>1, ConnectionKept DEF ServersInv
  <1>4. CASE ~WatchMark(s)
    <2>1. UNCHANGED <<rep, open>>
      BY <1>4 DEF Watcher, WatchEof, WatchLock, WatchPost, network
    <2>2. ServerInvX(s)' /\ OnWire(s)' = OnWire(s) /\ Waiters(s)' = Waiters(s)
      BY <1>1, <1>2, <2>1, ConnectionKept
    <2>3. ExchangeInv'
      BY <1>1, <1>3, <2>2, ClientsRest DEF ExchangeInv
    <2>. QED BY <1>3, <2>2, <2>3, MapStutter
  <1>5. CASE WatchMark(s)
    <2>1. rep'[s] = <<>> /\ ~open'[s] /\ ~alive[s]
      BY <1>1, <1>5 DEF WatchMark, TypeOK, ServerInvX
    <2>2. req[s] = <<>>
      BY <1>1, <2>1 DEF ServerInvX
    <2>3. ServerInvX(s)'
      BY <1>1, <2>1, <2>2 DEF ServerInvX
    <2>4. ExchangeInv'
      BY <1>1, <1>3, <2>3, ClientsRest DEF ExchangeInv
    <2>5. OnWire(s)' = E!Quiet
      BY <1>1, <2>1, <2>2 DEF OnWire, E!Quiet
    <2>6. \A x \in Servers : Waiters(x)' = Waiters(x)
      BY <1>1 DEF Waiters, WaitsAt
    <2>. QED BY <1>3, <2>4, <2>5, <2>6, MapWire
  <1>. QED BY <1>4, <1>5

\* Who waits where after a step of server s's redundancy thread.
LEMMA RoundWaiters ==
    ASSUME NEW s \in Servers, UNCHANGED cl
    PROVE  /\ Red(s) \in Waiters(s) <=> rd[s].pc = "hear"
           /\ rd'[s].pc = "hear" => Waiters(s)' = Waiters(s) \cup {Red(s)}
           /\ rd'[s].pc # "hear" => Waiters(s)' = Waiters(s) \ {Red(s)}
  <1>1. Red(s) \in Threads /\ Red(s) \notin Clients
    BY ThreadsAssumption DEF Threads
  <1>. QED BY <1>1 DEF Waiters, WaitsAt

LEMMA RoundExchange ==
    ASSUME IInv, ExchangeInv, NEW s \in Servers, Redundancy(s)
    PROVE  ExchangeInv' /\ [E!Next]_(E!vars)
  <1>1. /\ TypeOK /\ ServersInv /\ ServerInvX(s) /\ UNCHANGED <<cl, wpc, alive, open, made>>
        /\ Red(s) \in Threads /\ Red(s) \notin Clients
    <2>1. Red(s) \in Threads /\ Red(s) \notin Clients
      BY ThreadsAssumption DEF Threads
    <2>. QED BY <2>1 DEF IInv, TypeInv, ExchangeInv, ServersInv, Redundancy, RedTimer, RedLock,
           RedLockServers, RedAsk, RedHear, RedUnlock, RedPost, network
  <1>2. ASSUME NEW x \in Servers, x # s
        PROVE  rd'[x] = rd[x] /\ req'[x] = req[x] /\ rep'[x] = rep[x]
    <2>1. rd'[x] = rd[x]
      BY <1>2, RoundStep
    <2>2. req'[x] = req[x] /\ rep'[x] = rep[x]
      BY <1>1, <1>2 DEF Redundancy, RedTimer, RedLock, RedLockServers, RedAsk, RedHear,
                        RedUnlock, RedPost, network, TypeOK, Ask, Take
    <2>. QED BY <2>1, <2>2
  <1>3. ASSUME NEW x \in Servers, x # s
        PROVE  ServerInvX(x)' /\ OnWire(x)' = OnWire(x) /\ Waiters(x)' = Waiters(x)
    <2>1. wpc[x] \in {"want", "mark", "post"} => ~alive[x]
      BY <1>1 DEF ServersInv, ServerInvX
    <2>. QED BY <1>1, <1>2, <1>3, <2>1, ConnectionKept DEF ServersInv
  <1>4. ServerInvX(s)' => ExchangeInv'
    BY <1>1, <1>3, ClientsRest DEF ExchangeInv
  <1>5. ASSUME NEW pc, RedGo(s, pc) PROVE rd'[s].pc = pc
    BY <1>1, <1>5 DEF RedGo, TypeOK, RedState
  <1>6. CASE UNCHANGED <<req, rep>> /\ rd[s].pc # "hear" /\ rd'[s].pc # "hear"
    <2>1. wpc[s] \in {"want", "mark", "post"} => ~alive[s]
      BY <1>1 DEF ServerInvX
    <2>2. ServerInvX(s)' /\ OnWire(s)' = OnWire(s) /\ Waiters(s)' = Waiters(s)
      BY <1>1, <1>6, <2>1, ConnectionKept
    <2>. QED BY <1>3, <1>4, <2>2, MapStutter
  <1>7. CASE RedTimer(s) \/ RedLock(s) \/ RedLockServers(s) \/ RedUnlock(s) \/ RedPost(s)
    <2>1. UNCHANGED <<req, rep>> /\ rd[s].pc # "hear"
      BY <1>7 DEF RedTimer, RedLock, RedLockServers, RedUnlock, RedPost, network
    <2>2. rd'[s].pc # "hear"
      <3>1. CASE RedLockServers(s)
        <4>1. rd' = [rd EXCEPT ![s] = [@ EXCEPT !.pc = "ask", !.listed = FALSE]]
                => rd'[s].pc = "ask"
          BY <1>1 DEF TypeOK, RedState
        <4>. QED BY <1>5, <3>1, <4>1 DEF RedLockServers
      <3>2. CASE RedTimer(s)
        BY <1>5, <3>2 DEF RedTimer
      <3>3. CASE RedLock(s) \/ RedUnlock(s) \/ RedPost(s)
        BY <1>5, <3>3 DEF RedLock, RedUnlock, RedPost
      <3>. QED BY <1>7, <3>1, <3>2, <3>3
    <2>. QED BY <1>6, <2>1, <2>2
  <1>8. CASE RedAsk(s)
    <2>1. rd[s].pc = "ask" /\ UNCHANGED rep
      BY <1>8 DEF RedAsk
    <2>2. CASE UNCHANGED req /\ RedGo(s, "u1")
      BY <1>5, <1>6, <2>1, <2>2
    <2>3. CASE /\ Ask(s, [by |-> Red(s), kind |-> "red", ticket |-> ""])
               /\ RedGo(s, "hear")
      <3>. PICK m \in Messages : m = [by |-> Red(s), kind |-> "red", ticket |-> ""]
        BY <1>1 DEF Messages
      <3>1. Red(s) \in holders[s] /\ \A x \in Servers : ~WaitsAt(Red(s), x)
        BY <1>1, <2>1 DEF IInv, RoundInv, WaitsAt, Red
      <3>2. Waiters(s) = {} /\ req[s] = <<>> /\ rep[s] = <<>>
        BY <1>1, <3>1, QuietAtSend
      <3>3. rd'[s].pc = "hear"
        BY <1>5, <2>3
      <3>4. Waiters(s)' = {Red(s)}
        BY <1>1, <3>2, <3>3, RoundWaiters
      <3>5. rep'[s] = <<>> /\ (req'[s] = <<>> \/ (req'[s] = <<m>> /\ alive'[s]))
        <4>1. req' = req \/ (req' = [req EXCEPT ![s] = Append(@, m)] /\ alive[s])
          BY <2>3, Zenon DEF Ask
        <4>2. DOMAIN req = Servers
          BY <1>1 DEF TypeOK
        <4>3. ASSUME req' = [req EXCEPT ![s] = Append(@, m)] PROVE req'[s] = Append(req[s], m)
          BY <4>2, <4>3, Zenon
        <4>4. Append(<<>>, m) = <<m>>
          BY OneMessage
        <4>. QED BY <1>1, <2>1, <3>2, <4>1, <4>3, <4>4
      <3>6. m.by = Red(s)
        OBVIOUS
      <3>7. Meant(s, m)'
        BY <1>1, <3>3, <3>6 DEF Meant, WaitsAt
      <3>8. ServerInvX(s)'
        <4>1. Head(<<m>>) = m /\ Len(<<m>>) = 1
          BY OneMessage
        <4>. QED BY <1>1, <3>5, <3>7, <4>1 DEF ServerInvX
      <3>9. OnWire(s) = E!Quiet /\ OnWire(s)' \in {E!Asked(Red(s)), E!Quiet}
        <4>1. Head(<<m>>) = m /\ <<m>> # <<>>
          BY OneMessage
        <4>. QED BY <3>2, <3>5, <3>6, <4>1 DEF OnWire, E!Quiet, E!Asked
      <3>10. E!Next
        BY <1>1, <1>3, <3>1, <3>2, <3>4, <3>9, MapAsk
      <3>. QED BY <1>4, <3>8, <3>10
    <2>. QED BY <1>8, <2>2, <2>3 DEF RedAsk
  <1>9. CASE RedHear(s)
    <2>1. rd[s].pc = "hear" /\ UNCHANGED req
      BY <1>9 DEF RedHear
    <2>2. rd'[s].pc # "hear"
      BY <1>1, <1>9 DEF RedHear, TypeOK
    <2>3. WaitsAt(Red(s), s) /\ \A t \in Threads : WaitsAt(t, s) => t = Red(s)
      <3>1. WaitsAt(Red(s), s)
        BY <2>1 DEF WaitsAt
      <3>. QED BY <1>1, <3>1, OneWaiter
    <2>4. Waiters(s) = {Red(s)} /\ Waiters(s)' = {}
      <3>1. Waiters(s) = {Red(s)}
        BY <1>1, <2>3 DEF Waiters
      <3>. QED BY <1>1, <2>2, <3>1, RoundWaiters
    <2>5. \/ rep[s] # <<>> /\ Take(s)
          \/ UNCHANGED rep /\ rep[s] = <<>> /\ req[s] = <<>>
      BY <1>1, <1>9 DEF RedHear, Closed, ServerInvX
    <2>6. req[s] = <<>> /\ rep'[s] = <<>> /\ (rep[s] # <<>> => Head(rep[s]).by = Red(s))
      <3>1. rep[s] # <<>> => Head(rep[s]).by = Red(s)
        BY <1>1, <2>4, ForWaiter
      <3>2. rep[s] # <<>> => Len(rep[s]) = 1 /\ req[s] = <<>>
        BY <1>1 DEF ServerInvX
      <3>3. rep[s] # <<>> => Tail(rep[s]) = <<>>
        <4>1. rep[s] # <<>> => Tail(rep[s]) \in Seq(Messages) /\ Len(Tail(rep[s])) = 0
          BY <1>1, <3>2, MessageTypes, HeadTailProperties
        <4>. QED BY <4>1, EmptySeq
      <3>. QED BY <1>1, <2>5, <3>1, <3>2, <3>3 DEF Take, TypeOK
    <2>7. ServerInvX(s)'
      BY <1>1, <2>1, <2>6 DEF ServerInvX
    <2>8. OnWire(s) \in {E!Answered(Red(s)), E!Quiet} /\ OnWire(s)' = E!Quiet
      BY <2>1, <2>6 DEF OnWire, E!Quiet, E!Answered
    <2>9. E!Next
      BY <1>1, <1>3, <2>4, <2>8, MapEnd
    <2>. QED BY <1>4, <2>7, <2>9
  <1>. QED BY <1>7, <1>8, <1>9 DEF Redundancy

LEMMA InitExchange == Init => ExchangeInv /\ E!Init
  <1>. SUFFICES ASSUME Init PROVE ExchangeInv /\ E!Init
    OBVIOUS
  <1>1. \A s \in Servers : ServerInvX(s) /\ Waiters(s) = {} /\ OnWire(s) = E!Quiet
    BY DEF Init, ServerInvX, Waiters, WaitsAt, OnWire, E!Quiet
  <1>2. \A c \in Clients : ClientInvX(c)
    BY DEF Init, ClientInvX
  <1>. QED BY <1>1, <1>2 DEF ExchangeInv, E!Init, Waiting, Wire

LEMMA ExchangeStep ==
    OnePiece /\ IInv /\ ExchangeInv /\ [Next]_vars => ExchangeInv' /\ [E!Next]_(E!vars)
  <1>. SUFFICES ASSUME OnePiece, IInv, ExchangeInv, [Next]_vars
                PROVE  ExchangeInv' /\ [E!Next]_(E!vars)
    OBVIOUS
  <1>1. CASE UNCHANGED vars
    <2>1. \A s \in Servers : Waiters(s)' = Waiters(s) /\ OnWire(s)' = OnWire(s)
      BY <1>1 DEF vars, Waiters, WaitsAt, OnWire
    <2>2. ExchangeInv'
      BY <1>1 DEF vars, ExchangeInv, ServerInvX, ClientInvX, Meant, WaitsAt
    <2>. QED BY <2>1, <2>2, MapStutter
  <1>2. CASE Next
    BY <1>2, HandlerExchange, ServeExchange, CrashExchange, WatcherExchange, RoundExchange
       DEF Next
  <1>. QED BY <1>1, <1>2

\* Where an exchange is one piece, no handler and no round ever reads what was
\* meant for another: the naming server implements Exchange, whatever the number
\* of clients and storage servers.
THEOREM Implements ==
    ASSUME OnePiece PROVE Spec => OwnAnswers
  <1>1. Balanced
    BY DEF OnePiece
  <1>2. IInv /\ [Next]_vars => IInv'
    BY <1>1, InvStep
  <1>3. IInv /\ ExchangeInv /\ [Next]_vars => ExchangeInv' /\ [E!Next]_(E!vars)
    BY ExchangeStep
  <1>. QED BY <1>2, <1>3, InitInv, InitExchange, PTL DEF Spec, OwnAnswers, E!Spec

\* Under the same condition the YES a client reads after a create is the answer
\* of a storage server that ran this very create with success.
THEOREM CreateAnswered ==
    ASSUME OnePiece PROVE Spec => []CreateAnswerTrue
  <1>1. Balanced
    BY DEF OnePiece
  <1>2. IInv /\ [Next]_vars => IInv'
    BY <1>1, InvStep
  <1>3. IInv /\ ExchangeInv /\ [Next]_vars => ExchangeInv'
    BY ExchangeStep
  <1>4. ExchangeInv => CreateAnswerTrue
    BY DEF ExchangeInv, ClientInvX, CreateAnswerTrue
  <1>. QED BY <1>2, <1>3, <1>4, InitInv, InitExchange, PTL DEF Spec
=============================================================================
