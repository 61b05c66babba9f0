-------------------------- MODULE ClientPorts_proofs ---------------------------
(***************************************************************************)
(* While a new thread runs before the accepting loop comes round again     *)
(* (no "late" in Events), slots, sockets and threads stay together for     *)
(* any number of slots and of clients, whatever the clients do.            *)
(***************************************************************************)
EXTENDS ClientPorts, SequenceTheorems, TLAPS

LEMMA SessionsAndSlots == None \notin Sessions /\ 0 \in Slots
BY PortsAssumption DEF None, Sessions, Slots

-----------------------------------------------------------------------------
(* The invariant.                                                           *)

\* The loop has a client and has not handed it to a thread.
Serving == acc.pc \in {"find", "tell", "lock", "join", "start"}

Active(k) == thread[k].pc \in {"created", "loop", "recv", "drop"}

\* The slot of a thread that runs; one that has just been created will read x.
Slot(k) == IF thread[k].pc = "created" THEN x ELSE thread[k].index

\* A client is on its way through the loop once.
OnceInv ==
    /\ \A m, n \in 1 .. Len(backlog) : backlog[m] = backlog[n] => m = n
    /\ \A m \in 1 .. Len(backlog) :
         /\ thread[backlog[m]].pc = "none"
         /\ St(backlog[m]) \in {"asked", "left"}
         /\ Serving => acc.of # backlog[m]
    /\ \A k \in Sessions : St(k) = "new" => thread[k].pc = "none" /\ (Serving => acc.of # k)

\* The slot the loop has marked is nobody's until it has its client's socket.
LoopInv ==
    /\ Serving =>
        /\ acc.of \in Sessions /\ thread[acc.of].pc = "none"
        /\ acc.pc \in {"find", "tell"} => St(acc.of) \in {"asked", "left"}
        /\ acc.pc \in {"lock", "join"} => St(acc.of) \in {"told", "joined", "left"}
        /\ acc.pc = "start" => St(acc.of) \in {"joined", "left"} /\ sock[acc.index] = acc.of
        /\ acc.pc # "find" => taken[acc.index]
        /\ acc.pc \in {"tell", "lock", "join"} => sock[acc.index] = None
    /\ acc.pc # "wait" => masterLock = 0

\* Only the client the loop is serving is told a port or waits on one.
WaitInv ==
    /\ \A k \in Sessions : St(k) = "told" =>
         acc.pc \in {"lock", "join"} /\ acc.of = k /\ session[k].port = acc.index
    /\ \A i \in Slots : waiting[i] # <<>> =>
         /\ acc.pc \in {"lock", "join"} /\ acc.index = i
         /\ waiting[i] = <<acc.of>> /\ St(acc.of) \in {"joined", "left"}

\* A thread that runs has a slot with its client's socket in it.
ThreadInv ==
    /\ \A k \in Sessions : Active(k) =>
         /\ taken[Slot(k)] /\ sock[Slot(k)] = k
         /\ St(k) \in {"joined", "left"}
         /\ thread[k].pc = "recv" => thread[k].on = k
         /\ thread[k].pc = "drop" => St(k) = "left" \/ thread[k].torn
    /\ \A k, l \in Sessions : thread[k].pc = "created" /\ thread[l].pc = "created" => k = l
    /\ \A i \in Slots : ~taken[i] => sock[i] = None

\* A client that is there has the slot whose port it was told, until its
\* thread has cut it off.
Held(k) ==
    \/ Active(k) /\ Slot(k) = session[k].port
    \/ /\ acc.pc \in {"lock", "join", "start"}
       /\ acc.of = k /\ acc.index = session[k].port

HeldInv == \A k \in Sessions : St(k) = "joined" /\ k \notin cut => Held(k)

CutInv == \A k \in cut : thread[k].pc = "gone" /\ (St(k) = "left" \/ thread[k].torn)

PortsInv == TypeOK /\ OnceInv /\ LoopInv /\ WaitInv /\ ThreadInv /\ HeldInv /\ CutInv

-----------------------------------------------------------------------------
(* Types, and what an update leaves where.                                  *)

LEMMA Typing ==
    ASSUME TypeOK
    PROVE  /\ \A m \in 1 .. Len(backlog) : backlog[m] \in Sessions
           /\ \A k \in Sessions : Slot(k) \in Slots /\ session[k].port \in Slots
           /\ acc.index \in Slots /\ taken \in [Slots -> BOOLEAN]
           /\ DOMAIN sock = Slots /\ DOMAIN waiting = Slots
           /\ cut \subseteq Sessions
BY DEF TypeOK, Slot

Stages == {"new", "asked", "told", "joined", "left"}
LoopSteps == {"wait", "accept", "find", "tell", "lock", "join", "start", "post"}

LEMMA GoMoves ==
    ASSUME TypeOK, NEW k \in Sessions, NEW st \in Stages, Go(k, st)
    PROVE  /\ session' \in [Sessions -> [st : Stages, port : Slots]]
           /\ session'[k].st = st /\ session'[k].port = session[k].port
           /\ \A j \in Sessions : j # k => session'[j] = session[j]
BY DEF TypeOK, Go, Stages

Threads == [pc : {"none", "created", "loop", "recv", "drop", "gone"},
            index : Slots, on : Sessions \cup {None}, torn : BOOLEAN]

LEMMA ThreadTypes ==
    ASSUME TypeOK, NEW k \in Sessions, NEW r \in Threads, thread' = [thread EXCEPT ![k] = r]
    PROVE  thread' \in [Sessions -> Threads]
BY DEF TypeOK, Threads

LEMMA ThreadMoves ==
    ASSUME TypeOK, NEW k \in Sessions, NEW r, thread' = [thread EXCEPT ![k] = r]
    PROVE  thread'[k] = r /\ \A j \in Sessions : j # k => thread'[j] = thread[j]
BY DEF TypeOK

LEMMA LoopMoves ==
    ASSUME TypeOK, NEW pc \in LoopSteps, AccGo(pc)
    PROVE  /\ acc' \in [pc : LoopSteps, index : Slots, of : Sessions \cup {None}]
           /\ acc'.pc = pc /\ acc'.of = acc.of /\ acc'.index = acc.index
BY DEF TypeOK, AccGo, LoopSteps

LEMMA AskStep ==
    ASSUME PortsInv, NEW k \in Sessions, Ask(k)
    PROVE  PortsInv'
  <1>. USE DEF PortsInv
  <1>0. TypeOK'
    <2>1. session' \in [Sessions -> [st : Stages, port : Slots]]
      BY GoMoves DEF Ask, Stages
    <2>. QED BY <2>1, AppendProperties DEF Ask, TypeOK, Stages
  <1>1. /\ session'[k].st = "asked" /\ session'[k].port = session[k].port
        /\ \A j \in Sessions : j # k => session'[j] = session[j]
    BY GoMoves DEF Ask, Stages
  <1>2. /\ backlog' = Append(backlog, k) /\ St(k) = "new" /\ thread[k].pc = "none"
        /\ UNCHANGED <<waiting, taken, sock, acc, x, masterLock, thread, cut>>
    BY DEF Ask, OnceInv
  <1>3. /\ Len(backlog') = Len(backlog) + 1 /\ Len(backlog) \in Nat
        /\ \A m \in 1 .. Len(backlog) : backlog'[m] = backlog[m]
        /\ backlog'[Len(backlog) + 1] = k
    BY <1>2, AppendProperties DEF TypeOK
  <1>4. \A m \in 1 .. Len(backlog) : backlog[m] # k
    BY <1>2 DEF OnceInv
  <1>5. OnceInv'
    BY <1>1, <1>2, <1>3, <1>4, Typing DEF OnceInv, Serving, St
  <1>6. LoopInv'
    BY <1>1, <1>2, <1>3, <1>4, Typing DEF LoopInv, Serving, St, OnceInv
  <1>7. WaitInv'
    <2>1. acc.pc \in {"lock", "join"} => acc.of \in Sessions
      BY DEF LoopInv, Serving
    <2>. QED BY <1>1, <1>2, <1>3, <1>4, <2>1, Typing DEF WaitInv, St
  <1>8. ThreadInv'
    BY <1>1, <1>2, <1>3, <1>4, Typing DEF ThreadInv, Active, Slot, St
  <1>9. HeldInv'
    BY <1>1, <1>2, <1>3, <1>4, Typing DEF HeldInv, Held, Active, Slot, St
  <1>10. CutInv'
    BY <1>1, <1>2, <1>3, <1>4, Typing DEF CutInv, St
  <1>. QED BY <1>0, <1>5, <1>6, <1>7, <1>8, <1>9, <1>10

LEMMA JoinStep ==
    ASSUME PortsInv, NEW k \in Sessions, Join(k)
    PROVE  PortsInv'
  <1>. USE DEF PortsInv
  <1>0. TypeOK'
    <2>1. session' \in [Sessions -> [st : Stages, port : Slots]]
      BY GoMoves DEF Join, Stages
    <2>2. waiting' \in [Slots -> Seq(Sessions)]
      BY AppendProperties DEF Join, TypeOK
    <2>. QED BY <2>1, <2>2 DEF Join, TypeOK, Stages
  <1>1. /\ session'[k].st = "joined" /\ session'[k].port = session[k].port
        /\ \A j \in Sessions : j # k => session'[j] = session[j]
    BY GoMoves DEF Join, Stages
  <1>2. /\ St(k) = "told"
        /\ waiting' = [waiting EXCEPT ![session[k].port] = Append(@, k)]
        /\ UNCHANGED <<backlog, taken, sock, acc, x, masterLock, thread, cut>>
    BY DEF Join
  <1>3. acc.pc \in {"lock", "join"} /\ acc.of = k /\ session[k].port = acc.index
    BY <1>2 DEF WaitInv
  <1>4. waiting[acc.index] = <<>>
    BY <1>2, <1>3, Typing DEF WaitInv
  <1>5. /\ waiting'[acc.index] = <<k>>
        /\ \A i \in Slots : i # acc.index => waiting'[i] = waiting[i]
    BY <1>2, <1>3, <1>4, Typing
  <1>6. OnceInv'
    BY <1>1, <1>2, <1>3, <1>5, Typing DEF OnceInv, Serving, St
  <1>7. LoopInv'
    BY <1>1, <1>2, <1>3, <1>5, Typing DEF LoopInv, Serving, St
  <1>8. WaitInv'
    BY <1>1, <1>2, <1>3, <1>5, Typing DEF WaitInv, St
  <1>9. ThreadInv'
    BY <1>1, <1>2, <1>3, <1>5, Typing DEF ThreadInv, Active, Slot, St, LoopInv, Serving
  <1>10. HeldInv'
    BY <1>1, <1>2, <1>3, <1>5, Typing DEF HeldInv, Held, Active, Slot, St
  <1>11. CutInv'
    BY <1>1, <1>2, <1>3, <1>5, Typing DEF CutInv, St
  <1>. QED BY <1>0, <1>6, <1>7, <1>8, <1>9, <1>10, <1>11

LEMMA LeaveStep ==
    ASSUME PortsInv, NEW k \in Sessions, Leave(k)
    PROVE  PortsInv'
  <1>. USE DEF PortsInv
  <1>0. TypeOK'
    <2>1. session' \in [Sessions -> [st : Stages, port : Slots]]
      BY GoMoves DEF Leave, Stages
    <2>. QED BY <2>1 DEF Leave, TypeOK, Stages
  <1>1. /\ session'[k].st = "left" /\ session'[k].port = session[k].port
        /\ \A j \in Sessions : j # k => session'[j] = session[j]
    BY GoMoves DEF Leave, Stages
  <1>2. /\ St(k) \in {"asked", "told", "joined"}
        /\ UNCHANGED <<backlog, waiting, taken, sock, acc, x, masterLock, thread, cut>>
    BY DEF Leave
  <1>3. OnceInv'
    BY <1>1, <1>2, Typing DEF OnceInv, Serving, St
  <1>4. LoopInv'
    BY <1>1, <1>2, Typing DEF LoopInv, Serving, St
  <1>5. WaitInv'
    <2>1. acc.pc \in {"lock", "join"} => acc.of \in Sessions
      BY DEF LoopInv, Serving
    <2>. QED BY <1>1, <1>2, <2>1, Typing DEF WaitInv, St
  <1>6. ThreadInv'
    BY <1>1, <1>2, Typing DEF ThreadInv, Active, Slot, St
  <1>7. HeldInv'
    BY <1>1, <1>2, Typing DEF HeldInv, Held, Active, Slot, St
  <1>8. CutInv'
    BY <1>1, <1>2, Typing DEF CutInv, St
  <1>. QED BY <1>0, <1>3, <1>4, <1>5, <1>6, <1>7, <1>8

LEMMA ReadIndexStep ==
    ASSUME PortsInv, NEW k \in Sessions, ReadIndex(k)
    PROVE  PortsInv'
  <1>. USE DEF PortsInv
  <1>0. TypeOK'
    <2>1. thread[k] \in Threads /\ x \in Slots
      BY DEF TypeOK, Threads
    <2>2. [thread[k] EXCEPT !.pc = "loop", !.index = x] \in Threads
      BY <2>1 DEF Threads
    <2>3. thread' \in [Sessions -> Threads]
      BY <2>2, ThreadTypes DEF ReadIndex
    <2>. QED BY <2>3 DEF ReadIndex, TypeOK, Threads
  <1>1. /\ thread[k].pc = "created"
        /\ UNCHANGED <<session, backlog, waiting, taken, sock, acc, x, masterLock, cut>>
    BY DEF ReadIndex
  <1>2. /\ thread'[k].pc = "loop" /\ thread'[k].index = x
        /\ \A j \in Sessions : j # k => thread'[j] = thread[j]
    BY ThreadMoves DEF ReadIndex, TypeOK
  <1>3. OnceInv'
    BY <1>1, <1>2, Typing DEF OnceInv, Serving, St
  <1>4. LoopInv'
    BY <1>1, <1>2, Typing DEF LoopInv, Serving, St
  <1>5. WaitInv'
    BY <1>1, <1>2, Typing DEF WaitInv, St
  <1>6. ThreadInv'
    BY <1>1, <1>2, Typing DEF ThreadInv, Active, Slot, St
  <1>7. HeldInv'
    BY <1>1, <1>2, Typing DEF HeldInv, Held, Active, Slot, St
  <1>8. CutInv'
    BY <1>1, <1>2, Typing DEF CutInv, St
  <1>. QED BY <1>0, <1>3, <1>4, <1>5, <1>6, <1>7, <1>8

LEMMA RecvStep ==
    ASSUME PortsInv, NEW k \in Sessions, Recv(k)
    PROVE  PortsInv'
  <1>. USE DEF PortsInv
  <1>0. TypeOK'
    <2>1. thread[k] \in Threads
          /\ sock[thread[k].index] \in Sessions \cup {None}
      BY DEF TypeOK, Threads
    <2>2. [thread[k] EXCEPT !.pc = "recv", !.on = sock[thread[k].index]] \in Threads
      BY <2>1 DEF Threads
    <2>3. thread' \in [Sessions -> Threads]
      BY <2>2, ThreadTypes DEF Recv
    <2>. QED BY <2>3 DEF Recv, TypeOK, Threads
  <1>1. /\ thread[k].pc = "loop"
        /\ UNCHANGED <<session, backlog, waiting, taken, sock, acc, x, masterLock, cut>>
    BY DEF Recv
  <1>2. /\ thread'[k].pc = "recv" /\ thread'[k].index = thread[k].index
        /\ thread'[k].on = sock[thread[k].index]
        /\ \A j \in Sessions : j # k => thread'[j] = thread[j]
    BY ThreadMoves DEF Recv, TypeOK
  <1>3. OnceInv'
    BY <1>1, <1>2, Typing DEF OnceInv, Serving, St
  <1>4. LoopInv'
    BY <1>1, <1>2, Typing DEF LoopInv, Serving, St
  <1>5. WaitInv'
    BY <1>1, <1>2, Typing DEF WaitInv, St
  <1>6. ThreadInv'
    BY <1>1, <1>2, Typing DEF ThreadInv, Active, Slot, St
  <1>7. HeldInv'
    BY <1>1, <1>2, Typing DEF HeldInv, Held, Active, Slot, St
  <1>8. CutInv'
    BY <1>1, <1>2, Typing DEF CutInv, St
  <1>. QED BY <1>0, <1>3, <1>4, <1>5, <1>6, <1>7, <1>8

LEMMA CommandStep ==
    ASSUME PortsInv, NEW k \in Sessions, Command(k)
    PROVE  PortsInv'
  <1>. USE DEF PortsInv
  <1>0. TypeOK'
    <2>1. thread[k] \in Threads
      BY DEF TypeOK, Threads
    <2>2. [thread[k] EXCEPT !.pc = "loop"] \in Threads
      BY <2>1 DEF Threads
    <2>3. thread' \in [Sessions -> Threads]
      BY <2>2, ThreadTypes DEF Command
    <2>. QED BY <2>3 DEF Command, TypeOK, Threads
  <1>1. /\ thread[k].pc = "recv"
        /\ UNCHANGED <<session, backlog, waiting, taken, sock, acc, x, masterLock, cut>>
    BY DEF Command
  <1>2. /\ thread'[k].pc = "loop" /\ thread'[k].index = thread[k].index
        /\ \A j \in Sessions : j # k => thread'[j] = thread[j]
    BY ThreadMoves DEF Command, TypeOK
  <1>3. OnceInv'
    BY <1>1, <1>2, Typing DEF OnceInv, Serving, St
  <1>4. LoopInv'
    BY <1>1, <1>2, Typing DEF LoopInv, Serving, St
  <1>5. WaitInv'
    BY <1>1, <1>2, Typing DEF WaitInv, St
  <1>6. ThreadInv'
    BY <1>1, <1>2, Typing DEF ThreadInv, Active, Slot, St
  <1>7. HeldInv'
    BY <1>1, <1>2, Typing DEF HeldInv, Held, Active, Slot, St
  <1>8. CutInv'
    BY <1>1, <1>2, Typing DEF CutInv, St
  <1>. QED BY <1>0, <1>3, <1>4, <1>5, <1>6, <1>7, <1>8

LEMMA EofStep ==
    ASSUME PortsInv, NEW k \in Sessions, Eof(k)
    PROVE  PortsInv'
  <1>. USE DEF PortsInv
  <1>0. TypeOK'
    <2>1. PICK b \in BOOLEAN :
             thread' = [thread EXCEPT ![k] = [@ EXCEPT !.pc = "drop", !.torn = b]]
      <3>1. CASE thread[k].on \in Connected
        <4>1. thread' = [thread EXCEPT ![k] = [@ EXCEPT !.pc = "drop", !.torn = TRUE]]
          BY <3>1, Zenon DEF Eof
        <4>. QED BY <4>1
      <3>2. CASE thread[k].on \notin Connected
        <4>1. (thread[k].on \in Connected) = FALSE
          BY <3>2
        <4>2. thread' = [thread EXCEPT ![k] = [@ EXCEPT !.pc = "drop", !.torn = FALSE]]
          BY <4>1, Zenon DEF Eof
        <4>. QED BY <4>2
      <3>. QED BY <3>1, <3>2
    <2>2. [thread[k] EXCEPT !.pc = "drop", !.torn = b] \in Threads
      <3>1. thread[k] \in Threads
        BY DEF TypeOK, Threads
      <3>2. \A t \in Threads : [t EXCEPT !.pc = "drop", !.torn = b] \in Threads
        BY DEF Threads
      <3>. QED BY <3>1, <3>2
    <2>3. thread' \in [Sessions -> Threads]
      BY <2>1, <2>2, ThreadTypes
    <2>. QED BY <2>3 DEF Eof, TypeOK, Threads
  <1>1. /\ thread[k].pc = "recv"
        /\ UNCHANGED <<session, backlog, waiting, taken, sock, acc, x, masterLock, cut>>
    BY DEF Eof
  <1>2. /\ thread'[k].pc = "drop" /\ thread'[k].index = thread[k].index
        /\ thread'[k].torn = (thread[k].on \in Connected)
        /\ \A j \in Sessions : j # k => thread'[j] = thread[j]
    BY ThreadMoves DEF Eof, TypeOK
  <1>3. thread[k].on = k /\ k \notin cut /\ St(k) \in {"joined", "left"}
    BY <1>1 DEF ThreadInv, CutInv, Active
  <1>4. St(k) = "left" \/ thread'[k].torn
    BY <1>2, <1>3 DEF Connected
  <1>5. OnceInv'
    BY <1>1, <1>2, <1>4, Typing DEF OnceInv, Serving, St
  <1>6. LoopInv'
    BY <1>1, <1>2, <1>4, Typing DEF LoopInv, Serving, St
  <1>7. WaitInv'
    BY <1>1, <1>2, <1>4, Typing DEF WaitInv, St
  <1>8. ThreadInv'
    BY <1>1, <1>2, <1>4, Typing DEF ThreadInv, Active, Slot, St
  <1>9. HeldInv'
    BY <1>1, <1>2, <1>4, Typing DEF HeldInv, Held, Active, Slot, St
  <1>10. CutInv'
    BY <1>1, <1>2, <1>4, Typing DEF CutInv, St
  <1>. QED BY <1>0, <1>5, <1>6, <1>7, <1>8, <1>9, <1>10

LEMMA DropStep ==
    ASSUME PortsInv, NEW k \in Sessions, Drop(k)
    PROVE  PortsInv'
  <1>. USE DEF PortsInv
  <1>0. TypeOK'
    <2>1. thread[k] \in Threads
      BY DEF TypeOK, Threads
    <2>2. [thread[k] EXCEPT !.pc = "gone"] \in Threads
      BY <2>1 DEF Threads
    <2>3. thread' \in [Sessions -> Threads]
      BY <2>2, ThreadTypes DEF Drop
    <2>. QED BY <2>3 DEF Drop, TypeOK, Threads
  <1>1. thread[k].pc = "drop" /\ sock[Slot(k)] = k /\ Slot(k) = thread[k].index
    BY DEF Drop, ThreadInv, Active, Slot
  <1>2. /\ taken' = [taken EXCEPT ![Slot(k)] = FALSE] /\ sock' = [sock EXCEPT ![Slot(k)] = None]
        /\ cut' = cut \cup {k}
        /\ UNCHANGED <<session, backlog, waiting, acc, x, masterLock>>
    BY <1>1, SessionsAndSlots DEF Drop
  <1>3. /\ thread'[k].pc = "gone" /\ thread'[k].torn = thread[k].torn
        /\ \A j \in Sessions : j # k => thread'[j] = thread[j]
    BY ThreadMoves DEF Drop, TypeOK
  <1>4. /\ ~taken'[Slot(k)] /\ sock'[Slot(k)] = None
        /\ \A i \in Slots : i # Slot(k) => taken'[i] = taken[i] /\ sock'[i] = sock[i]
    BY <1>2, Typing
  <1>5. OnceInv'
    <2>1. \A m \in 1 .. Len(backlog) : backlog[m] # k
      BY <1>1 DEF OnceInv
    <2>2. St(k) # "new"
      BY <1>1 DEF OnceInv
    <2>. QED BY <1>2, <1>3, <2>1, <2>2, Typing DEF OnceInv, Serving, St
  <1>9. WaitInv'
    BY <1>2, <1>3, Typing DEF WaitInv, St
  <1>6. LoopInv'
    <2>1. Serving => acc.of # k
      BY <1>1 DEF LoopInv
    <2>2. Serving /\ acc.pc # "find" => Slot(k) # acc.index
      BY <1>1, <2>1, SessionsAndSlots DEF LoopInv, Serving
    <2>. QED BY <1>2, <1>3, <1>4, <2>1, <2>2, Typing DEF LoopInv, Serving, St
  <1>7. ThreadInv'
    <2>1. \A j \in Sessions : j # k /\ Active(j) => Slot(j) # Slot(k)
      BY <1>1 DEF ThreadInv
    <2>. QED BY <1>2, <1>3, <1>4, <2>1, Typing DEF ThreadInv, Active, Slot, St
  <1>8. HeldInv'
    BY <1>1, <1>2, <1>3, Typing DEF HeldInv, Held, Active, Slot, St
  <1>10. CutInv'
    <2>1. St(k) = "left" \/ thread[k].torn
      BY <1>1 DEF ThreadInv, Active
    <2>. QED BY <1>1, <1>2, <1>3, <2>1, Typing DEF CutInv, St
  <1>. QED BY <1>0, <1>5, <1>6, <1>7, <1>8, <1>9, <1>10

LEMMA AccWaitStep ==
    ASSUME PortsInv, AccWait
    PROVE  PortsInv'
  <1>. USE DEF PortsInv
  <1>0. TypeOK'
    <2>1. acc' \in [pc : LoopSteps, index : Slots, of : Sessions \cup {None}]
      BY LoopMoves DEF AccWait, LoopSteps
    <2>2. masterLock' \in 0 .. 1
      BY DEF AccWait, TypeOK
    <2>. QED BY <2>1, <2>2 DEF AccWait, TypeOK, LoopSteps
  <1>1. acc'.pc = "accept" /\ acc'.of = acc.of /\ acc'.index = acc.index
    BY LoopMoves DEF AccWait, LoopSteps
  <1>2. /\ acc.pc = "wait"
        /\ UNCHANGED <<session, backlog, waiting, taken, sock, x, thread, cut>>
    BY DEF AccWait
  <1>3. masterLock' = 0
    BY DEF AccWait, TypeOK
  <1>4. OnceInv'
    BY <1>1, <1>2, <1>3, Typing DEF OnceInv, Serving, St
  <1>5. LoopInv'
    BY <1>1, <1>2, <1>3, Typing DEF LoopInv, Serving, St
  <1>6. WaitInv'
    BY <1>1, <1>2, <1>3, Typing DEF WaitInv, St
  <1>7. ThreadInv'
    BY <1>1, <1>2, <1>3, Typing DEF ThreadInv, Active, Slot, St
  <1>8. HeldInv'
    BY <1>1, <1>2, <1>3, Typing DEF HeldInv, Held, Active, Slot, St
  <1>9. CutInv'
    BY <1>1, <1>2, <1>3, Typing DEF CutInv, St
  <1>. QED BY <1>0, <1>4, <1>5, <1>6, <1>7, <1>8, <1>9

LEMMA AcceptStep ==
    ASSUME PortsInv, Accept
    PROVE  PortsInv'
  <1>. USE DEF PortsInv
  <1>0. TypeOK'
    <2>1. Head(backlog) \in Sessions /\ Tail(backlog) \in Seq(Sessions)
      BY HeadTailProperties DEF Accept, TypeOK
    <2>. QED BY <2>1 DEF Accept, TypeOK
  <1>1. /\ acc.pc = "accept" /\ backlog # <<>> /\ backlog \in Seq(Sessions)
        /\ acc'.pc = "find" /\ acc'.of = Head(backlog) /\ acc'.index = acc.index
        /\ backlog' = Tail(backlog)
        /\ UNCHANGED <<session, waiting, taken, sock, x, masterLock, thread, cut>>
    BY DEF Accept, TypeOK
  <1>2. /\ Head(backlog) = backlog[1] /\ 1 \in 1 .. Len(backlog)
        /\ Len(backlog') = Len(backlog) - 1 /\ Len(backlog) \in Nat
        /\ \A m \in 1 .. Len(backlog') : backlog'[m] = backlog[m + 1]
    BY <1>1, HeadTailProperties, LenProperties
  <1>3. /\ backlog[1] \in Sessions /\ thread[backlog[1]].pc = "none"
        /\ St(backlog[1]) \in {"asked", "left"}
        /\ \A m \in 1 .. Len(backlog') : backlog'[m] # backlog[1] /\ m + 1 \in 1 .. Len(backlog)
    BY <1>2, Typing DEF OnceInv
  <1>4. OnceInv'
    BY <1>1, <1>2, <1>3, Typing DEF OnceInv, Serving, St
  <1>5. LoopInv'
    BY <1>1, <1>2, <1>3, Typing DEF LoopInv, Serving, St
  <1>6. WaitInv'
    BY <1>1, <1>2, <1>3, Typing DEF WaitInv, St
  <1>7. ThreadInv'
    BY <1>1, <1>2, <1>3, Typing DEF ThreadInv, Active, Slot, St
  <1>8. HeldInv'
    BY <1>1, <1>2, <1>3, Typing DEF HeldInv, Held, Active, Slot, St
  <1>9. CutInv'
    BY <1>1, <1>2, <1>3, Typing DEF CutInv, St
  <1>. QED BY <1>0, <1>4, <1>5, <1>6, <1>7, <1>8, <1>9

LEMMA FindFreeStep ==
    ASSUME PortsInv, FindFree
    PROVE  PortsInv'
  <1>. USE DEF PortsInv
  <1>0. TypeOK'
    BY DEF FindFree, AccGo, TypeOK
  <1>1. /\ acc.pc = "find"
        /\ UNCHANGED <<session, backlog, waiting, sock, x, masterLock, thread, cut>>
    BY DEF FindFree
  <1>2. ASSUME NEW i \in Slots, ~taken[i], taken' = [taken EXCEPT ![i] = TRUE],
               acc' = [acc EXCEPT !.pc = "tell", !.index = i]
        PROVE  PortsInv'
    <2>1. acc'.pc = "tell" /\ acc'.of = acc.of /\ acc'.index = i
      BY <1>2 DEF TypeOK
    <2>2. taken'[i] /\ \A j \in Slots : taken[j] => taken'[j]
      BY <1>2, Typing
    <2>3. \A j \in Slots : ~taken'[j] => ~taken[j]
      BY <1>2, Typing
    <2>4. sock[i] = None
      BY <1>2 DEF ThreadInv
    <2>5. OnceInv' /\ LoopInv'
      BY <1>1, <2>1, <2>2, <2>4 DEF OnceInv, LoopInv, Serving, St
    <2>6. WaitInv'
      BY <1>1, <2>1 DEF WaitInv, St
    <2>7. ThreadInv'
      BY <1>1, <2>2, <2>3, Typing DEF ThreadInv, Active, Slot, St
    <2>8. HeldInv'
      BY <1>1, <2>1 DEF HeldInv, Held, Active, Slot, St
    <2>9. CutInv'
      BY <1>1 DEF CutInv, St
    <2>. QED BY <1>0, <2>5, <2>6, <2>7, <2>8, <2>9
  <1>3. ASSUME AccGo("wait"), UNCHANGED taken
        PROVE  PortsInv'
    <2>1. acc'.pc = "wait" /\ acc'.of = acc.of /\ acc'.index = acc.index
      BY <1>3, LoopMoves DEF LoopSteps
    <2>2. OnceInv' /\ LoopInv' /\ WaitInv'
      BY <1>1, <2>1 DEF OnceInv, LoopInv, WaitInv, Serving, St
    <2>3. ThreadInv'
      BY <1>1, <1>3 DEF ThreadInv, Active, Slot, St
    <2>4. HeldInv'
      BY <1>1, <2>1 DEF HeldInv, Held, Active, Slot, St
    <2>5. CutInv'
      BY <1>1 DEF CutInv, St
    <2>. QED BY <1>0, <2>2, <2>3, <2>4, <2>5
  <1>. QED BY <1>2, <1>3 DEF FindFree

LEMMA TellStep ==
    ASSUME PortsInv, Tell
    PROVE  PortsInv'
  <1>. USE DEF PortsInv
  <1>0. TypeOK'
    <2>1. acc.of \in Sessions
      BY DEF Tell, LoopInv, Serving
    <2>. QED BY <2>1 DEF Tell, AccGo, TypeOK
  <1>1. acc'.pc = "lock" /\ acc'.of = acc.of /\ acc'.index = acc.index
    BY LoopMoves DEF Tell, LoopSteps
  <1>2. /\ acc.pc = "tell"
        /\ UNCHANGED <<backlog, waiting, taken, sock, x, masterLock, thread, cut>>
    BY DEF Tell
  <1>3. /\ acc.of \in Sessions /\ St(acc.of) \in {"asked", "left"} /\ taken[acc.index]
        /\ thread[acc.of].pc = "none" /\ sock[acc.index] = None
    BY <1>2 DEF LoopInv, Serving
  <1>4. /\ session'[acc.of].st = IF St(acc.of) = "asked" THEN "told" ELSE "left"
        /\ St(acc.of) = "asked" => session'[acc.of].port = acc.index
        /\ \A j \in Sessions : j # acc.of => session'[j] = session[j]
    BY <1>3 DEF Tell, TypeOK, St
  <1>5. OnceInv'
    BY <1>1, <1>2, <1>3, <1>4, Typing DEF OnceInv, Serving, St
  <1>6. LoopInv'
    BY <1>1, <1>2, <1>3, <1>4, Typing DEF LoopInv, Serving, St
  <1>7. WaitInv'
    BY <1>1, <1>2, <1>3, <1>4, Typing DEF WaitInv, St
  <1>8. ThreadInv'
    BY <1>1, <1>2, <1>3, <1>4, Typing DEF ThreadInv, Active, Slot, St
  <1>9. HeldInv'
    BY <1>1, <1>2, <1>3, <1>4, Typing DEF HeldInv, Held, Active, Slot, St
  <1>10. CutInv'
    BY <1>1, <1>2, <1>3, <1>4, Typing DEF CutInv, St
  <1>. QED BY <1>0, <1>5, <1>6, <1>7, <1>8, <1>9, <1>10

LEMMA AccLockStep ==
    ASSUME PortsInv, AccLock
    PROVE  PortsInv'
  <1>. USE DEF PortsInv
  <1>0. TypeOK'
    BY DEF AccLock, AccGo, TypeOK
  <1>1. acc'.pc = "join" /\ acc'.of = acc.of /\ acc'.index = acc.index
    BY LoopMoves DEF AccLock, LoopSteps
  <1>2. /\ acc.pc = "lock"
        /\ UNCHANGED <<session, backlog, waiting, taken, sock, x, thread, cut, masterLock>>
    BY DEF AccLock
  <1>3. OnceInv'
    BY <1>1, <1>2, Typing DEF OnceInv, Serving, St
  <1>4. LoopInv'
    BY <1>1, <1>2, Typing DEF LoopInv, Serving, St
  <1>5. WaitInv'
    BY <1>1, <1>2, Typing DEF WaitInv, St
  <1>6. ThreadInv'
    BY <1>1, <1>2, Typing DEF ThreadInv, Active, Slot, St
  <1>7. HeldInv'
    BY <1>1, <1>2, Typing DEF HeldInv, Held, Active, Slot, St
  <1>8. CutInv'
    BY <1>1, <1>2, Typing DEF CutInv, St
  <1>. QED BY <1>0, <1>3, <1>4, <1>5, <1>6, <1>7, <1>8

LEMMA AccJoinStep ==
    ASSUME PortsInv, AccJoin
    PROVE  PortsInv'
  <1>. USE DEF PortsInv
  <1>0. TypeOK'
    <2>1. /\ Head(waiting[acc.index]) \in Sessions
          /\ Tail(waiting[acc.index]) \in Seq(Sessions)
      BY HeadTailProperties DEF AccJoin, TypeOK
    <2>. QED BY <2>1 DEF AccJoin, AccGo, TypeOK
  <1>1. acc'.pc = "start" /\ acc'.of = acc.of /\ acc'.index = acc.index
    BY LoopMoves DEF AccJoin, LoopSteps
  <1>2. /\ acc.pc = "join"
        /\ UNCHANGED <<session, backlog, taken, x, masterLock, thread, cut>>
    BY DEF AccJoin
  <1>3. /\ waiting[acc.index] = <<acc.of>> /\ St(acc.of) \in {"joined", "left"}
        /\ acc.of \in Sessions /\ thread[acc.of].pc = "none" /\ sock[acc.index] = None
        /\ taken[acc.index]
    BY <1>2, Typing DEF AccJoin, WaitInv, LoopInv, Serving
  <1>4. /\ sock'[acc.index] = acc.of /\ waiting'[acc.index] = <<>>
        /\ \A i \in Slots : i # acc.index => sock'[i] = sock[i] /\ waiting'[i] = waiting[i]
    BY <1>3, Typing DEF AccJoin
  <1>5. \A i \in Slots : waiting'[i] = <<>>
    BY <1>2, <1>4 DEF WaitInv
  <1>6. \A j \in Sessions : Active(j) => Slot(j) # acc.index
    BY <1>3, SessionsAndSlots DEF ThreadInv
  <1>7. OnceInv'
    BY <1>1, <1>2, <1>3, <1>4, <1>5, <1>6, Typing DEF OnceInv, Serving, St
  <1>8. LoopInv'
    BY <1>1, <1>2, <1>3, <1>4, <1>5, <1>6, Typing DEF LoopInv, Serving, St
  <1>9. WaitInv'
    BY <1>1, <1>2, <1>3, <1>4, <1>5, <1>6, Typing DEF WaitInv, St
  <1>10. ThreadInv'
    BY <1>1, <1>2, <1>3, <1>4, <1>5, <1>6, Typing DEF ThreadInv, Active, Slot, St
  <1>11. HeldInv'
    BY <1>1, <1>2, <1>3, <1>4, <1>5, <1>6, Typing DEF HeldInv, Held, Active, Slot, St
  <1>12. CutInv'
    BY <1>1, <1>2, <1>3, <1>4, <1>5, <1>6, Typing DEF CutInv, St
  <1>. QED BY <1>0, <1>7, <1>8, <1>9, <1>10, <1>11, <1>12

LEMMA StartThreadStep ==
    ASSUME PortsInv, StartThread, "late" \notin Events
    PROVE  PortsInv'
  <1>. USE DEF PortsInv
  <1>0. TypeOK'
    <2>1. acc' \in [pc : LoopSteps, index : Slots, of : Sessions \cup {None}]
      BY LoopMoves DEF StartThread, LoopSteps
    <2>2. acc.of \in Sessions
      BY DEF StartThread, LoopInv, Serving
    <2>3. [thread[acc.of] EXCEPT !.pc = "created"] \in Threads
      <3>1. thread[acc.of] \in Threads
        BY <2>2 DEF TypeOK, Threads
      <3>2. \A t \in Threads : [t EXCEPT !.pc = "created"] \in Threads
        BY DEF Threads
      <3>. QED BY <3>1, <3>2
    <2>4. thread' \in [Sessions -> Threads]
      BY <2>2, <2>3, ThreadTypes DEF StartThread
    <2>. QED BY <2>1, <2>4 DEF StartThread, TypeOK, LoopSteps, Threads
  <1>1. acc'.pc = "post" /\ acc'.of = acc.of /\ acc'.index = acc.index
    BY LoopMoves DEF StartThread, LoopSteps
  <1>2. /\ acc.pc = "start"
        /\ UNCHANGED <<session, backlog, waiting, taken, sock, masterLock, cut>>
    BY DEF StartThread
  <1>3. /\ acc.of \in Sessions /\ thread[acc.of].pc = "none"
        /\ St(acc.of) \in {"joined", "left"} /\ sock[acc.index] = acc.of /\ taken[acc.index]
    BY <1>2 DEF LoopInv, Serving
  <1>4. \A j \in Sessions : thread[j].pc # "created"
    BY DEF StartThread
  <1>5. /\ thread'[acc.of].pc = "created" /\ x' = acc.index
        /\ \A j \in Sessions : j # acc.of => thread'[j] = thread[j]
    BY <1>3, ThreadMoves DEF StartThread, TypeOK
  <1>6. OnceInv'
    BY <1>1, <1>2, <1>3, <1>4, <1>5, Typing DEF OnceInv, Serving, St
  <1>7. LoopInv'
    BY <1>1, <1>2, <1>3, <1>4, <1>5, Typing DEF LoopInv, Serving, St
  <1>8. WaitInv'
    BY <1>1, <1>2, <1>3, <1>4, <1>5, Typing DEF WaitInv, St
  <1>9. ThreadInv'
    BY <1>1, <1>2, <1>3, <1>4, <1>5, Typing DEF ThreadInv, Active, Slot, St
  <1>10. HeldInv'
    BY <1>1, <1>2, <1>3, <1>4, <1>5, Typing DEF HeldInv, Held, Active, Slot, St
  <1>11. CutInv'
    BY <1>1, <1>2, <1>3, <1>4, <1>5, Typing DEF CutInv, St
  <1>. QED BY <1>0, <1>6, <1>7, <1>8, <1>9, <1>10, <1>11

LEMMA AccPostStep ==
    ASSUME PortsInv, AccPost
    PROVE  PortsInv'
  <1>. USE DEF PortsInv
  <1>0. TypeOK'
    <2>1. acc' \in [pc : LoopSteps, index : Slots, of : Sessions \cup {None}]
      BY LoopMoves DEF AccPost, LoopSteps
    <2>2. masterLock' \in 0 .. 1
      BY DEF AccPost, LoopInv
    <2>. QED BY <2>1, <2>2 DEF AccPost, TypeOK, LoopSteps
  <1>1. acc'.pc = "wait" /\ acc'.of = acc.of /\ acc'.index = acc.index
    BY LoopMoves DEF AccPost, LoopSteps
  <1>2. /\ acc.pc = "post"
        /\ UNCHANGED <<session, backlog, waiting, taken, sock, x, thread, cut>>
    BY DEF AccPost
  <1>3. OnceInv'
    BY <1>1, <1>2, Typing DEF OnceInv, Serving, St
  <1>4. LoopInv'
    BY <1>1, <1>2, Typing DEF LoopInv, Serving, St
  <1>5. WaitInv'
    BY <1>1, <1>2, Typing DEF WaitInv, St
  <1>6. ThreadInv'
    BY <1>1, <1>2, Typing DEF ThreadInv, Active, Slot, St
  <1>7. HeldInv'
    BY <1>1, <1>2, Typing DEF HeldInv, Held, Active, Slot, St
  <1>8. CutInv'
    BY <1>1, <1>2, Typing DEF CutInv, St
  <1>. QED BY <1>0, <1>3, <1>4, <1>5, <1>6, <1>7, <1>8

-----------------------------------------------------------------------------
(* The behaviours.                                                          *)

LEMMA InitPorts == Init => PortsInv
  <1>. SUFFICES ASSUME Init PROVE PortsInv
    OBVIOUS
  <1>1. TypeOK
    BY PortsAssumption, SessionsAndSlots, EmptySeq DEF Init, TypeOK
  <1>2. backlog = <<>> /\ Len(backlog) = 0 /\ acc.pc = "wait" /\ cut = {}
    BY DEF Init
  <1>3. \A k \in Sessions : session[k].st = "new" /\ thread[k].pc = "none"
    BY DEF Init
  <1>4. \A i \in Slots : waiting[i] = <<>> /\ sock[i] = None
    BY DEF Init
  <1>5. OnceInv
    BY <1>2, <1>3 DEF OnceInv, Serving, St
  <1>6. LoopInv
    BY <1>2 DEF LoopInv, Serving
  <1>7. WaitInv
    BY <1>3, <1>4 DEF WaitInv, St
  <1>8. ThreadInv
    BY <1>3, <1>4 DEF ThreadInv, Active
  <1>9. HeldInv /\ CutInv
    BY <1>2, <1>3 DEF HeldInv, CutInv, St
  <1>. QED BY <1>1, <1>5, <1>6, <1>7, <1>8, <1>9 DEF PortsInv

LEMMA StutterPorts == PortsInv /\ UNCHANGED vars => PortsInv'
BY DEF vars, PortsInv, TypeOK, OnceInv, LoopInv, WaitInv, ThreadInv, HeldInv, CutInv,
       Serving, Active, Slot, Held, St

LEMMA NextPorts == "late" \notin Events /\ PortsInv /\ [Next]_vars => PortsInv'
  <1>. SUFFICES ASSUME "late" \notin Events, PortsInv, [Next]_vars PROVE PortsInv'
    OBVIOUS
  <1>1. ASSUME NEW k \in Sessions, Ask(k) \/ Join(k) \/ Leave(k) \/ Thread(k)
        PROVE  PortsInv'
    BY <1>1, AskStep, JoinStep, LeaveStep, ReadIndexStep, RecvStep, CommandStep, EofStep,
       DropStep, Zenon DEF Thread
  <1>2. CASE Acceptor
    BY <1>2, AccWaitStep, AcceptStep, FindFreeStep, TellStep, AccLockStep, AccJoinStep,
       StartThreadStep, AccPostStep, Zenon DEF Acceptor
  <1>3. CASE UNCHANGED vars
    BY <1>3, StutterPorts
  <1>. QED BY <1>1, <1>2, <1>3, Zenon DEF Next

\* Slots, sockets, the accepting loop and the threads stay together
\* (client_master_starter, find_a_free_port_for_client, clientcommandtemporary).
THEOREM PortsStay == ASSUME "late" \notin Events PROVE Spec => []PortsInv
  <1>. "late" \notin Events
    OBVIOUS
  <1>1. PortsInv /\ [Next]_vars => PortsInv'
    BY NextPorts
  <1>. QED BY InitPorts, <1>1, PTL DEF Spec

LEMMA PortsOwn == PortsInv => OwnSocket
BY DEF PortsInv, ThreadInv, OwnSocket, Active, Slot, Reading

LEMMA PortsCut == PortsInv => NeverCutOff
BY DEF PortsInv, CutInv, NeverCutOff

LEMMA PortsForOne == PortsInv => SlotForOne
  <1>. SUFFICES ASSUME PortsInv PROVE SlotForOne
    OBVIOUS
  <1>. USE DEF PortsInv
  <1>1. \A k \in Sessions : St(k) = "told" =>
          acc.pc \in {"lock", "join"} /\ acc.of = k /\ acc.index = session[k].port
    BY DEF WaitInv
  <1>2. \A k \in Connected : k \in Sessions /\ Held(k)
    BY DEF HeldInv, Connected
  <1>3. \A k, l \in Sessions : Active(k) /\ Active(l) /\ Slot(k) = Slot(l) => k = l
    BY DEF ThreadInv
  <1>4. ASSUME acc.pc \in {"lock", "join", "start"}
        PROVE  \A k \in Sessions : Active(k) => Slot(k) # acc.index
    <2>1. acc.of \in Sessions /\ thread[acc.of].pc = "none" /\ sock[acc.index] \in {None, acc.of}
      BY <1>4 DEF LoopInv, Serving
    <2>. QED BY <2>1, SessionsAndSlots DEF ThreadInv, Active
  <1>5. \A k \in {j \in Sessions : St(j) = "told"} \cup Connected :
          k \in Sessions /\ Held(k)
    BY <1>1, <1>2 DEF Held
  <1>6. \A k, l \in Sessions :
          Held(k) /\ Held(l) /\ session[k].port = session[l].port => k = l
    BY <1>3, <1>4 DEF Held
  <1>. QED BY <1>5, <1>6 DEF SlotForOne

\* However clients come, leave and are cut off, a thread reads the socket of the
\* client it was created for and no other thread reads it, as long as a new
\* thread has read its index (Naming_server.c:1541) before the next is created.
THEOREM OwnSocketHolds == ASSUME "late" \notin Events PROVE Spec => []OwnSocket
  <1>. QED BY PortsStay, PortsOwn, PTL

\* The naming server closes the connection of a client only when it is gone or
\* its thread received part of a command.
THEOREM NeverCutOffHolds == ASSUME "late" \notin Events PROVE Spec => []NeverCutOff
  <1>. QED BY PortsStay, PortsCut, PTL

\* No slot is given to two clients that are there, or on their way to it.
THEOREM SlotForOneHolds == ASSUME "late" \notin Events PROVE Spec => []SlotForOne
  <1>. QED BY PortsStay, PortsForOne, PTL
=============================================================================
